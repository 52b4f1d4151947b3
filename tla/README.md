# kouta-backend in TLA+

kouta-backend stores what Finnish education providers publish in Opintopolku: koulutukset,
toteutukset, haut, hakukohteet, valintaperusteet, sorakuvaukset and oppilaitokset. This
directory models the parts of it whose correctness depends on the order in which things happen,
checks them with TLC on small instances, and proves the central safety properties with TLAPS for
instances of every size.

    tlc -config EntitySave_safety.cfg EntitySave.tla      # one run; PROJECT.json lists them all
    tlapm EntitySaveProofs.tla                            # the proofs about one module

`PROJECT.json` says for every definition which lines of the source it models.

## 1. The system

| Component | State | Operations | Interacts with |
|---|---|---|---|
| Saving an entity (`service/*Service.scala`, `repository/*DAO.scala`) | the row of the entity, its child rows, `last_modified` | get, put, update | pictures, audit log and `KoutaDatabase` inside a transaction, indexing after it |
| `KoutaDatabase` | connection pool, transactions | `runBlocking`, `runBlockingTransactionally` (serializable, 2 retries, 20 s) | PostgreSQL; every DAO |
| Pictures (`images/`) | S3: uploads under `temp/`, permanent keys | upload, copy, delete | the transaction of a save |
| Indexing (`indexing/sqsQueue.scala`, `client/KoutaIndeksoijaClient.scala`) | SQS queue, the index of kouta-indeksoija | quick index, send message | called after the commit; kouta-indeksoija calls back for the entity |
| Audit log (`auditlog/`) | a log | one entry per change | inside the transaction of a save |
| Bulk tila changes, copies | as a save | `changeTila`, `copy` | one save per entity |
| Tarjoajat of a koulutus (`ToteutusService`, `KoulutusService`) | `toteutusten_tarjoajat`, `koulutusten_tarjoajat` | saving a toteutus moves oppilaitokset of its koulutus | two entities in one transaction, decided on reads made before it |
| Archiving (`scheduler/ArkistointiTask.scala`) | tila of haut and hakukohteet, `..._arkistointi_ajettu` | nightly run, run by hand | DAOs, audit log, SQS |
| Siirtotiedostot (`SiirtotiedostoService`, ovara-kouta) | windows in `siirtotiedosto`, files in S3 | export of what changed in a window | all DAOs |
| Publishing and deleting dependencies (`*ServiceValidation`) | none of their own | checks of related entities' tila | run before the transaction of a save |
| Field validation (`validation/`) | none | predicates over an entity | the same |
| Organisaatio hierarchy and client caches | caches with an expiry, one to a client, and slices of the hierarchy cached over it | load on use, hourly task, task at start | other services |
| Sessions (`security/`, `sessionDAO`) | `sessions`, `authorities` | login by CAS ticket, logout, expiry | every request |
| Authorization (kouta-common) | none | rules over roles, organisations, koulutustyypit | every request |
| Changes since a moment (`ModificationService`) | history tables | list changed oids | kouta-indeksoija |
| Pistehistoria, keywords, YOS | small tables | save, search | saves |
| Pure helpers (`util/`, `tilaFilter`) | none | names, filters, dates | services |
| Search, HTTP, JSON, configuration, migrations, domain | none | I/O and data | everything |

A request runs in a thread of the servlet container, which blocks while Slick runs the transaction
in the pool's threads. Components share state through PostgreSQL and S3, and call each other; the
one queue is SQS. What is hard to get right here:

- **Concurrency.** People read an entity, think, and save; the optimistic lock compares
  `last_modified` with an `x-If-Unmodified-Since` that has been rounded, carried through a browser,
  or made up there. Much is read and decided before the transaction that acts on it.
- **Failure and retry.** A transaction lost to another is run again, with its side effects in S3 and
  the audit log. The caller's wait may time out while the transaction goes on and commits. A crash
  may fall between the commit and the messages about it.
- **Time.** `last_modified` is when a transaction began. Windows of exports, dates of archiving and
  an hour that local time repeats all rely on it.

What makes each component correct:

- *Saving:* no committed change disappears under another; a conflict is reported only when there is
  one; `last_modified` grows; every request is answered.
- *Pictures:* the picture a row names exists; an upload survives until it has been used.
- *Indexing:* the index catches up, or somebody has been told.
- *Audit:* every committed change has an entry.
- *Tarjoajat:* a koulutus has the oppilaitokset of its toteutukset in use; a save touches only its own.
- *Archiving:* what is due is archived in the end, nothing else is, and a haku does not leave its
  hakukohteet behind.
- *Siirtotiedostot:* every change is exported by some run.
- *Publishing dependencies:* nothing published depends on something unpublished or deleted.
- *Pool:* saves never wait for each other's connections for ever.
- *Sessions, caches:* a request never acts on a session that has ended, or on a hierarchy older than its caches
  together keep it.

## 2. The plan

1. `SavedEntity`, `EntitySave`, `EntitySaveProofs`: the save path. **Done.** Everything else rests on it.
2. `Tarjoajat`, `TarjoajatProofs`: two entities in one transaction, and `SavedEntity` for each. **Done.**
3. `Siirtotiedosto`, `SiirtotiedostoProofs`, and `SivutusProofs` about its paging. **Done.**
4. `Arkistointi`, `ArkistointiProofs`. **Done.**
5. `Riippuvuudet`, `RiippuvuudetProofs`: requests that validate outside the transaction and then
   publish or delete. **Done.** Nothing breaks for one request at a time, and something does for two, but
   each entity keeps `SavedEntity`'s promise.
6. `Yhteydet`, `YhteydetProofs`: the connection pool, and `runBlocking` inside a transaction. **Done.**
7. `Istunnot` (login, logout, expiry), `Hierarkia` (two caches, one over the other) and `Paasy`, which
   composes them, with `PaasyProofs`. **Done.**
8. Authorization rules, and pure algorithms (YOS, `TilaFilter`, `NameHelper`): **left.** They keep no
   state, and their unit tests reach what a bounded check of them would.
9. Copies, lists of bulk changes, pistehistoria and changes since a moment: **left.** Each is a loop or a
   sequence of saves that `EntitySave` has; section 6 says what of them no module shows.

`EntitySave` is the detailed module the others stand on: they take a `last_modified` as a version number
(`Tarjoajat`, `Riippuvuudet`) or a save as one step (`Arkistointi`), which its properties justify.
Theorems worth proving: the safety properties of each module by an inductive invariant, the refinement
of abstract registers by detailed modules, and lemmas about pure rules.

## 3. The modules

A definition marked *faulty* is the one after it with a plausible bug. No specification uses it;
with it in place, TLC finds a property violated, which shows that the property says something.

### EntitySave and SavedEntity

One entity under the save path, read from `KoulutusService`, the service in which every step occurs.
A *request* is an HTTP call and the person behind it: `Creator` puts the entity, an edit gets it and
then updates it, a tila change is `changeTila`, which reads the entity on the server. `pc` follows the
code: `DAO.get` (two statements under Read Committed: `GetRow`, `GetChildren`), the person
(`UploadImage`, `Send`), validation (`Validate`), `runBlockingTransactionally` (`Begin`,
`CheckNotModified`, `CopyImage` or `CopyFails`, `Write` or `WriteNothing`, `Audit`, `Commit`), and the
steps after it (`DeleteTemp`, `QuickIndex`, `Index`). Around it are `SerializationFailure` (SQLSTATE
40001, retried while the caller waits), `AwaitTimeout` (the caller leaves, the transaction goes on),
`Crash`, `Deliver` (kouta-indeksoija) and `Tick`. Contents are version numbers, a picture is the name
of the request that uploaded it, and time is in microseconds, PostgreSQL's precision, because the
rounding of the header is what the lock depends on. `HeaderTime` is `createLastModifiedHeader`;
`ViaLocalTime` is the detour through Helsinki time in `TimeUtils`.

The snapshot is serializable: an update succeeds only on the row of its snapshot, and waits while
another transaction has it locked. `Begin` takes `now()` and the snapshot in one step: BEGIN travels to
PostgreSQL together with the first statement, and nothing the code does comes between them.

`SavedEntity` is what a service promises: a register whose update succeeds only on the version its
editor read (compare and set). `EntitySave` without bulk tila changes implements it; `Tarjoajat` and
`Riippuvuudet`, in which one transaction may write two entities, implement it once for every entity, with
the versions the save goes by as what its editor has seen (`SeenBy`).

| Property | Says |
|---|---|
| `NoLostUpdate` | a committed edit replaced exactly the version its author saw, row and child rows alike |
| `NoFalseConflict` | a refusal because of another user means that there was one |
| `ImageStored`, `UploadKeptUntilSaved` | pictures survive rollbacks, retries, timeouts and crashes |
| `CommitsAudited` | every committed change has an entry, no request more entries than transactions |
| `IndexLagExplained` | an index that is behind has a message, a committer, a crash, a timeout or a warning to show for it |
| `LastModifiedGrows` | with every commit, though transactions overlap |
| `KeepsPromise` | refinement of `SavedEntity` |
| `EveryRequestAnswered`, `SavedIsIndexed` | liveness |

### Tarjoajat

How saving a toteutus changes the tarjoajat of its koulutus (`ToteutusService.put/update`,
`KoulutusService.getUpdateTarjoajatActions`). The server reads the old toteutus, the koulutus and the
other toteutukset before the transaction (`ReadToteutus`, `ReadKoulutus`, `ReadToteutukset`), computes
what to add and what it is safe to delete, and in the transaction checks the `last_modified` of the
toteutus, and that of the koulutus only if it is going to change it (`Begin`, `WriteKoulutus`,
`WriteToteutus`, `Commit`, `Fail`). `updateKoulutuksenTarjoajat` reads the old tarjoajat over another
connection, hence outside the snapshot: `WriteKoulutus` compares with what is committed at that moment.

`OthersTarjoajatStay` (a save takes away only what it gave up and adds only what it brought),
`ChangedKoulutusFits` (a save that changes the koulutus leaves it with all the oppilaitokset of its
toteutus), `AloneKeepsCovered` (a save that had the server to itself keeps every toteutus in use
covered), `EntitiesKeepPromise` (the koulutus and every toteutus are each the register of `SavedEntity`:
a retry, which reads nothing again, never writes over a newer version of either).

### Siirtotiedosto

`SiirtotiedostoApp` launches a run for the window from the end of the last successful one to now and
records its end. The service stores page after page, each a query of its own with limit and offset and
no ORDER BY, some with a GROUP BY. PostgreSQL promises two such queries no common order, so a page is
*any* rows of the window, as many as limit and offset leave, chosen anew every time (`Pages`): a row may
be on two pages of a run and another on none, though nobody saves anything. Oppilaitokset and their osat
share the room of a file, with an offset each. A run may fail, die silently or overlap the next; a save
becomes visible when its transaction commits, with the time of its beginning.

Hence an undisturbed run need not export everything, and no property says so. `CalmRunExportsAll` says
what is left: a run during which no row of its window is saved leaves out a row committed before its
launch only if it has another row on two pages (`Repeated`). With one order for all pages, which nothing in the
code asks for, it would leave out none. `NoGapBetweenWindows` (every moment before a window lies in the
window of a run that succeeded) and it together give `NothingLeftBehind`: once a window starts after a
change, the change is in the files, unless a run with the change in its window succeeded without it,
having been disturbed, having had a row on two pages, or launched before the change was committed.

### Arkistointi

The nightly task and the runs by hand. A run lists the haut whose time has come, lists their published
hakukohteet, archives the hakukohteet, archives the haut (`ListHaut`, `ListHakukohteet`,
`ArchiveHakukohteet`, `ArchiveHaut`), each in a transaction of its own; the nightly one then announces
every haku it listed (`Announce`), a run by hand announces nothing. `Stop` ends a run anywhere: an
exception is logged and forgotten, a dead process has its task executed again by the scheduler. People
save haut and hakukohteet all the while (one step each, `SaveHaku`, `SaveHakukohde`) and days pass
(`Midnight`). A published haku is listed if it has not been archived by the job before (`..._ajettu`)
and its date of archiving has come or one of its hakuajat ended ten months ago (`DateReached`, an OR in
the query); `shouldDeleteSchedulerTimestamp` makes a haku archivable again.

`RestoredStaysPublished` (what the job archived and a person published again is left alone by every run,
overlapping ones too, until the person gives it a date to come or saves it after a run listed it),
`NothingLeftPublished` (a run that archives a haku leaves published only those hakukohteet of it that
were saved after it listed them), `IndexLagIsExplained` and, for liveness, `DueIsArchived`, about what
the query finds. `ScheduledDateIsKept`, what the comment on the column says of the dates, is violated.

### Riippuvuudet

A koulutus may name a sorakuvaus, a toteutus names its koulutus and perhaps a sorakuvaus, a hakukohde its
toteutus, its haku and perhaps a valintaperuste (`names[e].parents`); a toteutus may have opintojaksot or
osaamismerkit attached to it (`names[e].liitetyt`). A save reads the entity (`Begin`), the koulutus whose
tarjoajat it may change (`ReadKoulutus`), and then what the `*ServiceValidation` classes ask for, one query
at a time in the order of the code: the tila of each thing named (`CheckParent`), before a deletion what
names the entity (`CheckChildren`), what is attached to it or what it is attached to (`CheckLiitetyt`), and
the koulutus with its new tarjoajat (`CheckTarjoajat`). The first check that fails answers the request. The
transaction (`Commit`, `RollBack`) compares the `last_modified` of the row it writes, and of the koulutus
when its tarjoajat change, and nothing else. `disturbed` remembers that another save has committed since
this one began; no code knows it.

| Property | Says |
|---|---|
| `AloneKeepsDependencies` | a save that no commit came in between of leaves no existing entity naming a deleted one |
| `AloneKeepsPublished` | nor does it publish over something unpublished, or take back what is attached to a published toteutus |
| `PoistettuIsFinal` | what is deleted stays so, whoever was saving it meanwhile |
| `MovingTarjoajatFindsKoulutus` | a toteutus that changes the tarjoajat of its koulutus finds it there, and published if need be, though others save |
| `EntitiesKeepPromise` | each entity is the register of `SavedEntity`, version 0 while it is absent, though the save of a toteutus may write its koulutus as well |

The first two are all that the checks can promise without locks on what they read: `riippuvuudet_race`
shows two saves that break the first together.

### Yhteydet

Slick's executor as `KoutaDatabase` sets it up: a bounded queue, and as many threads as connections. An
item starts only while fewer connections are in use than there are (`TakeConnection`), in the order of the
queue; a full queue refuses (`Enqueue`). A transaction that updates tarjoajat or valintakokeet asks for a
query outside itself (`AskInner`) while it keeps its own connection, and goes on when that is done
(`InnerDone`). The caller of a transaction waits 26 seconds (`CallerTimeout`), a transaction waits ten
minutes for its query (`InnerTimeout`), and whatever nobody waits for any more is executed all the same.
`NotSerializable` puts the transaction at the end of the queue again, if its caller still waits.

`StuckOnlyWhenNested`: transactions can wait for each other only if as many of them ask for a second
connection as there are connections. `EveryTransactionEnds` and `LeftoversGo`: even then each ends, and
gives back its connection and those of its queries; what ends it is the Await of ten minutes.

### Istunnot, Hierarkia, Paasy

`Istunnot` is a session from its ticket to its deletion: `Login` (CAS validates the ticket and tells the
rights), `Store` or `StoreFails` (the transaction of `SessionDAO.store`, which goes on when the login
has given up), `LoggedIn` or `LoginTimeout`, `Logout` (CAS posts a ticket, in any order with the rest),
`Cleanup` (pg_cron). `Hierarkia` is the hierarchy of organisations in two caches: the whole of it, kept
two hours by the client of `OrganisaatioServiceImpl`, and what `OrganisaatioService` cuts from it for
one organisation, a slice, kept 45 minutes from the cutting. Rights go by the slices (`ReadHierarchy`),
and only a slice that is missing asks for the whole (`Found`); what looks through the whole tree asks
for it directly (`ReadWhole`). Neither module has a specification of its own. `Paasy` composes them with
the requests of browsers, which read the session once at their start (`Authenticate`) and the hierarchy
later, for one organisation of their rights after another (`Authorise`, or `AuthoriseRoot`, which needs
none), while time passes for all (`Tick`) and the server restarts (`Restart`: the database keeps the
sessions, the caches go). Sessions and caches are modelled as ages; a slice has two, its own and that of
what it shows.

`RightsAreRecent` (a request begins with rights that CAS told at most a session's hour and a login's wait
ago), `HierarchyIsRecent` (it is authorised by a hierarchy younger than the times of the two caches
together, two hours and three quarters: not two hours, as either cache by itself would suggest),
`LoggedOutStaysOut` (a session that a logout deleted authenticates nothing, even if its cookie comes
after), `SessionsGo` (every stored session is deleted in the end, also one nobody knows of).

## 4. The runs

| Run | Instance | Result |
|---|---|---|
| `save_safety` | a creator, two edits (one with a picture, one through the external interface), one retry, one crash, transactions of 1.001 ms | all nine properties hold |
| `save_liveness` | a creator, an edit with a picture through the external interface, a bulk tila change, no retries, a clock that pauses and repeats a stretch of local time | both hold |
| `save_tilachange` | an edit and a bulk tila change | **violated**: `NoLostUpdateByTilaChange` |
| `tarjoajat_safety` | a put, an update and an edit of the koulutus at once; two toteutukset, two toimipisteet of one oppilaitos and one of another | all five hold |
| `siirto_safety` | two runs that fail, die or overlap, one save, three entities, three osat and oppilaitokset, two rows to a page | all four hold |
| `siirto_paging` | a save between two pages | **violated**: `EveryChangeExported` |
| `arkisto_safety` | the nightly run and one by hand, two haut, two hakukohteet of one of them, one save, one failure | all five hold |
| `arkisto_date` | one haku, the nightly run, nobody saving | **violated**: `ScheduledDateIsKept` |
| `riippuvuudet_safety` | three saves, two at a time, over a koulutus, a toteutus, an opintojakso, a hakukohde, a haku and a sorakuvaus, from four databases | all six hold |
| `riippuvuudet_race` | the same | **violated**: `NoOrphans` |
| `yhteydet_pool` | three transactions, asking for two, one and no queries, over two connections and a queue of two, one retry | all four hold |
| `paasy_safety` | two browsers, two tickets, the rights of one organisation | all five hold |

The violated properties are what a comment, a doc or a test says; `findings` in `PROJECT.json` quotes it.
In short:

- *Bulk tila changes* write back the whole entity they read under a timestamp made up by the client, and
  can undo an edit committed in between.
- *Paging.* A row saved between two pages shifts the offset past a row that has not been stored, also
  when no page repeats a row. Without any save, pages in different orders can skip one as well.
- *Archiving ahead of schedule.* The ten months after a hakuaika count even when a later date is set,
  though the comment on the column keeps them for a haku without a date.
- *Deleting what is being named.* A deletion finds nothing attached, a put finds the entity there, and
  both commit.

Five more came up while modelling. No property claims the opposite; the first four are in the models as
the code has them:

- *Local time.* An entity saved in the hour that autumn repeats is read back with a `last_modified` one
  hour early, and every edit made from it is refused (`ViaLocalTime`; `NoFalseConflict` is checked and
  proved for days without such an hour).
- *Await.* A transaction that commits after its caller stopped waiting is announced to nobody
  (`AwaitTimeout`; `IndexLagExplained` lists it).
- *Tarjoajat in use.* A save that leaves the koulutus as it is does not check the koulutus: another may
  take away an oppilaitos this one is about to use (`AloneKeepsCovered` holds for saves left alone).
- *Deleting a toteutus* whose oppilaitos the koulutus has lost gives it back to the koulutus.
- *The scheduled update of the hierarchy* fills a cache of its own: the task makes a client of its own,
  and every client has its own cache. No request reads it, so the task is in no module (the log line
  about an update of the cache that succeeded is true of the task's cache only).

### Bounds, and why they are enough

The optimistic lock is a matter of three: the one whose version is read, the one who overtakes, and the
one who must notice. One retry is enough for an attempt to run again over side effects of the last, one
crash for each point at which a request can be cut. `save_safety` makes transactions last 1.001 ms with
no pauses, the tightest timing for the header's rounding; longer ones only add slack. In `save_liveness`
the pause of 0.4 ms and the repeated stretch of 1 ms let a change fall before the stretch, into it or
after it. `Tarjoajat` needs two toteutukset that share an oppilaitos, two saves that can cross and an
edit of the koulutus itself. `Siirtotiedosto` has more rows than a page holds in both kinds of table,
and moments enough for a second window that begins before the first one's end, because ends are stored
to the second. `Arkistointi` distinguishes today, tomorrow and never; one person, one failure and an
overlapping run are the least with which each pair of steps can interleave. `Riippuvuudet` needs two
saves at once and a third for what came before; its databases have the hakukohde absent, unpublished and
archived over published and unpublished toteutukset, and its toteutus either names the sorakuvaus or has
an opintojakso attached. In `Yhteydet` two transactions that nest are as many as there are connections,
the third waits behind them, and the queue is shorter than what may want to be in it. `Paasy` measures
sessions in hours: a session counts for one, and deletion after two stands for the two days of the code,
which only need to be longer than the hour; the wait of a login, a minute in the code, is an hour, so
that a login and a session can be late by a step each. The two caches of the hierarchy are counted in
steps of about 40 minutes, three for the whole and two for a slice, so that a slice may be cut from the
whole at any age of it and used at any age of its own; nothing relates the hierarchy's steps to the
sessions'. Ages stop counting where no guard tells them apart.
`MaxNow`, `MaxCrashes`, `MaxSaves`, `MaxRuns`, `MaxDay`, `MaxEdits`, `MaxStops` and `Retries` are the only
bounds on behaviour; `Choices`, `Bodies`, `Initial`, `Scheduled`, `Ended`, `ClientLags` and `TickSizes`
bound inputs. `QueueSize` is the program's own.

Deadlock is not checked where the bounded system stops (all requests answered, all runs done); it is in
`arkisto_safety` and `paasy_safety`, where time goes on. That transactions do not wait for each other is
an invariant of `Yhteydet` instead (`StuckOnlyWhenNested`).

### Fairness

- `EntitySave`: weak fairness of what the server does for each request (threads are scheduled, statements
  return), of PostgreSQL telling a transaction that it lost its row, and of kouta-indeksoija reading its
  queue. Nothing is asked of people, retries, timeouts or crashes.
- `Arkistointi`: nights come, the scheduler executes a task that is due, and a run goes on until it stops.
  Runs by hand owe nothing.
- `Yhteydet`: weak fairness of the executor, of a transaction's own steps, of a query's end, and of both
  Awaits running out. Nothing is asked of requests coming in or of failures to serialize.
- `Paasy`: time passes, a login's Await ends one way or the other, and pg_cron runs its job. Nothing is
  asked of people, CAS or the storing transaction.
- `Tarjoajat`, `Siirtotiedosto` and `Riippuvuudet` have safety properties only.

## 5. The proofs

All are for arbitrary sets of requests, runs, rows, entities, transactions, browsers and tickets.

**EntitySaveProofs.** `TypeCorrect`; `LastModifiedIsMonotonic`; `OptimisticLock` (`NoLostUpdate`);
`ConflictsAreReal` (`NoFalseConflict`); `ImagesStored`; `UploadsKept`; `ChangesAudited`;
`IndexLagIsExplained`; `Refinement` (`KeepsPromise`). `NoLostUpdate` alone is not inductive: that an edit
commits onto what it read follows from *an accepted token is not older than the snapshot's
`last_modified`*, *a snapshot that is still current has the committed `last_modified`*, and *versions
newer than what was read have a `last_modified` beyond the header's rounding*. The last needs that a
changing transaction lasts longer than one millisecond (`MinTx > 1000`), the assumption on which the
header's "plus one millisecond" rests; `LastModifiedIsMonotonic` needs only that it takes some time.
`ConflictsAreReal` needs that local time repeats no stretch (`FoldLength = 0`): in the hour that autumn
repeats the header may name a time an hour before the one that was read.
`Refinement` needs that there are no bulk tila changes: `save_tilachange` shows why.
Three more say what people are told and who is behind a version, whatever is retried, cut or overtaken:
`AnswersAreTrue` (success means a committed version, a refusal none, and an error hides a commit only
after the caller's Await), `VersionsHaveAuthors` (each version was committed by exactly one request, by
`AuthorStep`) and `IndexOnlyAdvances` (messages in any order never take the index back).

**TarjoajatProofs.** `TypeCorrect`; `OnlyOwnTarjoajatMove` (`OthersTarjoajatStay`); `ChangeFits`
(`ChangedKoulutusFits`); `AloneCovers` (`AloneKeepsCovered`). The invariant says what a request holds
between its reads and its commit (`BodyInv`), that what it read of the koulutus is still there if its
version is, and that what it has written fits (`SaveInv`), and that a transaction holding the row of the
koulutus has the current version of it and nobody else has (`LockInv`). `AloneCovers` adds `AloneInv`:
as long as nothing has been committed since a save's first read, what it read of the koulutus is what is
committed, what it is going to take away is needed neither by its own toteutus nor by another in use,
and what it has written will make of the koulutus what was decided. `PromisesKept`
(`EntitiesKeepPromise`) and `RowsImplementSavedEntity` are the refinement. Its invariant `RowInv`: a row
that is absent, and only that, has version 0, the row of a toteutus has one holder, and a transaction
that has written it goes by the version that is stored (`RowFits`). Each step is then, for the koulutus
and for each toteutus by itself, a read, a leave, a save or a stutter of `SavedEntity`
(`RegistersStep`). `CoveredOneAtATime` puts `AloneCovers` together over a whole behaviour: if no save
commits after another has since it read (`OneAtATime`), and edits of the koulutus itself take away
nothing in use (`EditsKeepCovered`), every toteutus in use stays covered. So overlap is all that can
uncover one.

**SiirtotiedostoProofs.** `TypeCorrect`; `WindowsLeaveNoGap` (`NoGapBetweenWindows`), which is
inductive once it is known that a run without a row has no outcome (`RowInv`).

**SivutusProofs.** `CalmRunsExportAll` (`CalmRunExportsAll`), for any number of rows, any page size and
whatever rows each page happens to take. The invariant (`CInv`): until somebody disturbs it, what a run
has stored is due, and in the version that was due (`StoredInv`), and of a table it asks for no more it
has stored all that is due and was committed before its launch, unless its counter counts some row twice
(`FullInv`). A table is left when a page leaves room, that is, when the counter has reached the number of
rows due. If the counter also is the number of rows stored, those are as many as are due and all of them
due, hence all that are (`AllHeld`); the order of the pages plays no part. A row that comes into the window
late only makes the count of the due rows larger; one that leaves it has disturbed the run.
`ChangesAccountedFor` (`NothingLeftBehind`) joins this to `WindowsLeaveNoGap`, from change to file.

**ArkistointiProofs.** `TypeCorrect`; `LagExplained`; `RestoredStays`
(`RestoredStaysPublished`); `LeavesNothingPublished`. The
invariant: until its run archives them, a listed haku that is published and that nobody has saved is still
archivable (`Listed`), and a published hakukohde of a listed haku is on the run's list or was saved since
(`Left`).

**RiippuvuudetProofs.** `TypeCorrect`; `DependenciesKept` (`AloneKeepsDependencies`); `PublishedKept`
(`AloneKeepsPublished`); `DeletedForGood` (`PoistettuIsFinal`); `KoulutusFound`
(`MovingTarjoajatFindsKoulutus`). The properties speak of one commit and are not inductive; what is: an
entity whose version is still the save's token has not been deleted (`Held`), the koulutus a save moves
tarjoajat of is as it was found or has a newer version (`KoulutusHeld`), what an undisturbed save has
checked still holds (`Alone`), no two saves put the same entity (`Reserved`), and whatever is named was
once put and has a version above 0 (`DbInv`).
`PromisesKept` (`EntitiesKeepPromise`) and `EachImplementsSavedEntity` are the refinement, entity by entity;
`Unread` adds that a save which has not read the koulutus yet goes by no version of it. `NoOrphansOneAtATime`
and `AttachedOneAtATime` say of whole behaviours what `DependenciesKept` and `PublishedKept` say of a
commit: if no save commits that another commit came in between of (`OneAtATime`), the violation of
`riippuvuudet_race` cannot occur, and what is attached to a published toteutus stays published.

**YhteydetProofs.** `TypeCorrect` (with the count of connections, over any finite set of transactions);
`NoDeadlockBelowLimit` (`StuckOnlyWhenNested`). The invariant: what waits for a connection is in the queue
or has one (`Queued`), and only a transaction with queries inside it asks for them (`Asks`). If nothing can
go on, every connection belongs to a transaction that asks for another, which are too few.

**PaasyProofs.** `TypeCorrect`; `RightsRecent`; `HierarchyRecent`; `LoggedOutStays`. The invariant: the
rights of a stored session that a browser knows, or that a login waits for, are older than the session
by no more than a login's wait (`Near`, `LoginKnown`, `CookieKnown`), a ticket not used yet has none
(`Fresh`), and a session deleted by a logout is gone (`EndedIsGone`). What a slice in its cache shows is
older than the slice by less than the whole's time (`Recent`): both grow old together, a slice that is
cut starts with the age of a whole that counts, and one that is read stays as it is.

The assumptions are the modules' named `ASSUME`s (disjointness of kinds of requests, types of the
constants) and those said above. TLC evaluates the `ASSUME`s in the passing runs.

Only model-checked: the liveness properties (`EveryRequestAnswered`, `SavedIsIndexed`, `DueIsArchived`,
`EveryTransactionEnds`, `LeftoversGo`, `SessionsGo`), which are out of TLAPS' reach. Only refuted by TLC,
and no theorem, are the properties of the four runs that are violated. The modules use no RECURSIVE
operator and need no induction over data. TLC does not take `\A e : Promise(e)!Spec` as a property, so
`EntitiesKeepPromise` is what it comes to: the initial state of each register and, for each step and each
register, a stutter or one of its steps; `EachImplementsSavedEntity` and `RowsImplementSavedEntity` prove
the formula itself. The three theorems about saves one at a time and `AnswersAreTrue`,
`VersionsHaveAuthors` and `IndexOnlyAdvances` are about formulas no run of `PROJECT.json` checks.

## 6. What is not modelled

- Fields of entities, JSON, formats, wording and layout, search and HTTP routing: data and I/O.
- Field validation: several thousand lines of predicates without state. Of them `validStateChanges` is
  modelled, in `Tarjoajat` and `Arkistointi`. `validateArkistointiPaivamaara` is called by nothing in the
  main sources, so `SaveHaku` does not demand what it says.
- kouta-indeksoija, S3, SQS, PostgreSQL and the clients' browsers are modelled by how this code uses them.
- In `EntitySave`: relations between entities, luokittelutermit, the ohjausparametrit of a haku, and the
  child rows beyond their version.
- In `Tarjoajat`: koulutukset of avoin korkeakoulutus, which toteutukset leave alone; authorization, of
  which only a refusal is left.
- In `Siirtotiedosto`: the contents of files, and the tables exported by the same paging as the one modelled.
- In `Arkistointi`: audit entries and log lines, and deleted entities.
- In `Riippuvuudet`: checks of fields and of rights, which refuse and change nothing. A deleted sorakuvaus
  may stay named by a toteutus, because `SorakuvausServiceValidation` asks for koulutukset only; `Children`
  says so and `Orphaned` leaves such pairs out. `Bodies` are what a save may name, not how the names are typed.
- In `Yhteydet`: what is read and written, the scheduler's pool, and Hikari's own wait for a connection.
  The comment in `KoutaDatabase` that the pool gives up before the Await does is about Hikari; an item in
  Slick's queue has not asked Hikari yet, and only the Await of its caller ends its wait.
- In `Paasy`: one server. Two would each have their caches and share the sessions. The rules by which rights
  and hierarchy allow a request (kouta-common) are left out. A logout that comes between CAS's validation
  and the storing of the session deletes nothing (`missed`), and the session ends by its hour.
- The caches of the other clients (koodisto, osoitteet, lokalisointi, käyttöoikeusryhmät): as the cache
  of the whole hierarchy. The scheduled update of the hierarchy: nothing reads what it loads.
- Copies. `copy` puts the toteutus of a hakukohde in a transaction of its own before the hakukohde; when the
  second fails, the first stays and the answer names neither. Each half is a save as `EntitySave` has it.
- Lists of bulk tila changes: a loop over independent saves, whose result says which of them succeeded.
- History tables and the changes since a moment: they compare the time a transaction began with the time of
  a question, as the windows of `Siirtotiedosto` do, with the same consequence.
- Pistehistoria, whose batch is saved without a transaction and saved anew whenever it is asked for; the
  ohjausparametrit of a haku, posted to another service inside the transaction; keywords; YOS.
- The JavaScript in the repository is the vendored, minified Swagger UI under `resources/webapp/swagger`:
  third-party code that renders the API's documentation, and no part of kouta-backend's logic.
