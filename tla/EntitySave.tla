----------------------------- MODULE EntitySave ------------------------------
(***************************************************************************)
(* The life of one entity under the save path shared by the services of    *)
(* kouta-backend, read from KoulutusService (the one with every step: an   *)
(* optimistic lock, a picture copied inside the transaction, an audit      *)
(* entry, quick indexing and the SQS message).                             *)
(*                                                                         *)
(* One request is one HTTP call together with the person behind it: the    *)
(* Creator puts the entity, an edit is a GET followed by an update, and a  *)
(* tila change is the bulk operation that reads the entity on the server   *)
(* but takes its x-If-Unmodified-Since from the client's own clock.        *)
(*                                                                         *)
(* Versions stand for contents: every committed change stores a new one.   *)
(* Time is in microseconds, the precision of PostgreSQL's timestamptz.     *)
(*                                                                         *)
(* A definition marked "faulty" is the one below it with a plausible bug;  *)
(* no specification uses it.  It shows that a property can be violated.    *)
(***************************************************************************)
EXTENDS Naturals, FiniteSets

CONSTANTS
    Creator,            \* the request that puts the entity
    Edits,              \* requests that GET the entity and then update it
    TilaChanges,        \* requests of the bulk tila change
    WithImage,          \* requests whose body names a freshly uploaded picture
    External,           \* requests that come through the external interface
    NoImage,            \* teemakuva of an entity without one
    Retries,            \* how often a serialization violation is retried
    MinTx,              \* least duration of a transaction that changes the row
    FoldStart,          \* when the clocks have just been turned back ...
    FoldLength,         \* ... by this much, which local time then repeats
    ClientLags,         \* how far behind "now" a client's own timestamp may be
    TickSizes,          \* lengths of the pauses the clock may make
    MaxNow,             \* bound: no pause ends after MaxNow
    MaxCrashes          \* bound: crashes of the server

Requests == {Creator} \cup Edits \cup TilaChanges

ASSUME RequestsAssumption ==
    /\ Creator \notin Edits \cup TilaChanges
    /\ Edits \cap TilaChanges = {}
    /\ WithImage \subseteq {Creator} \cup Edits
    /\ External \subseteq Requests
    /\ NoImage \notin Requests

ASSUME BoundsAssumption ==
    /\ Retries \in Nat /\ MaxNow \in Nat /\ MaxCrashes \in Nat
    /\ MinTx \in Nat
    /\ FoldStart \in Nat /\ FoldLength \in 0..FoldStart
    /\ ClientLags \subseteq Nat
    /\ TickSizes \subseteq Nat

VARIABLES
    now,                \* the clock of the database
    version,            \* committed version of the entity, 0 while absent
    lastModified,       \* its last_modified column
    teemakuva,          \* its committed picture
    pc,                 \* how far each request has come
    seenRow,            \* version of the row the request's body was made from
    seenChildren,       \* version of the child rows (tarjoajat) in that body
    seenImage,          \* picture in that body
    token,              \* the request's x-If-Unmodified-Since
    attempt,            \* transactions begun for the request
    stamp,              \* now() of its transaction
    snapshot,           \* version its transaction sees
    snapshotModified,   \* last_modified its transaction sees
    changed,            \* whether its transaction changes a row
    caller,             \* whether its thread still waits for the transaction
    wrote,              \* version the request committed, 0 for none
    audits,             \* audit entries written for the request
    warned,             \* whether the answer carries an indexing warning
    temp,               \* uploaded pictures under temp/
    stored,             \* pictures copied to their permanent key
    queue,              \* messages waiting for kouta-indeksoija
    indexed,            \* version kouta-indeksoija has
    crashes

dbVars    == <<version, lastModified, teemakuva, wrote>>
bodyVars  == <<seenRow, seenChildren, seenImage, token>>
txVars    == <<attempt, stamp, snapshot, snapshotModified, changed>>
imageVars == <<temp, stored>>
indexVars == <<queue, indexed, warned>>
vars == <<now, crashes, pc, caller, audits,
          dbVars, bodyVars, txVars, imageVars, indexVars>>

Waiting == "waiting"
Gone    == "gone"

BeforeSend == {"idle", "rowRead", "editing"}
InTx       == {"begun", "checked", "copied", "written", "audited"}
AfterTx    == {"committed", "tempDeleted", "quickIndexed"}
Answered   == {"updated", "unchanged", "rejected", "conflict", "failed", "crashed"}
Stages     == BeforeSend \cup {"tilaSent", "sent", "validated"}
                \cup InTx \cup AfterTx \cup Answered

(* A request the server is working on. *)
OnServer(r) == \/ pc[r] \in {"tilaSent", "sent", "validated"} \cup InTx \cup AfterTx
               \/ pc[r] = "rowRead" /\ r \in TilaChanges

(* last_modified is kept as the wall clock time of Helsinki: the hour that    *)
(* autumn repeats is read back as its first pass.                           *)
ViaLocalTime(t) == IF FoldStart <= t /\ t < FoldStart + FoldLength THEN t - FoldLength ELSE t

HeaderTime_Truncated(t) == (ViaLocalTime(t) \div 1000) * 1000           \* faulty
HeaderTime_TwoMillis(t) == (ViaLocalTime(t) \div 1000) * 1000 + 2000    \* faulty
(* x-Last-Modified: truncated to milliseconds, plus one millisecond. *)
HeaderTime(t) == (ViaLocalTime(t) \div 1000) * 1000 + 1000

Init ==
    /\ now = 0 /\ crashes = 0
    /\ version = 0 /\ lastModified = 0 /\ teemakuva = NoImage
    /\ pc = [r \in Requests |-> "idle"]
    /\ seenRow = [r \in Requests |-> 0]
    /\ seenChildren = [r \in Requests |-> 0]
    /\ seenImage = [r \in Requests |-> NoImage]
    /\ token = [r \in Requests |-> 0]
    /\ attempt = [r \in Requests |-> 0]
    /\ stamp = [r \in Requests |-> 0]
    /\ snapshot = [r \in Requests |-> 0]
    /\ snapshotModified = [r \in Requests |-> 0]
    /\ changed = [r \in Requests |-> FALSE]
    /\ caller = [r \in Requests |-> Waiting]
    /\ wrote = [r \in Requests |-> 0]
    /\ audits = [r \in Requests |-> 0]
    /\ warned = [r \in Requests |-> FALSE]
    /\ temp = {} /\ stored = {}
    /\ queue = {} /\ indexed = 0

Goto(r, stage) == pc' = [pc EXCEPT ![r] = stage]

-----------------------------------------------------------------------------
(* Reading the entity and sending a request                                *)

(* The first statement of DAO.get: the row, under Read Committed. *)
GetRow(r) ==
    /\ \/ r \in Edits /\ pc[r] = "idle"
       \/ r \in TilaChanges /\ pc[r] = "tilaSent"
    /\ version > 0
    /\ seenRow' = [seenRow EXCEPT ![r] = version]
    /\ seenImage' = [seenImage EXCEPT ![r] = teemakuva]
    /\ token' = IF r \in Edits
                THEN [token EXCEPT ![r] = HeaderTime(lastModified)]
                ELSE token
    /\ Goto(r, "rowRead")
    /\ UNCHANGED <<now, crashes, caller, audits, seenChildren>>
    /\ UNCHANGED <<dbVars, txVars, imageVars, indexVars>>

GetChildren_FreshToken(r) ==                                     \* faulty
    /\ pc[r] = "rowRead"
    /\ seenChildren' = [seenChildren EXCEPT ![r] = version]
    /\ token' = IF r \in Edits
                THEN [token EXCEPT ![r] = HeaderTime(lastModified)]
                ELSE token
    /\ Goto(r, IF r \in Edits THEN "editing" ELSE "sent")
    /\ UNCHANGED <<now, crashes, caller, audits, seenRow, seenImage>>
    /\ UNCHANGED <<dbVars, txVars, imageVars, indexVars>>

(* The second statement of DAO.get sees what is committed by then. *)
GetChildren(r) ==
    /\ pc[r] = "rowRead"
    /\ seenChildren' = [seenChildren EXCEPT ![r] = version]
    /\ Goto(r, IF r \in Edits THEN "editing" ELSE "sent")
    /\ UNCHANGED <<now, crashes, caller, audits, seenRow, seenImage, token>>
    /\ UNCHANGED <<dbVars, txVars, imageVars, indexVars>>

(* The stage in which the person composes the body. *)
Composing(r) == \/ r \in Edits /\ pc[r] = "editing"
                \/ r = Creator /\ pc[r] = "idle"

UploadImage(r) ==
    /\ r \in WithImage \ temp
    /\ Composing(r)
    /\ temp' = temp \cup {r}
    /\ UNCHANGED <<now, crashes, pc, caller, audits, stored>>
    /\ UNCHANGED <<dbVars, bodyVars, txVars, indexVars>>

Send(r) ==
    /\ Composing(r)
    /\ r \in WithImage => r \in temp
    /\ Goto(r, "sent")
    /\ UNCHANGED <<now, crashes, caller, audits>>
    /\ UNCHANGED <<dbVars, bodyVars, txVars, imageVars, indexVars>>

(* A bulk tila change: the header is the client's own clock. *)
SendTilaChange(r) ==
    /\ r \in TilaChanges
    /\ pc[r] = "idle"
    /\ version > 0
    /\ \E lag \in ClientLags : lag <= now /\ token' = [token EXCEPT ![r] = now - lag]
    /\ Goto(r, "tilaSent")
    /\ UNCHANGED <<now, crashes, caller, audits, seenRow, seenChildren, seenImage>>
    /\ UNCHANGED <<dbVars, txVars, imageVars, indexVars>>

-----------------------------------------------------------------------------
(* On the server, before the transaction                                   *)

(* Authorization and validation run outside the transaction. *)
Validate(r) ==
    /\ pc[r] = "sent"
    /\ Goto(r, "validated") \/ Goto(r, "rejected")
    /\ UNCHANGED <<now, crashes, caller, audits>>
    /\ UNCHANGED <<dbVars, bodyVars, txVars, imageVars, indexVars>>

-----------------------------------------------------------------------------
(* The transaction                                                         *)

(* BEGIN reaches PostgreSQL together with the first statement: now() and the *)
(* snapshot are taken at one moment.                                        *)
Begin(r) ==
    /\ pc[r] = "validated"
    /\ attempt' = [attempt EXCEPT ![r] = @ + 1]
    /\ stamp' = [stamp EXCEPT ![r] = now]
    /\ snapshot' = [snapshot EXCEPT ![r] = version]
    /\ snapshotModified' = [snapshotModified EXCEPT ![r] = lastModified]
    /\ changed' = [changed EXCEPT ![r] = FALSE]
    /\ Goto(r, "begun")
    /\ UNCHANGED <<now, crashes, caller, audits>>
    /\ UNCHANGED <<dbVars, bodyVars, imageVars, indexVars>>

(* How a request ends when its transaction does not commit: once the caller *)
(* has given up, the answer has been 500 already.                           *)
Refused(r, answer) == Goto(r, IF caller[r] = Gone THEN "failed" ELSE answer)

CheckNotModified_Once(r) ==                                      \* faulty
    /\ pc[r] = "begun"
    /\ IF r # Creator /\ attempt[r] = 1 /\ snapshotModified[r] > token[r]
       THEN Refused(r, "conflict")
       ELSE Goto(r, "checked")
    /\ UNCHANGED <<now, crashes, caller, audits>>
    /\ UNCHANGED <<dbVars, bodyVars, txVars, imageVars, indexVars>>

(* A put has no version to compare with. *)
CheckNotModified(r) ==
    /\ pc[r] = "begun"
    /\ IF r # Creator /\ snapshotModified[r] > token[r]
       THEN Refused(r, "conflict")
       ELSE Goto(r, "checked")
    /\ UNCHANGED <<now, crashes, caller, audits>>
    /\ UNCHANGED <<dbVars, bodyVars, txVars, imageVars, indexVars>>

CopyImage_Moves(r) ==                                            \* faulty
    /\ pc[r] = "checked"
    /\ r \in WithImage => r \in temp
    /\ stored' = stored \cup ({r} \cap WithImage)
    /\ temp' = temp \ {r}
    /\ Goto(r, "copied")
    /\ UNCHANGED <<now, crashes, caller, audits>>
    /\ UNCHANGED <<dbVars, bodyVars, txVars, indexVars>>

CopyImage(r) ==
    /\ pc[r] = "checked"
    /\ r \in WithImage => r \in temp
    /\ stored' = stored \cup ({r} \cap WithImage)
    /\ Goto(r, "copied")
    /\ UNCHANGED <<now, crashes, caller, audits, temp>>
    /\ UNCHANGED <<dbVars, bodyVars, txVars, indexVars>>

CopyFails_Dropped(r) ==                                          \* faulty
    /\ pc[r] = "checked"
    /\ r \in WithImage
    /\ Goto(r, "copied")
    /\ UNCHANGED <<now, crashes, caller, audits>>
    /\ UNCHANGED <<dbVars, bodyVars, txVars, imageVars, indexVars>>

CopyFails(r) ==
    /\ pc[r] = "checked"
    /\ r \in WithImage
    /\ Goto(r, "failed")
    /\ UNCHANGED <<now, crashes, caller, audits>>
    /\ UNCHANGED <<dbVars, bodyVars, txVars, imageVars, indexVars>>

Locking_Leaks(r) == changed[r]                                   \* faulty

(* Holders of the lock PostgreSQL puts on an updated row. *)
Locking(r) == changed[r] /\ pc[r] \in {"written", "audited"}

Write_ReadCommitted(r) ==                                        \* faulty
    /\ pc[r] = "copied"
    /\ \A q \in Requests : ~Locking(q)
    /\ changed' = [changed EXCEPT ![r] = TRUE]
    /\ Goto(r, "written")
    /\ UNCHANGED <<now, crashes, caller, audits, attempt, stamp, snapshot, snapshotModified>>
    /\ UNCHANGED <<dbVars, bodyVars, imageVars, indexVars>>

(* The update finds the row of its snapshot unchanged and not locked. *)
Write(r) ==
    /\ pc[r] = "copied"
    /\ snapshot[r] = version
    /\ \A q \in Requests : ~Locking(q)
    /\ changed' = [changed EXCEPT ![r] = TRUE]
    /\ Goto(r, "written")
    /\ UNCHANGED <<now, crashes, caller, audits, attempt, stamp, snapshot, snapshotModified>>
    /\ UNCHANGED <<dbVars, bodyVars, imageVars, indexVars>>

(* "is distinct from" finds nothing to update and no child row differs. *)
WriteNothing(r) ==
    /\ pc[r] = "copied"
    /\ r \notin WithImage \cup {Creator}
    /\ seenRow[r] = snapshot[r] /\ seenChildren[r] = snapshot[r]
    /\ Goto(r, "audited")
    /\ UNCHANGED <<now, crashes, caller, audits>>
    /\ UNCHANGED <<dbVars, bodyVars, txVars, imageVars, indexVars>>

Audit_NotExternal(r) ==                                         \* faulty
    /\ pc[r] = "written"
    /\ audits' = IF r \in External THEN audits ELSE [audits EXCEPT ![r] = @ + 1]
    /\ Goto(r, "audited")
    /\ UNCHANGED <<now, crashes, caller>>
    /\ UNCHANGED <<dbVars, bodyVars, txVars, imageVars, indexVars>>

Audit(r) ==
    /\ pc[r] = "written"
    /\ audits' = [audits EXCEPT ![r] = @ + 1]
    /\ Goto(r, "audited")
    /\ UNCHANGED <<now, crashes, caller>>
    /\ UNCHANGED <<dbVars, bodyVars, txVars, imageVars, indexVars>>

ImageAfter(r) == IF r \in WithImage THEN r ELSE seenImage[r]

(* A committed change carries the now() of its transaction; the caller, if  *)
(* it still waits, goes on to the steps after the transaction.              *)
Commit(r) ==
    /\ pc[r] = "audited"
    /\ IF changed[r]
       THEN /\ version' = version + 1
            /\ lastModified' = stamp[r]
            /\ teemakuva' = ImageAfter(r)
            /\ wrote' = [wrote EXCEPT ![r] = version + 1]
            /\ now' = IF now >= stamp[r] + MinTx THEN now ELSE stamp[r] + MinTx
       ELSE UNCHANGED <<dbVars, now>>
    /\ Refused(r, "committed")
    /\ UNCHANGED <<crashes, caller, audits>>
    /\ UNCHANGED <<bodyVars, txVars, imageVars, indexVars>>

SerializationFailure_OneMore(r) ==                               \* faulty
    /\ pc[r] \in InTx
    /\ Goto(r, IF caller[r] = Waiting /\ attempt[r] <= Retries + 1
               THEN "validated" ELSE "failed")
    /\ changed' = [changed EXCEPT ![r] = FALSE]
    /\ UNCHANGED <<now, crashes, caller, audits, attempt, stamp, snapshot, snapshotModified>>
    /\ UNCHANGED <<dbVars, bodyVars, imageVars, indexVars>>

(* SQLSTATE 40001: only a caller that still waits runs the operations again. *)
SerializationFailure(r) ==
    /\ pc[r] \in InTx
    /\ Goto(r, IF caller[r] = Waiting /\ attempt[r] <= Retries
               THEN "validated" ELSE "failed")
    /\ changed' = [changed EXCEPT ![r] = FALSE]
    /\ UNCHANGED <<now, crashes, caller, audits, attempt, stamp, snapshot, snapshotModified>>
    /\ UNCHANGED <<dbVars, bodyVars, imageVars, indexVars>>

(* Await.result gives up; the transaction goes on in the executor's thread. *)
AwaitTimeout(r) ==
    /\ pc[r] \in InTx
    /\ caller[r] = Waiting
    /\ caller' = [caller EXCEPT ![r] = Gone]
    /\ UNCHANGED <<now, crashes, pc, audits>>
    /\ UNCHANGED <<dbVars, bodyVars, txVars, imageVars, indexVars>>

-----------------------------------------------------------------------------
(* After the transaction                                                   *)

(* Deleting the picture under temp/ may fail; the failure is dropped. *)
DeleteTemp(r) ==
    /\ pc[r] = "committed"
    /\ temp' = temp \ ({r} \cap WithImage) \/ temp' = temp
    /\ Goto(r, "tempDeleted")
    /\ UNCHANGED <<now, crashes, caller, audits, stored>>
    /\ UNCHANGED <<dbVars, bodyVars, txVars, indexVars>>

(* The call may fail or time out, and may have reached the index even so. *)
QuickIndex(r) ==
    /\ pc[r] = "tempDeleted"
    /\ \/ /\ r \in External \/ ~changed[r]
          /\ UNCHANGED <<indexed, warned>>
       \/ /\ r \notin External /\ changed[r]
          /\ indexed' = version
          /\ UNCHANGED warned
       \/ /\ r \notin External /\ changed[r]
          /\ indexed' \in {indexed, version}
          /\ warned' = [warned EXCEPT ![r] = TRUE]
    /\ Goto(r, "quickIndexed")
    /\ UNCHANGED <<now, crashes, caller, audits, queue>>
    /\ UNCHANGED <<dbVars, bodyVars, txVars, imageVars>>

Index_NoWarning(r) ==                                            \* faulty
    /\ pc[r] = "quickIndexed"
    /\ \/ UNCHANGED queue
       \/ changed[r] /\ queue' = queue \cup {r}
    /\ Goto(r, IF changed[r] THEN "updated" ELSE "unchanged")
    /\ UNCHANGED <<now, crashes, caller, audits, indexed, warned>>
    /\ UNCHANGED <<dbVars, bodyVars, txVars, imageVars>>

Index(r) ==
    /\ pc[r] = "quickIndexed"
    /\ \/ ~changed[r] /\ UNCHANGED <<queue, warned>>
       \/ changed[r] /\ queue' = queue \cup {r} /\ UNCHANGED warned
       \/ changed[r] /\ UNCHANGED queue /\ warned' = [warned EXCEPT ![r] = TRUE]
    /\ Goto(r, IF changed[r] THEN "updated" ELSE "unchanged")
    /\ UNCHANGED <<now, crashes, caller, audits, indexed>>
    /\ UNCHANGED <<dbVars, bodyVars, txVars, imageVars>>

-----------------------------------------------------------------------------
(* The surroundings                                                        *)

(* kouta-indeksoija takes a message and asks for the entity as it is now. *)
Deliver(r) ==
    /\ r \in queue
    /\ queue' = queue \ {r}
    /\ indexed' = version
    /\ UNCHANGED <<now, crashes, pc, caller, audits, warned>>
    /\ UNCHANGED <<dbVars, bodyVars, txVars, imageVars>>

(* Everything the server was doing is lost; PostgreSQL rolls back. *)
Crash ==
    /\ crashes < MaxCrashes
    /\ crashes' = crashes + 1
    /\ pc' = [r \in Requests |-> IF OnServer(r) THEN "crashed" ELSE pc[r]]
    /\ UNCHANGED <<now, caller, audits>>
    /\ UNCHANGED <<dbVars, bodyVars, txVars, imageVars, indexVars>>

Tick ==
    /\ \E d \in TickSizes : now + d <= MaxNow /\ now' = now + d
    /\ UNCHANGED <<crashes, pc, caller, audits>>
    /\ UNCHANGED <<dbVars, bodyVars, txVars, imageVars, indexVars>>

-----------------------------------------------------------------------------

ServerStep(r) ==
    \/ r \in TilaChanges /\ (GetRow(r) \/ GetChildren(r))
    \/ Validate(r)
    \/ Begin(r) \/ CheckNotModified(r) \/ CopyImage(r) \/ CopyFails(r)
    \/ Write(r) \/ WriteNothing(r) \/ Audit(r) \/ Commit(r)
    \/ DeleteTemp(r) \/ QuickIndex(r) \/ Index(r)

Next ==
    \/ \E r \in Requests :
         \/ GetRow(r) \/ GetChildren(r) \/ UploadImage(r) \/ Send(r) \/ SendTilaChange(r)
         \/ Validate(r)
         \/ Begin(r) \/ CheckNotModified(r) \/ CopyImage(r) \/ CopyFails(r)
         \/ Write(r) \/ WriteNothing(r) \/ Audit(r) \/ Commit(r)
         \/ SerializationFailure(r) \/ AwaitTimeout(r)
         \/ DeleteTemp(r) \/ QuickIndex(r) \/ Index(r)
         \/ Deliver(r)
    \/ Crash
    \/ Tick

Spec == Init /\ [][Next]_vars

(* A transaction that lost the row to another one learns so by its update. *)
LosesRow(r) == /\ pc[r] = "copied"
               /\ snapshot[r] # version
               /\ SerializationFailure(r)

(* The server and the indexer keep working; people owe nothing. *)
Fairness == \A r \in Requests :
    WF_vars(ServerStep(r)) /\ WF_vars(LosesRow(r)) /\ WF_vars(Deliver(r))

FairSpec == Spec /\ Fairness

-----------------------------------------------------------------------------
(* Properties                                                              *)

TypeOK ==
    /\ now \in Nat /\ crashes \in Nat
    /\ version \in Nat /\ lastModified \in Nat
    /\ teemakuva \in Requests \cup {NoImage}
    /\ pc \in [Requests -> Stages]
    /\ seenRow \in [Requests -> Nat] /\ seenChildren \in [Requests -> Nat]
    /\ seenImage \in [Requests -> Requests \cup {NoImage}]
    /\ token \in [Requests -> Nat]
    /\ attempt \in [Requests -> 0..Retries + 1] /\ stamp \in [Requests -> Nat]
    /\ snapshot \in [Requests -> Nat] /\ snapshotModified \in [Requests -> Nat]
    /\ changed \in [Requests -> BOOLEAN]
    /\ caller \in [Requests -> {Waiting, Gone}]
    /\ wrote \in [Requests -> Nat] /\ audits \in [Requests -> Nat]
    /\ warned \in [Requests -> BOOLEAN]
    /\ temp \subseteq Requests /\ stored \subseteq Requests
    /\ queue \subseteq Requests /\ indexed \in Nat

(* The optimistic lock works: an edit that was committed replaced exactly   *)
(* the version its author had on the screen, row and child rows alike, so   *)
(* nobody else's change disappears under it.                                *)
NoLostUpdate == \A r \in Edits : wrote[r] # 0 =>
    /\ wrote[r] = seenRow[r] + 1
    /\ seenChildren[r] = seenRow[r]

(* An edit is refused because of "another user" only if another change of   *)
(* the entity was committed since its author read it.                       *)
NoFalseConflict == \A r \in Edits : pc[r] = "conflict" => seenRow[r] < snapshot[r]

(* NoLostUpdate for the bulk tila change, whose header the client makes up. *)
NoLostUpdateByTilaChange == \A r \in TilaChanges :
    wrote[r] # 0 => wrote[r] = seenRow[r] + 1

(* The picture the committed row names is always at its permanent key,      *)
(* however often transactions are rolled back, retried or cut by a crash.   *)
ImageStored == teemakuva # NoImage => teemakuva \in stored

(* As long as a save has not been committed its upload is still under       *)
(* temp/, so that a retry, or the person saving again, can copy it.         *)
UploadKeptUntilSaved == \A r \in WithImage :
    pc[r] \notin BeforeSend /\ wrote[r] = 0 => r \in temp

(* Every committed change has an audit entry, and a request never leaves    *)
(* more entries than the transactions begun for it.                         *)
CommitsAudited == \A r \in Requests :
    /\ wrote[r] # 0 => audits[r] > 0
    /\ audits[r] <= attempt[r]

(* If the index is behind the entity, then a message is on its way, or the  *)
(* last committer is still about to index, or it was cut short: by a crash, *)
(* by its Await timing out, or with a warning to the user.                  *)
IndexLagExplained ==
    \/ indexed = version
    \/ queue # {}
    \/ \E r \in Requests :
         /\ wrote[r] = version
         /\ pc[r] \in AfterTx \cup {"crashed"} \/ caller[r] = Gone \/ warned[r]

(* last_modified, the now() of a transaction, grows with every committed    *)
(* change, though transactions overlap and may commit long after they began.*)
LastModifiedGrows ==
    [][version' # version /\ version > 0 => lastModified' > lastModified]_vars

(* A request the server has taken is answered, unless the server crashes    *)
(* with it, whatever the other requests do.                                 *)
EveryRequestAnswered == \A r \in Requests :
    pc[r] \in {"sent", "tilaSent"} ~> pc[r] \in Answered

(* What an untroubled request has committed reaches the index and stays in. *)
SavedIsIndexed == \A r \in Requests :
    pc[r] = "updated" /\ ~warned[r] ~> [](indexed >= wrote[r])

Promise == INSTANCE SavedEntity WITH Editors <- Edits, seen <- [e \in Edits |-> seenRow[e]]

(* Without bulk tila changes the entity is the register SavedEntity promises.*)
KeepsPromise == Promise!Spec
=============================================================================
