----------------------------- MODULE Siirtotiedosto -----------------------------
(***************************************************************************)
(* Exporting what has changed to the siirtotiedostot (transfer files) of   *)
(* the reporting database Ovara.  A scheduled run exports the rows whose   *)
(* last_modified lies in its window, page by page, each page a statement   *)
(* of its own with LIMIT and OFFSET and no ORDER BY: PostgreSQL may take   *)
(* the rows of each in another order, so that a page is any of them, as    *)
(* many as its limit and offset leave.  The window of a run starts where   *)
(* the previous one ended, or failed.  Meanwhile people save rows, and     *)
(* last_modified is the time their transaction BEGAN.                      *)
(*                                                                         *)
(* One table of entities stands for the eight that are paged alike; the    *)
(* oppilaitokset and their osat share pages.  A page is read and stored    *)
(* in one step: what is stored is what was read, and a page that is not    *)
(* stored ends the run.  Nothing here depends on when the local time of    *)
(* the windows repeats: a window starts with the very text the previous    *)
(* one ended with.  "Faulty" definitions show a property can be violated.  *)
(***************************************************************************)
EXTENDS Naturals, FiniteSets

CONSTANTS
    Entities, Oppilaitokset, Osat,  \* rows of the three tables
    MaxItems,       \* maxNumberOfItemsInFile
    Second,         \* units of time in the second that window ends are stored to
    MaxNow,         \* bound: the last moment
    MaxRuns,        \* bound: runs launched
    MaxSaves        \* bound: saves begun

ASSUME TimeAssumption == Second \in Nat \ {0, 1} /\ MaxItems \in Nat \ {0}
ASSUME RowsAssumption ==
    /\ IsFiniteSet(Entities) /\ IsFiniteSet(Oppilaitokset) /\ IsFiniteSet(Osat)
    /\ Entities \cap Oppilaitokset = {} /\ Entities \cap Osat = {} /\ Oppilaitokset \cap Osat = {}
ASSUME BoundsAssumption == MaxNow \in Nat /\ MaxRuns \in Nat /\ MaxSaves \in Nat

Tables == {"entities", "oppilaitokset", "osat"}
Of == [entities |-> Entities, oppilaitokset |-> Oppilaitokset, osat |-> Osat]
Rows == Entities \cup Oppilaitokset \cup Osat
Runs == 1..MaxRuns

VARIABLES
    now,
    modified,   \* committed last_modified of each row, 0 when there is no row
    saving,     \* when the transaction saving the row began, 0 when there is none
    run,        \* each run and its row in siirtotiedostot
    exported,   \* last_modified of the newest version of each row in the files
    late,       \* for each row, the runs with it in their window that were launched before
                \* it was committed
    saves       \* saves begun so far

vars == <<now, modified, saving, run, exported, late, saves>>
rowVars == <<now, modified, saving, late, saves>>

Both == {"oppilaitos", "osa"}

(* success is that of the siirtotiedostot row: "absent" before there is one, *)
(* "null" while the run lasts.  A windowStart of 0 is None.  disturbed: a row *)
(* of the window was saved, and so left it, while the run was reading.       *)
(* stored: the rows in the run's files; no code knows either of the two.     *)
NoRun == [stage |-> "none", windowStart |-> 0, runStart |-> 0, success |-> "absent",
          offset |-> 0, olSize |-> 0, osaSize |-> 0, queried |-> Both,
          stored |-> {}, disturbed |-> FALSE]

Reading == {"launched", "entities", "oppilaitokset"}
Stages  == Reading \cup {"none", "read", "over"}

Init ==
    /\ now = Second
    /\ modified \in [Rows -> {0, now - 1}]
    /\ saving = [row \in Rows |-> 0]
    /\ run = [i \in Runs |-> NoRun]
    /\ exported = [row \in Rows |-> 0]
    /\ late = [row \in Rows |-> {}]
    /\ saves = 0

-----------------------------------------------------------------------------
(* People saving rows                                                      *)

WithinWindow(time, i) == run[i].windowStart <= time /\ time < run[i].runStart

BeginSave(row) ==
    /\ saving[row] = 0 /\ saves < MaxSaves
    /\ saving' = [saving EXCEPT ![row] = now]
    /\ saves' = saves + 1
    /\ UNCHANGED <<now, modified, run, exported, late>>

CommitSave(row) ==
    /\ saving[row] # 0
    /\ modified' = [modified EXCEPT ![row] = saving[row]]
    /\ saving' = [saving EXCEPT ![row] = 0]
    /\ run' = [i \in Runs |-> IF /\ run[i].stage \in Reading
                                 /\ modified[row] # 0 /\ WithinWindow(modified[row], i)
                              THEN [run[i] EXCEPT !.disturbed = TRUE] ELSE run[i]]
    /\ late' = [late EXCEPT ![row] = {i \in Runs : WithinWindow(saving[row], i)}]
    /\ UNCHANGED <<now, exported, saves>>

Tick ==
    /\ now < MaxNow
    /\ now' = now + 1
    /\ UNCHANGED <<modified, saving, run, exported, late, saves>>

-----------------------------------------------------------------------------
(* A run                                                                   *)

Registered(i) == run[i].success # "absent"
Latest(i) == Registered(i) /\ \A j \in Runs : Registered(j) => run[j].runStart <= run[i].runStart

Formatted_RoundedUp(time) == ((time + Second - 1) \div Second) * Second   \* faulty

(* SiirtotiedostoDateTimeFormat stores whole seconds. *)
Formatted(time) == (time \div Second) * Second

NextWindowStart_NoRetry(i) == Formatted(run[i].runStart)         \* faulty

(* Where the run after i starts: a run that failed, or has not ended, is retried. *)
NextWindowStart(i) ==
    IF run[i].success = "true" THEN Formatted(run[i].runStart) ELSE run[i].windowStart

Launch(i) ==
    /\ run[i].stage = "none"
    /\ \A j \in Runs : j < i => run[j].stage # "none"
    /\ \E start \in IF \E l \in Runs : Registered(l)
                    THEN {NextWindowStart(l) : l \in {j \in Runs : Latest(j)}} ELSE {0} :
         run' = [run EXCEPT ![i] = [NoRun EXCEPT !.stage = "launched", !.windowStart = start,
                                                 !.runStart = now]]
    /\ UNCHANGED <<rowVars, exported>>

(* saveSiirtotiedostoData before the first query *)
Register(i) ==
    /\ run[i].stage = "launched"
    /\ run' = [run EXCEPT ![i].stage = "entities", ![i].success = "null"]
    /\ UNCHANGED <<rowVars, exported>>

Due(i, table) == {row \in Of[table] : modified[row] # 0 /\ WithinWindow(modified[row], i)}

Left(n, offset) == IF offset < n THEN n - offset ELSE 0

(* selectByTimerange: the pages its limit and offset may give. *)
Pages(i, table, limit, offset) ==
    LET left == Left(Cardinality(Due(i, table)), offset)
    IN {rows \in SUBSET Due(i, table) :
          Cardinality(rows) = IF left < limit THEN left ELSE limit}

Store(rows) == exported' = [row \in Rows |-> IF row \in rows THEN modified[row] ELSE exported[row]]

(* saveEntitiesToSiirtotiedostot *)
PageEntities(i) ==
    /\ run[i].stage = "entities"
    /\ \E rows \in Pages(i, "entities", MaxItems, run[i].offset) :
         /\ Store(rows)
         /\ IF rows # {}
            THEN run' = [run EXCEPT ![i].offset = @ + Cardinality(rows), ![i].stored = @ \cup rows]
            ELSE run' = [run EXCEPT ![i].stage = "oppilaitokset"]
    /\ UNCHANGED rowVars

(* queryOppilaitoksetAndOrOsatUpToMaxLimit: both kinds until osat have come, *)
(* the osat from the first, in the room the oppilaitokset leave.             *)
OlPages(i) == IF "oppilaitos" \in run[i].queried
              THEN Pages(i, "oppilaitokset", MaxItems, run[i].olSize) ELSE {{}}

OsaPages_CommonOffset(i, ol) ==                                   \* faulty
    IF "oppilaitos" \in run[i].queried THEN Pages(i, "osat", MaxItems - Cardinality(ol), 0)
    ELSE Pages(i, "osat", MaxItems, run[i].olSize + run[i].osaSize)

OsaPages(i, ol) ==
    IF "oppilaitos" \in run[i].queried THEN Pages(i, "osat", MaxItems - Cardinality(ol), 0)
    ELSE Pages(i, "osat", MaxItems, run[i].osaSize)

(* saveOppilaitoksetJaOsat: once a page holds osat, no more oppilaitokset are *)
(* asked for.                                                                 *)
PageOppilaitokset(i) ==
    /\ run[i].stage = "oppilaitokset"
    /\ \E ol \in OlPages(i) : \E osat \in OsaPages(i, ol) :
         /\ Store(ol \cup osat)
         /\ IF ol \cup osat # {}
            THEN run' = [run EXCEPT
                   ![i].olSize = @ + Cardinality(ol), ![i].osaSize = @ + Cardinality(osat),
                   ![i].queried = IF run[i].osaSize + Cardinality(osat) > 0 THEN {"osa"} ELSE @,
                   ![i].stored = @ \cup ol \cup osat]
            ELSE run' = [run EXCEPT ![i].stage = "read"]
    /\ UNCHANGED rowVars

Finish(i) ==
    /\ run[i].stage = "read"
    /\ run' = [run EXCEPT ![i].stage = "over", ![i].success = "true"]
    /\ UNCHANGED <<rowVars, exported>>

(* A query or the storing of a page failed. *)
Fail(i) ==
    /\ run[i].stage \in {"entities", "oppilaitokset"}
    /\ run' = [run EXCEPT ![i].stage = "over", ![i].success = "false"]
    /\ UNCHANGED <<rowVars, exported>>

(* The process died: its row, if it has one, stays as it is. *)
Crash(i) ==
    /\ run[i].stage \in Reading \cup {"read"}
    /\ run' = [run EXCEPT ![i].stage = "over"]
    /\ UNCHANGED <<rowVars, exported>>

Next ==
    \/ \E row \in Rows : BeginSave(row) \/ CommitSave(row)
    \/ \E i \in Runs :
         \/ Launch(i) \/ Register(i) \/ PageEntities(i) \/ PageOppilaitokset(i)
         \/ Finish(i) \/ Fail(i) \/ Crash(i)
    \/ Tick

Spec == Init /\ [][Next]_vars

-----------------------------------------------------------------------------
(* Properties                                                              *)

TypeOK ==
    /\ now \in Nat /\ saves \in Nat /\ late \in [Rows -> SUBSET Runs]
    /\ modified \in [Rows -> Nat] /\ saving \in [Rows -> Nat] /\ exported \in [Rows -> Nat]
    /\ run \in [Runs -> [stage : Stages, windowStart : Nat, runStart : Nat,
                         success : {"absent", "null", "true", "false"}, offset : Nat,
                         olSize : Nat, osaSize : Nat, queried : SUBSET Both,
                         stored : SUBSET Rows, disturbed : BOOLEAN]]
    /\ \A i \in Runs : run[i].windowStart <= run[i].runStart /\ run[i].runStart <= now

Done(i) == run[i].success = "true"

(* Whatever fails, crashes or overlaps, every moment before the window of a *)
(* run lies in the window of a run that succeeded.                          *)
NoGapBetweenWindows ==
    \A i \in Runs : \A time \in 1..now :
        run[i].stage # "none" /\ time < run[i].windowStart =>
            \E j \in Runs : Done(j) /\ WithinWindow(time, j)

(* A row of the run's files is on two of its pages: the counters count more *)
(* rows of a kind than there are in the files.                              *)
Repeated(i) ==
    \/ run[i].offset # Cardinality(run[i].stored \cap Entities)
    \/ run[i].olSize # Cardinality(run[i].stored \cap Oppilaitokset)
    \/ run[i].osaSize # Cardinality(run[i].stored \cap Osat)

(* A run that succeeded, no row of its window saved while it read, leaves   *)
(* out a row of the window that was committed before the launch only if it  *)
(* has another one on two pages: however the pages are ordered, and however *)
(* the oppilaitokset and osat fall on them, the offsets end at nothing less.*)
CalmRunExportsAll ==
    \A i \in Runs, row \in Rows :
        /\ Done(i) /\ ~run[i].disturbed /\ ~Repeated(i) /\ i \notin late[row]
        /\ modified[row] # 0 /\ WithinWindow(modified[row], i)
        => exported[row] = modified[row]

(* From change to file: a change whose moment lies before the window of any *)
(* run is in the files, or a run whose window held it succeeded without it: *)
(* one that a save disturbed, one whose pages have some row twice, or one   *)
(* that was launched before the change was committed.                       *)
Accounted(row) ==
    \E j \in Runs :
        /\ Done(j) /\ WithinWindow(modified[row], j)
        /\ exported[row] = modified[row] \/ run[j].disturbed \/ Repeated(j) \/ j \in late[row]

NothingLeftBehind ==
    \A i \in Runs, row \in Rows :
        modified[row] # 0 /\ run[i].stage # "none" /\ modified[row] < run[i].windowStart
        => Accounted(row)

(* SiirtotiedostoServlet: what was created or modified in the window is     *)
(* stored, here what was committed before the run was launched, and by a    *)
(* run whose pages have no row twice, so that their order plays no part.    *)
EveryChangeExported ==
    \A i \in Runs, row \in Rows :
        /\ Done(i) /\ ~Repeated(i) /\ i \notin late[row]
        /\ modified[row] # 0 /\ WithinWindow(modified[row], i)
        => exported[row] = modified[row]
=============================================================================
