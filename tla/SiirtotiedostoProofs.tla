-------------------------- MODULE SiirtotiedostoProofs --------------------------
(***************************************************************************)
(* For any number of runs, rows and saves and any page size: the reachable *)
(* states have their types, and the windows of the runs leave no gap.      *)
(***************************************************************************)
EXTENDS Siirtotiedosto, FiniteSetTheorems, TLAPS

RunRecords == [stage : Stages, windowStart : Nat, runStart : Nat,
               success : {"absent", "null", "true", "false"}, offset : Nat,
               olSize : Nat, osaSize : Nat, queried : SUBSET Both,
               stored : SUBSET Rows, disturbed : BOOLEAN]

(* A run has no row in siirtotiedostot before it is launched, and its       *)
(* outcome is stored when it is over.                                       *)
RowInv == \A i \in Runs :
    /\ run[i].stage = "none" => run[i].success = "absent"
    /\ run[i].success \in {"true", "false"} => run[i].stage = "over"

IInv == TypeOK /\ RowInv /\ NoGapBetweenWindows

-----------------------------------------------------------------------------
(* Lemmas about the operators *)

(* A window end loses nothing but the fraction of its second. *)
LEMMA FormattedBounds ==
    ASSUME NEW time \in Nat
    PROVE  Formatted(time) \in Nat /\ Formatted(time) <= time
BY TimeAssumption DEF Formatted

(* There are finitely many rows. *)
LEMMA RowsFinite == IsFiniteSet(Rows) /\ \A s \in SUBSET Rows : IsFiniteSet(s) /\ Cardinality(s) \in Nat
<1>1. IsFiniteSet(Rows)
    BY RowsAssumption, FS_Union DEF Rows
<1>. QED BY <1>1, FS_Subset, FS_CardinalityType

(* However a page is ordered, it holds rows of the window, no more than its *)
(* limit; if it holds fewer, it is the last.                                *)
LEMMA PagesBounded ==
    ASSUME NEW i, NEW table \in Tables, NEW limit \in Nat, NEW offset \in Nat,
           NEW rows \in Pages(i, table, limit, offset)
    PROVE  /\ rows \in SUBSET Due(i, table) /\ Due(i, table) \in SUBSET Rows
           /\ Cardinality(rows) \in Nat /\ Cardinality(rows) <= limit
           /\ Cardinality(rows) < limit => Cardinality(Due(i, table)) <= offset + Cardinality(rows)
<1>1. Due(i, table) \in SUBSET Rows
    BY DEF Due, Of, Tables, Rows
<1>2. rows \in SUBSET Due(i, table)
    BY DEF Pages
<1>3. Cardinality(rows) \in Nat /\ Cardinality(Due(i, table)) \in Nat
    BY <1>1, <1>2, RowsFinite
<1> DEFINE n == Cardinality(Due(i, table))
<1>4. Cardinality(rows) = IF Left(n, offset) < limit THEN Left(n, offset) ELSE limit
    BY DEF Pages
<1>5. Left(n, offset) \in Nat /\ n <= offset + Left(n, offset)
    BY <1>3 DEF Left
<1>. QED BY <1>1, <1>2, <1>3, <1>4, <1>5

(* What the two steps of a run that read a page leave in its record. *)
EntitiesRead(i, rows) ==
    IF rows # {} THEN [run[i] EXCEPT !.offset = @ + Cardinality(rows), !.stored = @ \cup rows]
    ELSE [run[i] EXCEPT !.stage = "oppilaitokset"]

OppilaitoksetRead(i, ol, osat) ==
    IF ol \cup osat # {}
    THEN [run[i] EXCEPT !.olSize = @ + Cardinality(ol), !.osaSize = @ + Cardinality(osat),
                        !.queried = IF run[i].osaSize + Cardinality(osat) > 0 THEN {"osa"} ELSE @,
                        !.stored = @ \cup ol \cup osat]
    ELSE [run[i] EXCEPT !.stage = "read"]

(* The page of oppilaitokset and the page of osat of one step. *)
LEMMA PairBounded ==
    ASSUME TypeOK, NEW i \in Runs, NEW ol \in OlPages(i), NEW osat \in OsaPages(i, ol)
    PROVE  /\ ol \in SUBSET Due(i, "oppilaitokset") /\ Due(i, "oppilaitokset") \in SUBSET Rows
           /\ osat \in SUBSET Due(i, "osat") /\ Due(i, "osat") \in SUBSET Rows
           /\ Cardinality(ol) \in Nat /\ Cardinality(osat) \in Nat
           /\ "oppilaitos" \notin run[i].queried => ol = {}
           /\ "oppilaitos" \in run[i].queried =>
                /\ Cardinality(ol) + Cardinality(osat) <= MaxItems
                /\ Cardinality(ol) < MaxItems
                     => Cardinality(Due(i, "oppilaitokset")) <= run[i].olSize + Cardinality(ol)
           /\ "oppilaitos" \notin run[i].queried /\ Cardinality(osat) < MaxItems
                => Cardinality(Due(i, "osat")) <= run[i].osaSize + Cardinality(osat)
           /\ "oppilaitos" \in run[i].queried /\ Cardinality(ol) + Cardinality(osat) < MaxItems
                => Cardinality(Due(i, "osat")) <= Cardinality(osat)
<1>1. run[i].olSize \in Nat /\ run[i].osaSize \in Nat /\ MaxItems \in Nat
    BY TimeAssumption DEF TypeOK
<1>2. "oppilaitokset" \in Tables /\ "osat" \in Tables
    BY DEF Tables
<1>3. Due(i, "oppilaitokset") \in SUBSET Rows /\ Due(i, "osat") \in SUBSET Rows
    BY DEF Due, Of, Rows
<1>4. CASE "oppilaitos" \in run[i].queried
  <2>1. ol \in Pages(i, "oppilaitokset", MaxItems, run[i].olSize)
      BY <1>4 DEF OlPages
  <2>2. /\ ol \in SUBSET Due(i, "oppilaitokset")
        /\ Cardinality(ol) \in Nat /\ Cardinality(ol) <= MaxItems
        /\ Cardinality(ol) < MaxItems
             => Cardinality(Due(i, "oppilaitokset")) <= run[i].olSize + Cardinality(ol)
      BY <1>1, <1>2, <2>1, PagesBounded
  <2> DEFINE room == MaxItems - Cardinality(ol)
  <2>3. osat \in Pages(i, "osat", room, 0) /\ room \in Nat /\ 0 \in Nat
      BY <1>1, <1>4, <2>2 DEF OsaPages
  <2>4. /\ osat \in SUBSET Due(i, "osat")
        /\ Cardinality(osat) \in Nat /\ Cardinality(osat) <= room
        /\ Cardinality(osat) < room => Cardinality(Due(i, "osat")) <= 0 + Cardinality(osat)
    <3>. HIDE DEF room
    <3>. QED BY <1>2, <2>3, PagesBounded
  <2>5. Cardinality(Due(i, "osat")) \in Nat
      BY <1>3, RowsFinite
  <2>. QED BY <1>1, <1>3, <1>4, <2>2, <2>4, <2>5
<1>5. CASE "oppilaitos" \notin run[i].queried
  <2>1. ol = {} /\ osat \in Pages(i, "osat", MaxItems, run[i].osaSize)
      BY <1>5 DEF OlPages, OsaPages
  <2>2. /\ osat \in SUBSET Due(i, "osat") /\ Cardinality(osat) \in Nat
        /\ Cardinality(osat) < MaxItems
             => Cardinality(Due(i, "osat")) <= run[i].osaSize + Cardinality(osat)
    <3>. DEFINE offset == run[i].osaSize
    <3>1. offset \in Nat /\ osat \in Pages(i, "osat", MaxItems, offset)
        BY <1>1, <2>1
    <3>. HIDE DEF offset
    <3>2. /\ osat \in SUBSET Due(i, "osat") /\ Cardinality(osat) \in Nat
          /\ Cardinality(osat) < MaxItems => Cardinality(Due(i, "osat")) <= offset + Cardinality(osat)
        BY <1>1, <1>2, <3>1, PagesBounded
    <3>. QED BY <3>2 DEF offset
  <2>3. Cardinality(ol) \in Nat
      BY <2>1, FS_EmptySet
  <2>. QED BY <1>3, <1>5, <2>1, <2>2, <2>3
<1>. QED BY <1>4, <1>5

LEMMA EntitiesStep ==
    ASSUME TypeOK, NEW i \in Runs, PageEntities(i)
    PROVE  \E rows \in SUBSET Rows :
              /\ rows \in Pages(i, "entities", MaxItems, run[i].offset)
              /\ Store(rows) /\ run' = [run EXCEPT ![i] = EntitiesRead(i, rows)]
<1>1. PICK rows \in Pages(i, "entities", MaxItems, run[i].offset) :
         /\ Store(rows)
         /\ IF rows # {}
            THEN run' = [run EXCEPT ![i].offset = @ + Cardinality(rows), ![i].stored = @ \cup rows]
            ELSE run' = [run EXCEPT ![i].stage = "oppilaitokset"]
    BY DEF PageEntities
<1>2. run' = [run EXCEPT ![i] = EntitiesRead(i, rows)]
    BY <1>1 DEF EntitiesRead, TypeOK
<1>3. rows \in SUBSET Rows
  <2>. DEFINE offset == run[i].offset
  <2>1. offset \in Nat /\ MaxItems \in Nat /\ "entities" \in Tables
      BY TimeAssumption DEF TypeOK, Tables
  <2>2. rows \in Pages(i, "entities", MaxItems, offset)
      OBVIOUS
  <2>. HIDE DEF offset
  <2>3. rows \in SUBSET Due(i, "entities") /\ Due(i, "entities") \in SUBSET Rows
      BY <2>1, <2>2, PagesBounded
  <2>. QED BY <2>3
<1>. QED BY <1>1, <1>2, <1>3

LEMMA OppilaitoksetStep ==
    ASSUME TypeOK, NEW i \in Runs, PageOppilaitokset(i)
    PROVE  \E ol, osat \in SUBSET Rows :
              /\ ol \in OlPages(i) /\ osat \in OsaPages(i, ol)
              /\ Store(ol \cup osat) /\ run' = [run EXCEPT ![i] = OppilaitoksetRead(i, ol, osat)]
<1> DEFINE After(ol, osat) ==
        IF ol \cup osat # {}
        THEN run' = [run EXCEPT
               ![i].olSize = @ + Cardinality(ol), ![i].osaSize = @ + Cardinality(osat),
               ![i].queried = IF run[i].osaSize + Cardinality(osat) > 0 THEN {"osa"} ELSE @,
               ![i].stored = @ \cup ol \cup osat]
        ELSE run' = [run EXCEPT ![i].stage = "read"]
<1>1. PICK ol \in OlPages(i) : \E osat \in OsaPages(i, ol) : Store(ol \cup osat) /\ After(ol, osat)
    BY DEF PageOppilaitokset
<1>2. PICK osat \in OsaPages(i, ol) : Store(ol \cup osat) /\ After(ol, osat)
    BY <1>1
<1>3. run' = [run EXCEPT ![i] = OppilaitoksetRead(i, ol, osat)]
    BY <1>2 DEF OppilaitoksetRead, TypeOK
<1>4. ol \in SUBSET Rows /\ osat \in SUBSET Rows
    BY PairBounded
<1>. QED BY <1>2, <1>3, <1>4

(* Reading a page keeps the type and the window of the run. *)
LEMMA EntitiesReadTypes ==
    ASSUME NEW i \in Runs, run[i] \in RunRecords, NEW rows \in SUBSET Rows
    PROVE  LET r == EntitiesRead(i, rows) IN
           /\ r \in RunRecords /\ r.windowStart = run[i].windowStart
           /\ r.runStart = run[i].runStart /\ r.success = run[i].success
           /\ r.stage \in {run[i].stage, "oppilaitokset"}
<1>1. Cardinality(rows) \in Nat
    BY RowsFinite
<1> DEFINE n == run[i].offset + Cardinality(rows)
           t == run[i].stored \cup rows
<1>2. n \in Nat /\ t \in SUBSET Rows
    BY <1>1 DEF RunRecords
<1>3. CASE rows # {}
  <2>1. EntitiesRead(i, rows) = [run[i] EXCEPT !.offset = n, !.stored = t]
      BY <1>3 DEF EntitiesRead
  <2>. HIDE DEF n, t
  <2>. QED BY <1>2, <2>1 DEF RunRecords
<1>4. CASE rows = {}
    BY <1>4 DEF EntitiesRead, RunRecords, Stages, Reading
<1>. QED BY <1>3, <1>4

LEMMA OppilaitoksetReadTypes ==
    ASSUME NEW i \in Runs, run[i] \in RunRecords,
           NEW ol \in SUBSET Rows, NEW osat \in SUBSET Rows
    PROVE  LET r == OppilaitoksetRead(i, ol, osat) IN
           /\ r \in RunRecords /\ r.windowStart = run[i].windowStart
           /\ r.runStart = run[i].runStart /\ r.success = run[i].success
           /\ r.stage \in {run[i].stage, "read"}
<1> DEFINE n == run[i].olSize + Cardinality(ol)
           k == run[i].osaSize + Cardinality(osat)
           b == IF k > 0 THEN {"osa"} ELSE run[i].queried
           t == run[i].stored \cup ol \cup osat
<1>1. Cardinality(ol) \in Nat /\ Cardinality(osat) \in Nat
    BY RowsFinite
<1>2. /\ run[i].queried \in SUBSET Both /\ run[i].olSize \in Nat /\ run[i].osaSize \in Nat
      /\ run[i].stored \in SUBSET Rows
    BY DEF RunRecords
<1>3. n \in Nat /\ k \in Nat /\ b \in SUBSET Both /\ t \in SUBSET Rows
    BY <1>1, <1>2 DEF Both
<1>4. CASE ol \cup osat # {}
  <2>1. OppilaitoksetRead(i, ol, osat)
          = [run[i] EXCEPT !.olSize = n, !.osaSize = k, !.queried = b, !.stored = t]
      BY <1>4 DEF OppilaitoksetRead
  <2>. HIDE DEF n, k, b, t
  <2>. QED BY <1>3, <2>1 DEF RunRecords
<1>5. CASE ol \cup osat = {}
    BY <1>5 DEF OppilaitoksetRead, RunRecords, Stages, Reading
<1>. QED BY <1>4, <1>5

(* A step of one run that stores some rows keeps the types. *)
LEMMA RunStepTypes ==
    ASSUME TypeOK, UNCHANGED rowVars, exported' \in [Rows -> Nat],
           NEW i \in Runs, NEW r \in RunRecords, run' = [run EXCEPT ![i] = r],
           r.windowStart <= r.runStart, r.runStart <= now
    PROVE  TypeOK'
<1>1. now' = now /\ saves' = saves /\ late' = late /\ modified' = modified
      /\ saving' = saving
    BY DEF rowVars
<1>2. run' \in [Runs -> RunRecords]
    BY DEF TypeOK, RunRecords
<1>3. \A j \in Runs : run'[j].windowStart <= run'[j].runStart /\ run'[j].runStart <= now'
    BY <1>1 DEF TypeOK
<1>. QED BY <1>1, <1>2, <1>3 DEF TypeOK, RunRecords

(* A run that only advances keeps its window. *)
LEMMA AdvanceTypes ==
    ASSUME TypeOK, UNCHANGED rowVars, exported' \in [Rows -> Nat],
           NEW i \in Runs, NEW r \in RunRecords, run' = [run EXCEPT ![i] = r],
           r.windowStart = run[i].windowStart, r.runStart = run[i].runStart
    PROVE  TypeOK'
<1>1. r.windowStart <= r.runStart /\ r.runStart <= now
    BY DEF TypeOK
<1>. QED BY <1>1, RunStepTypes

(* What Store leaves is a version of each row. *)
LEMMA StoreTypes ==
    ASSUME TypeOK, NEW rows, Store(rows)
    PROVE  exported' \in [Rows -> Nat]
BY DEF TypeOK, Store

LEMMA TypeInit == Init => TypeOK /\ RowInv
<1>. SUFFICES ASSUME Init PROVE TypeOK /\ RowInv
    OBVIOUS
<1>1. now \in Nat /\ now - 1 \in Nat /\ saves \in Nat
    BY TimeAssumption DEF Init
<1>2. late \in [Rows -> SUBSET Runs] /\ saving \in [Rows -> Nat] /\ exported \in [Rows -> Nat]
    BY DEF Init
<1>3. modified \in [Rows -> Nat]
    BY <1>1 DEF Init
<1>4. /\ run \in [Runs -> RunRecords] /\ RowInv
      /\ \A i \in Runs : run[i].windowStart <= run[i].runStart /\ run[i].runStart <= now
    BY <1>1 DEF Init, NoRun, RunRecords, Stages, Reading, RowInv
<1>. QED BY <1>1, <1>2, <1>3, <1>4 DEF TypeOK, RunRecords

LEMMA TypeStep == TypeOK /\ RowInv /\ [Next]_vars => TypeOK'
<1>. SUFFICES ASSUME TypeOK, RowInv, [Next]_vars PROVE TypeOK'
    OBVIOUS
<1>1. ASSUME NEW row \in Rows, BeginSave(row) PROVE TypeOK'
  <2>1. saving' \in [Rows -> Nat] /\ saves' \in Nat
      BY <1>1 DEF BeginSave, TypeOK
  <2>. QED BY <1>1, <2>1 DEF BeginSave, TypeOK
<1>2. ASSUME NEW row \in Rows, CommitSave(row) PROVE TypeOK'
  <2>1. saving' \in [Rows -> Nat] /\ modified' \in [Rows -> Nat] /\ late' \in [Rows -> SUBSET Runs]
      BY <1>2 DEF CommitSave, TypeOK
  <2>3. \A i \in Runs : run[i] \in RunRecords
      BY DEF TypeOK, RunRecords
  <2>4. \A i \in Runs : /\ run'[i] \in RunRecords
                        /\ run'[i].windowStart = run[i].windowStart
                        /\ run'[i].runStart = run[i].runStart
    <3>. SUFFICES ASSUME NEW i \in Runs
                  PROVE  /\ run'[i] \in RunRecords
                         /\ run'[i].windowStart = run[i].windowStart
                         /\ run'[i].runStart = run[i].runStart
        OBVIOUS
    <3>1. run'[i] = run[i] \/ run'[i] = [run[i] EXCEPT !.disturbed = TRUE]
        BY <1>2 DEF CommitSave
    <3>. QED BY <2>3, <3>1 DEF RunRecords
  <2>5. run' \in [Runs -> RunRecords]
      BY <1>2, <2>4 DEF CommitSave
  <2>6. now' = now /\ exported' = exported /\ saves' = saves
      BY <1>2 DEF CommitSave
  <2>. QED BY <2>1, <2>4, <2>5, <2>6 DEF TypeOK, RunRecords
<1>3. ASSUME NEW i \in Runs, Launch(i) PROVE TypeOK'
  <2>1. PICK start \in IF \E l \in Runs : Registered(l)
                        THEN {NextWindowStart(l) : l \in {j \in Runs : Latest(j)}} ELSE {0} :
           run' = [run EXCEPT ![i] = [NoRun EXCEPT !.stage = "launched", !.windowStart = start,
                                                   !.runStart = now]]
      BY <1>3 DEF Launch
  <2>2. start \in Nat /\ start <= now
    <3>1. ASSUME NEW l \in Runs PROVE NextWindowStart(l) \in Nat /\ NextWindowStart(l) <= now
      <4>1. run[l].runStart \in Nat /\ run[l].windowStart \in Nat /\ now \in Nat
            /\ run[l].windowStart <= run[l].runStart /\ run[l].runStart <= now
          BY DEF TypeOK
      <4>2. Formatted(run[l].runStart) \in Nat /\ Formatted(run[l].runStart) <= run[l].runStart
          BY <4>1, FormattedBounds
      <4>. QED BY <4>1, <4>2 DEF NextWindowStart
    <3>. QED BY <2>1, <3>1 DEF TypeOK
  <2> DEFINE r == [NoRun EXCEPT !.stage = "launched", !.windowStart = start, !.runStart = now]
  <2>3. r \in RunRecords /\ r.windowStart = start /\ r.runStart = now
      BY <2>2 DEF NoRun, RunRecords, Stages, Reading, TypeOK
  <2>4. UNCHANGED rowVars /\ exported' \in [Rows -> Nat]
      BY <1>3 DEF Launch, TypeOK
  <2>5. r.windowStart <= r.runStart /\ r.runStart <= now
      BY <2>2, <2>3 DEF TypeOK
  <2>. QED BY <2>1, <2>3, <2>4, <2>5, RunStepTypes
<1>4. ASSUME NEW i \in Runs,
             \/ Register(i) \/ PageEntities(i) \/ PageOppilaitokset(i)
             \/ Finish(i) \/ Fail(i) \/ Crash(i)
      PROVE  TypeOK'
  <2> DEFINE q == run[i]
  <2>1. q \in RunRecords
      BY DEF TypeOK, RunRecords
  <2>2. CASE Register(i)
    <3> DEFINE r == [q EXCEPT !.stage = "entities", !.success = "null"]
    <3>1. r \in RunRecords /\ r.windowStart = q.windowStart /\ r.runStart = q.runStart
        BY <2>1 DEF RunRecords, Stages, Reading
    <3>2. run' = [run EXCEPT ![i] = r] /\ UNCHANGED rowVars /\ exported' \in [Rows -> Nat]
        BY <2>2 DEF Register, TypeOK
    <3>. QED BY <3>1, <3>2, AdvanceTypes
  <2>3. CASE PageEntities(i)
    <3>1. PICK rows \in SUBSET Rows :
             Store(rows) /\ run' = [run EXCEPT ![i] = EntitiesRead(i, rows)]
        BY <2>3, EntitiesStep
    <3>2. UNCHANGED rowVars /\ exported' \in [Rows -> Nat]
        BY <2>3, <3>1, StoreTypes DEF PageEntities
    <3>. QED BY <2>1, <3>1, <3>2, EntitiesReadTypes, AdvanceTypes
  <2>4. CASE PageOppilaitokset(i)
    <3>1. PICK ol, osat \in SUBSET Rows :
             Store(ol \cup osat) /\ run' = [run EXCEPT ![i] = OppilaitoksetRead(i, ol, osat)]
        BY <2>4, OppilaitoksetStep
    <3>2. UNCHANGED rowVars /\ exported' \in [Rows -> Nat]
        BY <2>4, <3>1, StoreTypes DEF PageOppilaitokset
    <3>. QED BY <2>1, <3>1, <3>2, OppilaitoksetReadTypes, AdvanceTypes
  <2>5. CASE Finish(i)
    <3> DEFINE r == [q EXCEPT !.stage = "over", !.success = "true"]
    <3>1. r \in RunRecords /\ r.windowStart = q.windowStart /\ r.runStart = q.runStart
        BY <2>1 DEF RunRecords, Stages, Reading
    <3>2. run' = [run EXCEPT ![i] = r] /\ UNCHANGED rowVars /\ exported' \in [Rows -> Nat]
        BY <2>5 DEF Finish, TypeOK
    <3>. QED BY <3>1, <3>2, AdvanceTypes
  <2>6. CASE Fail(i)
    <3> DEFINE r == [q EXCEPT !.stage = "over", !.success = "false"]
    <3>1. r \in RunRecords /\ r.windowStart = q.windowStart /\ r.runStart = q.runStart
        BY <2>1 DEF RunRecords, Stages, Reading
    <3>2. run' = [run EXCEPT ![i] = r] /\ UNCHANGED rowVars /\ exported' \in [Rows -> Nat]
        BY <2>6 DEF Fail, TypeOK
    <3>. QED BY <3>1, <3>2, AdvanceTypes
  <2>7. CASE Crash(i)
    <3> DEFINE r == [q EXCEPT !.stage = "over"]
    <3>1. r \in RunRecords /\ r.windowStart = q.windowStart /\ r.runStart = q.runStart
        BY <2>1 DEF RunRecords, Stages, Reading
    <3>2. run' = [run EXCEPT ![i] = r] /\ UNCHANGED rowVars /\ exported' \in [Rows -> Nat]
        BY <2>7 DEF Crash, TypeOK
    <3>. QED BY <3>1, <3>2, AdvanceTypes
  <2>. QED BY <1>4, <2>2, <2>3, <2>4, <2>5, <2>6, <2>7
<1>5. ASSUME Tick PROVE TypeOK'
    BY <1>5 DEF Tick, TypeOK
<1>6. ASSUME UNCHANGED vars PROVE TypeOK'
    BY <1>6 DEF vars, TypeOK
<1>. QED BY <1>1, <1>2, <1>3, <1>4, <1>5, <1>6 DEF Next

Kept(j) == /\ run'[j].windowStart = run[j].windowStart
           /\ run'[j].runStart = run[j].runStart
           /\ Done(j) => Done(j)'
           /\ run'[j].stage = "none" <=> run[j].stage = "none"
           /\ run[j].stage = "none" => run'[j].success = run[j].success

LEMMA AdvanceKept ==
    ASSUME run \in [Runs -> RunRecords], NEW i \in Runs, NEW r,
           run' = [run EXCEPT ![i] = r], run[i].stage # "none", r.stage # "none",
           r.windowStart = run[i].windowStart, r.runStart = run[i].runStart,
           r.success = run[i].success
    PROVE  \A j \in Runs : Kept(j)
BY DEF Kept, Done

(* A launched run keeps its window and, if it succeeded, its success; a run *)
(* that gets a row in siirtotiedostot has been launched.                    *)
LEMMA RunStep ==
    ASSUME TypeOK, RowInv, [Next]_vars, \A i \in Runs : ~Launch(i)
    PROVE  \A j \in Runs : Kept(j)
<1>. SUFFICES ASSUME NEW j \in Runs PROVE Kept(j)
    OBVIOUS
<1>. USE DEF Kept, Done
<1>0. run \in [Runs -> RunRecords]
    BY DEF TypeOK, RunRecords
<1>1. ASSUME NEW row \in Rows, BeginSave(row) PROVE Kept(j)
    BY <1>1 DEF BeginSave
<1>2. ASSUME NEW row \in Rows, CommitSave(row) PROVE Kept(j)
  <2>1. run'[j] = run[j] \/ run'[j] = [run[j] EXCEPT !.disturbed = TRUE]
      BY <1>2 DEF CommitSave
  <2>. QED BY <1>0, <2>1 DEF RunRecords
<1>3. ASSUME NEW i \in Runs, Register(i) PROVE Kept(j)
    BY <1>0, <1>3 DEF Register, RunRecords, RowInv
<1>4. ASSUME NEW i \in Runs, PageEntities(i) PROVE Kept(j)
  <2>1. PICK rows \in SUBSET Rows : run' = [run EXCEPT ![i] = EntitiesRead(i, rows)]
      BY <1>4, EntitiesStep
  <2>2. run[i].stage = "entities"
      BY <1>4 DEF PageEntities
  <2>. HIDE DEF Kept
  <2>. QED BY <1>0, <2>1, <2>2, EntitiesReadTypes, AdvanceKept
<1>5. ASSUME NEW i \in Runs, PageOppilaitokset(i) PROVE Kept(j)
  <2>1. PICK ol, osat \in SUBSET Rows :
           run' = [run EXCEPT ![i] = OppilaitoksetRead(i, ol, osat)]
      BY <1>5, OppilaitoksetStep
  <2>2. run[i].stage = "oppilaitokset"
      BY <1>5 DEF PageOppilaitokset
  <2>. HIDE DEF Kept
  <2>. QED BY <1>0, <2>1, <2>2, OppilaitoksetReadTypes, AdvanceKept
<1>6. ASSUME NEW i \in Runs, Finish(i) PROVE Kept(j)
    BY <1>0, <1>6 DEF Finish, RunRecords
<1>7. ASSUME NEW i \in Runs, Fail(i) PROVE Kept(j)
    BY <1>0, <1>7 DEF Fail, RunRecords, RowInv
<1>8. ASSUME NEW i \in Runs, Crash(i) PROVE Kept(j)
    BY <1>0, <1>8 DEF Crash, RunRecords, Reading
<1>9. ASSUME Tick PROVE Kept(j)
    BY <1>9 DEF Tick
<1>10. ASSUME UNCHANGED vars PROVE Kept(j)
    BY <1>10 DEF vars
<1>. QED BY <1>1, <1>2, <1>3, <1>4, <1>5, <1>6, <1>7, <1>8, <1>9, <1>10 DEF Next

LEMMA RowStep == TypeOK /\ RowInv /\ [Next]_vars => RowInv'
<1>. SUFFICES ASSUME TypeOK, RowInv, [Next]_vars PROVE RowInv'
    OBVIOUS
<1>0. run \in [Runs -> RunRecords]
    BY DEF TypeOK, RunRecords
<1>1. ASSUME NEW i \in Runs, Launch(i) PROVE RowInv'
  <2>1. PICK start : run' = [run EXCEPT ![i] = [NoRun EXCEPT !.stage = "launched",
                               !.windowStart = start, !.runStart = now]]
      BY <1>1 DEF Launch
  <2>. QED BY <1>0, <2>1 DEF RowInv, NoRun, RunRecords
<1>2. ASSUME \A i \in Runs : ~Launch(i) PROVE RowInv'
  <2>. SUFFICES ASSUME NEW j \in Runs
                PROVE  run'[j].success \in {"true", "false"} => run'[j].stage = "over"
      BY <1>2, RunStep DEF Kept, RowInv
  <2>1. run[j].success \in {"true", "false"} => run[j].stage = "over"
      BY DEF RowInv
  <2>2. ASSUME NEW row \in Rows, CommitSave(row)
        PROVE  run'[j].success \in {"true", "false"} => run'[j].stage = "over"
    <3>1. run'[j] = run[j] \/ run'[j] = [run[j] EXCEPT !.disturbed = TRUE]
        BY <2>2 DEF CommitSave
    <3>. QED BY <1>0, <2>1, <3>1 DEF RunRecords
  <2>3. ASSUME NEW i \in Runs, PageEntities(i) \/ PageOppilaitokset(i)
        PROVE  run'[j].success \in {"true", "false"} => run'[j].stage = "over"
    <3>1. run[i].stage # "over"
        BY <2>3 DEF PageEntities, PageOppilaitokset
    <3>2. PICK r : run' = [run EXCEPT ![i] = r] /\ r.success = run[i].success
      <4>1. CASE PageEntities(i)
        <5>1. PICK rows \in SUBSET Rows : run' = [run EXCEPT ![i] = EntitiesRead(i, rows)]
            BY <4>1, EntitiesStep
        <5>2. EntitiesRead(i, rows).success = run[i].success
            BY <1>0, EntitiesReadTypes
        <5>. QED BY <5>1, <5>2, Zenon
      <4>2. CASE PageOppilaitokset(i)
        <5>1. PICK ol, osat \in SUBSET Rows :
                 run' = [run EXCEPT ![i] = OppilaitoksetRead(i, ol, osat)]
            BY <4>2, OppilaitoksetStep
        <5>2. OppilaitoksetRead(i, ol, osat).success = run[i].success
            BY <1>0, OppilaitoksetReadTypes
        <5>. QED BY <5>1, <5>2, Zenon
      <4>. QED BY <2>3, <4>1, <4>2
    <3>3. ~(run[i].success \in {"true", "false"})
        BY <3>1 DEF RowInv
    <3>. QED BY <1>0, <2>1, <3>2, <3>3
  <2>4. CASE UNCHANGED run
      BY <2>1, <2>4
  <2>5. ASSUME NEW i \in Runs, \/ Register(i) \/ Finish(i) \/ Fail(i) \/ Crash(i)
        PROVE  run'[j].success \in {"true", "false"} => run'[j].stage = "over"
      BY <1>0, <2>1, <2>5 DEF Register, Finish, Fail, Crash, RunRecords
  <2>. QED BY <1>2, <2>2, <2>3, <2>4, <2>5 DEF Next, BeginSave, Tick, vars
<1>. QED BY <1>1, <1>2

(* THE INDUCTIVE STEP.  A run that is launched starts where a run that has  *)
(* a row succeeded, whose own window covers what comes before that from its *)
(* start on, or where a run that has a row started; the rest is covered by  *)
(* the windows before the start of that run.                                *)
LEMMA NoGapStep == IInv /\ [Next]_vars => NoGapBetweenWindows'
<1>. SUFFICES ASSUME IInv, [Next]_vars PROVE NoGapBetweenWindows'
    OBVIOUS
<1>. USE DEF IInv
<1>0. run \in [Runs -> RunRecords]
    BY DEF TypeOK, RunRecords
<1>1. CASE \A i \in Runs : ~Launch(i)
  <2>1. \A j \in Runs : Kept(j)
      BY <1>1, RunStep
  <2>2. \A j \in Runs : \A time \in Nat : time < run[j].windowStart => time <= now
      BY <1>0 DEF TypeOK, RunRecords
  <2>3. now' \in Nat /\ now \in Nat
      BY TypeStep DEF TypeOK
  <2>. QED BY <2>1, <2>2, <2>3 DEF Kept, NoGapBetweenWindows, WithinWindow
<1>2. ASSUME NEW i \in Runs, Launch(i) PROVE NoGapBetweenWindows'
  <2>0. now \in Nat /\ now' = now
      BY <1>2 DEF Launch, rowVars, TypeOK
  <2>1. PICK start \in IF \E l \in Runs : Registered(l)
                        THEN {NextWindowStart(l) : l \in {j \in Runs : Latest(j)}} ELSE {0} :
           run' = [run EXCEPT ![i] = [NoRun EXCEPT !.stage = "launched", !.windowStart = start,
                                                   !.runStart = now]]
      BY <1>2 DEF Launch
  <2>2. run[i].stage = "none" /\ run[i].success = "absent"
      BY <1>2 DEF Launch, RowInv
  <2>3. \A j \in Runs : j # i => run'[j] = run[j]
      BY <1>0, <2>1
  <2>4. run'[i].windowStart = start
      BY <1>0, <2>1 DEF NoRun
  <2>5. \A j \in Runs : Done(j) => j # i
      BY <2>2 DEF Done
  <2>6. ASSUME NEW time \in 1..now, NEW j \in Runs, Done(j) /\ WithinWindow(time, j)
        PROVE  (Done(j) /\ WithinWindow(time, j))'
      BY <2>3, <2>5, <2>6 DEF Done, WithinWindow
  <2>7. ASSUME NEW time \in 1..now, time < start
        PROVE  \E j \in Runs : Done(j) /\ WithinWindow(time, j)
    <3>1. PICK l \in Runs : Registered(l) /\ start = NextWindowStart(l)
        BY <2>1, <2>7, <2>0 DEF Latest
    <3>2. run[l].stage # "none"
        BY <3>1 DEF Registered, RowInv
    <3>3. CASE time < run[l].windowStart
        BY <3>2, <3>3 DEF NoGapBetweenWindows
    <3>4. CASE run[l].windowStart <= time
      <4>1. run[l].runStart \in Nat /\ run[l].windowStart \in Nat
          BY <1>0 DEF RunRecords
      <4>2. Done(l) /\ start = Formatted(run[l].runStart)
          BY <2>7, <3>1, <3>4, <4>1, <2>0 DEF NextWindowStart, Done
      <4>3. time < run[l].runStart
          BY <2>7, <4>1, <4>2, FormattedBounds, <2>0
      <4>. QED BY <3>4, <4>2, <4>3 DEF WithinWindow
    <3>5. run[l].windowStart \in Nat
        BY <1>0 DEF RunRecords
    <3>. QED BY <3>3, <3>4, <3>5, <2>0
  <2>8. ASSUME NEW k \in Runs, NEW time \in 1..now,
               run'[k].stage # "none", time < run'[k].windowStart
        PROVE  \E j \in Runs : (Done(j) /\ WithinWindow(time, j))'
    <3>1. \E j \in Runs : Done(j) /\ WithinWindow(time, j)
      <4>1. CASE k = i
          BY <2>4, <2>7, <2>8, <4>1
      <4>2. CASE k # i
          BY <2>3, <2>8, <4>2 DEF NoGapBetweenWindows
      <4>. QED BY <4>1, <4>2
    <3>. QED BY <2>6, <3>1
  <2>. QED BY <2>0, <2>8 DEF NoGapBetweenWindows
<1>. QED BY <1>1, <1>2

LEMMA Invariant == Spec => []IInv
<1>1. Init => IInv
  <2>1. Init => NoGapBetweenWindows
      BY DEF Init, NoRun, NoGapBetweenWindows
  <2>. QED BY <2>1, TypeInit DEF IInv
<1>2. IInv /\ [Next]_vars => IInv'
    BY TypeStep, RowStep, NoGapStep DEF IInv
<1>. QED BY <1>1, <1>2, PTL DEF Spec

(* Every reachable state has its type; no window ends before it starts or   *)
(* reaches into the future (Siirtotiedosto, SiirtotiedostoApp.main).        *)
THEOREM TypeCorrect == Spec => []TypeOK
<1>1. IInv => TypeOK
    BY DEF IInv
<1>. QED BY <1>1, Invariant, PTL

(* However many runs fail, crash or overlap, the windows of the runs that   *)
(* succeeded cover every moment before the window of any run: retrying from *)
(* the start of the latest window loses nothing (SiirtotiedostoApp.main).   *)
THEOREM WindowsLeaveNoGap == Spec => []NoGapBetweenWindows
<1>1. IInv => NoGapBetweenWindows
    BY DEF IInv
<1>. QED BY <1>1, Invariant, PTL
=============================================================================
