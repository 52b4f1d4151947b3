------------------------------ MODULE SivutusProofs -----------------------------
(***************************************************************************)
(* For any rows, runs and saves and any page size, and whatever order each *)
(* page takes the rows in: a run that nobody disturbs can miss a row of    *)
(* its window only by storing another one twice.                           *)
(***************************************************************************)
EXTENDS SiirtotiedostoProofs

(* The rows due that were committed before the run was launched *)
Early(i, table) == {row \in Due(i, table) : i \notin late[row]}

Held(i, table) == run[i].stored \cap Of[table]

(* The run's counter of the table *)
CountOf(i, table) == CASE table = "entities"      -> run[i].offset
                       [] table = "oppilaitokset" -> run[i].olSize
                       [] table = "osat"          -> run[i].osaSize

(* Nothing is missing, unless the counter counts some row twice. *)
Full(i, table) == CountOf(i, table) = Cardinality(Held(i, table)) => Early(i, table) \subseteq run[i].stored

(* The run asks for the table no more. *)
Passed(i, table) ==
    \/ run[i].stage = "read" \/ Done(i)
    \/ /\ run[i].stage = "oppilaitokset"
       /\ \/ table = "entities"
          \/ table = "oppilaitokset" /\ "oppilaitos" \notin run[i].queried

IsDue(i, row) == modified[row] # 0 /\ WithinWindow(modified[row], i)

(* What is stored is what is due until somebody disturbs the run, and in    *)
(* the version that was due; while oppilaitokset are asked for, no osat are. *)
StoredInv(i) ==
    /\ run[i].stage \in Reading /\ ~run[i].disturbed => \A row \in run[i].stored : IsDue(i, row)
    /\ \A row \in run[i].stored : IsDue(i, row) /\ i \notin late[row] => exported[row] = modified[row]
    /\ "oppilaitos" \in run[i].queried => run[i].osaSize = 0
    /\ run[i].stage \in {"launched", "entities"} => run[i].queried = Both

FullInv(i) == ~run[i].disturbed => \A table \in Tables : Passed(i, table) => Full(i, table)

CInv == \A i \in Runs : StoredInv(i) /\ FullInv(i)

-----------------------------------------------------------------------------
(* Counting *)

LEMMA TablesOfRows ==
    /\ \A table \in Tables : Of[table] \in SUBSET Rows
    /\ \A row \in Rows : \E table \in Tables : row \in Of[table]
BY DEF Tables, Of, Rows

(* A run whose files hold nothing but due rows, as many as are due by its   *)
(* own count, holds them all.                                               *)
LEMMA AllHeld ==
    ASSUME NEW i, NEW table \in Tables, NEW held \in SUBSET Due(i, table), NEW count,
           count = Cardinality(held), Cardinality(Due(i, table)) <= count
    PROVE  Early(i, table) \subseteq held
<1>1. Due(i, table) \in SUBSET Rows
    BY TablesOfRows DEF Due
<1>2. IsFiniteSet(Due(i, table)) /\ Cardinality(Due(i, table)) \in Nat /\ Cardinality(held) \in Nat
    BY <1>1, RowsFinite
<1>3. Cardinality(held) <= Cardinality(Due(i, table))
    BY <1>2, FS_Subset
<1>4. Cardinality(held) = Cardinality(Due(i, table))
    BY <1>2, <1>3
<1>5. held = Due(i, table)
    BY <1>2, <1>4, FS_Subset
<1>. QED BY <1>5 DEF Early

LEMMA HeldAreDue ==
    ASSUME TypeOK, NEW i \in Runs, NEW table \in Tables, StoredInv(i),
           run[i].stage \in Reading, ~run[i].disturbed
    PROVE  Held(i, table) \in SUBSET Due(i, table)
BY DEF StoredInv, IsDue, Held, Due

-----------------------------------------------------------------------------
(* What a step leaves alone *)

(* Of a step that saves no row, a run notices only what it does itself. *)
LEMMA KeptUp ==
    ASSUME TypeOK, modified' = modified, late' = late,
           \A row \in Rows : exported'[row] \in {exported[row], modified[row]},
           NEW i \in Runs, StoredInv(i), FullInv(i),
           run'[i].stored = run[i].stored, run'[i].offset = run[i].offset,
           run'[i].olSize = run[i].olSize, run'[i].osaSize = run[i].osaSize,
           run'[i].queried = run[i].queried, run'[i].disturbed = run[i].disturbed,
           run'[i].windowStart = run[i].windowStart, run'[i].runStart = run[i].runStart,
           run'[i].stage \in Reading => run[i].stage \in Reading,
           run'[i].stage \in {"launched", "entities"} => run[i].stage \in {"launched", "entities"},
           \A table \in Tables : Passed(i, table)' => Passed(i, table)
    PROVE  StoredInv(i)' /\ FullInv(i)'
<1>1. \A row : IsDue(i, row)' <=> IsDue(i, row)
    BY DEF IsDue, WithinWindow
<1>2. \A row \in run[i].stored : row \in Rows
    BY DEF TypeOK
<1>3. StoredInv(i)'
    BY <1>1, <1>2 DEF StoredInv
<1>4. \A table \in Tables : Full(i, table) => Full(i, table)'
    BY DEF Full, CountOf, Held, Early, Due, WithinWindow
<1>. QED BY <1>3, <1>4 DEF FullInv

LEMMA StoreExports ==
    ASSUME NEW rows, Store(rows)
    PROVE  \A row \in Rows : /\ exported'[row] \in {exported[row], modified[row]}
                             /\ row \in rows => exported'[row] = modified[row]
BY DEF Store

LEMMA CoverIdle ==
    ASSUME TypeOK, CInv, UNCHANGED <<modified, late, run, exported>>
    PROVE  CInv'
<1>. SUFFICES ASSUME NEW i \in Runs PROVE StoredInv(i)' /\ FullInv(i)'
    BY DEF CInv
<1>1. \A table \in Tables : Passed(i, table)' => Passed(i, table)
    BY DEF Passed, Done
<1>2. StoredInv(i) /\ FullInv(i)
    BY DEF CInv
<1>. QED BY <1>1, <1>2, KeptUp

(* A step of one run: the others are as they were. *)
LEMMA CoverOthers ==
    ASSUME TypeOK, CInv, UNCHANGED rowVars,
           \A row \in Rows : exported'[row] \in {exported[row], modified[row]},
           NEW i \in Runs, \A j \in Runs \ {i} : run'[j] = run[j],
           StoredInv(i)', FullInv(i)'
    PROVE  CInv'
<1>. SUFFICES ASSUME NEW j \in Runs, j # i PROVE StoredInv(j)' /\ FullInv(j)'
    BY DEF CInv
<1>1. run'[j] = run[j]
    OBVIOUS
<1>2. \A table \in Tables : Passed(j, table)' => Passed(j, table)
    BY <1>1 DEF Passed, Done
<1>3. StoredInv(j) /\ FullInv(j) /\ modified' = modified /\ late' = late
    BY DEF CInv, rowVars
<1>. QED BY <1>1, <1>2, <1>3, KeptUp

-----------------------------------------------------------------------------
(* The steps *)

LEMMA CoverInit == Init => CInv
BY DEF Init, CInv, NoRun, StoredInv, FullInv, Passed, Done, Reading

(* A row saved while the run reads leaves the window and disturbs the run,  *)
(* or was not in it; one that comes into the window is late.                *)
LEMMA CoverCommit ==
    ASSUME TypeOK, CInv, NEW row \in Rows, CommitSave(row)
    PROVE  CInv'
<1>. SUFFICES ASSUME NEW i \in Runs PROVE StoredInv(i)' /\ FullInv(i)'
    BY DEF CInv
<1>1. StoredInv(i) /\ FullInv(i) /\ run[i] \in RunRecords
    BY DEF CInv, TypeOK, RunRecords
<1>2. /\ run'[i] = run[i] \/ run'[i] = [run[i] EXCEPT !.disturbed = TRUE]
      /\ run[i].stage \in Reading /\ IsDue(i, row) => run'[i] = [run[i] EXCEPT !.disturbed = TRUE]
    BY DEF CommitSave, IsDue
<1>3. /\ run'[i].stage = run[i].stage /\ run'[i].success = run[i].success
      /\ run'[i].windowStart = run[i].windowStart /\ run'[i].runStart = run[i].runStart
      /\ run'[i].offset = run[i].offset /\ run'[i].olSize = run[i].olSize
      /\ run'[i].osaSize = run[i].osaSize /\ run'[i].queried = run[i].queried
      /\ run'[i].stored = run[i].stored
      /\ ~run'[i].disturbed => ~run[i].disturbed
      /\ ~run'[i].disturbed /\ run[i].stage \in Reading => ~IsDue(i, row)
    BY <1>1, <1>2 DEF RunRecords
<1>4. /\ modified' = [modified EXCEPT ![row] = saving[row]] /\ exported' = exported
      /\ late' = [late EXCEPT ![row] = {j \in Runs : WithinWindow(saving[row], j)}]
    BY DEF CommitSave
<1>5. \A other \in Rows \ {row} : /\ IsDue(i, other)' <=> IsDue(i, other)
                                  /\ late'[other] = late[other] /\ modified'[other] = modified[other]
    BY <1>3, <1>4 DEF IsDue, WithinWindow, TypeOK
<1>6. IsDue(i, row)' => i \in late'[row]
    BY <1>3, <1>4 DEF IsDue, WithinWindow, TypeOK
<1>7. run[i].stored \in SUBSET Rows
    BY <1>1 DEF RunRecords
<1>8. StoredInv(i)'
    BY <1>1, <1>3, <1>4, <1>5, <1>6, <1>7 DEF StoredInv
<1>9. ASSUME NEW table \in Tables, Full(i, table) PROVE Full(i, table)'
  <2>1. Early(i, table)' \subseteq Early(i, table)
    <3>. SUFFICES ASSUME NEW other \in Of[table], IsDue(i, other)', i \notin late'[other]
                  PROVE  IsDue(i, other) /\ i \notin late[other]
        BY DEF Early, Due, IsDue
    <3>1. other # row /\ other \in Rows
        BY <1>6, TablesOfRows
    <3>. QED BY <1>5, <3>1
  <2>. QED BY <1>3, <1>9, <2>1 DEF Full, CountOf, Held
<1>10. FullInv(i)'
  <2>1. \A table \in Tables : Passed(i, table)' => Passed(i, table)
      BY <1>3 DEF Passed, Done
  <2>. QED BY <1>1, <1>3, <1>9, <2>1 DEF FullInv
<1>. QED BY <1>8, <1>10

LEMMA CoverLaunch ==
    ASSUME TypeOK, CInv, NEW i \in Runs, Launch(i)
    PROVE  CInv'
<1>1. PICK start : run' = [run EXCEPT ![i] = [NoRun EXCEPT !.stage = "launched",
                              !.windowStart = start, !.runStart = now]]
    BY DEF Launch
<1>2. /\ run'[i].stage = "launched" /\ run'[i].success = "absent" /\ run'[i].stored = {}
      /\ run'[i].osaSize = 0 /\ run'[i].queried = Both
    BY <1>1 DEF NoRun, TypeOK
<1>3. StoredInv(i)' /\ FullInv(i)'
    BY <1>2 DEF StoredInv, FullInv, Passed, Done
<1>4. UNCHANGED rowVars /\ exported' = exported /\ \A j \in Runs \ {i} : run'[j] = run[j]
    BY <1>1 DEF Launch, TypeOK
<1>. QED BY <1>3, <1>4, CoverOthers

(* Registering and ending a run read nothing. *)
LEMMA CoverOutcome ==
    ASSUME TypeOK, RowInv, CInv, NEW i \in Runs, Register(i) \/ Finish(i) \/ Fail(i) \/ Crash(i)
    PROVE  CInv'
<1>1. run[i] \in RunRecords /\ StoredInv(i) /\ FullInv(i)
    BY DEF CInv, TypeOK, RunRecords
<1>2. UNCHANGED rowVars /\ exported' = exported /\ \A j \in Runs \ {i} : run'[j] = run[j]
  <2>. PICK r : run' = [run EXCEPT ![i] = r]
    <3>1. CASE Register(i)
        BY <3>1 DEF Register
    <3>2. CASE Finish(i)
        BY <3>2 DEF Finish
    <3>3. CASE Fail(i)
        BY <3>3 DEF Fail
    <3>4. CASE Crash(i)
        BY <3>4 DEF Crash
    <3>. QED BY <3>1, <3>2, <3>3, <3>4
  <2>. QED BY DEF Register, Finish, Fail, Crash, TypeOK
<1>3. /\ run'[i].windowStart = run[i].windowStart /\ run'[i].runStart = run[i].runStart
      /\ run'[i].offset = run[i].offset /\ run'[i].olSize = run[i].olSize
      /\ run'[i].osaSize = run[i].osaSize /\ run'[i].queried = run[i].queried
      /\ run'[i].stored = run[i].stored /\ run'[i].disturbed = run[i].disturbed
      /\ run'[i].stage \in {"entities", "over"}
      /\ run'[i].stage = "entities" => run[i].stage = "launched"
  <2>1. run \in [Runs -> RunRecords]
      BY DEF TypeOK, RunRecords
  <2>2. CASE Register(i)
      BY <1>1, <2>1, <2>2 DEF Register, RunRecords, Reading
  <2>3. CASE Finish(i)
      BY <1>1, <2>1, <2>3 DEF Finish, RunRecords
  <2>4. CASE Fail(i)
      BY <1>1, <2>1, <2>4 DEF Fail, RunRecords
  <2>5. CASE Crash(i)
      BY <1>1, <2>1, <2>5 DEF Crash, RunRecords
  <2>. QED BY <2>2, <2>3, <2>4, <2>5
<1>4. Done(i)' => run[i].stage = "read"
    BY <1>1 DEF Register, Finish, Fail, Crash, TypeOK, RunRecords, RowInv, Done, Reading
<1>5. \A table \in Tables : Passed(i, table)' => Passed(i, table)
    BY <1>3, <1>4 DEF Passed
<1>6. /\ run'[i].stage \in Reading => run[i].stage \in Reading
      /\ run'[i].stage \in {"launched", "entities"} => run[i].stage \in {"launched", "entities"}
    BY <1>3 DEF Reading
<1>7. modified' = modified /\ late' = late
    BY <1>2 DEF rowVars
<1>8. StoredInv(i)' /\ FullInv(i)'
    BY <1>1, <1>2, <1>3, <1>5, <1>6, <1>7, KeptUp
<1>. QED BY <1>2, <1>8, CoverOthers

(* Storing rows that are due *)
LEMMA StoredMore ==
    ASSUME TypeOK, NEW i \in Runs, StoredInv(i), modified' = modified, late' = late,
           NEW rows \in SUBSET Rows, \A row \in rows : IsDue(i, row),
           \A row \in Rows : /\ exported'[row] \in {exported[row], modified[row]}
                             /\ row \in rows => exported'[row] = modified[row],
           run'[i].stored = run[i].stored \cup rows, run'[i].disturbed = run[i].disturbed,
           run'[i].windowStart = run[i].windowStart, run'[i].runStart = run[i].runStart,
           run[i].stage \in Reading,
           "oppilaitos" \in run'[i].queried => run'[i].osaSize = 0,
           run'[i].stage \in {"launched", "entities"} => run'[i].queried = Both
    PROVE  StoredInv(i)'
<1>1. \A row : IsDue(i, row)' <=> IsDue(i, row)
    BY DEF IsDue, WithinWindow
<1>2. \A row \in run[i].stored : row \in Rows
    BY DEF TypeOK
<1>3. ASSUME ~run[i].disturbed, NEW row \in run[i].stored \cup rows PROVE IsDue(i, row)'
    BY <1>1, <1>3 DEF StoredInv
<1>4. ASSUME NEW row \in run[i].stored \cup rows, IsDue(i, row)', i \notin late[row]
      PROVE  exported'[row] = modified[row]
  <2>0. row \in Rows /\ exported'[row] \in {exported[row], modified[row]}
        /\ (row \in rows => exported'[row] = modified[row])
      BY <1>2
  <2>1. CASE row \in rows
      BY <2>0, <2>1
  <2>2. CASE row \in run[i].stored
    <3>1. exported[row] = modified[row]
        BY <1>1, <1>4, <2>2 DEF StoredInv
    <3>. QED BY <2>0, <3>1
  <2>. QED BY <2>1, <2>2
<1>. QED BY <1>3, <1>4 DEF StoredInv

(* A page of entities: when one comes empty, as many rows are due as have   *)
(* been stored.                                                             *)
LEMMA CoverEntities ==
    ASSUME TypeOK, RowInv, CInv, NEW i \in Runs, PageEntities(i)
    PROVE  CInv'
<1>1. run \in [Runs -> RunRecords] /\ run[i] \in RunRecords /\ StoredInv(i) /\ FullInv(i)
    BY DEF CInv, TypeOK, RunRecords
<1>2. PICK rows \in SUBSET Rows :
         /\ rows \in Pages(i, "entities", MaxItems, run[i].offset)
         /\ Store(rows) /\ run' = [run EXCEPT ![i] = EntitiesRead(i, rows)]
    BY EntitiesStep
<1>3. run[i].stage = "entities" /\ UNCHANGED rowVars /\ ~Done(i)
    BY DEF PageEntities, RowInv, Done
<1>4. /\ \A row \in Rows : /\ exported'[row] \in {exported[row], modified[row]}
                           /\ row \in rows => exported'[row] = modified[row]
      /\ \A j \in Runs \ {i} : run'[j] = run[j]
      /\ run'[i] = EntitiesRead(i, rows) /\ modified' = modified /\ late' = late
    BY <1>1, <1>2, <1>3, StoreExports DEF rowVars
<1>5. /\ rows \in SUBSET Due(i, "entities")
      /\ Cardinality(rows) < MaxItems
           => Cardinality(Due(i, "entities")) <= run[i].offset + Cardinality(rows)
  <2>. DEFINE offset == run[i].offset
  <2>1. offset \in Nat /\ MaxItems \in Nat /\ "entities" \in Tables
      BY <1>1, TimeAssumption DEF Tables, RunRecords
  <2>2. rows \in Pages(i, "entities", MaxItems, offset)
      BY <1>2
  <2>. HIDE DEF offset
  <2>3. /\ rows \in SUBSET Due(i, "entities")
        /\ Cardinality(rows) < MaxItems
             => Cardinality(Due(i, "entities")) <= offset + Cardinality(rows)
      BY <2>1, <2>2, PagesBounded
  <2>. QED BY <2>3 DEF offset
<1>6. CASE rows = {}
  <2>1. run'[i] = [run[i] EXCEPT !.stage = "oppilaitokset"]
      BY <1>4, <1>6 DEF EntitiesRead
  <2>2. /\ run'[i].stage = "oppilaitokset" /\ run'[i].success = run[i].success
        /\ run'[i].windowStart = run[i].windowStart /\ run'[i].runStart = run[i].runStart
        /\ run'[i].offset = run[i].offset /\ run'[i].osaSize = run[i].osaSize
        /\ run'[i].queried = run[i].queried /\ run'[i].stored = run[i].stored
        /\ run'[i].disturbed = run[i].disturbed
      BY <1>1, <2>1 DEF RunRecords
  <2>3. \A row : IsDue(i, row)' <=> IsDue(i, row)
      BY <1>4, <2>2 DEF IsDue, WithinWindow
  <2>4. StoredInv(i)'
      BY <1>1, <1>3, <1>4, <2>2, <2>3 DEF StoredInv, RunRecords, Reading
  <2>5. ASSUME ~run[i].disturbed PROVE Full(i, "entities")'
    <3>1. Held(i, "entities") \in SUBSET Due(i, "entities")
        BY <1>1, <1>3, <2>5, HeldAreDue DEF Tables, Reading
    <3>2. Cardinality(Due(i, "entities")) <= run[i].offset
        BY <1>1, <1>5, <1>6, TimeAssumption, FS_EmptySet DEF RunRecords
    <3>3. run[i].offset = Cardinality(Held(i, "entities")) => Early(i, "entities") \subseteq Held(i, "entities")
        BY <3>1, <3>2, AllHeld DEF Tables
    <3>4. Early(i, "entities")' = Early(i, "entities") /\ Held(i, "entities")' = Held(i, "entities")
        BY <1>4, <2>2, <2>3 DEF Early, Due, IsDue, Held
    <3>. QED BY <2>2, <3>3, <3>4 DEF Full, CountOf, Held
  <2>6. \A table \in Tables : Passed(i, table)' => table = "entities"
      BY <1>1, <1>3, <2>2 DEF Passed, StoredInv, Both, Done
  <2>7. FullInv(i)'
      BY <2>2, <2>5, <2>6 DEF FullInv
  <2>. QED BY <1>3, <1>4, <2>4, <2>7, CoverOthers
<1>7. CASE rows # {}
  <2>1. run'[i] = [run[i] EXCEPT !.offset = @ + Cardinality(rows), !.stored = @ \cup rows]
      BY <1>4, <1>7 DEF EntitiesRead
  <2>2. /\ run'[i].stage = "entities" /\ run'[i].success = run[i].success
        /\ run'[i].windowStart = run[i].windowStart /\ run'[i].runStart = run[i].runStart
        /\ run'[i].osaSize = run[i].osaSize /\ run'[i].queried = run[i].queried
        /\ run'[i].stored = run[i].stored \cup rows
        /\ run'[i].disturbed = run[i].disturbed
      BY <1>1, <1>3, <2>1 DEF RunRecords
  <2>3. StoredInv(i)'
    <3>1. \A row \in rows : IsDue(i, row)
        BY <1>5 DEF Due, IsDue
    <3>2. /\ "oppilaitos" \in run[i].queried => run[i].osaSize = 0
          /\ run[i].queried = Both /\ run[i].stage \in Reading
        BY <1>1, <1>3 DEF StoredInv, Reading
    <3>. QED BY <1>1, <1>4, <2>2, <3>1, <3>2, StoredMore
  <2>4. FullInv(i)'
      BY <1>3, <2>2 DEF FullInv, Passed, Done
  <2>. QED BY <1>3, <1>4, <2>3, <2>4, CoverOthers
<1>. QED BY <1>6, <1>7

(* A page of oppilaitokset and osat.  The oppilaitokset are asked for until *)
(* osat come, which they do only when the oppilaitokset leave room, so that *)
(* there are no more of them; an empty page ends both.                      *)
LEMMA CoverOppilaitokset ==
    ASSUME TypeOK, RowInv, CInv, NEW i \in Runs, PageOppilaitokset(i)
    PROVE  CInv'
<1>1. run \in [Runs -> RunRecords] /\ run[i] \in RunRecords /\ StoredInv(i) /\ FullInv(i)
    BY DEF CInv, TypeOK, RunRecords
<1>2. PICK ol, osat \in SUBSET Rows :
         /\ ol \in OlPages(i) /\ osat \in OsaPages(i, ol)
         /\ Store(ol \cup osat) /\ run' = [run EXCEPT ![i] = OppilaitoksetRead(i, ol, osat)]
    BY OppilaitoksetStep
<1> DEFINE rows == ol \cup osat
<1>3. run[i].stage = "oppilaitokset" /\ UNCHANGED rowVars /\ ~Done(i)
    BY DEF PageOppilaitokset, RowInv, Done
<1>4. /\ \A row \in Rows : /\ exported'[row] \in {exported[row], modified[row]}
                           /\ row \in rows => exported'[row] = modified[row]
      /\ \A j \in Runs \ {i} : run'[j] = run[j]
      /\ run'[i] = OppilaitoksetRead(i, ol, osat) /\ modified' = modified /\ late' = late
    BY <1>1, <1>2, <1>3, StoreExports DEF rowVars
<1>5. /\ ol \in SUBSET Due(i, "oppilaitokset") /\ osat \in SUBSET Due(i, "osat")
      /\ Cardinality(ol) \in Nat /\ Cardinality(osat) \in Nat
      /\ "oppilaitos" \notin run[i].queried => ol = {}
      /\ "oppilaitos" \in run[i].queried =>
           /\ Cardinality(ol) + Cardinality(osat) <= MaxItems
           /\ Cardinality(ol) < MaxItems
                => Cardinality(Due(i, "oppilaitokset")) <= run[i].olSize + Cardinality(ol)
      /\ "oppilaitos" \notin run[i].queried /\ Cardinality(osat) < MaxItems
           => Cardinality(Due(i, "osat")) <= run[i].osaSize + Cardinality(osat)
      /\ "oppilaitos" \in run[i].queried /\ Cardinality(ol) + Cardinality(osat) < MaxItems
           => Cardinality(Due(i, "osat")) <= Cardinality(osat)
    BY <1>2, PairBounded
<1>6. /\ "oppilaitokset" \in Tables /\ "osat" \in Tables /\ "entities" \in Tables
      /\ MaxItems \in Nat /\ MaxItems > 0 /\ run[i].olSize \in Nat /\ run[i].osaSize \in Nat
    BY <1>1, TimeAssumption DEF Tables, RunRecords
<1>7. ASSUME ~run[i].disturbed
      PROVE  \A table \in Tables : Held(i, table) \in SUBSET Due(i, table)
    BY <1>1, <1>3, <1>7, HeldAreDue DEF Reading
<1>8. CASE rows = {}
  <2>1. run'[i] = [run[i] EXCEPT !.stage = "read"]
      BY <1>4, <1>8 DEF OppilaitoksetRead
  <2>2. /\ run'[i].stage = "read" /\ run'[i].success = run[i].success
        /\ run'[i].windowStart = run[i].windowStart /\ run'[i].runStart = run[i].runStart
        /\ run'[i].offset = run[i].offset /\ run'[i].olSize = run[i].olSize
        /\ run'[i].osaSize = run[i].osaSize
        /\ run'[i].queried = run[i].queried /\ run'[i].stored = run[i].stored
        /\ run'[i].disturbed = run[i].disturbed
      BY <1>1, <2>1 DEF RunRecords
  <2>3. \A row : IsDue(i, row)' <=> IsDue(i, row)
      BY <1>4, <2>2 DEF IsDue, WithinWindow
  <2>4. StoredInv(i)'
      BY <1>1, <1>3, <1>4, <2>2, <2>3 DEF StoredInv, RunRecords, Reading
  <2>5. ASSUME ~run[i].disturbed PROVE \A table \in Tables : Full(i, table)
    <3>1. Cardinality(ol) = 0 /\ Cardinality(osat) = 0
        BY <1>8, FS_EmptySet
    <3>2. Full(i, "entities")
        BY <1>1, <1>3, <1>6, <2>5 DEF FullInv, Passed
    <3>3. Full(i, "oppilaitokset")
      <4>1. CASE "oppilaitos" \in run[i].queried
        <5>1. Cardinality(Due(i, "oppilaitokset")) <= run[i].olSize
            BY <1>5, <1>6, <3>1, <4>1
        <5>. QED BY <1>6, <1>7, <2>5, <5>1, AllHeld DEF Full, CountOf, Held
      <4>2. CASE "oppilaitos" \notin run[i].queried
          BY <1>1, <1>3, <1>6, <2>5, <4>2 DEF FullInv, Passed
      <4>. QED BY <4>1, <4>2
    <3>4. Full(i, "osat")
      <4>1. Cardinality(Due(i, "osat")) <= run[i].osaSize
          BY <1>1, <1>5, <1>6, <3>1 DEF StoredInv
      <4>. QED BY <1>6, <1>7, <2>5, <4>1, AllHeld DEF Full, CountOf, Held
    <3>. QED BY <3>2, <3>3, <3>4 DEF Tables
  <2>6. \A table \in Tables : Full(i, table) => Full(i, table)'
      BY <1>4, <2>2 DEF Full, CountOf, Held, Early, Due, WithinWindow
  <2>7. FullInv(i)'
      BY <2>2, <2>5, <2>6 DEF FullInv
  <2>. QED BY <1>3, <1>4, <2>4, <2>7, CoverOthers
<1>9. CASE rows # {}
  <2> DEFINE n == run[i].olSize + Cardinality(ol)
             k == run[i].osaSize + Cardinality(osat)
             b == IF k > 0 THEN {"osa"} ELSE run[i].queried
  <2>1. run'[i] = [run[i] EXCEPT !.olSize = n, !.osaSize = k, !.queried = b,
                                 !.stored = @ \cup ol \cup osat]
      BY <1>4, <1>9 DEF OppilaitoksetRead
  <2>2. /\ run'[i].stage = "oppilaitokset" /\ run'[i].success = run[i].success
        /\ run'[i].windowStart = run[i].windowStart /\ run'[i].runStart = run[i].runStart
        /\ run'[i].offset = run[i].offset /\ run'[i].olSize = n /\ run'[i].osaSize = k
        /\ run'[i].queried = b /\ run'[i].stored = run[i].stored \cup rows
        /\ run'[i].disturbed = run[i].disturbed
    <3>. HIDE DEF n, k, b
    <3>. QED BY <1>1, <1>3, <2>1 DEF RunRecords
  <2>3. \A table \in Tables : Early(i, table)' = Early(i, table)
      BY <1>4, <2>2 DEF Early, Due, WithinWindow
  <2>4. StoredInv(i)'
    <3>1. "oppilaitos" \in b => k = 0 /\ "oppilaitos" \in run[i].queried
        BY <1>5, <1>6
    <3>2. \A row \in rows : IsDue(i, row)
        BY <1>5 DEF Due, IsDue
    <3>3. rows \in SUBSET Rows
        BY <1>2
    <3>4. /\ "oppilaitos" \in run'[i].queried => run'[i].osaSize = 0
          /\ run[i].stage \in Reading /\ run'[i].stage \notin {"launched", "entities"}
        BY <1>3, <2>2, <3>1 DEF Reading
    <3>. HIDE DEF n, k, b, rows
    <3>. QED BY <1>1, <1>4, <2>2, <3>2, <3>3, <3>4, StoredMore
  <2>5. ASSUME ~run[i].disturbed PROVE Full(i, "entities")'
    <3>1. Full(i, "entities")
        BY <1>1, <1>3, <1>6, <2>5 DEF FullInv, Passed
    <3>2. Held(i, "entities")' = Held(i, "entities")
        BY <1>5, <2>2, RowsAssumption DEF Held, Due, Of
    <3>. QED BY <1>6, <2>2, <2>3, <3>1, <3>2 DEF Full, CountOf
  <2>6. ASSUME ~run[i].disturbed, "oppilaitos" \notin b PROVE Full(i, "oppilaitokset")'
    <3>1. Held(i, "oppilaitokset")' = Held(i, "oppilaitokset") \cup ol
        BY <1>5, <2>2, RowsAssumption DEF Held, Due, Of
    <3>2. CASE "oppilaitos" \notin run[i].queried
      <4>1. ol = {} /\ Cardinality(ol) = 0
          BY <1>5, <3>2, FS_EmptySet
      <4>2. Full(i, "oppilaitokset")
          BY <1>1, <1>3, <1>6, <2>6, <3>2 DEF FullInv, Passed
      <4>3. n = run[i].olSize
          BY <1>6, <4>1
      <4>. QED BY <1>6, <2>2, <2>3, <3>1, <4>1, <4>2, <4>3 DEF Full, CountOf
    <3>3. CASE "oppilaitos" \in run[i].queried
      <4>1. Cardinality(osat) > 0
          BY <1>1, <1>5, <1>6, <2>6, <3>3 DEF StoredInv
      <4>2. Cardinality(Due(i, "oppilaitokset")) <= n
          BY <1>5, <1>6, <3>3, <4>1
      <4>3. Held(i, "oppilaitokset") \cup ol \in SUBSET Due(i, "oppilaitokset")
          BY <1>5, <1>6, <1>7, <2>6
      <4>4. n = Cardinality(Held(i, "oppilaitokset") \cup ol)
               => Early(i, "oppilaitokset") \subseteq Held(i, "oppilaitokset") \cup ol
        <5>. HIDE DEF n
        <5>. QED BY <1>6, <4>2, <4>3, AllHeld
      <4>5. Held(i, "oppilaitokset") \cup ol \subseteq run'[i].stored
          BY <2>2 DEF Held
      <4>6. CountOf(i, "oppilaitokset")' = n
          BY <2>2 DEF CountOf
      <4>. HIDE DEF n
      <4>. QED BY <1>6, <2>3, <3>1, <4>4, <4>5, <4>6 DEF Full
    <3>. QED BY <3>2, <3>3
  <2>7. FullInv(i)'
      BY <1>3, <2>2, <2>5, <2>6 DEF FullInv, Passed, Done
  <2>. QED BY <1>3, <1>4, <2>4, <2>7, CoverOthers
<1>. QED BY <1>8, <1>9

LEMMA CoverNext == TypeOK /\ RowInv /\ CInv /\ [Next]_vars => CInv'
<1>. SUFFICES ASSUME TypeOK, RowInv, CInv, [Next]_vars PROVE CInv'
    OBVIOUS
<1>1. ASSUME NEW row \in Rows, BeginSave(row) PROVE CInv'
    BY <1>1, CoverIdle DEF BeginSave
<1>2. ASSUME NEW row \in Rows, CommitSave(row) PROVE CInv'
    BY <1>2, CoverCommit
<1>3. ASSUME NEW i \in Runs, Launch(i) PROVE CInv'
    BY <1>3, CoverLaunch
<1>4. ASSUME NEW i \in Runs, Register(i) \/ Finish(i) \/ Fail(i) \/ Crash(i) PROVE CInv'
    BY <1>4, CoverOutcome
<1>5. ASSUME NEW i \in Runs, PageEntities(i) PROVE CInv'
    BY <1>5, CoverEntities
<1>6. ASSUME NEW i \in Runs, PageOppilaitokset(i) PROVE CInv'
    BY <1>6, CoverOppilaitokset
<1>7. ASSUME Tick PROVE CInv'
    BY <1>7, CoverIdle DEF Tick
<1>8. ASSUME UNCHANGED vars PROVE CInv'
    BY <1>8, CoverIdle DEF vars
<1>. QED BY <1>1, <1>2, <1>3, <1>4, <1>5, <1>6, <1>7, <1>8 DEF Next

(* A run that succeeded, that no save disturbed and that has no row on two  *)
(* pages has exported all of its window that was committed before its       *)
(* launch, whatever the page size and whatever order each page takes the    *)
(* rows in (SiirtotiedostoService's paging).                                *)
THEOREM CalmRunsExportAll == Spec => []CalmRunExportsAll
<1>1. Init => CInv
    BY CoverInit
<1>2. IInv /\ CInv /\ [Next]_vars => CInv'
    BY CoverNext DEF IInv
<1>3. IInv /\ CInv => CalmRunExportsAll
  <2>. SUFFICES ASSUME IInv, CInv, NEW i \in Runs, NEW row \in Rows,
                       Done(i), ~run[i].disturbed, ~Repeated(i), i \notin late[row],
                       modified[row] # 0, WithinWindow(modified[row], i)
                PROVE  exported[row] = modified[row]
      BY DEF CalmRunExportsAll
  <2>1. PICK table \in Tables : row \in Of[table]
      BY TablesOfRows
  <2>2. Full(i, table) /\ StoredInv(i)
      BY DEF CInv, FullInv, Passed
  <2>3. CountOf(i, table) = Cardinality(Held(i, table))
    <3>1. CASE table = "entities"
        BY <3>1 DEF Repeated, CountOf, Held, Of
    <3>2. CASE table = "oppilaitokset"
        BY <3>2 DEF Repeated, CountOf, Held, Of
    <3>3. CASE table = "osat"
        BY <3>3 DEF Repeated, CountOf, Held, Of
    <3>. QED BY <3>1, <3>2, <3>3 DEF Tables
  <2>4. row \in run[i].stored
      BY <2>1, <2>2, <2>3 DEF Full, Early, Due
  <2>. QED BY <2>2, <2>4 DEF StoredInv, IsDue
<1>. QED BY <1>1, <1>2, <1>3, Invariant, PTL DEF Spec

(* From change to file, over any number of runs that fail, die or overlap:  *)
(* a change is missing for good only when its transaction straddled the     *)
(* launch of a run, a save disturbed the run, or the run's pages have some  *)
(* row twice (SiirtotiedostoApp.main).                                      *)
THEOREM ChangesAccountedFor == Spec => []NothingLeftBehind
<1>1. IInv /\ CalmRunExportsAll => NothingLeftBehind
  <2>. SUFFICES ASSUME IInv, CalmRunExportsAll, NEW row \in Rows, NEW i \in Runs,
                       modified[row] # 0, run[i].stage # "none",
                       modified[row] < run[i].windowStart
                PROVE  Accounted(row)
      BY DEF NothingLeftBehind
  <2>1. modified[row] \in 1..now
    <3>1. modified[row] \in Nat /\ now \in Nat
        BY DEF IInv, TypeOK
    <3>2. run[i].windowStart \in Nat /\ run[i].runStart \in Nat
        BY DEF IInv, TypeOK
    <3>3. run[i].windowStart <= run[i].runStart /\ run[i].runStart <= now
        BY DEF IInv, TypeOK
    <3>. QED BY <3>1, <3>2, <3>3
  <2>2. PICK j \in Runs : Done(j) /\ WithinWindow(modified[row], j)
      BY <2>1 DEF IInv, NoGapBetweenWindows
  <2>. QED BY <2>2 DEF Accounted, CalmRunExportsAll
<1>. QED BY <1>1, Invariant, CalmRunsExportAll, PTL
=============================================================================
