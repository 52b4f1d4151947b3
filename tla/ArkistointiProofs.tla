--------------------------- MODULE ArkistointiProofs ---------------------------
(***************************************************************************)
(* For any haut, hakukohteet and runs, and any number of days, saves and   *)
(* failures: the job archives by the schedule, leaves nothing published,   *)
(* and an archived haku missing from the index is accounted for.           *)
(***************************************************************************)
EXTENDS Arkistointi, TLAPS

HakuRecords == [tila : Tilat, ajastettu : Dates, kymmenenKk : Dates, ajettu : BOOLEAN]
RunRecords == [stage : Stages, haut : SUBSET Haut, hakukohteet : SUBSET Hakukohteet,
               touched : SUBSET (Haut \cup Hakukohteet), fresh : SUBSET Hakukohteet]

Owned(r) == \A k \in run[r].hakukohteet : run[r].stage # "announce" => HakuOf[k] \in run[r].haut

(* Until a run archives its haut, those still published that nobody has     *)
(* saved since it listed them are due.                                      *)
Listed(r) ==
    run[r].stage \in {"hakukohteet", "archive", "haut"} =>
        \A h \in run[r].haut : haku[h].tila = "julkaistu" => Archivable(h) \/ h \in run[r].touched

(* A published hakukohde of a listed haku is on the list of hakukohteet, or *)
(* was saved since; once the list is archived, only the latter.             *)
Left(r) ==
    /\ run[r].stage = "archive" =>
         \A k \in Hakukohteet : HakuOf[k] \in run[r].haut /\ hakukohde[k] = "julkaistu"
                                => k \in run[r].hakukohteet \cup run[r].fresh
    /\ run[r].stage = "haut" =>
         \A k \in Hakukohteet : HakuOf[k] \in run[r].haut /\ hakukohde[k] = "julkaistu"
                                => k \in run[r].fresh

IInv == TypeOK /\ (\A r \in Runs : Listed(r) /\ Left(r)) /\ IndexLagIsExplained

-----------------------------------------------------------------------------
(* Types *)

LEMMA IdleRecord == Idle \in RunRecords /\ Idle.hakukohteet = {} /\ Idle.stage = "idle"
BY DEF Idle, RunRecords, Stages

LEMMA TypeRecords ==
    ASSUME TypeOK
    PROVE  /\ haku \in [Haut -> HakuRecords] /\ run \in [Runs -> RunRecords]
           /\ hakukohde \in [Hakukohteet -> Tilat] /\ unindexed \in SUBSET Haut /\ lost \in SUBSET Haut
           /\ day \in Days /\ due \in BOOLEAN /\ edits \in Nat /\ stops \in Nat
           /\ \A r \in Runs : Owned(r)
BY DEF TypeOK, HakuRecords, RunRecords, Owned

LEMMA RecordsType ==
    ASSUME haku \in [Haut -> HakuRecords], run \in [Runs -> RunRecords],
           hakukohde \in [Hakukohteet -> Tilat], unindexed \in SUBSET Haut, lost \in SUBSET Haut,
           day \in Days, due \in BOOLEAN, edits \in Nat, stops \in Nat,
           \A r \in Runs : Owned(r)
    PROVE  TypeOK
BY DEF TypeOK, HakuRecords, RunRecords, Owned

(* A save by a person changes no run but what it has seen touched. *)
LEMMA TouchTypes ==
    ASSUME TypeOK, NEW what \in SUBSET (Haut \cup Hakukohteet), NEW hks \in SUBSET Hakukohteet,
           run' = Touch(what, hks)
    PROVE  /\ run' \in [Runs -> RunRecords]
           /\ \A r \in Runs : /\ run'[r].stage = run[r].stage /\ run'[r].haut = run[r].haut
                              /\ run'[r].hakukohteet = run[r].hakukohteet
                              /\ run[r].touched \subseteq run'[r].touched
                              /\ run[r].fresh \subseteq run'[r].fresh
                              /\ run[r].stage # "idle" => /\ what \subseteq run'[r].touched
                                                          /\ hks \subseteq run'[r].fresh
<1>. DEFINE t(r) == [run[r] EXCEPT !.touched = @ \cup what, !.fresh = @ \cup hks]
<1>0. run \in [Runs -> RunRecords]
    BY TypeRecords
<1>1. \A r \in Runs : run[r] \in RunRecords
    BY <1>0
<1>2. run' = [r \in Runs |-> IF run[r].stage = "idle" THEN run[r] ELSE t(r)]
    BY DEF Touch
<1>3. \A r \in Runs : /\ t(r) \in RunRecords /\ t(r).stage = run[r].stage /\ t(r).haut = run[r].haut
                      /\ t(r).hakukohteet = run[r].hakukohteet
                      /\ t(r).touched = run[r].touched \cup what /\ t(r).fresh = run[r].fresh \cup hks
    BY <1>1 DEF RunRecords
<1>. HIDE DEF t
<1>4. run' \in [Runs -> RunRecords]
    BY <1>1, <1>2, <1>3
<1>5. \A r \in Runs : run'[r] = IF run[r].stage = "idle" THEN run[r] ELSE t(r)
    BY <1>2
<1>. QED BY <1>3, <1>4, <1>5

LEMMA DaysAndDates == Days \subseteq Dates /\ None \in Dates /\ Days \subseteq Nat /\ Dates \subseteq Nat
BY BoundsAssumption DEF Days, Dates, None

LEMMA TypeInit == Init => TypeOK
<1>. SUFFICES ASSUME Init PROVE TypeOK
    OBVIOUS
<1>1. haku \in [Haut -> HakuRecords]
  <2>1. \A a \in Scheduled, k \in Ended : Published(a, k) \in HakuRecords
      BY BoundsAssumption DEF Published, HakuRecords, Tilat
  <2>. QED BY <2>1 DEF Init
<1>2. run \in [Runs -> RunRecords] /\ \A r \in Runs : run[r] = Idle
    BY IdleRecord DEF Init
<1>3. \A r \in Runs : Owned(r)
    BY <1>2, IdleRecord DEF Owned
<1>4. /\ hakukohde \in [Hakukohteet -> Tilat] /\ unindexed \in SUBSET Haut /\ lost \in SUBSET Haut
      /\ day \in Days /\ due \in BOOLEAN /\ edits \in Nat /\ stops \in Nat
  <2>1. hakukohde \in [Hakukohteet -> Tilat]
      BY DEF Init, Tilat
  <2>2. day \in Days /\ edits \in Nat /\ stops \in Nat
      BY BoundsAssumption DEF Init, Days
  <2>. QED BY <2>1, <2>2 DEF Init
<1>. QED BY <1>1, <1>2, <1>3, <1>4, RecordsType
(* A step of one run. *)
LEMMA RunStepTypes ==
    ASSUME TypeOK, NEW r \in Runs, NEW new \in RunRecords, run' = [run EXCEPT ![r] = new],
           \A k \in new.hakukohteet : new.stage # "announce" => HakuOf[k] \in new.haut
    PROVE  /\ run' \in [Runs -> RunRecords] /\ run'[r] = new
           /\ \A q \in Runs : q # r => run'[q] = run[q]
           /\ (\A q \in Runs : Owned(q))'
<1>1. run \in [Runs -> RunRecords] /\ \A q \in Runs : Owned(q)
    BY TypeRecords
<1>2. run' \in [Runs -> RunRecords] /\ run'[r] = new /\ \A q \in Runs : q # r => run'[q] = run[q]
    BY <1>1
<1>3. ASSUME NEW q \in Runs PROVE Owned(q)'
    BY <1>1, <1>2 DEF Owned
<1>. QED BY <1>2, <1>3

-----------------------------------------------------------------------------
(* People and time *)

LEMMA SaveHakuStep ==
    ASSUME IInv, NEW h \in Haut, SaveHaku(h)
    PROVE  IInv'
<1>0. TypeOK /\ HakuOf \in [Hakukohteet -> Haut]
    BY HakuOfAssumption DEF IInv
<1>1. /\ run' \in [Runs -> RunRecords]
      /\ \A r \in Runs : /\ run'[r].stage = run[r].stage /\ run'[r].haut = run[r].haut
                         /\ run'[r].hakukohteet = run[r].hakukohteet
                         /\ run[r].touched \subseteq run'[r].touched
                         /\ run[r].fresh \subseteq run'[r].fresh
                         /\ run[r].stage # "idle" => h \in run'[r].touched
  <2>. DEFINE what == {h}  hks == {}
  <2>1. what \in SUBSET (Haut \cup Hakukohteet) /\ hks \in SUBSET Hakukohteet /\ h \in what
      OBVIOUS
  <2>2. run' = Touch(what, hks)
      BY DEF SaveHaku
  <2>. HIDE DEF what, hks
  <2>. QED BY <1>0, <2>1, <2>2, TouchTypes
<1>2. haku' \in [Haut -> HakuRecords] /\ \A g \in Haut : g # h => haku'[g] = haku[g]
  <2>1. PICK new : haku' = [haku EXCEPT ![h] = new] /\ new \in HakuRecords
    <3>1. PICK tila \in {haku[h].tila} \cup ValidStateChanges(haku[h].tila),
               a \in Scheduled, k \in Ended :
            LET saved == [haku[h] EXCEPT !.tila = tila, !.ajastettu = a, !.kymmenenKk = k] IN
            haku' = [haku EXCEPT ![h] =
              IF ShouldDeleteSchedulerTimestamp(saved) THEN [saved EXCEPT !.ajettu = FALSE] ELSE saved]
        BY DEF SaveHaku
    <3>2. haku[h] \in HakuRecords
        BY <1>0, TypeRecords
    <3>3. tila \in Tilat
        BY <3>1, <3>2 DEF ValidStateChanges, Tilat, HakuRecords
    <3>. DEFINE saved == [haku[h] EXCEPT !.tila = tila, !.ajastettu = a, !.kymmenenKk = k]
    <3>4. saved \in HakuRecords /\ [saved EXCEPT !.ajettu = FALSE] \in HakuRecords
        BY <3>1, <3>2, <3>3, BoundsAssumption DEF HakuRecords
    <3>5. haku' = [haku EXCEPT ![h] =
              IF ShouldDeleteSchedulerTimestamp(saved) THEN [saved EXCEPT !.ajettu = FALSE] ELSE saved]
        BY <3>1
    <3>. HIDE DEF saved
    <3>. QED BY <3>4, <3>5
  <2>. QED BY <1>0, <2>1, TypeRecords
<1>3. /\ UNCHANGED <<day, hakukohde, due, stops>> /\ edits' \in Nat
      /\ unindexed' = unindexed \ {h} /\ lost' = lost \ {h}
    BY <1>0 DEF SaveHaku, TypeOK
<1>4. \A r \in Runs : Owned(r)'
    BY <1>0, <1>1, TypeRecords DEF Owned
<1>5. TypeOK'
  <2>1. /\ hakukohde' \in [Hakukohteet -> Tilat] /\ unindexed' \in SUBSET Haut /\ lost' \in SUBSET Haut
        /\ day' \in Days /\ due' \in BOOLEAN /\ stops' \in Nat
      BY <1>0, <1>3, TypeRecords
  <2>. QED BY <1>1, <1>2, <1>3, <1>4, <2>1 DEF TypeOK, HakuRecords, RunRecords, Owned
<1>6. ASSUME NEW r \in Runs PROVE Listed(r)' /\ Left(r)'
  <2>1. Listed(r) /\ Left(r)
      BY DEF IInv
  <2>2. \A g \in Haut : g # h => Archivable(g)' = Archivable(g)
      BY <1>2, <1>3 DEF Archivable, DateReached
  <2>3. \A g \in run[r].haut : g \in Haut
      BY <1>0, TypeRecords DEF RunRecords
  <2>4. Listed(r)'
      BY <1>1, <1>2, <2>1, <2>2, <2>3 DEF Listed
  <2>. QED BY <1>1, <1>3, <2>1, <2>4 DEF Left
<1>7. IndexLagIsExplained'
    BY <1>1, <1>3 DEF IInv, IndexLagIsExplained, Runs
<1>. QED BY <1>5, <1>6, <1>7 DEF IInv
LEMMA SaveHakukohdeStep ==
    ASSUME IInv, NEW k \in Hakukohteet, SaveHakukohde(k)
    PROVE  IInv'
<1>0. TypeOK
    BY DEF IInv
<1>1. /\ run' \in [Runs -> RunRecords]
      /\ \A r \in Runs : /\ run'[r].stage = run[r].stage /\ run'[r].haut = run[r].haut
                         /\ run'[r].hakukohteet = run[r].hakukohteet
                         /\ run[r].touched \subseteq run'[r].touched
                         /\ run[r].fresh \subseteq run'[r].fresh
                         /\ run[r].stage # "idle" => k \in run'[r].fresh
  <2>. DEFINE what == {k}
  <2>1. what \in SUBSET (Haut \cup Hakukohteet) /\ what \in SUBSET Hakukohteet /\ k \in what
      OBVIOUS
  <2>2. run' = Touch(what, what)
      BY DEF SaveHakukohde
  <2>. HIDE DEF what
  <2>. QED BY <1>0, <2>1, <2>2, TouchTypes
<1>2. /\ hakukohde' \in [Hakukohteet -> Tilat]
      /\ \A j \in Hakukohteet : j # k => hakukohde'[j] = hakukohde[j]
  <2>1. PICK tila \in ValidStateChanges(hakukohde[k]) : hakukohde' = [hakukohde EXCEPT ![k] = tila]
      BY DEF SaveHakukohde
  <2>2. tila \in Tilat
      BY <1>0, <2>1, TypeRecords DEF ValidStateChanges, Tilat
  <2>. QED BY <1>0, <2>1, <2>2, TypeRecords
<1>3. UNCHANGED <<day, haku, due, unindexed, lost, stops>> /\ edits' \in Nat
    BY <1>0 DEF SaveHakukohde, TypeOK
<1>4. \A r \in Runs : Owned(r)'
    BY <1>0, <1>1, TypeRecords DEF Owned
<1>5. TypeOK'
    BY <1>0, <1>1, <1>2, <1>3, <1>4 DEF TypeOK, HakuRecords, RunRecords, Owned
<1>6. ASSUME NEW r \in Runs PROVE Listed(r)' /\ Left(r)'
  <2>1. Listed(r) /\ Left(r)
      BY DEF IInv
  <2>2. Listed(r)'
      BY <1>1, <1>3, <2>1 DEF Listed, Archivable, DateReached
  <2>3. Left(r)'
      BY <1>1, <1>2, <2>1 DEF Left
  <2>. QED BY <2>2, <2>3
<1>7. IndexLagIsExplained'
    BY <1>1, <1>3 DEF IInv, IndexLagIsExplained, Runs
<1>. QED BY <1>5, <1>6, <1>7 DEF IInv

(* A date reached stays reached. *)
LEMMA MidnightStep ==
    ASSUME IInv, Midnight
    PROVE  IInv'
<1>0. TypeOK
    BY DEF IInv
<1>1. UNCHANGED <<haku, hakukohde, run, unindexed, lost, edits, stops>> /\ due' \in BOOLEAN
    BY DEF Midnight
<1>2. day \in Nat /\ day' \in Days /\ day <= day'
    BY <1>0, BoundsAssumption DEF Midnight, TypeOK, Days
<1>3. TypeOK'
    BY <1>0, <1>1, <1>2 DEF TypeOK
<1>4. \A h \in Haut : Archivable(h) => Archivable(h)'
  <2>1. \A h \in Haut : haku[h].ajastettu \in Nat /\ haku[h].kymmenenKk \in Nat
      BY <1>0, TypeRecords, DaysAndDates DEF HakuRecords
  <2>2. day' \in Nat
      BY <1>2, DaysAndDates
  <2>. QED BY <1>1, <1>2, <2>1, <2>2 DEF Archivable, DateReached
<1>5. ASSUME NEW r \in Runs PROVE Listed(r)' /\ Left(r)'
  <2>1. Listed(r) /\ Left(r)
      BY DEF IInv
  <2>2. \A h \in run[r].haut : h \in Haut
      BY <1>0, TypeRecords DEF RunRecords
  <2>. QED BY <1>1, <1>4, <2>1, <2>2 DEF Listed, Left
<1>6. IndexLagIsExplained'
    BY <1>1 DEF IInv, IndexLagIsExplained
<1>. QED BY <1>3, <1>5, <1>6 DEF IInv

-----------------------------------------------------------------------------
(* The steps of a run *)

LEMMA ListHautStep ==
    ASSUME IInv, NEW r \in Runs, ListHaut(r)
    PROVE  IInv'
<1>0. TypeOK
    BY DEF IInv
<1>. DEFINE new == IF SelectArchivableHakuOids = {} THEN Idle
                   ELSE [Idle EXCEPT !.stage = "hakukohteet", !.haut = SelectArchivableHakuOids]
<1>1. UNCHANGED <<day, haku, hakukohde, unindexed, lost, edits, stops>> /\ due' \in BOOLEAN
    BY <1>0, TypeRecords DEF ListHaut
<1>2. /\ new \in RunRecords /\ new.hakukohteet = {} /\ new.stage \in {"idle", "hakukohteet"}
      /\ \A h \in new.haut : Archivable(h)
    BY DEF Idle, RunRecords, Stages, SelectArchivableHakuOids
<1>3. run' = [run EXCEPT ![r] = new] /\ run[r].stage = "idle"
    BY DEF ListHaut
<1>. HIDE DEF new
<1>4. /\ run' \in [Runs -> RunRecords] /\ run'[r] = new /\ (\A q \in Runs : Owned(q))'
      /\ \A q \in Runs : q # r => run'[q] = run[q]
    BY <1>0, <1>2, <1>3, RunStepTypes
<1>5. TypeOK'
    BY <1>0, <1>1, <1>4 DEF TypeOK, HakuRecords, RunRecords, Owned
<1>6. ASSUME NEW q \in Runs PROVE Listed(q)' /\ Left(q)'
  <2>0. Listed(q) /\ Left(q)
      BY DEF IInv
  <2>1. \A h : Archivable(h)' = Archivable(h)
      BY <1>1 DEF Archivable, DateReached
  <2>2. CASE q = r
      BY <1>2, <1>4, <2>1, <2>2 DEF Listed, Left
  <2>3. CASE q # r
      BY <1>1, <1>4, <2>0, <2>1, <2>3 DEF Listed, Left
  <2>. QED BY <2>2, <2>3
<1>7. IndexLagIsExplained'
    BY <1>1, <1>3, <1>4 DEF IInv, IndexLagIsExplained, Runs
<1>. QED BY <1>5, <1>6, <1>7 DEF IInv

LEMMA ListHakukohteetStep ==
    ASSUME IInv, NEW r \in Runs, ListHakukohteet(r)
    PROVE  IInv'
<1>0. TypeOK /\ run[r] \in RunRecords
    BY TypeRecords DEF IInv
<1>. DEFINE found == SelectArchivableHakukohdeOids(r)
            new == [run[r] EXCEPT !.stage = "archive", !.fresh = {}, !.hakukohteet = found]
<1>1. UNCHANGED <<day, haku, hakukohde, due, unindexed, lost, edits, stops>>
    BY DEF ListHakukohteet
<1>2. /\ found \subseteq Hakukohteet /\ \A k \in found : HakuOf[k] \in run[r].haut
      /\ \A k \in Hakukohteet : HakuOf[k] \in run[r].haut /\ hakukohde[k] = "julkaistu" => k \in found
    BY DEF SelectArchivableHakukohdeOids
<1>. HIDE DEF found
<1>3. /\ new \in RunRecords /\ new.hakukohteet = found /\ new.stage = "archive"
      /\ new.haut = run[r].haut /\ new.touched = run[r].touched
    BY <1>0, <1>2 DEF RunRecords, Stages
<1>4. run' = [run EXCEPT ![r] = new] /\ run[r].stage = "hakukohteet"
  <2>1. run' = [run EXCEPT ![r].stage = "archive", ![r].fresh = {}, ![r].hakukohteet = found]
      BY DEF ListHakukohteet, found
  <2>. QED BY <1>0, <2>1, TypeRecords DEF ListHakukohteet, RunRecords
<1>. HIDE DEF new
<1>5. /\ run' \in [Runs -> RunRecords] /\ run'[r] = new /\ (\A q \in Runs : Owned(q))'
      /\ \A q \in Runs : q # r => run'[q] = run[q]
    BY <1>0, <1>2, <1>3, <1>4, RunStepTypes
<1>6. TypeOK'
    BY <1>0, <1>1, <1>5 DEF TypeOK, HakuRecords, RunRecords, Owned
<1>7. ASSUME NEW q \in Runs PROVE Listed(q)' /\ Left(q)'
  <2>0. Listed(q) /\ Left(q)
      BY DEF IInv
  <2>1. \A h : Archivable(h)' = Archivable(h)
      BY <1>1 DEF Archivable, DateReached
  <2>2. CASE q = r
      BY <1>1, <1>2, <1>3, <1>4, <1>5, <2>0, <2>1, <2>2 DEF Listed, Left
  <2>3. CASE q # r
      BY <1>1, <1>5, <2>0, <2>1, <2>3 DEF Listed, Left
  <2>. QED BY <2>2, <2>3
<1>8. IndexLagIsExplained'
    BY <1>1, <1>4, <1>5 DEF IInv, IndexLagIsExplained, Runs
<1>. QED BY <1>6, <1>7, <1>8 DEF IInv

LEMMA ArchiveHakukohteetStep ==
    ASSUME IInv, NEW r \in Runs, ArchiveHakukohteet(r)
    PROVE  IInv'
<1>0. TypeOK /\ run[r] \in RunRecords
    BY TypeRecords DEF IInv
<1>. DEFINE new == [run[r] EXCEPT !.stage = "haut"]
<1>1. UNCHANGED <<day, haku, due, unindexed, lost, edits, stops>>
    BY DEF ArchiveHakukohteet
<1>2. /\ hakukohde' \in [Hakukohteet -> Tilat]
      /\ \A k \in Hakukohteet : hakukohde'[k] = "julkaistu" =>
            hakukohde[k] = "julkaistu" /\ k \notin run[r].hakukohteet
    BY <1>0, TypeRecords DEF ArchiveHakukohteet, Tilat
<1>3. /\ new \in RunRecords /\ new.stage = "haut" /\ new.haut = run[r].haut
      /\ new.hakukohteet = run[r].hakukohteet
      /\ new.touched = run[r].touched /\ new.fresh = run[r].fresh
    BY <1>0 DEF RunRecords, Stages
<1>4. run' = [run EXCEPT ![r] = new] /\ run[r].stage = "archive"
    BY DEF ArchiveHakukohteet
<1>. HIDE DEF new
<1>5. /\ run' \in [Runs -> RunRecords] /\ run'[r] = new /\ (\A q \in Runs : Owned(q))'
      /\ \A q \in Runs : q # r => run'[q] = run[q]
  <2>1. \A k \in new.hakukohteet : new.stage # "announce" => HakuOf[k] \in new.haut
      BY <1>0, <1>3, <1>4, TypeRecords DEF Owned
  <2>. QED BY <1>0, <1>3, <1>4, <2>1, RunStepTypes
<1>6. TypeOK'
    BY <1>0, <1>1, <1>2, <1>5 DEF TypeOK, HakuRecords, RunRecords, Owned
<1>7. ASSUME NEW q \in Runs PROVE Listed(q)' /\ Left(q)'
  <2>0. Listed(q) /\ Left(q)
      BY DEF IInv
  <2>1. \A h : Archivable(h)' = Archivable(h)
      BY <1>1 DEF Archivable, DateReached
  <2>2. CASE q = r
      BY <1>1, <1>2, <1>3, <1>4, <1>5, <2>0, <2>1, <2>2 DEF Listed, Left
  <2>3. CASE q # r
      BY <1>1, <1>2, <1>5, <2>0, <2>1, <2>3 DEF Listed, Left
  <2>. QED BY <2>2, <2>3
<1>8. IndexLagIsExplained'
    BY <1>1, <1>4, <1>5 DEF IInv, IndexLagIsExplained, Runs
<1>. QED BY <1>6, <1>7, <1>8 DEF IInv
LEMMA ArchiveHautStep ==
    ASSUME IInv, NEW r \in Runs, ArchiveHaut(r)
    PROVE  IInv'
<1>0. TypeOK /\ run[r] \in RunRecords
    BY TypeRecords DEF IInv
<1>. DEFINE new == IF r = Cron THEN [run[r] EXCEPT !.stage = "announce"] ELSE Idle
<1>1. UNCHANGED <<day, hakukohde, due, edits, stops>>
    BY DEF ArchiveHaut
<1>2. /\ haku' \in [Haut -> HakuRecords]
      /\ \A h \in Haut : haku'[h] = haku[h] \/ haku'[h].tila # "julkaistu"
  <2>1. \A h \in Haut : haku[h] \in HakuRecords
      BY <1>0, TypeRecords
  <2>2. \A h \in Haut : LET archived == [haku[h] EXCEPT !.tila = "arkistoitu", !.ajettu = TRUE] IN
                        archived \in HakuRecords /\ archived.tila = "arkistoitu"
      BY <2>1 DEF HakuRecords, Tilat
  <2>. DEFINE archived(h) == [haku[h] EXCEPT !.tila = "arkistoitu", !.ajettu = TRUE]
  <2>3. haku' = [h \in Haut |-> IF h \in Updated(r) THEN archived(h) ELSE haku[h]]
      BY DEF ArchiveHaut
  <2>4. \A h \in Haut : archived(h) \in HakuRecords /\ archived(h).tila = "arkistoitu"
      BY <2>2
  <2>. HIDE DEF archived
  <2>. QED BY <2>1, <2>3, <2>4
<1>3. /\ new \in RunRecords /\ new.stage \in {"announce", "idle"}
      /\ new.stage # "announce" => new.hakukohteet = {}
      /\ r = Cron => new.stage = "announce" /\ new.haut = run[r].haut
    BY <1>0, IdleRecord DEF RunRecords, Stages
<1>4. run' = [run EXCEPT ![r] = new] /\ run[r].stage = "haut"
    BY DEF ArchiveHaut
<1>. HIDE DEF new
<1>5. /\ run' \in [Runs -> RunRecords] /\ run'[r] = new /\ (\A q \in Runs : Owned(q))'
      /\ \A q \in Runs : q # r => run'[q] = run[q]
    BY <1>0, <1>3, <1>4, RunStepTypes
<1>6. /\ Updated(r) \subseteq Haut /\ Updated(r) \subseteq run[r].haut
      /\ unindexed' = unindexed \cup Updated(r)
      /\ lost' = IF r = Cron THEN lost \ Updated(r) ELSE lost \cup Updated(r)
    BY <1>0 DEF ArchiveHaut, Updated, RunRecords
<1>7. TypeOK'
  <2>1. /\ unindexed' \in SUBSET Haut /\ lost' \in SUBSET Haut
        /\ hakukohde' \in [Hakukohteet -> Tilat] /\ day' \in Days /\ due' \in BOOLEAN
        /\ edits' \in Nat /\ stops' \in Nat
      BY <1>0, <1>1, <1>6, TypeRecords
  <2>. QED BY <1>2, <1>5, <2>1 DEF TypeOK, HakuRecords, RunRecords, Owned
<1>8. ASSUME NEW q \in Runs PROVE Listed(q)' /\ Left(q)'
  <2>0. Listed(q) /\ Left(q)
      BY DEF IInv
  <2>1. \A h \in Haut : haku'[h].tila = "julkaistu" =>
            haku[h].tila = "julkaistu" /\ (Archivable(h) => Archivable(h)')
      BY <1>1, <1>2 DEF Archivable, DateReached
  <2>2. CASE q = r
      BY <1>3, <1>5, <2>2 DEF Listed, Left
  <2>3. CASE q # r
    <3>1. run'[q] = run[q] /\ \A h \in run[q].haut : h \in Haut
        BY <1>0, <1>5, <2>3, TypeRecords DEF RunRecords
    <3>2. Listed(q)'
        BY <2>0, <2>1, <3>1 DEF Listed
    <3>. QED BY <1>1, <2>0, <3>1, <3>2 DEF Left
  <2>. QED BY <2>2, <2>3
<1>9. IndexLagIsExplained'
  <2>1. Cron \in Runs
      BY DEF Runs
  <2>2. CASE r = Cron
      BY <1>3, <1>4, <1>5, <1>6, <2>2 DEF IInv, IndexLagIsExplained
  <2>3. CASE r # Cron
      BY <1>5, <1>6, <2>1, <2>3 DEF IInv, IndexLagIsExplained
  <2>. QED BY <2>2, <2>3
<1>. QED BY <1>7, <1>8, <1>9 DEF IInv

LEMMA AnnounceAnyStep ==
    ASSUME IInv, NEW h \in Haut, Announce(h)
    PROVE  IInv'
<1>0. TypeOK /\ Cron \in Runs /\ run[Cron] \in RunRecords
    BY TypeRecords DEF IInv, Runs
<1>. DEFINE new == IF run[Cron].haut = {h} THEN Idle ELSE [run[Cron] EXCEPT !.haut = @ \ {h}]
<1>1. UNCHANGED <<day, haku, hakukohde, due, edits>> /\ run[Cron].stage = "announce"
    BY DEF Announce
<1>2. /\ new \in RunRecords /\ new.stage \in {"idle", "announce"}
      /\ new.stage # "announce" => new.hakukohteet = {}
      /\ \A g \in run[Cron].haut : g # h => new.stage = "announce" /\ g \in new.haut
    BY <1>0, <1>1, IdleRecord DEF RunRecords, Stages
<1>3. run' = [run EXCEPT ![Cron] = new]
    BY DEF Announce
<1>. HIDE DEF new
<1>4. /\ run' \in [Runs -> RunRecords] /\ run'[Cron] = new /\ (\A q \in Runs : Owned(q))'
      /\ \A q \in Runs : q # Cron => run'[q] = run[q]
    BY <1>0, <1>2, <1>3, RunStepTypes
<1>5. /\ stops' \in Nat
      /\ \/ unindexed' = unindexed \ {h} /\ lost' = lost \ {h}
         \/ unindexed' = unindexed /\ lost' = lost \cup ({h} \cap unindexed)
    BY <1>0, TypeRecords DEF Announce
<1>6. TypeOK'
  <2>1. unindexed' \in SUBSET Haut /\ lost' \in SUBSET Haut
      BY <1>0, <1>5, TypeRecords
  <2>. QED BY <1>0, <1>1, <1>4, <1>5, <2>1 DEF TypeOK, HakuRecords, RunRecords, Owned
<1>7. ASSUME NEW q \in Runs PROVE Listed(q)' /\ Left(q)'
  <2>0. Listed(q) /\ Left(q)
      BY DEF IInv
  <2>1. \A g : Archivable(g)' = Archivable(g)
      BY <1>1 DEF Archivable, DateReached
  <2>2. CASE q = Cron
      BY <1>2, <1>4, <2>2 DEF Listed, Left
  <2>3. CASE q # Cron
      BY <1>1, <1>4, <2>0, <2>1, <2>3 DEF Listed, Left
  <2>. QED BY <2>2, <2>3
<1>8. IndexLagIsExplained'
    BY <1>1, <1>2, <1>4, <1>5 DEF IInv, IndexLagIsExplained
<1>. QED BY <1>6, <1>7, <1>8 DEF IInv

LEMMA StopStep ==
    ASSUME IInv, NEW r \in Runs, Stop(r)
    PROVE  IInv'
<1>0. TypeOK /\ run[r] \in RunRecords
    BY TypeRecords DEF IInv
<1>1. UNCHANGED <<day, haku, hakukohde, unindexed, edits>> /\ due' \in BOOLEAN /\ stops' \in Nat
  <2>1. due' = due \/ due' = TRUE
      BY Zenon DEF Stop
  <2>2. due \in BOOLEAN /\ stops \in Nat
      BY <1>0, TypeRecords
  <2>3. due' \in BOOLEAN
      BY <2>1, <2>2
  <2>. QED BY <2>2, <2>3 DEF Stop
<1>2. /\ run' \in [Runs -> RunRecords] /\ run'[r] = Idle /\ (\A q \in Runs : Owned(q))'
      /\ \A q \in Runs : q # r => run'[q] = run[q]
    BY <1>0, IdleRecord, RunStepTypes DEF Stop
<1>3. lost' = lost \cup (IF run[r].stage = "announce" THEN run[r].haut \cap unindexed ELSE {})
    BY DEF Stop
<1>4. TypeOK'
  <2>1. lost' \in SUBSET Haut
      BY <1>0, <1>3, TypeRecords
  <2>. QED BY <1>0, <1>1, <1>2, <2>1 DEF TypeOK, HakuRecords, RunRecords, Owned
<1>5. ASSUME NEW q \in Runs PROVE Listed(q)' /\ Left(q)'
  <2>0. Listed(q) /\ Left(q)
      BY DEF IInv
  <2>1. \A g : Archivable(g)' = Archivable(g)
      BY <1>1 DEF Archivable, DateReached
  <2>2. CASE q = r
      BY <1>2, <2>2, IdleRecord DEF Listed, Left
  <2>3. CASE q # r
      BY <1>1, <1>2, <2>0, <2>1, <2>3 DEF Listed, Left
  <2>. QED BY <2>2, <2>3
<1>6. IndexLagIsExplained'
  <2>1. Cron \in Runs
      BY DEF Runs
  <2>. QED BY <1>1, <1>2, <1>3, <2>1, IdleRecord DEF IInv, IndexLagIsExplained
<1>. QED BY <1>4, <1>5, <1>6 DEF IInv

-----------------------------------------------------------------------------
(* The theorems *)

LEMMA NextStep ==
    ASSUME IInv, [Next]_vars
    PROVE  IInv'
<1>1. CASE \E h \in Haut : SaveHaku(h)
    BY <1>1, SaveHakuStep
<1>2. CASE \E k \in Hakukohteet : SaveHakukohde(k)
    BY <1>2, SaveHakukohdeStep
<1>3. CASE \E r \in Runs : RunStep(r)
    BY <1>3, ListHautStep, ListHakukohteetStep, ArchiveHakukohteetStep, ArchiveHautStep DEF RunStep
<1>4. CASE \E r \in Runs : Stop(r)
    BY <1>4, StopStep
<1>5. CASE AnnounceStep
    BY <1>5, AnnounceAnyStep DEF AnnounceStep
<1>6. CASE Midnight
    BY <1>6, MidnightStep
<1>7. CASE UNCHANGED vars
    BY <1>7 DEF vars, IInv, TypeOK, Listed, Left, Archivable, DateReached, IndexLagIsExplained
<1>. QED BY <1>1, <1>2, <1>3, <1>4, <1>5, <1>6, <1>7 DEF Next

LEMMA Invariant == Spec => []IInv
<1>1. Init => IInv
  <2>. SUFFICES ASSUME Init PROVE IInv
      OBVIOUS
  <2>1. \A r \in Runs : run[r].stage = "idle"
      BY IdleRecord DEF Init
  <2>2. \A r \in Runs : Listed(r) /\ Left(r)
      BY <2>1 DEF Listed, Left
  <2>3. IndexLagIsExplained
      BY DEF Init, IndexLagIsExplained
  <2>. QED BY <2>2, <2>3, TypeInit DEF IInv
<1>2. IInv /\ [Next]_vars => IInv'
    BY NextStep
<1>. QED BY <1>1, <1>2, PTL DEF Spec

(* A run archives a haku only in the step of its own that archives haut.   *)
LEMMA ArchivingStep ==
    ASSUME IInv, [Next]_vars, NEW r \in Runs, NEW h \in Haut, ArchivesHaku(r, h)
    PROVE  ArchiveHaut(r) /\ h \in run[r].haut
<1>0. TypeOK
    BY DEF IInv
<1>1. haku' # haku /\ run'[r] # run[r] /\ run'[r].stage # run[r].stage
    BY DEF ArchivesHaku
<1>2. ~ \E g \in Haut : SaveHaku(g)
  <2>1. ASSUME NEW g \in Haut, SaveHaku(g) PROVE FALSE
    <3>. DEFINE what == {g}  hks == {}
    <3>1. what \in SUBSET (Haut \cup Hakukohteet) /\ hks \in SUBSET Hakukohteet
        OBVIOUS
    <3>2. run' = Touch(what, hks)
        BY <2>1 DEF SaveHaku
    <3>. HIDE DEF what, hks
    <3>. QED BY <1>0, <1>1, <3>1, <3>2, TouchTypes
  <2>. QED BY <2>1
<1>3. PICK q \in Runs : ArchiveHaut(q)
    BY <1>1, <1>2 DEF Next, vars, RunStep, AnnounceStep, SaveHakukohde, ListHaut, ListHakukohteet,
                     ArchiveHakukohteet, Announce, Stop, Midnight
<1>4. q = r
    BY <1>0, <1>1, <1>3, TypeRecords DEF ArchiveHaut
<1>5. h \in Updated(r)
    BY <1>3, <1>4 DEF ArchiveHaut, ArchivesHaku
<1>. QED BY <1>3, <1>4, <1>5 DEF Updated

(* Every reachable state has its type, and a run archives only hakukohteet  *)
(* of the haut it listed (ArkistointiTask).                                 *)
THEOREM TypeCorrect == Spec => []TypeOK
<1>1. IInv => TypeOK
    BY DEF IInv
<1>. QED BY <1>1, Invariant, PTL

(* However runs overlap, stop and race with people, an archived haku that   *)
(* the index does not know of is being announced, or its announcement was   *)
(* lost (ArkistointiTask, HakuService.indexByOid).                          *)
THEOREM LagExplained == Spec => []IndexLagIsExplained
<1>1. IInv => IndexLagIsExplained
    BY DEF IInv
<1>. QED BY <1>1, Invariant, PTL

(* However runs overlap, a haku archived before and published again is not  *)
(* archived anew, unless a person gave it a date to come, or saved it after *)
(* the run listed it (selectArchivableHakuOids, which goes by ..._ajettu,   *)
(* and shouldDeleteSchedulerTimestamp).                                     *)
THEOREM RestoredStays == Spec => RestoredStaysPublished
<1>1. IInv /\ [Next]_vars =>
        [\A r \in Runs, h \in Haut : ArchivesHaku(r, h) => ~haku[h].ajettu \/ h \in run[r].touched]_vars
  <2>1. ASSUME IInv, [Next]_vars, NEW r \in Runs, NEW h \in Haut, ArchivesHaku(r, h)
        PROVE  ~haku[h].ajettu \/ h \in run[r].touched
    <3>1. Archivable(h) \/ h \in run[r].touched
        BY <2>1, ArchivingStep DEF IInv, Listed, ArchivesHaku
    <3>. QED BY <3>1 DEF Archivable
  <2>. QED BY <2>1
<1>. QED BY <1>1, Invariant, PTL DEF Spec, RestoredStaysPublished

(* A run that archives a haku leaves no hakukohde of it published but those *)
(* saved after it listed them (ArkistointiTask.archiveHautJaHakukohteet).   *)
THEOREM LeavesNothingPublished == Spec => NothingLeftPublished
<1>1. IInv /\ [Next]_vars =>
        [\A r \in Runs, k \in Hakukohteet :
           ArchivesHaku(r, HakuOf[k]) /\ hakukohde[k] = "julkaistu" => k \in run[r].fresh]_vars
  <2>1. ASSUME IInv, [Next]_vars, NEW r \in Runs, NEW k \in Hakukohteet,
               ArchivesHaku(r, HakuOf[k]), hakukohde[k] = "julkaistu"
        PROVE  k \in run[r].fresh
    <3>1. HakuOf[k] \in Haut
        BY HakuOfAssumption
    <3>2. HakuOf[k] \in run[r].haut
        BY <2>1, <3>1, ArchivingStep
    <3>. QED BY <2>1, <3>2 DEF IInv, Left, ArchivesHaku
  <2>. QED BY <2>1
<1>. QED BY <1>1, Invariant, PTL DEF Spec, NothingLeftPublished
=============================================================================
