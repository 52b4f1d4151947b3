--------------------------- MODULE TarjoajatProofs ---------------------------
(***************************************************************************)
(* Theorems about the tarjoajat of a koulutus, for any number of requests, *)
(* toteutukset and organisations.                                          *)
(***************************************************************************)
EXTENDS Tarjoajat, TLAPS

USE DEF InTx, Stages, Tilat, Absent

-----------------------------------------------------------------------------
(* The inductive invariant, in parts                                       *)

Underway == {"sent", "toteutusRead", "koulutusRead", "ready"} \cup InTx

(* What a request holds beyond its type: a save its toteutus, an edit of    *)
(* the koulutus only oppilaitokset.                                         *)
BodyFits(r, q) ==
    /\ r \in Saves => q.tarjoajat \subseteq Tarjoajat
    /\ r \in KoulutusEdits => q.tarjoajat \subseteq Oppilaitokset
    /\ r \in Saves /\ q.stage \in Underway => q.toteutus \in Toteutukset /\ q.tila \in Tilat
    /\ r \in KoulutusEdits =>
         /\ q.stage \notin {"sent", "toteutusRead", "koulutusRead", "koulutusWritten"}
         /\ ~q.touched

BodyInv == \A r \in Requests : BodyFits(r, req[r])

(* As long as the koulutus has the version a save read it is as it was read,*)
(* and a save going to change it began its transaction on that version.     *)
ReadFits(q) ==
    /\ q.stage \in {"koulutusRead", "ready"} \cup InTx =>
         /\ q.readVersion <= koulutusVersion
         /\ q.readVersion = koulutusVersion => q.read = koulutuksenTarjoajat
    /\ q.stage = "begun" /\ NewTarjoajatForKoulutus(q) # q.read =>
         q.koulutusSnapshot = q.readVersion

Written == {"koulutusWritten", "written"}

(* What a save has written of the koulutus concerns its own tarjoajat. *)
OwnFits(q) == q.stage \in Written =>
    /\ q.deleted \subseteq q.safe
    /\ q.inserted \subseteq TarjoajienOppilaitokset(q.tarjoajat)

(* What it has written will fit the toteutus it saves. *)
WrittenFits(q) == q.stage \in Written /\ q.inserted \cup q.deleted # {} =>
    TarjoajienOppilaitokset(q.tarjoajat) \ q.safe
      \subseteq (koulutuksenTarjoajat \ q.deleted) \cup q.inserted

SaveInv == \A r \in Saves : ReadFits(req[r]) /\ OwnFits(req[r]) /\ WrittenFits(req[r])

(* The row of the koulutus has one holder. *)
LockInv == \A r, s \in Requests : HoldsKoulutus(r) /\ HoldsKoulutus(s) => r = s

IInv == TypeOK /\ BodyInv /\ SaveInv /\ LockInv

-----------------------------------------------------------------------------
(* Type correctness                                                        *)

LEMMA OppilaitosTypes ==
    /\ \A ts \in SUBSET Tarjoajat : TarjoajienOppilaitokset(ts) \subseteq Oppilaitokset
    /\ TypeOK /\ BodyInv => \A r \in Saves :
         /\ DeletableTarjoajienOppilaitokset(req[r]) \subseteq Oppilaitokset
         /\ NewTarjoajatForKoulutus(req[r]) \subseteq Oppilaitokset
<1>1. \A ts \in SUBSET Tarjoajat : TarjoajienOppilaitokset(ts) \subseteq Oppilaitokset
  BY DEF TarjoajienOppilaitokset, Oppilaitokset
<1>2. ASSUME TypeOK, BodyInv, NEW r \in Saves
      PROVE  /\ DeletableTarjoajienOppilaitokset(req[r]) \subseteq Oppilaitokset
             /\ NewTarjoajatForKoulutus(req[r]) \subseteq Oppilaitokset
  <2>1. /\ req[r].tarjoajat \subseteq Tarjoajat /\ req[r].old \subseteq Tarjoajat
        /\ req[r].read \subseteq Oppilaitokset
    BY <1>2 DEF TypeOK, BodyInv, BodyFits, Contents, Requests
  <2>2. TarjoajienOppilaitokset(req[r].tarjoajat) \subseteq Oppilaitokset
    BY <1>1, <2>1
  <2>3. TarjoajienOppilaitokset(IF req[r].tila = "poistettu" THEN req[r].tarjoajat
                                ELSE req[r].old \ req[r].tarjoajat) \subseteq Oppilaitokset
    BY <1>1, <2>1
  <2> QED
    BY <2>1, <2>2, <2>3 DEF DeletableTarjoajienOppilaitokset, NewTarjoajatForKoulutus
<1> QED
  BY <1>1, <1>2

LEMMA TypeInit == Init => TypeOK /\ BodyInv
BY NamesAssumption
   DEF Init, TypeOK, BodyInv, BodyFits, Blank, Contents, Toteutukset, Underway

(* The records a step makes from what a request holds are of its type. *)
LEMMA ReadTypes ==
    ASSUME NEW q \in Contents, NEW stage \in Stages, NEW n \in Nat, NEW v \in Nat,
           NEW old \in SUBSET Tarjoajat, NEW read \in SUBSET Oppilaitokset
    PROVE  /\ [q EXCEPT !.stage = stage, !.since = n, !.old = old] \in Contents
           /\ [q EXCEPT !.stage = stage, !.since = n, !.read = read,
                        !.readVersion = v] \in Contents
<1>1. [q EXCEPT !.stage = stage, !.since = n, !.old = old] \in Contents
  BY ZenonT(60) DEF Contents
<1>2. [q EXCEPT !.stage = stage, !.since = n, !.read = read, !.readVersion = v] \in Contents
  BY ZenonT(60) DEF Contents
<1> QED
  BY <1>1, <1>2

LEMMA WriteTypes ==
    ASSUME NEW q \in Contents, NEW stage \in Stages, NEW v \in Nat,
           NEW inserted \in SUBSET Oppilaitokset, NEW deleted \in SUBSET Oppilaitokset,
           NEW safe \in SUBSET Oppilaitokset
    PROVE  /\ [q EXCEPT !.stage = stage, !.koulutusSnapshot = v, !.inserted = inserted,
                        !.deleted = deleted, !.touched = FALSE] \in Contents
           /\ [q EXCEPT !.stage = stage, !.inserted = inserted, !.deleted = deleted]
                \in Contents
           /\ [q EXCEPT !.stage = stage, !.touched = TRUE] \in Contents
           /\ [q EXCEPT !.stage = stage, !.safe = safe] \in Contents
<1>1. [q EXCEPT !.stage = stage, !.koulutusSnapshot = v, !.inserted = inserted,
                !.deleted = deleted, !.touched = FALSE] \in Contents
  BY ZenonT(60) DEF Contents
<1>2. [q EXCEPT !.stage = stage, !.inserted = inserted, !.deleted = deleted] \in Contents
  BY ZenonT(60) DEF Contents
<1>3. [q EXCEPT !.stage = stage, !.touched = TRUE] \in Contents
  BY ZenonT(60) DEF Contents
<1>4. [q EXCEPT !.stage = stage, !.safe = safe] \in Contents
  BY ZenonT(60) DEF Contents
<1> QED
  BY <1>1, <1>2, <1>3, <1>4

(* What one request holds may be replaced by anything of its type. *)
LEMMA HoldTypes ==
    ASSUME TypeOK, BodyInv, NEW r \in Requests, NEW q \in Contents, BodyFits(r, q), Hold(r, q)
    PROVE  req' \in [Requests -> Contents] /\ BodyInv'
<1>1. req' \in [Requests -> Contents]
  BY DEF Hold, TypeOK
<1>2. ASSUME NEW s \in Requests PROVE BodyFits(s, req'[s])
  <2>1. req'[s] = IF s = r THEN q ELSE req[s]
    BY DEF Hold, TypeOK
  <2> QED
    BY <2>1 DEF BodyInv
<1> QED
  BY <1>1, <1>2 DEF BodyInv, BodyFits

(* An answered request holds nothing any more. *)
LEMMA AnswerTypes ==
    ASSUME TypeOK, BodyInv, NEW r \in Requests,
           NEW stage \in {"done", "conflict", "failed", "rejected"}, Answer(r, stage)
    PROVE  req' \in [Requests -> Contents] /\ BodyInv'
<1> DEFINE q == [Blank EXCEPT !.stage = stage]
<1>1. q \in Contents /\ BodyFits(r, q)
  BY NamesAssumption DEF Blank, Contents, BodyFits, Underway
<1> QED
  BY <1>1, HoldTypes DEF Answer

LEMMA TypeStep == TypeOK /\ BodyInv /\ [Next]_vars => (TypeOK /\ BodyInv)'
<1> SUFFICES ASSUME TypeOK, BodyInv, [Next]_vars
             PROVE  TypeOK' /\ BodyInv'
  OBVIOUS
<1>0. \A r \in Requests :
        /\ req[r] \in Contents /\ BodyFits(r, req[r])
        /\ req[r].stage \in {"sent", "toteutusRead", "koulutusRead", "koulutusWritten"} => r \in Saves
  BY DEF TypeOK, BodyInv, BodyFits, Requests
<1>1. ASSUME NEW r \in Requests, SendPut(r) PROVE TypeOK' /\ BodyInv'
  <2>1. PICK ts \in Choices, new \in {"tallennettu", "julkaistu"} :
          Hold(r, [Blank EXCEPT !.stage = "toteutusRead", !.toteutus = r,
                                !.tarjoajat = ts, !.tila = new])
    BY <1>1 DEF SendPut
  <2> DEFINE q == [Blank EXCEPT !.stage = "toteutusRead", !.toteutus = r,
                                !.tarjoajat = ts, !.tila = new]
  <2>2. q \in Contents /\ BodyFits(r, q)
    BY <1>1, NamesAssumption
       DEF SendPut, Blank, Contents, BodyFits, Saves, Toteutukset
  <2> QED
    BY <1>1, <2>1, <2>2, HoldTypes DEF SendPut, dbVars, TypeOK
<1>2. ASSUME NEW r \in Requests, SendUpdate(r) PROVE TypeOK' /\ BodyInv'
  <2>1. PICK t \in Toteutukset, ts \in Choices, new \in Tilat :
          Hold(r, [Blank EXCEPT !.stage = "sent", !.toteutus = t, !.tarjoajat = ts,
                                !.tila = new, !.token = toteutusVersion[t]])
    BY <1>2 DEF SendUpdate
  <2> DEFINE q == [Blank EXCEPT !.stage = "sent", !.toteutus = t, !.tarjoajat = ts,
                                !.tila = new, !.token = toteutusVersion[t]]
  <2>2. q \in Contents /\ BodyFits(r, q)
    BY <1>2, NamesAssumption
       DEF SendUpdate, Blank, Contents, BodyFits, Saves, TypeOK
  <2> QED
    BY <1>2, <2>1, <2>2, HoldTypes DEF SendUpdate, dbVars, TypeOK
<1>3. ASSUME NEW r \in Requests, SendKoulutusEdit(r) PROVE TypeOK' /\ BodyInv'
  <2>1. PICK ts \in Choices :
          Hold(r, [Blank EXCEPT !.stage = "ready", !.tarjoajat = TarjoajienOppilaitokset(ts),
                                !.readVersion = koulutusVersion])
    BY <1>3 DEF SendKoulutusEdit
  <2> DEFINE q == [Blank EXCEPT !.stage = "ready", !.tarjoajat = TarjoajienOppilaitokset(ts),
                                !.readVersion = koulutusVersion]
  <2>2. TarjoajienOppilaitokset(ts) \subseteq Oppilaitokset
    BY NamesAssumption, OppilaitosTypes
  <2>3. q \in Contents /\ BodyFits(r, q)
    BY <1>3, <2>2, NamesAssumption DEF SendKoulutusEdit, Blank, Contents, BodyFits, TypeOK
  <2> QED
    BY <1>3, <2>1, <2>3, HoldTypes DEF SendKoulutusEdit, dbVars, TypeOK
<1>4. ASSUME NEW r \in Requests, ReadToteutus(r) PROVE TypeOK' /\ BodyInv'
  <2> DEFINE q == [req[r] EXCEPT !.stage = "toteutusRead", !.since = commits,
                                 !.old = tarjoajat[req[r].toteutus]]
  <2>1. CASE Answer(r, "rejected")
    BY <1>4, <2>1, AnswerTypes DEF ReadToteutus, dbVars, TypeOK
  <2>2. CASE Hold(r, q) /\ tila[req[r].toteutus] \in OnlyOlemassaolevat
    <3>1. r \in Saves => req[r].toteutus \in Toteutukset /\ req[r].tila \in Tilat
      BY <1>0, <1>4 DEF ReadToteutus, BodyFits, Underway
    <3>2. tarjoajat[req[r].toteutus] \in SUBSET Tarjoajat
      BY <1>0, <1>4, <3>1 DEF ReadToteutus, TypeOK
    <3>3. q \in Contents
      <4>1. commits \in Nat
        BY DEF TypeOK
      <4> QED
        BY <1>0, <3>2, <4>1, ReadTypes
    <3>4. BodyFits(r, q)
      BY <1>0, <1>4, <3>1 DEF ReadToteutus, Contents, BodyFits, Underway
    <3> QED
      BY <1>4, <2>2, <3>3, <3>4, HoldTypes DEF ReadToteutus, dbVars, TypeOK
  <2> QED
    BY <1>4, <2>1, <2>2 DEF ReadToteutus
<1>5. ASSUME NEW r \in Requests, ReadKoulutus(r) PROVE TypeOK' /\ BodyInv'
  <2> DEFINE q == [req[r] EXCEPT !.stage = IF r \in Puts THEN "ready" ELSE "koulutusRead",
                                 !.since = IF r \in Puts THEN commits ELSE @,
                                 !.read = koulutuksenTarjoajat,
                                 !.readVersion = koulutusVersion]
  <2>1. q \in Contents
    <3>1. koulutusVersion \in Nat /\ commits \in Nat /\ koulutuksenTarjoajat \in SUBSET Oppilaitokset
      BY DEF TypeOK
    <3>2. /\ (IF r \in Puts THEN "ready" ELSE "koulutusRead") \in Stages
          /\ (IF r \in Puts THEN commits ELSE req[r].since) \in Nat
      BY <1>0, <3>1 DEF Contents
    <3> QED
      BY <1>0, <3>1, <3>2, ReadTypes
  <2>2. BodyFits(r, q)
    BY <1>0, <1>5 DEF ReadKoulutus, Contents, BodyFits, Underway
  <2> QED
    BY <1>5, <2>1, <2>2, HoldTypes DEF ReadKoulutus, dbVars, TypeOK
<1>6. ASSUME NEW r \in Requests, ReadToteutukset(r) PROVE TypeOK' /\ BodyInv'
  <2> DEFINE q == [req[r] EXCEPT !.stage = "ready",
                                 !.safe = DeletableTarjoajienOppilaitokset(req[r])]
  <2>1. DeletableTarjoajienOppilaitokset(req[r]) \subseteq Oppilaitokset
    BY <1>0, <1>6, OppilaitosTypes DEF ReadToteutukset
  <2>2. q \in Contents
    BY <1>0, <2>1, WriteTypes
  <2>3. BodyFits(r, q)
    BY <1>0, <1>6 DEF ReadToteutukset, Contents, BodyFits, Underway
  <2> QED
    BY <1>6, <2>2, <2>3, HoldTypes DEF ReadToteutukset, dbVars, TypeOK
<1>7. ASSUME NEW r \in Requests, Refuse(r) PROVE TypeOK' /\ BodyInv'
  BY <1>7, AnswerTypes DEF Refuse, dbVars, TypeOK
<1>8. ASSUME NEW r \in Requests, Begin(r) PROVE TypeOK' /\ BodyInv'
  <2> DEFINE q == [req[r] EXCEPT !.stage = "begun", !.koulutusSnapshot = koulutusVersion,
                                 !.inserted = {}, !.deleted = {}, !.touched = FALSE]
  <2>1. q \in Contents
    <3>1. koulutusVersion \in Nat
      BY DEF TypeOK
    <3> QED
      BY <1>0, <3>1, WriteTypes
  <2>2. BodyFits(r, q)
    BY <1>0, <1>8 DEF Begin, Contents, BodyFits, Underway
  <2> QED
    BY <1>8, <2>1, <2>2, HoldTypes, AnswerTypes DEF Begin, dbVars, TypeOK
<1>9. ASSUME NEW r \in Requests, WriteKoulutus(r) PROVE TypeOK' /\ BodyInv'
  <2> DEFINE new == IF r \in KoulutusEdits THEN req[r].tarjoajat
                    ELSE IF KoulutusIsToChange(r) THEN NewTarjoajatForKoulutus(req[r])
                    ELSE koulutuksenTarjoajat
             q   == [req[r] EXCEPT
                       !.stage = IF r \in Saves THEN "koulutusWritten" ELSE "written",
                       !.inserted = new \ koulutuksenTarjoajat,
                       !.deleted = koulutuksenTarjoajat \ new]
  <2>1. new \subseteq Oppilaitokset
    BY <1>0, OppilaitosTypes DEF BodyFits, KoulutusIsToChange, TypeOK
  <2> HIDE DEF new
  <2>2. q \in Contents
    <3>1. /\ new \ koulutuksenTarjoajat \in SUBSET Oppilaitokset
          /\ koulutuksenTarjoajat \ new \in SUBSET Oppilaitokset
      BY <2>1 DEF TypeOK
    <3>2. (IF r \in Saves THEN "koulutusWritten" ELSE "written") \in Stages
      OBVIOUS
    <3> QED
      BY <1>0, <3>1, <3>2, WriteTypes
  <2>3. BodyFits(r, q)
    BY <1>0, <1>9, NamesAssumption DEF WriteKoulutus, Contents, BodyFits, Underway
  <2>4. Hold(r, q)
    BY <1>9 DEF WriteKoulutus, new
  <2> QED
    BY <1>9, <2>2, <2>3, <2>4, HoldTypes DEF WriteKoulutus, dbVars, TypeOK
<1>10. ASSUME NEW r \in Requests, WriteToteutus(r) PROVE TypeOK' /\ BodyInv'
  <2>1. /\ [req[r] EXCEPT !.stage = "written", !.touched = TRUE] \in Contents
        /\ BodyFits(r, [req[r] EXCEPT !.stage = "written", !.touched = TRUE])
    <3>1. [req[r] EXCEPT !.stage = "written", !.touched = TRUE] \in Contents
      BY <1>0, WriteTypes
    <3>2. BodyFits(r, [req[r] EXCEPT !.stage = "written", !.touched = TRUE])
      BY <1>0, <1>10, NamesAssumption DEF WriteToteutus, Contents, BodyFits, Underway
    <3> QED
      BY <3>1, <3>2
  <2>2. /\ [req[r] EXCEPT !.stage = "written"] \in Contents
        /\ BodyFits(r, [req[r] EXCEPT !.stage = "written"])
    BY <1>0, <1>10 DEF WriteToteutus, Contents, BodyFits, Underway
  <2> QED
    BY <1>10, <2>1, <2>2, HoldTypes DEF WriteToteutus, dbVars, TypeOK
<1>11. ASSUME NEW r \in Requests, Commit(r) PROVE TypeOK' /\ BodyInv'
  <2>1. req' \in [Requests -> Contents] /\ BodyInv'
    BY <1>11, AnswerTypes DEF Commit
  <2>2. /\ req[r].inserted \subseteq Oppilaitokset
        /\ req[r].touched => /\ req[r].tila \in Tilat
                             /\ req[r].tarjoajat \in SUBSET Tarjoajat
    BY <1>0, <1>11 DEF Commit, BodyFits, Underway, Contents, Requests
  <2>3. /\ tila' \in [Toteutukset -> Tilat \cup {Absent}]
        /\ tarjoajat' \in [Toteutukset -> SUBSET Tarjoajat]
        /\ toteutusVersion' \in [Toteutukset -> Nat]
    <3>1. CASE req[r].touched
      BY <1>11, <2>2, <3>1 DEF Commit, TypeOK
    <3>2. CASE ~req[r].touched
      BY <1>11, <3>2 DEF Commit, TypeOK
    <3> QED
      BY <3>1, <3>2
  <2>4. koulutuksenTarjoajat' \in SUBSET Oppilaitokset /\ koulutusVersion' \in Nat /\ commits' \in Nat
    BY <1>11, <2>2 DEF Commit, TypeOK
  <2> QED
    BY <2>1, <2>3, <2>4 DEF TypeOK
<1>12. ASSUME NEW r \in Requests, Fail(r) PROVE TypeOK' /\ BodyInv'
  <2>1. /\ [req[r] EXCEPT !.stage = "ready"] \in Contents
        /\ BodyFits(r, [req[r] EXCEPT !.stage = "ready"])
    BY <1>0, <1>12 DEF Fail, Contents, BodyFits, Underway
  <2> QED
    BY <1>12, <2>1, HoldTypes, AnswerTypes DEF Fail, dbVars, TypeOK
<1>13. CASE UNCHANGED vars
  BY <1>13 DEF vars, TypeOK, BodyInv, BodyFits
<1> QED
  BY <1>1, <1>2, <1>3, <1>4, <1>5, <1>6, <1>7, <1>8, <1>9, <1>10, <1>11, <1>12, <1>13 DEF Next

(* Every reachable state has its type. *)
THEOREM TypeCorrect == Spec => []TypeOK
<1>1. Spec => [](TypeOK /\ BodyInv)
  BY TypeInit, TypeStep, PTL DEF Spec
<1> QED
  BY <1>1, PTL

-----------------------------------------------------------------------------
(* A save moves its own tarjoajat only                                     *)

LEMMA SafetyInit == Init => SaveInv /\ LockInv
BY DEF Init, SaveInv, LockInv, ReadFits, OwnFits, WrittenFits, Written, HoldsKoulutus, Blank, Requests

(* A request's step that leaves the database alone keeps the invariant if   *)
(* what the request holds after it fits and does not take a held row.       *)
LEMMA HoldKeeps ==
    ASSUME IInv, NEW r \in Requests, NEW q, Hold(r, q), UNCHANGED dbVars,
           r \in Saves => ReadFits(q) /\ OwnFits(q) /\ WrittenFits(q),
           q.stage \in Written /\ (r \in KoulutusEdits \/ q.inserted \cup q.deleted # {})
             => \A s \in Requests \ {r} : ~HoldsKoulutus(s)
    PROVE  SaveInv' /\ LockInv'
<1>1. \A s \in Requests : req'[s] = IF s = r THEN q ELSE req[s]
  BY DEF IInv, TypeOK, Hold
<1>2. \A s \in Requests \ {r} : HoldsKoulutus(s)' <=> HoldsKoulutus(s)
  BY <1>1 DEF HoldsKoulutus
<1>3. LockInv'
  BY <1>1, <1>2 DEF IInv, LockInv, HoldsKoulutus, Written
<1>4. ASSUME NEW s \in Saves PROVE (ReadFits(req[s]) /\ OwnFits(req[s]) /\ WrittenFits(req[s]))'
  <2>1. CASE s = r
    BY <1>1, <2>1 DEF ReadFits, OwnFits, WrittenFits, NewTarjoajatForKoulutus, dbVars
  <2>2. CASE s # r
    <3>1. req'[s] = req[s]
      BY <1>1, <2>2 DEF Requests
    <3> QED
      BY <3>1 DEF IInv, SaveInv, ReadFits, OwnFits, WrittenFits, NewTarjoajatForKoulutus, dbVars
  <2> QED
    BY <2>1, <2>2
<1> QED
  BY <1>3, <1>4 DEF SaveInv

LEMMA AnswerKeeps ==
    ASSUME IInv, NEW r \in Requests, UNCHANGED dbVars,
           NEW stage \in {"done", "conflict", "failed", "rejected"}, Answer(r, stage)
    PROVE  SaveInv' /\ LockInv'
<1> DEFINE q == [Blank EXCEPT !.stage = stage]
<1>1. q.stage = stage
  BY DEF Blank
<1>2. ReadFits(q) /\ OwnFits(q) /\ WrittenFits(q) /\ q.stage \notin Written
  BY <1>1 DEF ReadFits, OwnFits, WrittenFits, Written
<1> HIDE DEF q
<1>3. Hold(r, q)
  BY DEF Answer, q
<1> QED
  BY <1>2, <1>3, HoldKeeps

LEMMA SafetyStep == IInv /\ [Next]_vars => (SaveInv /\ LockInv)'
<1> SUFFICES ASSUME IInv, [Next]_vars
             PROVE  SaveInv' /\ LockInv'
  OBVIOUS
<1>0. \A r \in Requests :
        /\ req[r] \in Contents
        /\ r \in Saves => ReadFits(req[r]) /\ OwnFits(req[r]) /\ WrittenFits(req[r])
  BY DEF IInv, TypeOK, SaveInv
<1>1. ASSUME NEW r \in Requests, SendPut(r) PROVE SaveInv' /\ LockInv'
  <2>1. PICK ts \in Choices, new \in {"tallennettu", "julkaistu"} :
          Hold(r, [Blank EXCEPT !.stage = "toteutusRead", !.toteutus = r,
                                !.tarjoajat = ts, !.tila = new])
    BY <1>1 DEF SendPut
  <2> QED
    BY <1>1, <2>1, HoldKeeps
       DEF SendPut, Blank, ReadFits, OwnFits, WrittenFits, Written
<1>2. ASSUME NEW r \in Requests, SendUpdate(r) PROVE SaveInv' /\ LockInv'
  <2>1. PICK t \in Toteutukset, ts \in Choices, new \in Tilat :
          Hold(r, [Blank EXCEPT !.stage = "sent", !.toteutus = t, !.tarjoajat = ts,
                                !.tila = new, !.token = toteutusVersion[t]])
    BY <1>2 DEF SendUpdate
  <2> QED
    BY <1>2, <2>1, HoldKeeps
       DEF SendUpdate, Blank, ReadFits, OwnFits, WrittenFits, Written
<1>3. ASSUME NEW r \in Requests, SendKoulutusEdit(r) PROVE SaveInv' /\ LockInv'
  <2>1. PICK ts \in Choices :
          Hold(r, [Blank EXCEPT !.stage = "ready", !.tarjoajat = TarjoajienOppilaitokset(ts),
                                !.readVersion = koulutusVersion])
    BY <1>3 DEF SendKoulutusEdit
  <2>2. r \notin Saves
    BY <1>3, NamesAssumption DEF SendKoulutusEdit
  <2> QED
    BY <1>3, <2>1, <2>2, HoldKeeps DEF SendKoulutusEdit, Blank, Written
<1>4. ASSUME NEW r \in Requests, ReadToteutus(r) PROVE SaveInv' /\ LockInv'
  <2> DEFINE q == [req[r] EXCEPT !.stage = "toteutusRead", !.since = commits,
                                 !.old = tarjoajat[req[r].toteutus]]
  <2>1. q.stage = "toteutusRead"
    BY <1>0 DEF Contents
  <2>2. ReadFits(q) /\ OwnFits(q) /\ WrittenFits(q) /\ q.stage \notin Written
    BY <2>1 DEF ReadFits, OwnFits, WrittenFits, Written
  <2> HIDE DEF q
  <2>3. Hold(r, q) \/ Answer(r, "rejected")
    BY <1>4 DEF ReadToteutus, q
  <2> QED
    BY <1>4, <2>2, <2>3, HoldKeeps, AnswerKeeps DEF ReadToteutus
<1>5. ASSUME NEW r \in Requests, ReadKoulutus(r) PROVE SaveInv' /\ LockInv'
  <2> DEFINE q == [req[r] EXCEPT !.stage = IF r \in Puts THEN "ready" ELSE "koulutusRead",
                                 !.since = IF r \in Puts THEN commits ELSE @,
                                 !.read = koulutuksenTarjoajat,
                                 !.readVersion = koulutusVersion]
  <2>1. /\ q.stage \in {"ready", "koulutusRead"}
        /\ q.read = koulutuksenTarjoajat /\ q.readVersion = koulutusVersion
    BY <1>0 DEF Contents
  <2>2. ReadFits(q) /\ OwnFits(q) /\ WrittenFits(q) /\ q.stage \notin Written
    BY <2>1 DEF ReadFits, OwnFits, WrittenFits, Written, IInv, TypeOK
  <2> HIDE DEF q
  <2>3. Hold(r, q)
    BY <1>5 DEF ReadKoulutus, q
  <2> QED
    BY <1>5, <2>2, <2>3, HoldKeeps DEF ReadKoulutus
<1>6. ASSUME NEW r \in Requests, ReadToteutukset(r) PROVE SaveInv' /\ LockInv'
  <2> DEFINE q == [req[r] EXCEPT !.stage = "ready",
                                 !.safe = DeletableTarjoajienOppilaitokset(req[r])]
  <2>1. q.stage = "ready" /\ q.read = req[r].read /\ q.readVersion = req[r].readVersion
    BY <1>0 DEF Contents
  <2>2. /\ r \in Saves => ReadFits(q) /\ OwnFits(q) /\ WrittenFits(q)
        /\ q.stage \notin Written
    BY <1>0, <1>6, <2>1 DEF ReadToteutukset, ReadFits, OwnFits, WrittenFits, Written
  <2> HIDE DEF q
  <2>3. Hold(r, q)
    BY <1>6 DEF ReadToteutukset, q
  <2> QED
    BY <1>6, <2>2, <2>3, HoldKeeps DEF ReadToteutukset
<1>7. ASSUME NEW r \in Requests, Refuse(r) PROVE SaveInv' /\ LockInv'
  BY <1>7, AnswerKeeps DEF Refuse
<1>8. ASSUME NEW r \in Requests, Begin(r) PROVE SaveInv' /\ LockInv'
  <2> DEFINE q == [req[r] EXCEPT !.stage = "begun", !.koulutusSnapshot = koulutusVersion,
                                 !.inserted = {}, !.deleted = {}, !.touched = FALSE]
  <2>1. CASE Answer(r, "conflict")
    BY <1>8, <2>1, AnswerKeeps DEF Begin
  <2>2. CASE Hold(r, q) /\ ~(KoulutusIsToChange(r) /\ req[r].readVersion # koulutusVersion)
    <3>1. /\ q.stage = "begun" /\ q.koulutusSnapshot = koulutusVersion
          /\ q.read = req[r].read /\ q.readVersion = req[r].readVersion
          /\ q.tarjoajat = req[r].tarjoajat /\ q.safe = req[r].safe
      BY <1>0 DEF Contents
    <3>2. NewTarjoajatForKoulutus(q) = NewTarjoajatForKoulutus(req[r])
      BY <3>1 DEF NewTarjoajatForKoulutus
    <3> HIDE DEF q
    <3>3. r \in Saves => ReadFits(q)
      BY <1>0, <1>8, <2>2, <3>1, <3>2 DEF Begin, ReadFits, KoulutusIsToChange
    <3>4. OwnFits(q) /\ WrittenFits(q) /\ q.stage \notin Written
      BY <3>1 DEF OwnFits, WrittenFits, Written
    <3> QED
      BY <1>8, <2>2, <3>3, <3>4, HoldKeeps DEF Begin
  <2> QED
    BY <1>8, <2>1, <2>2 DEF Begin
<1>9. ASSUME NEW r \in Requests, WriteKoulutus(r) PROVE SaveInv' /\ LockInv'
  <2> DEFINE new == IF r \in KoulutusEdits THEN req[r].tarjoajat
                    ELSE IF KoulutusIsToChange(r) THEN NewTarjoajatForKoulutus(req[r])
                    ELSE koulutuksenTarjoajat
             q   == [req[r] EXCEPT
                       !.stage = IF r \in Saves THEN "koulutusWritten" ELSE "written",
                       !.inserted = new \ koulutuksenTarjoajat,
                       !.deleted = koulutuksenTarjoajat \ new]
  <2>1. /\ Hold(r, q)
        /\ req[r].stage = "begun"
        /\ r \in KoulutusEdits \/ new # koulutuksenTarjoajat =>
             /\ req[r].koulutusSnapshot = koulutusVersion
             /\ \A s \in Requests : ~HoldsKoulutus(s)
        /\ UNCHANGED dbVars
    BY <1>9 DEF WriteKoulutus
  <2>2. new # koulutuksenTarjoajat /\ r \in Saves =>
          /\ new = (req[r].read \ req[r].safe)
                     \cup (TarjoajienOppilaitokset(req[r].tarjoajat) \ req[r].read)
          /\ req[r].read = koulutuksenTarjoajat
    BY <1>0, <2>1, NamesAssumption DEF ReadFits, KoulutusIsToChange, NewTarjoajatForKoulutus, IInv, TypeOK
  <2> HIDE DEF new
  <2>3. /\ q.stage = IF r \in Saves THEN "koulutusWritten" ELSE "written"
        /\ q.inserted = new \ koulutuksenTarjoajat
        /\ q.deleted = koulutuksenTarjoajat \ new
    BY <1>0 DEF Contents
  <2>4. /\ q.read = req[r].read /\ q.readVersion = req[r].readVersion
        /\ q.tarjoajat = req[r].tarjoajat /\ q.safe = req[r].safe
    BY <1>0 DEF Contents
  <2> HIDE DEF q
  <2>5. r \in Saves => ReadFits(q)
    BY <1>0, <2>1, <2>3, <2>4 DEF ReadFits
  <2>6. r \in Saves => OwnFits(q)
    BY <2>2, <2>3, <2>4 DEF OwnFits
  <2>7. r \in Saves => WrittenFits(q)
    BY <2>2, <2>3, <2>4 DEF WrittenFits
  <2>8. r \in KoulutusEdits \/ q.inserted \cup q.deleted # {}
          => \A s \in Requests \ {r} : ~HoldsKoulutus(s)
    BY <2>1, <2>3
  <2> QED
    BY <2>1, <2>5, <2>6, <2>7, <2>8, HoldKeeps
<1>10. ASSUME NEW r \in Requests, WriteToteutus(r) PROVE SaveInv' /\ LockInv'
  <2>1. PICK q \in {[req[r] EXCEPT !.stage = "written", !.touched = TRUE],
                    [req[r] EXCEPT !.stage = "written"]} : Hold(r, q)
    BY <1>10 DEF WriteToteutus
  <2>2. /\ q.stage = "written"
        /\ q.read = req[r].read /\ q.readVersion = req[r].readVersion
        /\ q.tarjoajat = req[r].tarjoajat /\ q.safe = req[r].safe
        /\ q.inserted = req[r].inserted /\ q.deleted = req[r].deleted
    BY <1>0, <2>1 DEF Contents
  <2>3. req[r].stage = "koulutusWritten" /\ UNCHANGED dbVars
    BY <1>10 DEF WriteToteutus
  <2>4. r \in Saves => ReadFits(q) /\ OwnFits(q) /\ WrittenFits(q)
    BY <1>0, <2>2, <2>3 DEF ReadFits, OwnFits, WrittenFits, Written
  <2>5. r \in KoulutusEdits \/ q.inserted \cup q.deleted # {}
          => \A s \in Requests \ {r} : ~HoldsKoulutus(s)
    BY <2>2, <2>3 DEF IInv, LockInv, HoldsKoulutus
  <2> QED
    BY <2>1, <2>3, <2>4, <2>5, HoldKeeps
<1>11. ASSUME NEW r \in Requests, Commit(r) PROVE SaveInv' /\ LockInv'
  <2>1. \A s \in Requests : req'[s] = IF s = r THEN [Blank EXCEPT !.stage = "done"] ELSE req[s]
    BY <1>11 DEF Commit, Answer, Hold, IInv, TypeOK
  <2>2. req'[r].stage = "done"
    BY <2>1 DEF Blank
  <2>3. CASE HoldsKoulutus(r)
    <3>1. koulutusVersion' = koulutusVersion + 1
      BY <1>11, <2>3 DEF Commit
    <3>2. \A s \in Requests \ {r} : ~HoldsKoulutus(s)
      BY <2>3 DEF IInv, LockInv
    <3>3. ASSUME NEW s \in Saves PROVE (ReadFits(req[s]) /\ OwnFits(req[s]) /\ WrittenFits(req[s]))'
      <4>1. CASE s = r
        BY <2>2, <4>1 DEF ReadFits, OwnFits, WrittenFits, Written
      <4>2. CASE s # r
        <5>1. req'[s] = req[s] /\ s \in Requests
          BY <2>1, <4>2 DEF Requests
        <5>2. ReadFits(req[s])'
          BY <1>0, <3>1, <5>1 DEF ReadFits, NewTarjoajatForKoulutus, IInv, TypeOK, Contents
        <5>3. OwnFits(req[s])'
          BY <1>0, <5>1 DEF OwnFits
        <5>4. WrittenFits(req[s])'
          BY <3>2, <4>2, <5>1 DEF WrittenFits, HoldsKoulutus, Written
        <5> QED
          BY <5>2, <5>3, <5>4
      <4> QED
        BY <4>1, <4>2
    <3>4. LockInv'
      BY <2>1, <2>2 DEF IInv, LockInv, HoldsKoulutus
    <3> QED
      BY <3>3, <3>4 DEF SaveInv
  <2>4. CASE ~HoldsKoulutus(r)
    <3>1. req[r].inserted = {} /\ req[r].deleted = {}
      BY <1>11, <2>4 DEF Commit, HoldsKoulutus
    <3>2. koulutuksenTarjoajat' = koulutuksenTarjoajat /\ koulutusVersion' = koulutusVersion
      BY <1>11, <2>4, <3>1 DEF Commit
    <3>3. ASSUME NEW s \in Saves PROVE (ReadFits(req[s]) /\ OwnFits(req[s]) /\ WrittenFits(req[s]))'
      <4>1. CASE s = r
        BY <2>2, <4>1 DEF ReadFits, OwnFits, WrittenFits, Written
      <4>2. CASE s # r
        BY <1>0, <2>1, <3>2, <4>2
           DEF ReadFits, OwnFits, WrittenFits, NewTarjoajatForKoulutus, Requests
      <4> QED
        BY <4>1, <4>2
    <3>4. LockInv'
      BY <2>1, <2>2 DEF IInv, LockInv, HoldsKoulutus
    <3> QED
      BY <3>3, <3>4 DEF SaveInv
  <2> QED
    BY <2>3, <2>4
<1>12. ASSUME NEW r \in Requests, Fail(r) PROVE SaveInv' /\ LockInv'
  <2> DEFINE q == [req[r] EXCEPT !.stage = "ready"]
  <2>1. q.stage = "ready" /\ q.read = req[r].read /\ q.readVersion = req[r].readVersion
    BY <1>0 DEF Contents
  <2>2. /\ r \in Saves => ReadFits(q) /\ OwnFits(q) /\ WrittenFits(q)
        /\ q.stage \notin Written
    BY <1>0, <1>12, <2>1 DEF Fail, ReadFits, OwnFits, WrittenFits, Written
  <2> HIDE DEF q
  <2>3. Hold(r, q) \/ Answer(r, "failed")
    BY <1>12 DEF Fail, q
  <2> QED
    BY <1>12, <2>2, <2>3, HoldKeeps, AnswerKeeps DEF Fail
<1>13. CASE UNCHANGED vars
  BY <1>0, <1>13 DEF vars, IInv, SaveInv, LockInv, HoldsKoulutus,
     ReadFits, OwnFits, WrittenFits, NewTarjoajatForKoulutus
<1> QED
  BY <1>1, <1>2, <1>3, <1>4, <1>5, <1>6, <1>7, <1>8, <1>9, <1>10, <1>11, <1>12, <1>13 DEF Next

LEMMA Invariant == Spec => []IInv
<1>1. Init => IInv
  BY TypeInit, SafetyInit DEF IInv
<1>2. IInv /\ [Next]_vars => IInv'
  BY TypeStep, SafetyStep DEF IInv
<1> QED
  BY <1>1, <1>2, PTL DEF Spec

(* A step that commits a save is that save's Commit. *)
LEMMA CommitsAlone ==
    ASSUME TypeOK, [Next]_vars, NEW r \in Saves, Commits(r)
    PROVE  Commit(r)
<1>1. r \in Requests
  BY DEF Requests
<1>2. ASSUME NEW s \in Requests, NEW q, Hold(s, q), q.stage # "done" PROVE FALSE
  <2>1. req'[r] = IF s = r THEN q ELSE req[r]
    BY <1>1, <1>2 DEF Hold, TypeOK
  <2> QED
    BY <1>2, <2>1 DEF Commits
<1>3. ASSUME NEW s \in Requests, NEW stage \in {"conflict", "failed", "rejected"}, Answer(s, stage)
      PROVE  FALSE
  <2>1. Hold(s, [Blank EXCEPT !.stage = stage]) /\ [Blank EXCEPT !.stage = stage].stage # "done"
    BY <1>3 DEF Answer, Blank
  <2> QED
    BY <1>2, <2>1
<1>4. \A s \in Requests : req[s] \in Contents
  BY DEF TypeOK
<1>5. ASSUME NEW s \in Requests, Commit(s) PROVE s = r
  BY <1>1, <1>5 DEF Commit, Answer, Hold, Commits, TypeOK
<1>6. \A s \in Requests : ~SendPut(s) /\ ~SendUpdate(s) /\ ~SendKoulutusEdit(s)
  <2>1. ASSUME NEW s \in Requests, SendPut(s) PROVE FALSE
    BY <1>2, <2>1 DEF SendPut, Blank
  <2>2. ASSUME NEW s \in Requests, SendUpdate(s) PROVE FALSE
    BY <1>2, <2>2 DEF SendUpdate, Blank
  <2>3. ASSUME NEW s \in Requests, SendKoulutusEdit(s) PROVE FALSE
    BY <1>2, <2>3 DEF SendKoulutusEdit, Blank
  <2> QED
    BY <2>1, <2>2, <2>3
<1>7. \A s \in Requests : ~ReadToteutus(s) /\ ~Refuse(s)
  BY <1>2, <1>3, <1>4 DEF ReadToteutus, Refuse, Contents
<1>8. \A s \in Requests : ~ReadKoulutus(s) /\ ~ReadToteutukset(s)
  BY <1>2, <1>4 DEF ReadKoulutus, ReadToteutukset, Contents
<1>9. \A s \in Requests : ~Begin(s) /\ ~Fail(s)
  BY <1>2, <1>3, <1>4 DEF Begin, Fail, Contents
<1>10. \A s \in Requests : ~WriteKoulutus(s) /\ ~WriteToteutus(s)
  <2>1. ASSUME NEW s \in Requests, WriteKoulutus(s) PROVE FALSE
    BY <1>2, <1>4, <2>1 DEF WriteKoulutus, Contents
  <2>2. ASSUME NEW s \in Requests, WriteToteutus(s) PROVE FALSE
    BY <1>2, <1>4, <2>2 DEF WriteToteutus, Contents
  <2> QED
    BY <2>1, <2>2
<1>11. ~UNCHANGED vars
  BY DEF vars, Commits
<1> QED
  BY <1>5, <1>6, <1>7, <1>8, <1>9, <1>10, <1>11 DEF Next

(* However stale the reads of a save are, it takes away from the koulutus   *)
(* nothing but what it gave up and adds nothing but what it brought.        *)
THEOREM OnlyOwnTarjoajatMove == Spec => OthersTarjoajatStay
<1>1. ASSUME IInv, [Next]_vars, NEW r \in Saves, Commits(r)
      PROVE  /\ koulutuksenTarjoajat \ koulutuksenTarjoajat' \subseteq req[r].safe
             /\ koulutuksenTarjoajat' \ koulutuksenTarjoajat
                  \subseteq TarjoajienOppilaitokset(req[r].tarjoajat)
  <2>1. Commit(r)
    BY <1>1, CommitsAlone DEF IInv
  <2>2. OwnFits(req[r]) /\ req[r].stage = "written"
    BY <1>1, <2>1 DEF IInv, SaveInv, Commit
  <2> QED
    BY <2>1, <2>2 DEF Commit, OwnFits, Written
<1>2. IInv /\ [Next]_vars => [\A r \in Saves : Commits(r) =>
         /\ koulutuksenTarjoajat \ koulutuksenTarjoajat' \subseteq req[r].safe
         /\ koulutuksenTarjoajat' \ koulutuksenTarjoajat
              \subseteq TarjoajienOppilaitokset(req[r].tarjoajat)]_vars
  BY <1>1
<1> QED
  BY <1>2, Invariant, PTL DEF Spec, OthersTarjoajatStay

(* A save that changes the koulutus leaves it every oppilaitos it needs. *)
THEOREM ChangeFits == Spec => ChangedKoulutusFits
<1>1. ASSUME IInv, [Next]_vars, NEW r \in Saves,
             Commits(r), koulutuksenTarjoajat' # koulutuksenTarjoajat
      PROVE  TarjoajienOppilaitokset(req[r].tarjoajat) \ req[r].safe \subseteq koulutuksenTarjoajat'
  <2>1. Commit(r)
    BY <1>1, CommitsAlone DEF IInv
  <2>2. WrittenFits(req[r]) /\ req[r].stage = "written"
    BY <1>1, <2>1 DEF IInv, SaveInv, Commit
  <2> QED
    BY <1>1, <2>1, <2>2 DEF Commit, WrittenFits, Written
<1>2. IInv /\ [Next]_vars => [\A r \in Saves :
         Commits(r) /\ koulutuksenTarjoajat' # koulutuksenTarjoajat =>
           TarjoajienOppilaitokset(req[r].tarjoajat) \ req[r].safe
             \subseteq koulutuksenTarjoajat']_vars
  BY <1>1
<1> QED
  BY <1>2, Invariant, PTL DEF Spec, ChangedKoulutusFits

-----------------------------------------------------------------------------
(* A save that had the server to itself keeps what is in use covered       *)

Decided == {"ready"} \cup InTx

(* What is given up is needed neither by the toteutus that is saved nor by *)
(* another one in use.                                                     *)
Spares(q) ==
    /\ q.tila # "poistettu" => TarjoajienOppilaitokset(q.tarjoajat) \cap q.safe = {}
    /\ \A t \in InUse \ {q.toteutus} : TarjoajienOppilaitokset(tarjoajat[t]) \cap q.safe = {}

(* The decision of a save during which nothing was committed is made from  *)
(* what is committed.                                                      *)
AloneFits(q) ==
    /\ q.stage \in Decided => Spares(q)
    /\ q.stage \in {"koulutusRead"} \cup Decided => q.read = koulutuksenTarjoajat
    /\ q.stage \in Written =>
         (koulutuksenTarjoajat \ q.deleted) \cup q.inserted = NewTarjoajatForKoulutus(q)
    /\ q.stage = "written" /\ ~q.touched =>
         tarjoajat[q.toteutus] = q.tarjoajat /\ tila[q.toteutus] = q.tila

(* A put has no old toteutus to read and gives up nothing. *)
PutFits(r, q) == r \in Puts =>
    /\ q.stage # "sent"
    /\ q.stage = "toteutusRead" => q.safe = {}

HasRead(r) == {"koulutusRead"} \cup Decided \cup IF r \in Puts THEN {} ELSE {"toteutusRead"}

Alone(r, q) ==
    /\ PutFits(r, q)
    /\ q.stage \in HasRead(r) => q.since <= commits /\ (q.since = commits => AloneFits(q))

AloneInv == \A r \in Saves : Alone(r, req[r])

(* What is decided stays the same from the reads to the commit. *)
SameDecision(p, q) ==
    /\ p.since = q.since /\ p.read = q.read /\ p.safe = q.safe
    /\ p.toteutus = q.toteutus /\ p.tarjoajat = q.tarjoajat /\ p.tila = q.tila

LEMMA AloneInit == Init => AloneInv
BY DEF Init, AloneInv, Alone, PutFits, HasRead, Decided, Blank, Requests

(* What a step that leaves the database alone gives a request is all that  *)
(* has to fit.                                                             *)
LEMMA HoldAlone ==
    ASSUME TypeOK, AloneInv, NEW r \in Requests, NEW q, Hold(r, q), UNCHANGED dbVars,
           r \in Saves => Alone(r, q)
    PROVE  AloneInv'
<1>1. \A s \in Requests : req'[s] = IF s = r THEN q ELSE req[s]
  BY DEF TypeOK, Hold
<1>2. ASSUME NEW s \in Saves PROVE Alone(s, req[s])'
  <2>1. CASE s = r
    BY <1>1, <2>1 DEF Alone, PutFits, HasRead, Decided, AloneFits, Spares, InUse,
       NewTarjoajatForKoulutus, Written, dbVars
  <2>2. CASE s # r
    <3>1. req'[s] = req[s]
      BY <1>1, <2>2 DEF Requests
    <3>2. Alone(s, req[s])
      BY DEF AloneInv
    <3> QED
      BY <3>1, <3>2 DEF Alone, PutFits, HasRead, Decided, AloneFits, Spares, InUse,
         NewTarjoajatForKoulutus, Written, dbVars
  <2> QED
    BY <2>1, <2>2
<1> QED
  BY <1>2 DEF AloneInv

LEMMA AnswerAlone ==
    ASSUME TypeOK, AloneInv, NEW r \in Requests, UNCHANGED dbVars,
           NEW stage \in {"done", "conflict", "failed", "rejected"}, Answer(r, stage)
    PROVE  AloneInv'
<1> DEFINE q == [Blank EXCEPT !.stage = stage]
<1>1. Alone(r, q)
  BY DEF Blank, Alone, PutFits, HasRead, Decided
<1> QED
  BY <1>1, HoldAlone DEF Answer

(* What getDeletableTarjoajienOppilaitokset names is needed by nobody. *)
LEMMA DeletableSpares ==
    ASSUME NEW q, NEW p, p.toteutus = q.toteutus, p.tarjoajat = q.tarjoajat,
           p.tila = q.tila, p.safe = DeletableTarjoajienOppilaitokset(q)
    PROVE  Spares(p)
<1> DEFINE deleted   == IF q.tila = "poistettu" THEN q.tarjoajat ELSE q.old \ q.tarjoajat
           remaining == q.tarjoajat \ deleted
           others    == UNION {tarjoajat[t] : t \in InUse \ {q.toteutus}}
<1>1. TarjoajienOppilaitokset(others \cup remaining) \cap p.safe = {}
  BY DEF DeletableTarjoajienOppilaitokset
<1>2. \A t \in InUse \ {p.toteutus} : tarjoajat[t] \subseteq others \cup remaining
  OBVIOUS
<1>3. p.tila # "poistettu" => p.tarjoajat \subseteq others \cup remaining
  OBVIOUS
<1> HIDE DEF others, remaining
<1>4. \A ts : ts \subseteq others \cup remaining => TarjoajienOppilaitokset(ts) \cap p.safe = {}
  BY <1>1 DEF TarjoajienOppilaitokset
<1> QED
  BY <1>2, <1>3, <1>4 DEF Spares

LEMMA AloneStep == IInv /\ AloneInv /\ [Next]_vars => AloneInv'
<1> SUFFICES ASSUME IInv, AloneInv, [Next]_vars
             PROVE  AloneInv'
  OBVIOUS
<1>0. /\ TypeOK
      /\ \A r \in Requests : req[r] \in Contents
      /\ \A r \in Saves : r \in Requests /\ Alone(r, req[r]) /\ r \notin KoulutusEdits
      /\ commits \in Nat
  BY NamesAssumption DEF IInv, TypeOK, AloneInv, Requests
<1>1. ASSUME NEW r \in Requests, SendPut(r) PROVE AloneInv'
  <2>1. PICK ts \in Choices, new \in {"tallennettu", "julkaistu"} :
          Hold(r, [Blank EXCEPT !.stage = "toteutusRead", !.toteutus = r,
                                !.tarjoajat = ts, !.tila = new])
    BY <1>1 DEF SendPut
  <2> DEFINE q == [Blank EXCEPT !.stage = "toteutusRead", !.toteutus = r,
                                !.tarjoajat = ts, !.tila = new]
  <2>2. q.stage = "toteutusRead" /\ q.safe = {} /\ r \in Puts
    BY <1>1 DEF SendPut, Blank
  <2>3. Alone(r, q)
    BY <2>2 DEF Alone, PutFits, HasRead, Decided
  <2> QED
    BY <1>0, <1>1, <2>1, <2>3, HoldAlone DEF SendPut
<1>2. ASSUME NEW r \in Requests, SendUpdate(r) PROVE AloneInv'
  <2>1. PICK t \in Toteutukset, ts \in Choices, new \in Tilat :
          Hold(r, [Blank EXCEPT !.stage = "sent", !.toteutus = t, !.tarjoajat = ts,
                                !.tila = new, !.token = toteutusVersion[t]])
    BY <1>2 DEF SendUpdate
  <2> DEFINE q == [Blank EXCEPT !.stage = "sent", !.toteutus = t, !.tarjoajat = ts,
                                !.tila = new, !.token = toteutusVersion[t]]
  <2>2. q.stage = "sent" /\ r \notin Puts
    BY <1>2, NamesAssumption DEF SendUpdate, Blank
  <2>3. Alone(r, q)
    BY <2>2 DEF Alone, PutFits, HasRead, Decided
  <2> QED
    BY <1>0, <1>2, <2>1, <2>3, HoldAlone DEF SendUpdate
<1>3. ASSUME NEW r \in Requests, SendKoulutusEdit(r) PROVE AloneInv'
  <2>1. PICK ts \in Choices :
          Hold(r, [Blank EXCEPT !.stage = "ready", !.tarjoajat = TarjoajienOppilaitokset(ts),
                                !.readVersion = koulutusVersion])
    BY <1>3 DEF SendKoulutusEdit
  <2>2. r \notin Saves
    BY <1>3, NamesAssumption DEF SendKoulutusEdit
  <2> QED
    BY <1>0, <1>3, <2>1, <2>2, HoldAlone DEF SendKoulutusEdit
<1>4. ASSUME NEW r \in Requests, ReadToteutus(r) PROVE AloneInv'
  <2> DEFINE q == [req[r] EXCEPT !.stage = "toteutusRead", !.since = commits,
                                 !.old = tarjoajat[req[r].toteutus]]
  <2>1. q.stage = "toteutusRead" /\ q.since = commits /\ q.safe = req[r].safe
    BY <1>0 DEF Contents
  <2>2. r \notin Puts
    BY <1>0, <1>4 DEF ReadToteutus, Alone, PutFits, Saves
  <2> HIDE DEF q
  <2>3. Alone(r, q)
    BY <1>0, <2>1, <2>2 DEF Alone, PutFits, AloneFits, Decided, Written
  <2>4. Hold(r, q) \/ Answer(r, "rejected")
    BY <1>4 DEF ReadToteutus, q
  <2> QED
    BY <1>0, <1>4, <2>3, <2>4, HoldAlone, AnswerAlone DEF ReadToteutus
<1>5. ASSUME NEW r \in Requests, ReadKoulutus(r) PROVE AloneInv'
  <2> DEFINE q == [req[r] EXCEPT !.stage = IF r \in Puts THEN "ready" ELSE "koulutusRead",
                                 !.since = IF r \in Puts THEN commits ELSE @,
                                 !.read = koulutuksenTarjoajat,
                                 !.readVersion = koulutusVersion]
  <2>1. /\ q.stage = IF r \in Puts THEN "ready" ELSE "koulutusRead"
        /\ q.since = IF r \in Puts THEN commits ELSE req[r].since
        /\ q.read = koulutuksenTarjoajat /\ q.safe = req[r].safe
    BY <1>0 DEF Contents
  <2> HIDE DEF q
  <2>2. r \in Saves => Alone(r, req[r]) /\ req[r].stage = "toteutusRead"
    BY <1>0, <1>5 DEF ReadKoulutus
  <2>3. r \in Saves => Alone(r, q)
    BY <1>0, <2>1, <2>2 DEF Alone, PutFits, HasRead, Decided, AloneFits, Spares, Written
  <2>4. Hold(r, q)
    BY <1>5 DEF ReadKoulutus, q
  <2> QED
    BY <1>0, <1>5, <2>3, <2>4, HoldAlone DEF ReadKoulutus
<1>6. ASSUME NEW r \in Requests, ReadToteutukset(r) PROVE AloneInv'
  <2> DEFINE q == [req[r] EXCEPT !.stage = "ready",
                                 !.safe = DeletableTarjoajienOppilaitokset(req[r])]
  <2>1. /\ q.stage = "ready" /\ q.since = req[r].since /\ q.read = req[r].read
        /\ q.toteutus = req[r].toteutus /\ q.tarjoajat = req[r].tarjoajat
        /\ q.tila = req[r].tila /\ q.safe = DeletableTarjoajienOppilaitokset(req[r])
    BY <1>0 DEF Contents
  <2> HIDE DEF q
  <2>2. Spares(q)
    BY <2>1, DeletableSpares
  <2>3. r \in Saves => Alone(r, q)
    BY <1>0, <1>6, <2>1, <2>2
       DEF ReadToteutukset, Alone, PutFits, HasRead, Decided, AloneFits, Written
  <2>4. Hold(r, q)
    BY <1>6 DEF ReadToteutukset, q
  <2> QED
    BY <1>0, <1>6, <2>3, <2>4, HoldAlone DEF ReadToteutukset
<1>7. ASSUME NEW r \in Requests, Refuse(r) PROVE AloneInv'
  BY <1>0, <1>7, AnswerAlone DEF Refuse
<1>8. ASSUME NEW r \in Requests, Begin(r) PROVE AloneInv'
  <2> DEFINE q == [req[r] EXCEPT !.stage = "begun", !.koulutusSnapshot = koulutusVersion,
                                 !.inserted = {}, !.deleted = {}, !.touched = FALSE]
  <2>1. q.stage = "begun" /\ SameDecision(q, req[r])
    BY <1>0 DEF Contents, SameDecision
  <2> HIDE DEF q
  <2>2. r \in Saves => Alone(r, q)
    BY <1>0, <1>8, <2>1 DEF Begin, SameDecision, Alone, PutFits, HasRead, Decided, AloneFits, Spares, Written
  <2>3. Hold(r, q) \/ Answer(r, "conflict")
    BY <1>8 DEF Begin, q
  <2> QED
    BY <1>0, <1>8, <2>2, <2>3, HoldAlone, AnswerAlone DEF Begin
<1>9. ASSUME NEW r \in Requests, WriteKoulutus(r) PROVE AloneInv'
  <2> DEFINE new == IF r \in KoulutusEdits THEN req[r].tarjoajat
                    ELSE IF KoulutusIsToChange(r) THEN NewTarjoajatForKoulutus(req[r])
                    ELSE koulutuksenTarjoajat
             q   == [req[r] EXCEPT
                       !.stage = IF r \in Saves THEN "koulutusWritten" ELSE "written",
                       !.inserted = new \ koulutuksenTarjoajat,
                       !.deleted = koulutuksenTarjoajat \ new]
  <2>1. Hold(r, q) /\ req[r].stage = "begun" /\ UNCHANGED dbVars
    BY <1>9 DEF WriteKoulutus
  <2>2. r \in Saves /\ req[r].read = koulutuksenTarjoajat => new = NewTarjoajatForKoulutus(req[r])
    BY <1>0 DEF KoulutusIsToChange
  <2> HIDE DEF new
  <2>3. /\ q.stage = IF r \in Saves THEN "koulutusWritten" ELSE "written"
        /\ q.inserted = new \ koulutuksenTarjoajat
        /\ q.deleted = koulutuksenTarjoajat \ new
        /\ SameDecision(q, req[r])
    BY <1>0 DEF Contents, SameDecision
  <2> HIDE DEF q
  <2>4. r \in Saves /\ req[r].since = commits =>
          /\ req[r].read = koulutuksenTarjoajat /\ Spares(q)
          /\ (koulutuksenTarjoajat \ q.deleted) \cup q.inserted = new
          /\ NewTarjoajatForKoulutus(q) = NewTarjoajatForKoulutus(req[r])
    <3>1. (koulutuksenTarjoajat \ q.deleted) \cup q.inserted = new
      BY <2>3
    <3>2. NewTarjoajatForKoulutus(q) = NewTarjoajatForKoulutus(req[r])
      BY <2>3 DEF SameDecision, NewTarjoajatForKoulutus
    <3>3. r \in Saves /\ req[r].since = commits =>
            req[r].read = koulutuksenTarjoajat /\ Spares(q)
      BY <1>0, <2>1, <2>3 DEF SameDecision, Alone, HasRead, Decided, AloneFits, Spares
    <3> QED
      BY <3>1, <3>2, <3>3
  <2>5. r \in Saves => Alone(r, q)
    BY <1>0, <2>1, <2>2, <2>3, <2>4
       DEF SameDecision, Alone, PutFits, HasRead, Decided, AloneFits
  <2> QED
    BY <1>0, <2>1, <2>5, HoldAlone
<1>10. ASSUME NEW r \in Requests, WriteToteutus(r) PROVE AloneInv'
  <2>1. PICK q \in {[req[r] EXCEPT !.stage = "written", !.touched = TRUE],
                    [req[r] EXCEPT !.stage = "written"]} :
          /\ Hold(r, q)
          /\ ~q.touched => /\ tarjoajat[req[r].toteutus] = req[r].tarjoajat
                           /\ tila[req[r].toteutus] = req[r].tila
    <3>1. [req[r] EXCEPT !.stage = "written", !.touched = TRUE].touched
      BY <1>0 DEF Contents
    <3> QED
      BY <1>10, <3>1 DEF WriteToteutus
  <2>2. /\ q.stage = "written" /\ SameDecision(q, req[r])
        /\ q.inserted = req[r].inserted /\ q.deleted = req[r].deleted
    BY <1>0, <2>1 DEF Contents, SameDecision
  <2>3. req[r].stage = "koulutusWritten" /\ UNCHANGED dbVars
    BY <1>10 DEF WriteToteutus
  <2>4. r \in Saves => Alone(r, q)
    BY <1>0, <2>1, <2>2, <2>3
       DEF SameDecision, Alone, PutFits, HasRead, Decided, AloneFits, Spares, Written,
           NewTarjoajatForKoulutus
  <2> QED
    BY <1>0, <2>1, <2>3, <2>4, HoldAlone
<1>11. ASSUME NEW r \in Requests, Commit(r) PROVE AloneInv'
  <2>1. commits' = commits + 1
    BY <1>11 DEF Commit
  <2>2. \A s \in Requests : req'[s] = IF s = r THEN [Blank EXCEPT !.stage = "done"] ELSE req[s]
    BY <1>0, <1>11 DEF Commit, Answer, Hold, TypeOK
  <2>3. ASSUME NEW s \in Saves PROVE Alone(s, req[s])'
    <3>1. CASE s = r
      <4>1. req'[s].stage = "done"
        BY <1>0, <2>2, <3>1 DEF Blank
      <4> QED
        BY <4>1 DEF Alone, PutFits, HasRead, Decided
    <3>2. CASE s # r
      <4>1. req'[s] = req[s] /\ Alone(s, req[s]) /\ req[s].since \in Nat
        BY <1>0, <2>2, <3>2 DEF Contents
      <4> QED
        BY <1>0, <2>1, <4>1 DEF Alone, PutFits, HasRead, Decided
    <3> QED
      BY <3>1, <3>2
  <2> QED
    BY <2>3 DEF AloneInv
<1>12. ASSUME NEW r \in Requests, Fail(r) PROVE AloneInv'
  <2> DEFINE q == [req[r] EXCEPT !.stage = "ready"]
  <2>1. q.stage = "ready" /\ SameDecision(q, req[r])
    BY <1>0 DEF Contents, SameDecision
  <2> HIDE DEF q
  <2>2. r \in Saves => Alone(r, q)
    BY <1>0, <1>12, <2>1 DEF Fail, SameDecision, Alone, PutFits, HasRead, Decided, AloneFits, Spares, Written
  <2>3. Hold(r, q) \/ Answer(r, "failed")
    BY <1>12 DEF Fail, q
  <2> QED
    BY <1>0, <1>12, <2>2, <2>3, HoldAlone, AnswerAlone DEF Fail
<1>13. CASE UNCHANGED vars
  BY <1>13 DEF vars, AloneInv, Alone, PutFits, HasRead, Decided, AloneFits, Spares, InUse,
     NewTarjoajatForKoulutus, Written
<1> QED
  BY <1>1, <1>2, <1>3, <1>4, <1>5, <1>6, <1>7, <1>8, <1>9, <1>10, <1>11, <1>12, <1>13 DEF Next

(* A save whose reads and commit nothing was committed between never leaves *)
(* a toteutus in use without its oppilaitos among those of the koulutus.    *)
THEOREM AloneCovers == Spec => AloneKeepsCovered
<1>1. ASSUME IInv, AloneInv, [Next]_vars, NEW r \in Saves,
             Commits(r), req[r].since = commits, Covered
      PROVE  Covered'
  <2> DEFINE q == req[r]
  <2>1. Commit(r)
    BY <1>1, CommitsAlone DEF IInv
  <2>2. q.stage = "written" /\ AloneFits(q)
    BY <1>1, <2>1 DEF AloneInv, Alone, HasRead, Decided, Commit
  <2>3. koulutuksenTarjoajat' =
          (koulutuksenTarjoajat \ q.safe)
            \cup (TarjoajienOppilaitokset(q.tarjoajat) \ koulutuksenTarjoajat)
    BY <2>1, <2>2 DEF Commit, AloneFits, Decided, Written, NewTarjoajatForKoulutus
  <2>4. Spares(q)
    BY <2>2 DEF AloneFits, Decided
  <2>5. ASSUME NEW t \in InUse', t # q.toteutus
        PROVE  t \in InUse /\ tarjoajat'[t] = tarjoajat[t]
    BY <1>1, <2>1, <2>5 DEF Commit, InUse, IInv, TypeOK
  <2>6. q.toteutus \in InUse' => tarjoajat'[q.toteutus] = q.tarjoajat /\ q.tila # "poistettu"
    BY <1>1, <2>1, <2>2 DEF Commit, InUse, AloneFits, IInv, TypeOK,
       OnlyOlemassaolevatAndArkistoimattomat
  <2>7. ASSUME NEW t \in InUse'
        PROVE  TarjoajienOppilaitokset(tarjoajat'[t]) \subseteq koulutuksenTarjoajat'
    <3>1. CASE t = q.toteutus
      BY <2>3, <2>4, <2>6, <2>7, <3>1 DEF Spares
    <3>2. CASE t # q.toteutus
      <4>1. t \in InUse \ {q.toteutus} /\ tarjoajat'[t] = tarjoajat[t]
        BY <2>5, <2>7, <3>2
      <4>2. TarjoajienOppilaitokset(tarjoajat[t]) \subseteq koulutuksenTarjoajat
        BY <1>1, <4>1 DEF Covered
      <4>3. TarjoajienOppilaitokset(tarjoajat[t]) \cap q.safe = {}
        BY <2>4, <4>1 DEF Spares
      <4> QED
        BY <2>3, <4>1, <4>2, <4>3
    <3> QED
      BY <3>1, <3>2
  <2> QED
    BY <2>7 DEF Covered, TarjoajienOppilaitokset
<1>2. Init => AloneInv
  BY AloneInit
<1>3. IInv /\ AloneInv /\ [Next]_vars => AloneInv'
  BY AloneStep
<1>4. IInv /\ AloneInv /\ [Next]_vars => [\A r \in Saves :
         Commits(r) /\ req[r].since = commits /\ Covered => Covered']_vars
  BY <1>1
<1> QED
  BY <1>2, <1>3, <1>4, Invariant, PTL DEF Spec, AloneKeepsCovered

-----------------------------------------------------------------------------
(* The rows are registers                                                  *)

Changes(r, q) == r \in KoulutusEdits \/ q.inserted \cup q.deleted # {}

(* What a request goes by: nothing before it has read, and the version the  *)
(* row still has once it holds the row.                                     *)
RowFits(r, q) ==
    /\ q.stage \in {"idle", "sent", "toteutusRead"} => q.readVersion = 0
    /\ q.stage = "idle" \/ r \notin Updates => q.token = 0
    /\ r \in Puts /\ q.stage \in Underway => q.toteutus = r
    /\ r \in Updates /\ q.stage \in Underway => q.token > 0 /\ toteutusVersion[q.toteutus] > 0
    /\ r \in KoulutusEdits /\ q.stage = "begun" => q.koulutusSnapshot = q.readVersion
    /\ q.stage \in {"begun", "koulutusWritten"} => ~q.touched
    /\ q.stage \in Written /\ Changes(r, q) => q.readVersion = koulutusVersion
    /\ r \in Updates /\ q.stage = "written" /\ q.touched => q.token = toteutusVersion[q.toteutus]

(* A row there is has a version; a toteutus that has not been put has none, *)
(* so nobody but its put can write it; the row of a toteutus has one holder.*)
RowInv ==
    /\ koulutusVersion > 0
    /\ \A t \in Toteutukset : tila[t] = Absent <=> toteutusVersion[t] = 0
    /\ \A r \in Puts : req[r].stage # "done" => toteutusVersion[r] = 0
    /\ \A r, s \in Requests, t \in Toteutukset : HoldsToteutus(r, t) /\ HoldsToteutus(s, t) => r = s
    /\ \A r \in Requests : RowFits(r, req[r])

LEMMA RowInit == Init => RowInv
<1> SUFFICES ASSUME Init
             PROVE  RowInv
  OBVIOUS
<1>1. \A r \in Requests : req[r] = Blank
  BY DEF Init
<1>2. Blank.stage = "idle" /\ Blank.readVersion = 0 /\ Blank.token = 0
  BY DEF Blank
<1>3. \A t \in Toteutukset : (tila[t] = Absent <=> t \in Puts)
                              /\ toteutusVersion[t] = IF t \in Existing THEN 1 ELSE 0
  BY DEF Init
<1>4. \A t \in Toteutukset : tila[t] = Absent <=> toteutusVersion[t] = 0
  BY <1>3, NamesAssumption DEF Toteutukset
<1>5. \A r \in Puts : toteutusVersion[r] = 0
  BY <1>3, NamesAssumption DEF Toteutukset
<1>6. \A r \in Requests : RowFits(r, req[r])
  BY <1>1, <1>2 DEF RowFits, Underway, Written
<1>7. \A r \in Requests, t \in Toteutukset : ~HoldsToteutus(r, t)
  BY <1>1, <1>2 DEF HoldsToteutus
<1> QED
  BY <1>4, <1>5, <1>6, <1>7 DEF RowInv, Init

(* A step that leaves the database alone.                                  *)
LEMMA HoldRow ==
    ASSUME TypeOK, RowInv, NEW r \in Requests, NEW q, Hold(r, q), UNCHANGED dbVars,
           req[r].stage # "done", RowFits(r, q),
           q.stage = "written" /\ q.touched =>
             \A s \in Requests \ {r} : ~HoldsToteutus(s, q.toteutus)
    PROVE  RowInv'
<1>1. \A s \in Requests : req'[s] = IF s = r THEN q ELSE req[s]
  BY DEF TypeOK, Hold
<1>2. /\ koulutusVersion' = koulutusVersion /\ tila' = tila
      /\ toteutusVersion' = toteutusVersion
  BY DEF dbVars
<1>3. \A s \in Requests : RowFits(s, req[s])'
  BY <1>1, <1>2 DEF RowInv, RowFits, Changes
<1>4. ASSUME NEW s \in Requests, NEW t \in Toteutukset
      PROVE  HoldsToteutus(s, t)' <=> IF s = r THEN q.stage = "written" /\ q.toteutus = t /\ q.touched
                                      ELSE HoldsToteutus(s, t)
  BY <1>1 DEF HoldsToteutus
<1>5. (\A one, s \in Requests, t \in Toteutukset :
          HoldsToteutus(one, t) /\ HoldsToteutus(s, t) => one = s)'
  BY <1>4 DEF RowInv
<1>6. \A s \in Puts : req'[s].stage # "done" => toteutusVersion'[s] = 0
  BY <1>1, <1>2 DEF RowInv, Requests, Saves
<1> QED
  BY <1>2, <1>3, <1>5, <1>6 DEF RowInv

LEMMA AnswerRow ==
    ASSUME TypeOK, RowInv, NEW r \in Requests, UNCHANGED dbVars, req[r].stage # "done",
           NEW stage \in {"conflict", "failed", "rejected"}, Answer(r, stage)
    PROVE  RowInv'
<1> DEFINE q == [Blank EXCEPT !.stage = stage]
<1>1. q.stage = stage /\ q.token = 0
  BY DEF Blank
<1> HIDE DEF q
<1>2. Hold(r, q) /\ RowFits(r, q)
  BY <1>1 DEF Answer, RowFits, Underway, Written, q
<1> QED
  BY <1>1, <1>2, HoldRow

LEMMA RowStep == IInv /\ RowInv /\ [Next]_vars => RowInv'
<1> SUFFICES ASSUME IInv, RowInv, [Next]_vars
             PROVE  RowInv'
  OBVIOUS
<1> DEFINE Same(p, q) == p.toteutus = q.toteutus /\ p.token = q.token /\ p.readVersion = q.readVersion
<1>0. /\ TypeOK
      /\ Puts \cap Updates = {} /\ Saves \cap KoulutusEdits = {}
      /\ \A r \in Requests : req[r] \in Contents /\ RowFits(r, req[r]) /\ BodyFits(r, req[r])
  BY NamesAssumption DEF IInv, TypeOK, RowInv, BodyInv
<1>1. ASSUME NEW r \in Requests, SendPut(r) PROVE RowInv'
  <2>1. PICK ts \in Choices, new \in {"tallennettu", "julkaistu"} :
          Hold(r, [Blank EXCEPT !.stage = "toteutusRead", !.toteutus = r,
                                !.tarjoajat = ts, !.tila = new])
    BY <1>1 DEF SendPut
  <2> DEFINE q == [Blank EXCEPT !.stage = "toteutusRead", !.toteutus = r,
                                !.tarjoajat = ts, !.tila = new]
  <2>2. q.stage = "toteutusRead" /\ q.toteutus = r /\ q.token = 0 /\ q.readVersion = 0
    BY DEF Blank
  <2> HIDE DEF q
  <2>3. RowFits(r, q)
    BY <1>0, <1>1, <2>2 DEF RowFits, Underway, Written, SendPut
  <2> QED
    BY <1>0, <1>1, <2>1, <2>2, <2>3, HoldRow DEF SendPut, q
<1>2. ASSUME NEW r \in Requests, SendUpdate(r) PROVE RowInv'
  <2>1. PICK t \in Toteutukset, ts \in Choices, new \in Tilat :
          /\ tila[t] \in OnlyOlemassaolevat
          /\ Hold(r, [Blank EXCEPT !.stage = "sent", !.toteutus = t, !.tarjoajat = ts,
                                   !.tila = new, !.token = toteutusVersion[t]])
    BY <1>2 DEF SendUpdate
  <2> DEFINE q == [Blank EXCEPT !.stage = "sent", !.toteutus = t, !.tarjoajat = ts,
                                !.tila = new, !.token = toteutusVersion[t]]
  <2>2. q.stage = "sent" /\ q.toteutus = t /\ q.token = toteutusVersion[t] /\ q.readVersion = 0
    BY DEF Blank
  <2>3. toteutusVersion[t] > 0
    BY <1>0, <2>1 DEF RowInv, TypeOK, OnlyOlemassaolevat
  <2> HIDE DEF q
  <2>4. RowFits(r, q)
    BY <1>0, <1>2, <2>2, <2>3 DEF RowFits, Written, SendUpdate, Saves
  <2> QED
    BY <1>0, <1>2, <2>1, <2>2, <2>4, HoldRow DEF SendUpdate, q
<1>3. ASSUME NEW r \in Requests, SendKoulutusEdit(r) PROVE RowInv'
  <2>1. PICK ts \in Choices :
          Hold(r, [Blank EXCEPT !.stage = "ready", !.tarjoajat = TarjoajienOppilaitokset(ts),
                                !.readVersion = koulutusVersion])
    BY <1>3 DEF SendKoulutusEdit
  <2> DEFINE q == [Blank EXCEPT !.stage = "ready", !.tarjoajat = TarjoajienOppilaitokset(ts),
                                !.readVersion = koulutusVersion]
  <2>2. q.stage = "ready" /\ q.token = 0
    BY DEF Blank
  <2> HIDE DEF q
  <2>3. RowFits(r, q)
    BY <1>0, <1>3, <2>2 DEF RowFits, Written, SendKoulutusEdit, Saves
  <2> QED
    BY <1>0, <1>3, <2>1, <2>2, <2>3, HoldRow DEF SendKoulutusEdit, q
<1>4. ASSUME NEW r \in Requests, ReadToteutus(r) PROVE RowInv'
  <2> DEFINE q == [req[r] EXCEPT !.stage = "toteutusRead", !.since = commits,
                                 !.old = tarjoajat[req[r].toteutus]]
  <2>1. q.stage = "toteutusRead" /\ Same(q, req[r])
    BY <1>0 DEF Contents
  <2>2. RowFits(r, q)
    BY <1>0, <1>4, <2>1 DEF RowFits, Underway, Written, ReadToteutus
  <2>3. Hold(r, q) \/ Answer(r, "rejected")
    BY <1>4 DEF ReadToteutus
  <2> HIDE DEF q
  <2> QED
    BY <1>0, <1>4, <2>1, <2>2, <2>3, HoldRow, AnswerRow DEF ReadToteutus
<1>5. ASSUME NEW r \in Requests, ReadKoulutus(r) PROVE RowInv'
  <2> DEFINE q == [req[r] EXCEPT !.stage = IF r \in Puts THEN "ready" ELSE "koulutusRead",
                                 !.since = IF r \in Puts THEN commits ELSE @,
                                 !.read = koulutuksenTarjoajat,
                                 !.readVersion = koulutusVersion]
  <2>1. /\ q.stage \in {"ready", "koulutusRead"}
        /\ q.toteutus = req[r].toteutus /\ q.token = req[r].token
    BY <1>0 DEF Contents
  <2>2. Hold(r, q)
    BY <1>5 DEF ReadKoulutus
  <2> HIDE DEF q
  <2>3. RowFits(r, q)
    BY <1>0, <1>5, <2>1 DEF RowFits, Underway, Written, ReadKoulutus
  <2> QED
    BY <1>0, <1>5, <2>1, <2>2, <2>3, HoldRow DEF ReadKoulutus
<1>6. ASSUME NEW r \in Requests, ReadToteutukset(r) PROVE RowInv'
  <2> DEFINE q == [req[r] EXCEPT !.stage = "ready",
                                 !.safe = DeletableTarjoajienOppilaitokset(req[r])]
  <2>1. q.stage = "ready" /\ Same(q, req[r])
    BY <1>0 DEF Contents
  <2>2. Hold(r, q)
    BY <1>6 DEF ReadToteutukset
  <2> HIDE DEF q
  <2>3. RowFits(r, q)
    BY <1>0, <1>6, <2>1 DEF RowFits, Underway, Written, ReadToteutukset
  <2> QED
    BY <1>0, <1>6, <2>1, <2>2, <2>3, HoldRow DEF ReadToteutukset
<1>7. ASSUME NEW r \in Requests, Refuse(r) PROVE RowInv'
  BY <1>0, <1>7, AnswerRow DEF Refuse
<1>8. ASSUME NEW r \in Requests, Begin(r) PROVE RowInv'
  <2> DEFINE q == [req[r] EXCEPT !.stage = "begun", !.koulutusSnapshot = koulutusVersion,
                                 !.inserted = {}, !.deleted = {}, !.touched = FALSE]
  <2>1. CASE Answer(r, "conflict")
    BY <1>0, <1>8, <2>1, AnswerRow DEF Begin
  <2>2. CASE Hold(r, q) /\ ~(r \in KoulutusEdits /\ req[r].readVersion # koulutusVersion)
    <3>1. q.stage = "begun" /\ q.koulutusSnapshot = koulutusVersion /\ ~q.touched /\ Same(q, req[r])
      BY <1>0 DEF Contents
    <3> HIDE DEF q
    <3>2. RowFits(r, q)
      BY <1>0, <1>8, <2>2, <3>1 DEF RowFits, Underway, Written, Begin
    <3> QED
      BY <1>0, <1>8, <2>2, <3>1, <3>2, HoldRow DEF Begin
  <2> QED
    BY <1>8, <2>1, <2>2 DEF Begin
<1>9. ASSUME NEW r \in Requests, WriteKoulutus(r) PROVE RowInv'
  <2> DEFINE new == IF r \in KoulutusEdits THEN req[r].tarjoajat
                    ELSE IF KoulutusIsToChange(r) THEN NewTarjoajatForKoulutus(req[r])
                    ELSE koulutuksenTarjoajat
             q   == [req[r] EXCEPT
                       !.stage = IF r \in Saves THEN "koulutusWritten" ELSE "written",
                       !.inserted = new \ koulutuksenTarjoajat,
                       !.deleted = koulutuksenTarjoajat \ new]
  <2>1. /\ Hold(r, q) /\ req[r].stage = "begun" /\ UNCHANGED dbVars
        /\ r \in KoulutusEdits \/ new # koulutuksenTarjoajat =>
             req[r].koulutusSnapshot = koulutusVersion
    BY <1>9 DEF WriteKoulutus
  <2>2. r \notin KoulutusEdits /\ new # koulutuksenTarjoajat =>
          req[r].readVersion = req[r].koulutusSnapshot
    BY <1>0, <2>1 DEF IInv, SaveInv, ReadFits, KoulutusIsToChange, Requests, Saves
  <2> HIDE DEF new
  <2>3. /\ q.stage = IF r \in Saves THEN "koulutusWritten" ELSE "written"
        /\ q.inserted = new \ koulutuksenTarjoajat
        /\ q.deleted = koulutuksenTarjoajat \ new
        /\ q.touched = req[r].touched /\ Same(q, req[r])
    BY <1>0 DEF Contents
  <2> HIDE DEF q
  <2>4. Changes(r, q) => q.readVersion = koulutusVersion
    BY <1>0, <2>1, <2>2, <2>3 DEF Changes, RowFits
  <2>5. ~q.touched
    BY <1>0, <2>1, <2>3 DEF RowFits
  <2>6. RowFits(r, q)
    BY <1>0, <2>1, <2>3, <2>4, <2>5 DEF RowFits, Underway
  <2> QED
    BY <1>0, <2>1, <2>5, <2>6, HoldRow
<1>10. ASSUME NEW r \in Requests, WriteToteutus(r) PROVE RowInv'
  <2>1. req[r].stage = "koulutusWritten" /\ UNCHANGED dbVars /\ ~req[r].touched
    BY <1>0, <1>10 DEF WriteToteutus, RowFits
  <2>2. PICK touched \in BOOLEAN :
          /\ Hold(r, [req[r] EXCEPT !.stage = "written", !.touched = touched])
          /\ touched => /\ r \in Updates => req[r].token = toteutusVersion[req[r].toteutus]
                        /\ \A s \in Requests : ~HoldsToteutus(s, req[r].toteutus)
    <3>1. [req[r] EXCEPT !.stage = "written"] = [req[r] EXCEPT !.stage = "written", !.touched = FALSE]
      BY <1>0, <2>1 DEF Contents
    <3> QED
      BY <1>10, <3>1 DEF WriteToteutus
  <2> DEFINE q == [req[r] EXCEPT !.stage = "written", !.touched = touched]
  <2>3. /\ q.stage = "written" /\ q.touched = touched /\ Same(q, req[r])
        /\ q.inserted = req[r].inserted /\ q.deleted = req[r].deleted
    BY <1>0 DEF Contents
  <2>4. Hold(r, q)
    BY <2>2
  <2> HIDE DEF q
  <2>5. RowFits(r, q)
    BY <1>0, <2>1, <2>2, <2>3 DEF RowFits, Underway, Written, Changes
  <2> QED
    BY <1>0, <2>1, <2>2, <2>3, <2>4, <2>5, HoldRow
<1>11. ASSUME NEW r \in Requests, Commit(r) PROVE RowInv'
  <2> DEFINE t0 == req[r].toteutus
  <2>1. /\ req[r].stage = "written" /\ req[r] \in Contents
        /\ \A s \in Requests : req'[s] = IF s = r THEN [Blank EXCEPT !.stage = "done"] ELSE req[s]
    BY <1>0, <1>11 DEF Commit, Answer, Hold, TypeOK
  <2>2. req'[r].stage = "done" /\ req'[r].token = 0
    BY <2>1 DEF Blank
  <2>3. /\ koulutusVersion \in Nat /\ koulutusVersion > 0
        /\ koulutusVersion' = IF HoldsKoulutus(r) THEN koulutusVersion + 1 ELSE koulutusVersion
        /\ HoldsKoulutus(r) => \A s \in Requests \ {r} : ~HoldsKoulutus(s)
    BY <1>0, <1>11 DEF Commit, IInv, LockInv, RowInv, TypeOK
  <2>4. req[r].touched => r \in Saves /\ t0 \in Toteutukset /\ req[r].tila \in Tilat
    BY <1>0, <2>1 DEF BodyFits, Underway, Requests
  <2>5. \A t \in Toteutukset :
          /\ toteutusVersion[t] \in Nat
          /\ tila'[t] = IF req[r].touched /\ t = t0 THEN req[r].tila ELSE tila[t]
          /\ toteutusVersion'[t] = IF req[r].touched /\ t = t0 THEN toteutusVersion[t] + 1
                                   ELSE toteutusVersion[t]
    BY <1>0, <1>11, <2>4 DEF Commit, TypeOK
  <2>6. \A t \in Toteutukset : tila'[t] = Absent <=> toteutusVersion'[t] = 0
    BY <2>4, <2>5 DEF RowInv
  <2>7. ASSUME NEW s \in Puts, req'[s].stage # "done"
        PROVE  toteutusVersion'[s] = 0
    <3>1. s # r /\ req[s].stage # "done" /\ s \in Requests /\ s \in Toteutukset
      BY <2>1, <2>2, <2>7 DEF Requests, Saves, Toteutukset
    <3>2. toteutusVersion[s] = 0
      BY <3>1 DEF RowInv
    <3>3. req[r].touched => t0 # s
      BY <1>0, <2>1, <2>4, <3>1, <3>2 DEF RowFits, Underway, Saves
    <3> QED
      BY <2>5, <3>1, <3>2, <3>3
  <2>8. (\A one, s \in Requests, t \in Toteutukset :
          HoldsToteutus(one, t) /\ HoldsToteutus(s, t) => one = s)'
    BY <2>1, <2>2 DEF RowInv, HoldsToteutus
  <2>9. ASSUME NEW s \in Requests \ {r}
        PROVE  RowFits(s, req[s])'
    <3>1. req'[s] = req[s] /\ RowFits(s, req[s]) /\ BodyFits(s, req[s]) /\ req[s] \in Contents
      BY <1>0, <2>1
    <3>2. req[s].stage \in Written /\ Changes(s, req[s]) => req[s].readVersion = koulutusVersion'
      BY <2>3, <3>1 DEF RowFits, Written, Changes, HoldsKoulutus
    <3>3. s \in Updates /\ req[s].stage \in Underway => req[s].toteutus \in Toteutukset
      BY <3>1 DEF BodyFits, Saves
    <3>4. s \in Updates /\ req[s].stage \in Underway => toteutusVersion'[req[s].toteutus] > 0
      BY <2>5, <3>1, <3>3 DEF RowFits
    <3>5. s \in Updates /\ req[s].stage = "written" /\ req[s].touched =>
            req[s].token = toteutusVersion'[req[s].toteutus]
      <4> SUFFICES ASSUME s \in Updates, req[s].stage = "written", req[s].touched
                   PROVE  req[s].token = toteutusVersion'[req[s].toteutus]
        OBVIOUS
      <4>1. HoldsToteutus(s, req[s].toteutus) /\ req[s].toteutus \in Toteutukset
        BY <3>3 DEF HoldsToteutus, Underway
      <4>2. req[r].touched => req[s].toteutus # t0
        BY <2>1, <4>1 DEF HoldsToteutus, RowInv
      <4> QED
        BY <2>5, <3>1, <4>1, <4>2 DEF RowFits
    <3> QED
      BY <3>1, <3>2, <3>4, <3>5 DEF RowFits, Changes
  <2>10. RowFits(r, req[r])'
    BY <2>2 DEF RowFits, Underway, Written
  <2> QED
    BY <2>3, <2>6, <2>7, <2>8, <2>9, <2>10 DEF RowInv
<1>12. ASSUME NEW r \in Requests, Fail(r) PROVE RowInv'
  <2> DEFINE q == [req[r] EXCEPT !.stage = "ready"]
  <2>1. q.stage = "ready" /\ Same(q, req[r])
    BY <1>0 DEF Contents
  <2>2. Hold(r, q) \/ Answer(r, "failed")
    BY <1>12 DEF Fail
  <2> HIDE DEF q
  <2>3. RowFits(r, q)
    BY <1>0, <1>12, <2>1 DEF RowFits, Underway, Written, Fail
  <2> QED
    BY <1>0, <1>12, <2>1, <2>2, <2>3, HoldRow, AnswerRow DEF Fail
<1>13. CASE UNCHANGED vars
  BY <1>13 DEF vars, RowInv, RowFits, Changes, HoldsToteutus
<1> QED
  BY <1>1, <1>2, <1>3, <1>4, <1>5, <1>6, <1>7, <1>8, <1>9, <1>10, <1>11, <1>12, <1>13 DEF Next

LEMMA RowInvariance == Spec => [](IInv /\ RowInv)
BY TypeInit, SafetyInit, RowInit, TypeStep, SafetyStep, RowStep, PTL DEF Spec, IInv

(* What a step of a request that commits nothing gives it to go by: what it *)
(* went by before, nothing, or the version there is when it reads.          *)
GoesBy(r, q) ==
    /\ \/ q.readVersion \in {req[r].readVersion, 0}
       \/ req[r].readVersion = 0 /\ q.readVersion = koulutusVersion
    /\ \A t \in Toteutukset :
         \/ SeenBy(q, t) \in {SeenBy(req[r], t), 0}
         \/ SeenBy(req[r], t) = 0 /\ SeenBy(q, t) = toteutusVersion[t]

LEMMA StepGoesBy ==
    ASSUME TypeOK, RowInv, [Next]_vars, ~\E r \in Requests : Commit(r), ~UNCHANGED vars
    PROVE  UNCHANGED dbVars /\ \E r \in Requests : \E q : Hold(r, q) /\ GoesBy(r, q)
<1> DEFINE Same(p, q) == p.toteutus = q.toteutus /\ p.token = q.token /\ p.readVersion = q.readVersion
           Goal == UNCHANGED dbVars /\ \E r \in Requests : \E q : Hold(r, q) /\ GoesBy(r, q)
<1>0. \A r \in Requests : req[r] \in Contents /\ RowFits(r, req[r])
  BY DEF TypeOK, RowInv
<1>1. ASSUME NEW r \in Requests, NEW q, Hold(r, q), Same(q, req[r]), UNCHANGED dbVars
      PROVE  Goal
  BY <1>1 DEF GoesBy, SeenBy
<1>2. ASSUME NEW r \in Requests, NEW stage, Answer(r, stage), UNCHANGED dbVars
      PROVE  Goal
  <2>1. [Blank EXCEPT !.stage = stage].token = 0 /\ [Blank EXCEPT !.stage = stage].readVersion = 0
    BY DEF Blank
  <2> QED
    BY <1>2, <2>1 DEF Answer, GoesBy, SeenBy
<1>3. ASSUME NEW r \in Requests, SendPut(r) PROVE Goal
  <2>1. PICK ts, new : Hold(r, [Blank EXCEPT !.stage = "toteutusRead", !.toteutus = r,
                                             !.tarjoajat = ts, !.tila = new])
    BY <1>3 DEF SendPut
  <2> DEFINE q == [Blank EXCEPT !.stage = "toteutusRead", !.toteutus = r,
                                !.tarjoajat = ts, !.tila = new]
  <2>2. q.token = 0 /\ q.readVersion = 0
    BY DEF Blank
  <2> QED
    BY <1>3, <2>1, <2>2 DEF SendPut, GoesBy, SeenBy
<1>4. ASSUME NEW r \in Requests, SendUpdate(r) PROVE Goal
  <2>1. PICK t, ts, new : Hold(r, [Blank EXCEPT !.stage = "sent", !.toteutus = t, !.tarjoajat = ts,
                                                !.tila = new, !.token = toteutusVersion[t]])
    BY <1>4 DEF SendUpdate
  <2> DEFINE q == [Blank EXCEPT !.stage = "sent", !.toteutus = t, !.tarjoajat = ts,
                                !.tila = new, !.token = toteutusVersion[t]]
  <2>2. q.token = toteutusVersion[q.toteutus] /\ q.readVersion = 0
    BY DEF Blank
  <2>3. req[r].token = 0
    BY <1>0, <1>4 DEF SendUpdate, RowFits
  <2> QED
    <3>1. Hold(r, q) /\ UNCHANGED dbVars
      BY <1>4, <2>1 DEF SendUpdate
    <3> HIDE DEF q
    <3>2. GoesBy(r, q)
      BY <2>2, <2>3 DEF GoesBy, SeenBy
    <3> QED
      BY <3>1, <3>2
<1>5. ASSUME NEW r \in Requests, SendKoulutusEdit(r) PROVE Goal
  <2>1. PICK ts : Hold(r, [Blank EXCEPT !.stage = "ready", !.tarjoajat = ts,
                                        !.readVersion = koulutusVersion])
    BY <1>5 DEF SendKoulutusEdit
  <2> DEFINE q == [Blank EXCEPT !.stage = "ready", !.tarjoajat = ts,
                                !.readVersion = koulutusVersion]
  <2>2. q.token = 0 /\ q.readVersion = koulutusVersion
    BY DEF Blank
  <2>3. req[r].readVersion = 0
    BY <1>0, <1>5 DEF SendKoulutusEdit, RowFits
  <2> QED
    BY <1>5, <2>1, <2>2, <2>3 DEF SendKoulutusEdit, GoesBy, SeenBy
<1>6. ASSUME NEW r \in Requests, ReadToteutus(r) PROVE Goal
  <2> DEFINE q == [req[r] EXCEPT !.stage = "toteutusRead", !.since = commits,
                                 !.old = tarjoajat[req[r].toteutus]]
  <2>1. Same(q, req[r])
    BY <1>0 DEF Contents
  <2>2. Hold(r, q) \/ Answer(r, "rejected")
    BY <1>6 DEF ReadToteutus
  <2> QED
    BY <1>1, <1>2, <1>6, <2>1, <2>2 DEF ReadToteutus
<1>7. ASSUME NEW r \in Requests, ReadKoulutus(r) PROVE Goal
  <2> DEFINE q == [req[r] EXCEPT !.stage = IF r \in Puts THEN "ready" ELSE "koulutusRead",
                                 !.since = IF r \in Puts THEN commits ELSE @,
                                 !.read = koulutuksenTarjoajat,
                                 !.readVersion = koulutusVersion]
  <2>1. /\ q.toteutus = req[r].toteutus /\ q.token = req[r].token
        /\ q.readVersion = koulutusVersion
    BY <1>0 DEF Contents
  <2>2. req[r].readVersion = 0 /\ Hold(r, q)
    BY <1>0, <1>7 DEF ReadKoulutus, RowFits
  <2> QED
    <3>1. Hold(r, q) /\ UNCHANGED dbVars
      BY <1>7, <2>2 DEF ReadKoulutus
    <3> HIDE DEF q
    <3>2. GoesBy(r, q)
      BY <2>1, <2>2 DEF GoesBy, SeenBy
    <3> QED
      BY <3>1, <3>2
<1>8. ASSUME NEW r \in Requests, ReadToteutukset(r) PROVE Goal
  <2> DEFINE q == [req[r] EXCEPT !.stage = "ready",
                                 !.safe = DeletableTarjoajienOppilaitokset(req[r])]
  <2>1. Same(q, req[r]) /\ Hold(r, q)
    BY <1>0, <1>8 DEF ReadToteutukset, Contents
  <2> QED
    BY <1>1, <1>8, <2>1 DEF ReadToteutukset
<1>9. ASSUME NEW r \in Requests, Refuse(r) PROVE Goal
  BY <1>2, <1>9 DEF Refuse
<1>10. ASSUME NEW r \in Requests, Begin(r) PROVE Goal
  <2> DEFINE q == [req[r] EXCEPT !.stage = "begun", !.koulutusSnapshot = koulutusVersion,
                                 !.inserted = {}, !.deleted = {}, !.touched = FALSE]
  <2>1. Same(q, req[r])
    BY <1>0 DEF Contents
  <2>2. Hold(r, q) \/ Answer(r, "conflict")
    BY <1>10 DEF Begin
  <2> QED
    BY <1>1, <1>2, <1>10, <2>1, <2>2 DEF Begin
<1>11. ASSUME NEW r \in Requests, WriteKoulutus(r) PROVE Goal
  <2> DEFINE new == IF r \in KoulutusEdits THEN req[r].tarjoajat
                    ELSE IF KoulutusIsToChange(r) THEN NewTarjoajatForKoulutus(req[r])
                    ELSE koulutuksenTarjoajat
             stage == IF r \in Saves THEN "koulutusWritten" ELSE "written"
             inserted == new \ koulutuksenTarjoajat
             deleted == koulutuksenTarjoajat \ new
  <2>1. Hold(r, [req[r] EXCEPT !.stage = stage, !.inserted = inserted, !.deleted = deleted])
    BY <1>11 DEF WriteKoulutus
  <2> HIDE DEF new, stage, inserted, deleted
  <2>2. Same([req[r] EXCEPT !.stage = stage, !.inserted = inserted, !.deleted = deleted], req[r])
    BY <1>0 DEF Contents
  <2> QED
    BY <1>1, <1>11, <2>1, <2>2 DEF WriteKoulutus
<1>12. ASSUME NEW r \in Requests, WriteToteutus(r) PROVE Goal
  <2>1. PICK q \in {[req[r] EXCEPT !.stage = "written", !.touched = TRUE],
                    [req[r] EXCEPT !.stage = "written"]} : Hold(r, q)
    BY <1>12 DEF WriteToteutus
  <2>2. Same(q, req[r])
    BY <1>0, <2>1 DEF Contents
  <2> QED
    BY <1>1, <1>12, <2>1, <2>2 DEF WriteToteutus
<1>13. ASSUME NEW r \in Requests, Fail(r) PROVE Goal
  <2> DEFINE q == [req[r] EXCEPT !.stage = "ready"]
  <2>1. Same(q, req[r])
    BY <1>0 DEF Contents
  <2>2. Hold(r, q) \/ Answer(r, "failed")
    BY <1>13 DEF Fail
  <2> QED
    BY <1>1, <1>2, <1>13, <2>1, <2>2 DEF Fail
<1> QED
  BY <1>3, <1>4, <1>5, <1>6, <1>7, <1>8, <1>9, <1>10, <1>11, <1>12, <1>13 DEF Next

(* What a request that does not commit does to the register of a row. *)
LEMMA RegistersHeld ==
    ASSUME TypeOK, UNCHANGED dbVars, NEW r \in Requests, NEW q, Hold(r, q), GoesBy(r, q)
    PROVE  /\ [KoulutusPromise!Next]_(KoulutusPromise!vars)
           /\ \A t \in Toteutukset : [ToteutusPromise(t)!Next]_(ToteutusPromise(t)!vars)
<1>1. /\ \A s \in Requests : req'[s] = IF s = r THEN q ELSE req[s]
      /\ req[r].readVersion \in Nat /\ req[r].token \in Nat
  BY DEF TypeOK, Hold, Contents
<1>2. /\ koulutusVersion' = koulutusVersion /\ toteutusVersion' = toteutusVersion
      /\ koulutusVersion \in Nat /\ \A t \in Toteutukset : toteutusVersion[t] \in Nat
  BY DEF dbVars, TypeOK
<1>3. [KoulutusPromise!Next]_(KoulutusPromise!vars)
  <2> DEFINE f == [s \in Requests |-> req[s].readVersion]
             g == [s \in Requests |-> req'[s].readVersion]
  <2>1. g = [f EXCEPT ![r] = q.readVersion] /\ f[r] = req[r].readVersion
    BY <1>1
  <2>2. CASE q.readVersion = req[r].readVersion
    BY <1>1, <1>2, <2>2 DEF KoulutusPromise!vars
  <2>3. CASE q.readVersion = 0 /\ req[r].readVersion > 0
    <3>1. KoulutusPromise!Leave(r)
      BY <1>2, <2>1, <2>3 DEF KoulutusPromise!Leave, KoulutusPromise!Stops
    <3> QED
      BY <3>1 DEF KoulutusPromise!Next
  <2>4. CASE req[r].readVersion = 0 /\ q.readVersion = koulutusVersion /\ koulutusVersion > 0
    <3>1. KoulutusPromise!Read(r)
      BY <1>2, <2>1, <2>4 DEF KoulutusPromise!Read
    <3> QED
      BY <3>1 DEF KoulutusPromise!Next
  <2> QED
    BY <1>1, <1>2, <2>2, <2>3, <2>4 DEF GoesBy
<1>4. ASSUME NEW t \in Toteutukset
      PROVE  [ToteutusPromise(t)!Next]_(ToteutusPromise(t)!vars)
  <2> DEFINE f == [s \in Requests |-> SeenBy(req[s], t)]
             g == [s \in Requests |-> SeenBy(req'[s], t)]
  <2>1. /\ SeenBy(req'[r], t) = SeenBy(q, t) /\ SeenBy(req[r], t) \in Nat
        /\ \A s \in Requests \ {r} : SeenBy(req'[s], t) = SeenBy(req[s], t)
    BY <1>1 DEF SeenBy
  <2>2. g = [f EXCEPT ![r] = SeenBy(q, t)] /\ f[r] = SeenBy(req[r], t)
    BY <2>1
  <2>3. CASE SeenBy(q, t) = SeenBy(req[r], t)
    <3>1. \A s \in Requests : SeenBy(req'[s], t) = SeenBy(req[s], t)
      BY <2>1, <2>3
    <3> QED
      BY <1>2, <3>1 DEF ToteutusPromise!vars
  <2>4. CASE SeenBy(q, t) = 0 /\ SeenBy(req[r], t) > 0
    <3>1. ToteutusPromise(t)!Leave(r)
      BY <1>2, <2>2, <2>4 DEF ToteutusPromise!Leave, ToteutusPromise!Stops
    <3> QED
      BY <3>1 DEF ToteutusPromise!Next
  <2>5. CASE SeenBy(req[r], t) = 0 /\ SeenBy(q, t) = toteutusVersion[t] /\ toteutusVersion[t] > 0
    <3>1. ToteutusPromise(t)!Read(r)
      BY <1>2, <2>2, <2>5 DEF ToteutusPromise!Read
    <3> QED
      BY <3>1 DEF ToteutusPromise!Next
  <2> QED
    BY <1>2, <2>1, <2>3, <2>4, <2>5 DEF GoesBy
<1> QED
  BY <1>3, <1>4

(* A commit saves the registers it writes by the versions the request read, *)
(* or creates its toteutus; the other registers only lose an editor.        *)
LEMMA RegistersCommit ==
    ASSUME IInv, RowInv, NEW r \in Requests, Commit(r)
    PROVE  /\ [KoulutusPromise!Next]_(KoulutusPromise!vars)
           /\ \A t \in Toteutukset : [ToteutusPromise(t)!Next]_(ToteutusPromise(t)!vars)
<1> DEFINE p == req[r]
<1>1. /\ p.stage = "written" /\ p \in Contents /\ RowFits(r, p) /\ BodyFits(r, p) /\ TypeOK
      /\ \A s \in Requests : req'[s] = IF s = r THEN [Blank EXCEPT !.stage = "done"] ELSE req[s]
  BY DEF Commit, Answer, Hold, IInv, TypeOK, RowInv, BodyInv
<1>2. req'[r].readVersion = 0 /\ req'[r].token = 0
  BY <1>1 DEF Blank
<1>3. [KoulutusPromise!Next]_(KoulutusPromise!vars)
  <2> DEFINE f == [s \in Requests |-> req[s].readVersion]
             g == [s \in Requests |-> req'[s].readVersion]
  <2>1. g = [f EXCEPT ![r] = 0] /\ f[r] = p.readVersion /\ p.readVersion \in Nat
    BY <1>1, <1>2 DEF Contents
  <2>2. CASE HoldsKoulutus(r)
    <3>1. p.readVersion = koulutusVersion /\ koulutusVersion' = koulutusVersion + 1
      BY <1>1, <2>2 DEF Commit, RowFits, Changes, HoldsKoulutus, Written
    <3>2. KoulutusPromise!Save(r)
      BY <2>1, <3>1 DEF RowInv, KoulutusPromise!Save, KoulutusPromise!Stops
    <3> QED
      BY <3>2 DEF KoulutusPromise!Next
  <2>3. CASE ~HoldsKoulutus(r) /\ p.readVersion > 0
    <3>1. KoulutusPromise!Leave(r)
      BY <2>1, <2>3 DEF Commit, KoulutusPromise!Leave, KoulutusPromise!Stops
    <3> QED
      BY <3>1 DEF KoulutusPromise!Next
  <2>4. CASE ~HoldsKoulutus(r) /\ p.readVersion = 0
    <3>1. g = f
      BY <1>1, <1>2, <2>4
    <3> QED
      BY <2>4, <3>1 DEF Commit, KoulutusPromise!vars
  <2> QED
    BY <2>1, <2>2, <2>3, <2>4
<1>4. ASSUME NEW t \in Toteutukset
      PROVE  [ToteutusPromise(t)!Next]_(ToteutusPromise(t)!vars)
  <2> DEFINE f == [s \in Requests |-> SeenBy(req[s], t)]
             g == [s \in Requests |-> SeenBy(req'[s], t)]
             Writes == p.touched /\ p.toteutus = t
  <2>1. /\ SeenBy(req'[r], t) = 0 /\ SeenBy(p, t) \in Nat
        /\ \A s \in Requests \ {r} : SeenBy(req'[s], t) = SeenBy(req[s], t)
    BY <1>1, <1>2 DEF SeenBy, Contents
  <2>2. g = [f EXCEPT ![r] = 0] /\ f[r] = SeenBy(p, t)
    BY <2>1
  <2>3. toteutusVersion'[t] = IF Writes THEN toteutusVersion[t] + 1 ELSE toteutusVersion[t]
    BY <1>1 DEF Commit, TypeOK
  <2>4. CASE Writes /\ r \in Updates
    <3>1. SeenBy(p, t) = toteutusVersion[t] /\ toteutusVersion[t] > 0
      BY <1>1, <2>4 DEF SeenBy, RowFits, Underway
    <3>2. ToteutusPromise(t)!Save(r)
      BY <2>2, <2>3, <2>4, <3>1 DEF ToteutusPromise!Save, ToteutusPromise!Stops
    <3> QED
      BY <3>2 DEF ToteutusPromise!Next
  <2>5. CASE Writes /\ r \in Puts
    <3>1. SeenBy(p, t) = 0 /\ toteutusVersion[t] = 0
      BY <1>1, <2>5, NamesAssumption DEF SeenBy, RowFits, RowInv, Underway
    <3>2. g = f
      BY <2>1, <3>1
    <3>3. ToteutusPromise(t)!Create
      BY <2>3, <2>5, <3>1, <3>2 DEF ToteutusPromise!Create
    <3> QED
      BY <3>3 DEF ToteutusPromise!Next
  <2>6. CASE ~Writes /\ SeenBy(p, t) > 0
    <3>1. ToteutusPromise(t)!Leave(r)
      BY <2>2, <2>3, <2>6 DEF ToteutusPromise!Leave, ToteutusPromise!Stops
    <3> QED
      BY <3>1 DEF ToteutusPromise!Next
  <2>7. CASE ~Writes /\ SeenBy(p, t) = 0
    <3>1. g = f
      BY <2>1, <2>7
    <3> QED
      BY <2>3, <2>7, <3>1 DEF ToteutusPromise!vars
  <2>8. Writes => r \in Saves
    BY <1>1 DEF BodyFits, Requests
  <2> QED
    BY <2>1, <2>4, <2>5, <2>6, <2>7, <2>8 DEF Saves
<1> QED
  BY <1>3, <1>4

LEMMA RegistersStep ==
    ASSUME IInv, RowInv, [Next]_vars
    PROVE  /\ [KoulutusPromise!Next]_(KoulutusPromise!vars)
           /\ \A t \in Toteutukset : [ToteutusPromise(t)!Next]_(ToteutusPromise(t)!vars)
<1>1. CASE \E r \in Requests : Commit(r)
  BY <1>1, RegistersCommit
<1>2. CASE UNCHANGED vars
  BY <1>2 DEF vars, KoulutusPromise!vars, ToteutusPromise!vars
<1>3. CASE ~(\E r \in Requests : Commit(r)) /\ ~UNCHANGED vars
  BY <1>3, StepGoesBy, RegistersHeld DEF IInv
<1> QED
  BY <1>1, <1>2, <1>3

LEMMA RegistersBegin ==
    ASSUME Init
    PROVE  KoulutusPromise!Init /\ \A t \in Toteutukset : ToteutusPromise(t)!Init
<1>1. \A r \in Requests : req[r].readVersion = 0 /\ req[r].token = 0
  BY DEF Init, Blank
<1>2. KoulutusPromise!Init
  BY <1>1 DEF Init, KoulutusPromise!Init
<1>3. ASSUME NEW t \in Toteutukset
      PROVE  ToteutusPromise(t)!Init
  <2>1. \A r \in Requests : SeenBy(req[r], t) = 0
    BY <1>1 DEF SeenBy
  <2> QED
    BY <2>1 DEF Init, ToteutusPromise!Init
<1> QED
  BY <1>2, <1>3

(* The koulutus, and each of its toteutukset, implements the register of    *)
(* SavedEntity, although one transaction writes two of them and is retried  *)
(* with what it read before the first attempt.                              *)
THEOREM RowsImplementSavedEntity ==
    Spec => KoulutusPromise!Spec /\ \A t \in Toteutukset : ToteutusPromise(t)!Spec
<1>1. Spec => KoulutusPromise!Spec
  <2>1. Init => KoulutusPromise!Init
    BY RegistersBegin
  <2>2. IInv /\ RowInv /\ [Next]_vars => [KoulutusPromise!Next]_(KoulutusPromise!vars)
    BY RegistersStep
  <2> QED
    BY <2>1, <2>2, RowInvariance, PTL DEF Spec, KoulutusPromise!Spec
<1>2. ASSUME NEW t \in Toteutukset
      PROVE  Spec => ToteutusPromise(t)!Spec
  <2>1. Init => ToteutusPromise(t)!Init
    BY RegistersBegin
  <2>2. IInv /\ RowInv /\ [Next]_vars => [ToteutusPromise(t)!Next]_(ToteutusPromise(t)!vars)
    BY RegistersStep
  <2> QED
    BY <2>1, <2>2, RowInvariance, PTL DEF Spec, ToteutusPromise!Spec
<1> QED
  BY <1>1, <1>2

(* The same as one formula about the steps of the system. *)
THEOREM PromisesKept == Spec => EntitiesKeepPromise
<1>1. Init => KoulutusPromise!Init /\ \A t \in Toteutukset : ToteutusPromise(t)!Init
  BY RegistersBegin
<1>2. IInv /\ RowInv /\ [Next]_vars =>
        [/\ UNCHANGED KoulutusPromise!vars \/ KoulutusPromise!Next
         /\ \A t \in Toteutukset :
              UNCHANGED ToteutusPromise(t)!vars \/ ToteutusPromise(t)!Next]_vars
  BY RegistersStep
<1> QED
  BY <1>1, <1>2, RowInvariance, PTL DEF Spec, EntitiesKeepPromise
-----------------------------------------------------------------------------
(* One save at a time                                                      *)

(* Nothing is committed between the reads and the commit of a save. *)
OneAtATime == [][\A r \in Saves : Commits(r) => req[r].since = commits]_vars

(* Who edits the koulutus itself takes away nothing that is in use. *)
EditsKeepCovered == [][\A r \in KoulutusEdits : Commits(r) /\ Covered => Covered']_vars

(* A step that changes what Covered speaks of is a commit. *)
LEMMA OnlyCommits ==
    ASSUME IInv, [Next]_vars, ~\E r \in Requests : Commit(r)
    PROVE  UNCHANGED dbVars
BY DEF Next, vars, dbVars, SendPut, SendUpdate, SendKoulutusEdit, ReadToteutus, ReadKoulutus,
       ReadToteutukset, Refuse, Begin, WriteKoulutus, WriteToteutus, Fail

(* As long as saves follow one another and edits of the koulutus itself     *)
(* leave it what is in use, no toteutus in use is ever without its          *)
(* oppilaitos there: saves that overlap are all else that can uncover one.  *)
THEOREM CoveredOneAtATime == Spec /\ OneAtATime /\ EditsKeepCovered => []Covered
<1>1. ASSUME IInv, [Next]_vars, Covered,
             \A r \in Saves : Commits(r) => req[r].since = commits,
             \A r \in KoulutusEdits : Commits(r) /\ Covered => Covered',
             [\A r \in Saves : Commits(r) /\ req[r].since = commits /\ Covered => Covered']_vars
      PROVE  Covered'
  <2>1. CASE \E r \in Requests : Commit(r)
    <3>1. PICK r \in Requests : Commit(r)
      BY <2>1
    <3>2. r \in Saves \cup KoulutusEdits /\ req'[r].stage = "done" /\ req[r].stage = "written"
      BY <1>1, <3>1 DEF Requests, Commit, Answer, Hold, IInv, TypeOK, Blank
    <3>3. Commits(r)
      BY <3>2 DEF Commits
    <3>4. ~UNCHANGED vars
      BY <3>2 DEF vars
    <3> QED
      BY <1>1, <3>2, <3>3, <3>4
  <2>2. CASE ~\E r \in Requests : Commit(r)
    <3>1. UNCHANGED dbVars
      BY <1>1, <2>2, OnlyCommits
    <3> QED
      BY <1>1, <3>1 DEF Covered, InUse, dbVars
  <2> QED
    BY <2>1, <2>2
<1>2. IInv /\ Covered /\ [Next]_vars
        /\ [\A r \in Saves : Commits(r) => req[r].since = commits]_vars
        /\ [\A r \in KoulutusEdits : Commits(r) /\ Covered => Covered']_vars
        /\ [\A r \in Saves : Commits(r) /\ req[r].since = commits /\ Covered => Covered']_vars
      => Covered'
  <2>1. UNCHANGED vars /\ Covered => Covered'
    BY DEF vars, Covered, InUse
  <2> QED
    BY <1>1, <2>1
<1>3. Init => Covered
  BY DEF Init
<1> QED
  BY <1>2, <1>3, Invariant, AloneCovers, PTL DEF Spec, OneAtATime, EditsKeepCovered, AloneKeepsCovered
=============================================================================
