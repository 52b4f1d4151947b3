------------------------------ MODULE Tarjoajat -------------------------------
(***************************************************************************)
(* How saving a toteutus keeps the tarjoajat of its koulutus: the koulutus *)
(* gets the oppilaitokset of the toteutus' tarjoajat and loses those that  *)
(* no toteutus needs any more.  What to add and to remove is decided from  *)
(* reads made before the transaction; the transaction checks that the two  *)
(* rows it changes have not been modified, and nothing else.               *)
(*                                                                         *)
(* There is one koulutus, not of avoin korkeakoulutus (those are left      *)
(* alone by toteutukset).  An entity's last_modified is a version number   *)
(* here: EntitySave shows that the comparison of timestamps amounts to     *)
(* that.  A lost connection or a crash of the server is a Fail without a   *)
(* retry.  "Faulty" definitions show that a property can be violated.      *)
(***************************************************************************)
EXTENDS Naturals, FiniteSets

CONSTANTS
    Existing,           \* toteutukset there are to begin with
    Puts,               \* requests that put a toteutus, which then bears their name
    Updates,            \* requests that update a toteutus
    KoulutusEdits,      \* requests that update the koulutus itself
    Tarjoajat,          \* organisations that can provide a toteutus
    Oppilaitos,         \* the oppilaitos each of them belongs to
    Providing,          \* tarjoajat of the existing toteutukset to begin with
    Choices             \* bound: the sets of tarjoajat a request may bring

Saves       == Puts \cup Updates
Requests    == Saves \cup KoulutusEdits
Toteutukset == Existing \cup Puts
TarjoajienOppilaitokset(ts) == {Oppilaitos[t] : t \in ts}
Oppilaitokset == TarjoajienOppilaitokset(Tarjoajat)

ASSUME NamesAssumption ==
    /\ Puts \cap Updates = {} /\ Saves \cap KoulutusEdits = {}
    /\ Existing \cap Puts = {}
    /\ Oppilaitos \in [Tarjoajat -> Oppilaitokset]
    /\ Providing \in [Existing -> SUBSET Tarjoajat]
    /\ Choices \subseteq SUBSET Tarjoajat

Tilat == {"tallennettu", "julkaistu", "arkistoitu", "poistettu"}
Absent == "puuttuu"

ValidStateChanges(tila) ==
    {tila} \cup CASE tila = "tallennettu" -> {"julkaistu", "poistettu"}
                  [] tila = "julkaistu"   -> {"tallennettu", "arkistoitu"}
                  [] tila = "arkistoitu"  -> {"julkaistu"}
                  [] OTHER                -> {}

OnlyOlemassaolevat == {"tallennettu", "julkaistu", "arkistoitu"}
OnlyOlemassaolevatAndArkistoimattomat == {"tallennettu", "julkaistu"}

VARIABLES
    koulutuksenTarjoajat,   \* committed tarjoajat of the koulutus
    koulutusVersion,        \* its last_modified
    tila,                   \* committed tila of each toteutus
    tarjoajat,              \* its committed tarjoajat
    toteutusVersion,        \* its last_modified
    req,                    \* what each request holds
    commits                 \* changes committed so far

vars == <<koulutuksenTarjoajat, koulutusVersion, tila, tarjoajat, toteutusVersion, req, commits>>
dbVars == <<koulutuksenTarjoajat, koulutusVersion, tila, tarjoajat, toteutusVersion, commits>>

InTx   == {"begun", "koulutusWritten", "written"}
Stages == {"idle", "sent", "toteutusRead", "koulutusRead", "ready",
           "done", "conflict", "failed", "rejected"} \cup InTx

(* since: commits when the server first read for the request; old and read: *)
(* the toteutus and the koulutus the server read; safe: tarjoajatSafeToDelete;*)
(* inserted, deleted, touched: what the transaction has written so far.     *)
Blank == [stage |-> "idle", toteutus |-> Absent, tarjoajat |-> {}, tila |-> Absent,
          token |-> 0, since |-> 0, old |-> {}, read |-> {}, readVersion |-> 0,
          safe |-> {}, koulutusSnapshot |-> 0,
          inserted |-> {}, deleted |-> {}, touched |-> FALSE]

InUse == {t \in Toteutukset : tila[t] \in OnlyOlemassaolevatAndArkistoimattomat}

(* Every toteutus in use has its oppilaitokset among the koulutus' tarjoajat.*)
Covered == \A t \in InUse : TarjoajienOppilaitokset(tarjoajat[t]) \subseteq koulutuksenTarjoajat

Init ==
    /\ tila \in [Toteutukset -> {Absent, "tallennettu", "julkaistu"}]
    /\ \A t \in Toteutukset : tila[t] = Absent <=> t \in Puts
    /\ tarjoajat = [t \in Toteutukset |-> IF t \in Existing THEN Providing[t] ELSE {}]
    /\ koulutuksenTarjoajat \in SUBSET Oppilaitokset
    /\ Covered
    /\ koulutusVersion = 1
    /\ toteutusVersion = [t \in Toteutukset |-> IF t \in Existing THEN 1 ELSE 0]
    /\ req = [r \in Requests |-> Blank]
    /\ commits = 0

-----------------------------------------------------------------------------
(* The request and what the server reads for it                            *)

Hold(r, q) == req' = [req EXCEPT ![r] = q]

Answer(r, stage) == Hold(r, [Blank EXCEPT !.stage = stage])

SendPut(r) ==
    /\ r \in Puts /\ req[r].stage = "idle"
    /\ \E ts \in Choices, new \in {"tallennettu", "julkaistu"} :
         Hold(r, [Blank EXCEPT !.stage = "toteutusRead", !.toteutus = r,
                               !.tarjoajat = ts, !.tila = new])
    /\ UNCHANGED dbVars

(* The person has got the toteutus and changes its tarjoajat, its tila or both. *)
SendUpdate(r) ==
    /\ r \in Updates /\ req[r].stage = "idle"
    /\ \E t \in Toteutukset, ts \in Choices, new \in Tilat :
         /\ tila[t] \in OnlyOlemassaolevat
         /\ Hold(r, [Blank EXCEPT !.stage = "sent", !.toteutus = t, !.tarjoajat = ts,
                                  !.tila = new, !.token = toteutusVersion[t]])
    /\ UNCHANGED dbVars

SendKoulutusEdit(r) ==
    /\ r \in KoulutusEdits /\ req[r].stage = "idle"
    /\ \E ts \in Choices :
         Hold(r, [Blank EXCEPT !.stage = "ready", !.tarjoajat = TarjoajienOppilaitokset(ts),
                               !.readVersion = koulutusVersion])
    /\ UNCHANGED dbVars

(* The old toteutus: authorization and validation are made against it. *)
ReadToteutus(r) ==
    LET q == req[r] IN
    /\ q.stage = "sent"
    /\ IF /\ tila[q.toteutus] \in OnlyOlemassaolevat
          /\ q.tila \in ValidStateChanges(tila[q.toteutus])
       THEN Hold(r, [q EXCEPT !.stage = "toteutusRead", !.since = commits,
                              !.old = tarjoajat[q.toteutus]])
       ELSE Answer(r, "rejected")
    /\ UNCHANGED dbVars

(* koulutusService.get: the koulutus and the last_modified it is checked against. *)
ReadKoulutus(r) ==
    /\ req[r].stage = "toteutusRead"
    /\ Hold(r, [req[r] EXCEPT !.stage = IF r \in Puts THEN "ready" ELSE "koulutusRead",
                               !.since = IF r \in Puts THEN commits ELSE @,
                               !.read = koulutuksenTarjoajat,
                               !.readVersion = koulutusVersion])
    /\ UNCHANGED dbVars

Deletable_OwnForgotten(q) ==                                     \* faulty
    LET deleted == IF q.tila = "poistettu" THEN q.tarjoajat ELSE q.old \ q.tarjoajat
        others  == UNION {tarjoajat[t] : t \in InUse \ {q.toteutus}}
    IN TarjoajienOppilaitokset(deleted) \ TarjoajienOppilaitokset(others)

(* getDeletableTarjoajienOppilaitokset: oppilaitokset that this save gives  *)
(* up and that no toteutus of the koulutus will have after it.              *)
DeletableTarjoajienOppilaitokset(q) ==
    LET deleted   == IF q.tila = "poistettu" THEN q.tarjoajat ELSE q.old \ q.tarjoajat
        remaining == q.tarjoajat \ deleted
        others    == UNION {tarjoajat[t] : t \in InUse \ {q.toteutus}}
    IN TarjoajienOppilaitokset(deleted) \ TarjoajienOppilaitokset(others \cup remaining)

(* The other toteutukset, read before the transaction as well. *)
ReadToteutukset(r) ==
    /\ req[r].stage = "koulutusRead"
    /\ Hold(r, [req[r] EXCEPT !.stage = "ready",
                               !.safe = DeletableTarjoajienOppilaitokset(req[r])])
    /\ UNCHANGED dbVars

NewTarjoajatForKoulutus_OnlyNew(q) ==                            \* faulty
    (q.read \ q.safe) \cup (TarjoajienOppilaitokset(q.tarjoajat \ q.old) \ q.read)

NewTarjoajatForKoulutus_Toimipisteet(q) ==                       \* faulty
    (q.read \ q.safe) \cup (q.tarjoajat \ q.read)

(* getUpdateTarjoajatActions: what the koulutus' tarjoajat are to become. *)
NewTarjoajatForKoulutus(q) ==
    (q.read \ q.safe) \cup (TarjoajienOppilaitokset(q.tarjoajat) \ q.read)

KoulutusIsToChange(r) == r \in Saves /\ NewTarjoajatForKoulutus(req[r]) # req[r].read

(* The person may not touch those tarjoajat, or the result is not valid. *)
Refuse(r) ==
    /\ req[r].stage = "ready" /\ r \in Saves
    /\ Answer(r, "rejected")
    /\ UNCHANGED dbVars

-----------------------------------------------------------------------------
(* The transaction                                                         *)

Begin_ToteutusOnly(r) ==                                         \* faulty
    LET q == req[r] IN
    /\ q.stage = "ready"
    /\ IF \/ r \in Updates /\ q.token # toteutusVersion[q.toteutus]
          \/ r \in KoulutusEdits /\ q.readVersion # koulutusVersion
       THEN Answer(r, "conflict")
       ELSE Hold(r, [q EXCEPT !.stage = "begun", !.koulutusSnapshot = koulutusVersion,
                              !.inserted = {}, !.deleted = {}, !.touched = FALSE])
    /\ UNCHANGED dbVars

(* Both checks read the snapshot the first of them takes.  The koulutus is  *)
(* checked only by a save that is going to change it.                       *)
Begin(r) ==
    LET q == req[r] IN
    /\ q.stage = "ready"
    /\ IF \/ r \in Updates /\ q.token # toteutusVersion[q.toteutus]
          \/ r \in KoulutusEdits /\ q.readVersion # koulutusVersion
          \/ KoulutusIsToChange(r) /\ q.readVersion # koulutusVersion
       THEN Answer(r, "conflict")
       ELSE Hold(r, [q EXCEPT !.stage = "begun", !.koulutusSnapshot = koulutusVersion,
                              !.inserted = {}, !.deleted = {}, !.touched = FALSE])
    /\ UNCHANGED dbVars

(* A transaction that has updated a row keeps others from it to its end. *)
HoldsKoulutus(r) == /\ req[r].stage \in {"koulutusWritten", "written"}
                    /\ r \in KoulutusEdits \/ req[r].inserted \cup req[r].deleted # {}
HoldsToteutus(r, t) == req[r].stage = "written" /\ req[r].toteutus = t /\ req[r].touched

(* updateKoulutuksenTarjoajat compares with what is committed by now, read  *)
(* over another connection; its writes need the row of the snapshot.        *)
WriteKoulutus(r) ==
    LET q   == req[r]
        new == IF r \in KoulutusEdits THEN q.tarjoajat
               ELSE IF KoulutusIsToChange(r) THEN NewTarjoajatForKoulutus(q)
               ELSE koulutuksenTarjoajat
    IN
    /\ q.stage = "begun"
    /\ r \in KoulutusEdits \/ new # koulutuksenTarjoajat =>
         /\ q.koulutusSnapshot = koulutusVersion
         /\ \A s \in Requests : ~HoldsKoulutus(s)
    /\ Hold(r, [q EXCEPT !.stage = IF r \in Saves THEN "koulutusWritten" ELSE "written",
                          !.inserted = new \ koulutuksenTarjoajat,
                          !.deleted = koulutuksenTarjoajat \ new])
    /\ UNCHANGED dbVars

(* The toteutus and its tarjoajat, which may turn out to be as they were. *)
WriteToteutus(r) ==
    LET q == req[r] IN
    /\ q.stage = "koulutusWritten"
    /\ \/ /\ r \in Updates => q.token = toteutusVersion[q.toteutus]
          /\ \A s \in Requests : ~HoldsToteutus(s, q.toteutus)
          /\ Hold(r, [q EXCEPT !.stage = "written", !.touched = TRUE])
       \/ /\ r \in Updates
          /\ tarjoajat[q.toteutus] = q.tarjoajat /\ tila[q.toteutus] = q.tila
          /\ Hold(r, [q EXCEPT !.stage = "written"])
    /\ UNCHANGED dbVars

Commit(r) ==
    LET q == req[r] IN
    /\ q.stage = "written"
    /\ koulutuksenTarjoajat' = (koulutuksenTarjoajat \ q.deleted) \cup q.inserted
    /\ koulutusVersion' = IF HoldsKoulutus(r) THEN koulutusVersion + 1 ELSE koulutusVersion
    /\ IF q.touched
       THEN /\ tila' = [tila EXCEPT ![q.toteutus] = q.tila]
            /\ tarjoajat' = [tarjoajat EXCEPT ![q.toteutus] = q.tarjoajat]
            /\ toteutusVersion' = [toteutusVersion EXCEPT ![q.toteutus] = @ + 1]
       ELSE UNCHANGED <<tila, tarjoajat, toteutusVersion>>
    /\ commits' = commits + 1
    /\ Answer(r, "done")

(* A serialization failure is retried from the start; any other failure,    *)
(* or too many of those, ends the request.  The reads are not repeated.     *)
Fail(r) ==
    /\ req[r].stage \in InTx
    /\ \/ Hold(r, [req[r] EXCEPT !.stage = "ready"])
       \/ Answer(r, "failed")
    /\ UNCHANGED dbVars

Next == \E r \in Requests :
    \/ SendPut(r) \/ SendUpdate(r) \/ SendKoulutusEdit(r)
    \/ ReadToteutus(r) \/ ReadKoulutus(r) \/ ReadToteutukset(r) \/ Refuse(r)
    \/ Begin(r) \/ WriteKoulutus(r) \/ WriteToteutus(r) \/ Commit(r) \/ Fail(r)

Spec == Init /\ [][Next]_vars

-----------------------------------------------------------------------------
(* Properties                                                              *)

Contents == [stage : Stages, toteutus : Toteutukset \cup {Absent},
             tarjoajat : SUBSET (Tarjoajat \cup Oppilaitokset), tila : Tilat \cup {Absent},
             token : Nat, since : Nat, old : SUBSET Tarjoajat,
             read : SUBSET Oppilaitokset, readVersion : Nat, safe : SUBSET Oppilaitokset,
             koulutusSnapshot : Nat, inserted : SUBSET Oppilaitokset,
             deleted : SUBSET Oppilaitokset, touched : BOOLEAN]

TypeOK ==
    /\ koulutuksenTarjoajat \in SUBSET Oppilaitokset
    /\ koulutusVersion \in Nat /\ commits \in Nat
    /\ tila \in [Toteutukset -> Tilat \cup {Absent}]
    /\ tarjoajat \in [Toteutukset -> SUBSET Tarjoajat]
    /\ toteutusVersion \in [Toteutukset -> Nat]
    /\ req \in [Requests -> Contents]

Commits(r) == req[r].stage = "written" /\ req'[r].stage = "done"

(* What a save does to the koulutus concerns its own tarjoajat only: it     *)
(* takes away nothing but what it gave up itself, adds nothing but what it  *)
(* brought, however stale its reads are and whatever others saved meanwhile.*)
OthersTarjoajatStay == [][\A r \in Saves : Commits(r) =>
    /\ koulutuksenTarjoajat \ koulutuksenTarjoajat' \subseteq req[r].safe
    /\ koulutuksenTarjoajat' \ koulutuksenTarjoajat
         \subseteq TarjoajienOppilaitokset(req[r].tarjoajat)]_vars

(* A save that changes the koulutus leaves it with every oppilaitos of the  *)
(* toteutus it saved, also those that were there already.                   *)
ChangedKoulutusFits == [][\A r \in Saves :
    Commits(r) /\ koulutuksenTarjoajat' # koulutuksenTarjoajat =>
        TarjoajienOppilaitokset(req[r].tarjoajat) \ req[r].safe \subseteq koulutuksenTarjoajat']_vars

(* A save that had the server to itself never leaves a toteutus in use      *)
(* without its oppilaitos among the tarjoajat of the koulutus.              *)
AloneKeepsCovered == [][\A r \in Saves :
    Commits(r) /\ req[r].since = commits /\ Covered => Covered']_vars

(* The version of a toteutus that a save goes by; the one of the koulutus is *)
(* its readVersion.                                                         *)
SeenBy(q, t) == IF q.toteutus = t THEN q.token ELSE 0

KoulutusPromise == INSTANCE SavedEntity WITH
    Editors <- Requests,
    version <- koulutusVersion,
    seen    <- [r \in Requests |-> req[r].readVersion]

ToteutusPromise(t) == INSTANCE SavedEntity WITH
    Editors <- Requests,
    version <- toteutusVersion[t],
    seen    <- [r \in Requests |-> SeenBy(req[r], t)]

(* The koulutus and each toteutus are the registers SavedEntity promises:   *)
(* no save that writes one of them, or both, goes by an older version of    *)
(* what it writes, although it is retried without reading anything again.   *)
EntitiesKeepPromise ==
    /\ KoulutusPromise!Init /\ \A t \in Toteutukset : ToteutusPromise(t)!Init
    /\ [][/\ UNCHANGED KoulutusPromise!vars \/ KoulutusPromise!Next
          /\ \A t \in Toteutukset :
               UNCHANGED ToteutusPromise(t)!vars \/ ToteutusPromise(t)!Next]_vars
=============================================================================
