----------------------------- MODULE Riippuvuudet ------------------------------
(***************************************************************************)
(* What an entity depends on.  A koulutus may name a sorakuvaus, a         *)
(* toteutus names its koulutus and perhaps a sorakuvaus, a hakukohde its   *)
(* toteutus, its haku and perhaps a valintaperuste; a toteutus may also    *)
(* have opintojaksot or osaamismerkit attached to it (liitetyt).           *)
(*                                                                         *)
(* A save checks the tila of these before its transaction, each with a     *)
(* query of its own; so does a deletion check that nothing that exists     *)
(* names the entity.  The transaction compares the last_modified of the    *)
(* row it writes, and of the koulutus when a toteutus changes the          *)
(* koulutus' tarjoajat, and no other.                                      *)
(*                                                                         *)
(* last_modified is a version number, a transaction one step: EntitySave   *)
(* and Tarjoajat have those in detail.  The person's GET and the server's  *)
(* own read of the entity are one step too, because a change in between    *)
(* ends in a conflict whatever is validated.  Saves whose fields are not   *)
(* valid or not allowed to the person change nothing and are left out.     *)
(* "Faulty" definitions show that a property can be violated.              *)
(***************************************************************************)
EXTENDS Naturals, FiniteSets

CONSTANTS
    Koulutukset, Toteutukset, Hakukohteet, Haut, Valintaperusteet, Sorakuvaukset,
    Liitettavat,        \* the toteutukset and koulutukset that can be attached
    Bodies,             \* bound: what a save of each entity may name
    Initial,            \* bound: tilat and names the database may begin with
    Requests,           \* requests the server handles at once
    MaxSaves            \* bound: saves altogether

Entities == UNION {Koulutukset, Toteutukset, Hakukohteet, Haut, Valintaperusteet, Sorakuvaukset}

Tilat == {"tallennettu", "julkaistu", "arkistoitu", "poistettu"}
Absent == "puuttuu"
OnlyOlemassaolevat == {"tallennettu", "julkaistu", "arkistoitu"}
OnlyOlemassaolevatAndArkistoimattomat == {"tallennettu", "julkaistu"}

Names == [parents : SUBSET Entities, liitetyt : SUBSET Liitettavat]
NoNames == [parents |-> {}, liitetyt |-> {}]

ASSUME EntitiesAssumption ==
    /\ Koulutukset \cap (Toteutukset \cup Hakukohteet \cup Haut
                           \cup Valintaperusteet \cup Sorakuvaukset) = {}
    /\ Toteutukset \cap (Hakukohteet \cup Haut \cup Valintaperusteet \cup Sorakuvaukset) = {}
    /\ Hakukohteet \cap (Haut \cup Valintaperusteet \cup Sorakuvaukset) = {}
    /\ Haut \cap (Valintaperusteet \cup Sorakuvaukset) = {}
    /\ Liitettavat \subseteq Toteutukset \cup Koulutukset
    /\ Absent \notin Entities

(* A toteutus names one koulutus; only koulutukset and toteutukset name a   *)
(* sorakuvaus.  Foreign keys keep what the database begins with together.   *)
ASSUME NamesAssumption ==
    /\ Bodies \in [Entities -> SUBSET Names]
    /\ \A e \in Toteutukset : \A body \in Bodies[e] : \E koulutus \in Koulutukset :
         body.parents \cap Koulutukset = {koulutus}
    /\ \A e \in Entities \ (Koulutukset \cup Toteutukset) : \A body \in Bodies[e] :
         body.parents \cap Sorakuvaukset = {}

ASSUME InitialAssumption ==
    /\ Initial \subseteq [tila : [Entities -> Tilat \cup {Absent}], names : [Entities -> Names]]
    /\ \A start \in Initial, e \in Entities : start.tila[e] # Absent =>
         /\ start.names[e] \in Bodies[e]
         /\ \A d \in start.names[e].parents : start.tila[d] # Absent
    /\ MaxSaves \in Nat

VARIABLES
    tila,               \* committed tila of each entity
    names,              \* what it names
    version,            \* its last_modified, 0 while it is absent
    req,                \* what each request holds
    saves               \* saves begun

vars == <<tila, names, version, req, saves>>
dbVars == <<tila, names, version>>

CheckStages == {"parents", "children", "liitetyt", "tarjoajat"}
Stages == {"idle", "koulutus", "ready"} \cup CheckStages

(* creates: the save is a put; unread: parents not checked yet; moves: the  *)
(* toteutus changes the tarjoajat of its koulutus; disturbed: another save  *)
(* has committed since this one began (history, not in the code).           *)
Blank == [stage |-> "idle", entity |-> Absent, creates |-> FALSE, tila |-> Absent,
          names |-> NoNames, token |-> 0, unread |-> {},
          moves |-> FALSE, koulutusToken |-> 0, disturbed |-> FALSE]

Busy(r) == req[r].stage # "idle"
Hold(r, q) == req' = [req EXCEPT ![r] = q]
Answer(r)  == Hold(r, Blank)

KoulutusOf(body) == CHOOSE koulutus \in Koulutukset : body.parents \cap Koulutukset = {koulutus}

Init ==
    /\ \E start \in Initial : tila = start.tila /\ names = start.names
    /\ version = [e \in Entities |-> IF tila[e] = Absent THEN 0 ELSE 1]
    /\ req = [r \in Requests |-> Blank]
    /\ saves = 0

-----------------------------------------------------------------------------
(* Rules                                                                   *)

ValidStateChanges(old) ==
    CASE old = "tallennettu" -> {"julkaistu", "poistettu"}
      [] old = "julkaistu"   -> {"tallennettu", "arkistoitu"}
      [] old = "arkistoitu"  -> {"julkaistu"}
      [] OTHER               -> {}

(* An archived hakukohde may be deleted when nobody has applied to it and   *)
(* no hakuaika is going on; a hakukohde no change is listed for may become  *)
(* anything, as its own check is skipped when the list is empty.            *)
StateChangeAllowed(e, old, new) ==
    \/ new = old
    \/ new \in ValidStateChanges(old)
    \/ /\ e \in Hakukohteet
       /\ \/ old = "arkistoitu" /\ new = "poistettu"
          \/ ValidStateChanges(old) = {}

DependencyHolds_AnyHaku(e, new, d) ==                            \* faulty
    \/ d \in Haut
    \/ /\ tila[d] \in OnlyOlemassaolevat
       /\ new = "julkaistu" => tila[d] = "julkaistu"

(* validateDependency and, for a haku, validateDependencyExistence.  The    *)
(* toteutus of a hakukohde is found by a join with its koulutus.            *)
DependencyHolds(e, new, d) ==
    /\ tila[d] \in OnlyOlemassaolevat
    /\ d \in Toteutukset => tila[KoulutusOf(names[d])] \in OnlyOlemassaolevat
    /\ d \notin Haut /\ new = "julkaistu" => tila[d] = "julkaistu"

Children_OnlyJulkaistut(e) ==                                    \* faulty
    {c \in Entities : e \in names[c].parents /\ tila[c] = "julkaistu"}

(* What a deletion looks for; for a sorakuvaus only the koulutukset. *)
Children(e) ==
    {c \in Entities : /\ e \in names[c].parents
                      /\ tila[c] \in OnlyOlemassaolevat
                      /\ e \in Sorakuvaukset => c \in Koulutukset}

(* validateLiitetytEntitiesIntegrity: what may be attached to a save. *)
LiitetytHold(new, liitetyt) ==
    \A l \in liitetyt :
        /\ tila[l] \in OnlyOlemassaolevatAndArkistoimattomat
        /\ new = "julkaistu" => tila[l] = "julkaistu"

AttachedSafely_OnlyDeletion(e, new) ==                           \* faulty
    new = "poistettu" =>
        \A to \in Toteutukset : e \in names[to].liitetyt => tila[to] # "julkaistu"

(* validateLiitettyEntityIntegrity: an attached entity stays published as   *)
(* long as a toteutus it is attached to is published.                       *)
AttachedSafely(e, new) ==
    new # "julkaistu" =>
        \A to \in Toteutukset : e \in names[to].liitetyt => tila[to] # "julkaistu"

-----------------------------------------------------------------------------
(* The save and its validation                                             *)

Deletes(q) == ~q.creates /\ q.tila = "poistettu"

ChecksLiitetyt(q) ==
    IF q.entity \in Liitettavat THEN ~q.creates /\ q.tila # "julkaistu"
    ELSE q.names.liitetyt # {} /\ q.tila \in OnlyOlemassaolevatAndArkistoimattomat

(* The checks that are left for a save when it is done with some. *)
AfterLiitetyt(q) == IF q.moves THEN "tarjoajat" ELSE "ready"
AfterChildren(q) == IF ChecksLiitetyt(q) THEN "liitetyt" ELSE AfterLiitetyt(q)
AfterParents(q)  == IF Deletes(q) THEN "children" ELSE AfterChildren(q)

Begin_AlsoPoistetut(r) ==                                        \* faulty
    /\ ~Busy(r) /\ saves < MaxSaves
    /\ saves' = saves + 1
    /\ \E e \in Entities, new \in Tilat, moves \in BOOLEAN : \E body \in Bodies[e] :
         /\ moves => e \in Toteutukset
         /\ IF tila[e] = Absent
            THEN \A other \in Requests : req[other].entity # e
            ELSE StateChangeAllowed(e, tila[e], new)
         /\ LET q == [Blank EXCEPT !.entity = e, !.creates = tila[e] = Absent, !.tila = new,
                                   !.names = body, !.token = version[e],
                                   !.unread = body.parents, !.moves = moves]
            IN Hold(r, [q EXCEPT !.stage = IF e \in Toteutukset THEN "koulutus"
                                           ELSE IF body.parents # {} THEN "parents"
                                           ELSE AfterParents(q)])
    /\ UNCHANGED dbVars

(* A put of a new entity, which then has a name nobody else uses, or an     *)
(* update of one that is not deleted; its tila may change only in the ways  *)
(* validateStateChange allows.                                              *)
Begin(r) ==
    /\ ~Busy(r) /\ saves < MaxSaves
    /\ saves' = saves + 1
    /\ \E e \in Entities, new \in Tilat, moves \in BOOLEAN : \E body \in Bodies[e] :
         /\ moves => e \in Toteutukset
         /\ IF tila[e] = Absent
            THEN \A other \in Requests : req[other].entity # e
            ELSE tila[e] \in OnlyOlemassaolevat /\ StateChangeAllowed(e, tila[e], new)
         /\ LET q == [Blank EXCEPT !.entity = e, !.creates = tila[e] = Absent, !.tila = new,
                                   !.names = body, !.token = version[e],
                                   !.unread = body.parents, !.moves = moves]
            IN Hold(r, [q EXCEPT !.stage = IF e \in Toteutukset THEN "koulutus"
                                           ELSE IF body.parents # {} THEN "parents"
                                           ELSE AfterParents(q)])
    /\ UNCHANGED dbVars

(* koulutusService.get: the koulutus whose tarjoajat may have to change. *)
ReadKoulutus(r) ==
    /\ req[r].stage = "koulutus"
    /\ Hold(r, [req[r] EXCEPT !.stage = "parents",
                              !.koulutusToken = version[KoulutusOf(req[r].names)]])
    /\ UNCHANGED <<dbVars, saves>>

ReadBefore(d) ==
    CASE d \in Koulutukset \cup Toteutukset -> {}
      [] d \in Haut -> Entities \ Haut
      [] OTHER      -> Koulutukset \cup Toteutukset

CheckParent_First(r) ==                                          \* faulty
    LET q == req[r] IN
    /\ q.stage = "parents"
    /\ \E d \in q.unread :
         /\ q.unread \cap ReadBefore(d) = {}
         /\ IF DependencyHolds(q.entity, q.tila, d)
            THEN Hold(r, [q EXCEPT !.unread = @ \ {d}, !.stage = AfterParents(q)])
            ELSE Answer(r)
    /\ UNCHANGED <<dbVars, saves>>

(* validateDependency, one query each: the toteutus or koulutus first, a   *)
(* haku last; the first that does not hold ends the save.                  *)
CheckParent(r) ==
    LET q == req[r] IN
    /\ q.stage = "parents"
    /\ \E d \in q.unread :
         /\ q.unread \cap ReadBefore(d) = {}
         /\ IF DependencyHolds(q.entity, q.tila, d)
            THEN Hold(r, [q EXCEPT !.unread = @ \ {d},
                                   !.stage = IF q.unread = {d} THEN AfterParents(q) ELSE @])
            ELSE Answer(r)
    /\ UNCHANGED <<dbVars, saves>>

(* validateInternalDependenciesWhenDeletingEntity *)
CheckChildren(r) ==
    LET q == req[r] IN
    /\ q.stage = "children"
    /\ IF Children(q.entity) = {}
       THEN Hold(r, [q EXCEPT !.stage = AfterChildren(q)])
       ELSE Answer(r)
    /\ UNCHANGED <<dbVars, saves>>

CheckLiitetyt(r) ==
    LET q == req[r] IN
    /\ q.stage = "liitetyt"
    /\ IF IF q.entity \in Liitettavat THEN AttachedSafely(q.entity, q.tila)
          ELSE LiitetytHold(q.tila, q.names.liitetyt)
       THEN Hold(r, [q EXCEPT !.stage = AfterLiitetyt(q)])
       ELSE Answer(r)
    /\ UNCHANGED <<dbVars, saves>>

(* getUpdateTarjoajatActions validates the koulutus with its new tarjoajat, *)
(* which includes the sorakuvaus it names and the toteutukset it is         *)
(* attached to.                                                             *)
CheckTarjoajat(r) ==
    LET q == req[r]
        koulutus == KoulutusOf(q.names)
    IN
    /\ q.stage = "tarjoajat"
    /\ IF /\ \A d \in names[koulutus].parents : DependencyHolds(koulutus, tila[koulutus], d)
          /\ koulutus \in Liitettavat => AttachedSafely(koulutus, tila[koulutus])
       THEN Hold(r, [q EXCEPT !.stage = "ready"])
       ELSE Answer(r)
    /\ UNCHANGED <<dbVars, saves>>

-----------------------------------------------------------------------------
(* The transaction                                                         *)

Conflict_OwnRowOnly(q) == ~q.creates /\ version[q.entity] # q.token  \* faulty

Conflict(q) == \/ ~q.creates /\ version[q.entity] # q.token
               \/ q.moves /\ version[KoulutusOf(q.names)] # q.koulutusToken

(* checkNotModified, then the entity as the save has it, and the tarjoajat  *)
(* of the koulutus, whose last_modified a trigger keeps.                    *)
Commit(r) ==
    LET q == req[r] IN
    /\ q.stage = "ready" /\ ~Conflict(q)
    /\ tila' = [tila EXCEPT ![q.entity] = q.tila]
    /\ names' = [names EXCEPT ![q.entity] = q.names]
    /\ version' = [e \in Entities |->
         IF e = q.entity \/ (q.moves /\ e = KoulutusOf(q.names)) THEN version[e] + 1
         ELSE version[e]]
    /\ req' = [other \in Requests |-> IF other = r THEN Blank
                    ELSE [req[other] EXCEPT !.disturbed = Busy(other)]]
    /\ UNCHANGED saves

(* A conflict, or any other failure of the transaction. *)
RollBack(r) ==
    /\ req[r].stage = "ready"
    /\ Answer(r)
    /\ UNCHANGED <<dbVars, saves>>

Next == \E r \in Requests :
    \/ Begin(r) \/ ReadKoulutus(r) \/ CheckParent(r) \/ CheckChildren(r)
    \/ CheckLiitetyt(r) \/ CheckTarjoajat(r) \/ Commit(r) \/ RollBack(r)

Spec == Init /\ [][Next]_vars

-----------------------------------------------------------------------------
(* Properties                                                              *)

Saves == [stage : Stages, entity : Entities \cup {Absent}, creates : BOOLEAN,
          tila : Tilat \cup {Absent}, names : Names, token : Nat, unread : SUBSET Entities,
          moves : BOOLEAN, koulutusToken : Nat, disturbed : BOOLEAN]

(* Types; and no save gets past the parents with one it has not checked. *)
TypeOK ==
    /\ tila \in [Entities -> Tilat \cup {Absent}]
    /\ names \in [Entities -> Names]
    /\ version \in [Entities -> Nat]
    /\ req \in [Requests -> Saves]
    /\ \A r \in Requests : req[r].unread # {} <=> req[r].stage \in {"koulutus", "parents"}
    /\ saves \in Nat

Commits(r) == req[r].stage = "ready" /\ req'[r].stage = "idle" /\ version' # version

(* Existing entities and what they name although it has been deleted; a     *)
(* toteutus' sorakuvaus is not among them, no deletion looks for it.        *)
Orphaned == {p \in Entities \X Entities :
    /\ tila[p[1]] \in OnlyOlemassaolevat /\ tila[p[2]] = "poistettu"
    /\ p[2] \in names[p[1]].parents
    /\ ~(p[1] \in Toteutukset /\ p[2] \in Sorakuvaukset)}

(* Published toteutukset and what is attached to them without being so. *)
AttachedUnpublished == {p \in Toteutukset \X Liitettavat :
    /\ p[1] \notin Liitettavat
    /\ tila[p[1]] = "julkaistu" /\ p[2] \in names[p[1]].liitetyt /\ tila[p[2]] # "julkaistu"}

(* A save that no other commit came in between of never leaves an existing  *)
(* entity naming a deleted one.                                             *)
AloneKeepsDependencies == [][\A r \in Requests :
    Commits(r) /\ ~req[r].disturbed => Orphaned' \subseteq Orphaned]_vars

(* Nor does it publish over what is not published: its koulutus, toteutus,  *)
(* valintaperuste and sorakuvaus are, and what is attached to a published   *)
(* toteutus stays published.                                                *)
AloneKeepsPublished == [][\A r \in Requests :
    Commits(r) /\ ~req[r].disturbed =>
        /\ req[r].tila = "julkaistu" =>
             \A d \in req[r].names.parents \ Haut : tila'[d] = "julkaistu"
        /\ AttachedUnpublished' \subseteq AttachedUnpublished]_vars

(* What has been deleted stays deleted, whoever was saving it meanwhile. *)
PoistettuIsFinal == [][\A e \in Entities :
    tila[e] = "poistettu" => tila'[e] = "poistettu"]_vars

(* A toteutus that changes the tarjoajat of its koulutus finds the koulutus *)
(* there, and published if it is itself, even if others saved meanwhile.    *)
MovingTarjoajatFindsKoulutus == [][\A r \in Requests :
    Commits(r) /\ req[r].moves =>
        LET koulutus == KoulutusOf(req[r].names) IN
        /\ tila'[koulutus] \in OnlyOlemassaolevat
        /\ req[r].tila = "julkaistu" => tila'[koulutus] = "julkaistu"]_vars

(* The version of an entity that a save goes by: the one it was read in, or *)
(* the one the koulutus whose tarjoajat it changes was read in.            *)
SeenBy(q, e) == IF q.entity = e THEN q.token
                ELSE IF q.moves /\ KoulutusOf(q.names) = e THEN q.koulutusToken
                ELSE 0

Promise(e) == INSTANCE SavedEntity WITH
    Editors <- Requests,
    version <- version[e],
    seen    <- [r \in Requests |-> SeenBy(req[r], e)]

(* Every entity is the register SavedEntity promises, also a koulutus that  *)
(* the saves of its toteutukset write: no save is accepted that goes by an  *)
(* older version of what it writes.                                         *)
EntitiesKeepPromise ==
    /\ \A e \in Entities : Promise(e)!Init
    /\ [][\A e \in Entities : UNCHANGED Promise(e)!vars \/ Promise(e)!Next]_vars

(* The error of a refused deletion, "ei voi poistaa koska siihen on         *)
(* liitetty ..." (cannot be deleted because ... is attached to it): nothing *)
(* that exists names a deleted entity.                                      *)
NoOrphans == Orphaned = {}
=============================================================================
