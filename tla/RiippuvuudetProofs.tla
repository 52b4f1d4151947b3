--------------------------- MODULE RiippuvuudetProofs --------------------------
(***************************************************************************)
(* For any entities, bodies and requests: a save nobody disturbs keeps the *)
(* dependencies and what is published, and the row locks keep what is      *)
(* deleted deleted and a koulutus there while its tarjoajat are changed.   *)
(***************************************************************************)
EXTENDS Riippuvuudet, TLAPS

(* What is in the database was checked against what had been put before,   *)
(* and has been given a last_modified.                                     *)
DbInv == \A e \in Entities :
    /\ tila[e] = Absent <=> version[e] = 0
    /\ tila[e] # Absent => names[e] \in Bodies[e] /\ \A d \in names[e].parents : tila[d] # Absent

(* What a save under way holds; its token still being current means that   *)
(* the entity has not been deleted since.                                  *)
Held(q) ==
    /\ q.entity \in Entities /\ q.tila \in Tilat /\ q.names \in Bodies[q.entity]
    /\ q.unread \subseteq q.names.parents
    /\ q.moves => q.entity \in Toteutukset
    /\ q.stage = "koulutus" => q.entity \in Toteutukset /\ q.unread = q.names.parents
    /\ q.token <= version[q.entity]
    /\ q.creates <=> tila[q.entity] = Absent
    /\ ~q.creates /\ version[q.entity] = q.token => tila[q.entity] \in OnlyOlemassaolevat
    /\ \A d \in q.names.parents \ q.unread : tila[d] # Absent

(* The koulutus it moves tarjoajat of is as it was found, or has a newer   *)
(* last_modified.                                                          *)
KoulutusHeld(q) ==
    q.moves /\ q.stage # "koulutus" =>
        LET koulutus == KoulutusOf(q.names) IN
        /\ q.koulutusToken <= version[koulutus]
        /\ koulutus \notin q.unread /\ version[koulutus] = q.koulutusToken =>
             /\ tila[koulutus] \in OnlyOlemassaolevat
             /\ q.tila = "julkaistu" => tila[koulutus] = "julkaistu"

(* What it has checked still holds, when no other save has committed. *)
ParentsHold(q) == \A d \in q.names.parents \ q.unread : DependencyHolds(q.entity, q.tila, d)
ChildrenHold(q) ==
    q.stage \in {"liitetyt", "tarjoajat", "ready"} /\ Deletes(q) => Children(q.entity) = {}
LiitetytChecked(q) ==
    q.stage \in {"tarjoajat", "ready"} /\ ChecksLiitetyt(q) =>
        IF q.entity \in Liitettavat THEN AttachedSafely(q.entity, q.tila)
        ELSE LiitetytHold(q.tila, q.names.liitetyt)
Alone(q) == ~q.disturbed => ParentsHold(q) /\ ChildrenHold(q) /\ LiitetytChecked(q)

Good(q) == Held(q) /\ KoulutusHeld(q) /\ Alone(q)

(* The name of an entity that is being put is nobody else's. *)
Reserved == \A r, other \in Requests :
    r # other /\ Busy(r) /\ req[r].creates => req[other].entity # req[r].entity

IInv ==
    /\ TypeOK
    /\ DbInv
    /\ Reserved
    /\ \A r \in Requests : Busy(r) => Good(req[r])

-----------------------------------------------------------------------------
(* Operators *)

(* The rules read the database and nothing else. *)
LEMMA SameDb ==
    ASSUME UNCHANGED dbVars
    PROVE  /\ \A q : Good(q) => Good(q)'
           /\ DbInv => DbInv'
<1>1. tila' = tila /\ names' = names /\ version' = version
  BY DEF dbVars
<1>2. \A q : (Held(q) => Held(q)') /\ (KoulutusHeld(q) => KoulutusHeld(q)')
  BY <1>1 DEF Held, KoulutusHeld, KoulutusOf
<1>3. \A e, new, d : DependencyHolds(e, new, d) => DependencyHolds(e, new, d)'
  BY <1>1 DEF DependencyHolds, KoulutusOf
<1>4. \A e : Children(e)' = Children(e)
  BY <1>1 DEF Children
<1>5. \A new, l : (LiitetytHold(new, l) => LiitetytHold(new, l)')
                  /\ (AttachedSafely(l, new) => AttachedSafely(l, new)')
  BY <1>1 DEF LiitetytHold, AttachedSafely
<1>6. \A q : Alone(q) => Alone(q)'
  BY <1>3, <1>4, <1>5 DEF Alone, ParentsHold, ChildrenHold, LiitetytChecked, Deletes, ChecksLiitetyt
<1>7. DbInv => DbInv'
  BY <1>1 DEF DbInv
<1> QED BY <1>2, <1>6, <1>7 DEF Good

LEMMA KoulutusNamed ==
    ASSUME NEW e \in Toteutukset, NEW body \in Bodies[e]
    PROVE  KoulutusOf(body) \in Koulutukset /\ KoulutusOf(body) \in body.parents
           /\ KoulutusOf(body) \in Entities /\ KoulutusOf(body) # e
<1>1. \E koulutus \in Koulutukset : body.parents \cap Koulutukset = {koulutus}
  BY NamesAssumption
<1>2. KoulutusOf(body) \in Koulutukset /\ body.parents \cap Koulutukset = {KoulutusOf(body)}
  BY <1>1 DEF KoulutusOf
<1> QED BY <1>2, EntitiesAssumption DEF Entities

LEMMA BlankSave == Blank \in Saves /\ Blank.stage = "idle" /\ Blank.unread = {} /\ ~Blank.creates
BY DEF Blank, Saves, Stages, CheckStages, Names, NoNames

LEMMA BodiesTyped ==
    ASSUME NEW e \in Entities, NEW body \in Bodies[e]
    PROVE  body \in Names /\ body.parents \in SUBSET Entities /\ body.liitetyt \in SUBSET Liitettavat
BY NamesAssumption DEF Names

(* A step of one request that leaves the database alone. *)
LEMMA HoldKeeps ==
    ASSUME IInv, UNCHANGED dbVars, NEW r \in Requests, NEW q, Hold(r, q), saves' \in Nat,
           q \in Saves, q.unread # {} <=> q.stage \in {"koulutus", "parents"},
           q.stage # "idle" => Good(q),
           \A other \in Requests \ {r} :
               /\ q.stage # "idle" /\ q.creates => req[other].entity # q.entity
               /\ Busy(other) /\ req[other].creates => q.entity # req[other].entity
    PROVE  IInv'
<1>1. req \in [Requests -> Saves] /\ req' = [req EXCEPT ![r] = q]
  BY DEF IInv, TypeOK, Hold
<1>2. req'[r] = q /\ \A other \in Requests \ {r} : req'[other] = req[other]
  BY <1>1
<1>3. TypeOK'
  BY <1>1, <1>2 DEF IInv, TypeOK, dbVars
<1>4. DbInv'
  BY SameDb DEF IInv
<1>5. Reserved'
  BY <1>2 DEF IInv, Reserved, Busy
<1>6. ASSUME NEW other \in Requests, Busy(other)'
      PROVE  Good(req[other])'
  <2>1. Good(req'[other])
    BY <1>2, <1>6 DEF IInv, Busy
  <2> QED BY <2>1, SameDb
<1> QED BY <1>3, <1>4, <1>5, <1>6 DEF IInv

-----------------------------------------------------------------------------
(* The steps *)

(* Which checks are left for a save: those it needs and has not made. *)
LEMMA ChecksLeft ==
    ASSUME NEW q
    PROVE  /\ AfterLiitetyt(q) \in {"tarjoajat", "ready"}
           /\ AfterChildren(q) \in {"liitetyt", "tarjoajat", "ready"}
           /\ AfterChildren(q) \in {"tarjoajat", "ready"} => ~ChecksLiitetyt(q)
           /\ AfterParents(q) \in {"children", "liitetyt", "tarjoajat", "ready"}
           /\ AfterParents(q) \in {"liitetyt", "tarjoajat", "ready"} => ~Deletes(q)
           /\ AfterParents(q) \in {"tarjoajat", "ready"} => ~ChecksLiitetyt(q)
BY DEF AfterParents, AfterChildren, AfterLiitetyt

(* They depend on what is saved only. *)
LEMMA SameChecks ==
    ASSUME NEW p, NEW q, p.entity = q.entity, p.creates = q.creates, p.tila = q.tila,
           p.names = q.names
    PROVE  (Deletes(p) <=> Deletes(q)) /\ (ChecksLiitetyt(p) <=> ChecksLiitetyt(q))
BY DEF Deletes, ChecksLiitetyt

LEMMA ReqTyped ==
    ASSUME IInv, NEW r \in Requests
    PROVE  /\ req[r] \in Saves
           /\ req[r].unread # {} <=> req[r].stage \in {"koulutus", "parents"}
           /\ Busy(r) => Good(req[r])
           /\ \A other \in Requests \ {r} :
                /\ Busy(r) /\ req[r].creates => req[other].entity # req[r].entity
                /\ Busy(other) /\ req[other].creates => req[r].entity # req[other].entity
BY DEF IInv, TypeOK, Reserved

(* A step that ends the request. *)
LEMMA AnswerKeeps ==
    ASSUME IInv, UNCHANGED <<dbVars, saves>>, NEW r \in Requests, Busy(r), Answer(r)
    PROVE  IInv'
<1>1. saves' \in Nat
  BY DEF IInv, TypeOK
<1>2. \A other \in Requests \ {r} : Busy(other) /\ req[other].creates => Blank.entity # req[other].entity
  BY EntitiesAssumption DEF IInv, Good, Held, Blank
<1> QED BY <1>1, <1>2, BlankSave, HoldKeeps DEF Answer

(* What a save is that starts: Begin, of one entity and body. *)
Begins(r, e, new, moves, body) ==
    /\ moves => e \in Toteutukset
    /\ IF tila[e] = Absent
       THEN \A other \in Requests : req[other].entity # e
       ELSE tila[e] \in OnlyOlemassaolevat /\ StateChangeAllowed(e, tila[e], new)
    /\ LET q == [Blank EXCEPT !.entity = e, !.creates = tila[e] = Absent, !.tila = new,
                              !.names = body, !.token = version[e],
                              !.unread = body.parents, !.moves = moves]
       IN Hold(r, [q EXCEPT !.stage = IF e \in Toteutukset THEN "koulutus"
                                      ELSE IF body.parents # {} THEN "parents"
                                      ELSE AfterParents(q)])

LEMMA BeginSays ==
    ASSUME NEW r \in Requests, Begin(r)
    PROVE  \E e \in Entities, new \in Tilat, moves \in BOOLEAN : \E body \in Bodies[e] :
             Begins(r, e, new, moves, body)
BY DEF Begin, Begins

(* What a save starts with. *)
LEMMA BeginKeeps ==
    ASSUME IInv, NEW r \in Requests, Begin(r)
    PROVE  IInv'
<1>1. PICK e \in Entities, new \in Tilat, moves \in BOOLEAN : \E body \in Bodies[e] :
        Begins(r, e, new, moves, body)
  BY BeginSays
<1>2. PICK body \in Bodies[e] : Begins(r, e, new, moves, body)
  BY <1>1
<1> DEFINE q0 == [Blank EXCEPT !.entity = e, !.creates = tila[e] = Absent, !.tila = new,
                               !.names = body, !.token = version[e],
                               !.unread = body.parents, !.moves = moves]
           q == [q0 EXCEPT !.stage = IF e \in Toteutukset THEN "koulutus"
                                     ELSE IF body.parents # {} THEN "parents"
                                     ELSE AfterParents(q0)]
<1>3. /\ Hold(r, q)
      /\ moves => e \in Toteutukset
      /\ tila[e] = Absent => \A other \in Requests : req[other].entity # e
      /\ tila[e] # Absent => tila[e] \in OnlyOlemassaolevat
  BY <1>2 DEF Begins
<1>4. body \in Names /\ body.parents \in SUBSET Entities /\ version[e] \in Nat
  BY BodiesTyped DEF IInv, TypeOK
<1>5. q0 \in Saves
  <2>1. (tila[e] = Absent) \in BOOLEAN /\ body.parents \in SUBSET Entities
    BY <1>4
  <2> QED BY <1>4, <2>1, BlankSave, ZenonT(60) DEF Saves
<1>6. /\ q.entity = e /\ q.tila = new /\ q.names = body
      /\ q.token = version[e] /\ q.unread = body.parents /\ q.moves = moves
      /\ q.koulutusToken = 0 /\ q.disturbed = FALSE
  BY DEF Blank
<1>7. q.creates \in BOOLEAN /\ (q.creates <=> tila[e] = Absent)
  BY Zenon DEF Blank
<1>8. q.stage = IF e \in Toteutukset THEN "koulutus"
                ELSE IF body.parents # {} THEN "parents" ELSE AfterParents(q0)
  BY DEF Blank
<1>9. AfterParents(q0) \in {"children", "liitetyt", "tarjoajat", "ready"}
  BY ChecksLeft
<1>10. e \in Toteutukset => body.parents # {}
  BY KoulutusNamed
<1>11. q.stage \in Stages /\ q.stage # "idle"
       /\ (q.unread # {} <=> q.stage \in {"koulutus", "parents"})
  <2>1. CASE e \in Toteutukset
    BY <2>1, <1>6, <1>8, <1>10 DEF Stages
  <2>2. CASE e \notin Toteutukset /\ body.parents # {}
    BY <2>2, <1>6, <1>8 DEF Stages, CheckStages
  <2>3. CASE e \notin Toteutukset /\ body.parents = {}
    BY <2>3, <1>6, <1>8, <1>9 DEF Stages, CheckStages
  <2> QED BY <2>1, <2>2, <2>3
<1>12. q \in Saves
  <2> DEFINE stage == IF e \in Toteutukset THEN "koulutus"
                      ELSE IF body.parents # {} THEN "parents" ELSE AfterParents(q0)
  <2>1. stage \in Stages /\ q = [q0 EXCEPT !.stage = stage]
    BY <1>8, <1>11
  <2> HIDE DEF stage, q0
  <2> QED BY <1>5, <2>1, ZenonT(60) DEF Saves
<1> HIDE DEF q, q0
<1>13. Held(q)
  <2>1. q.stage = "koulutus" => e \in Toteutukset
    BY <1>8, <1>9
  <2> QED BY <2>1, <1>3, <1>4, <1>6, <1>7 DEF Held
<1>14. KoulutusHeld(q)
  <2>1. q.moves => q.stage = "koulutus"
    BY <1>3, <1>6, <1>8
  <2> QED BY <2>1 DEF KoulutusHeld
<1>15. Alone(q)
  <2>1. ParentsHold(q)
    BY <1>6 DEF ParentsHold
  <2>2. /\ q0.entity = q.entity /\ q0.creates = q.creates /\ q0.tila = q.tila /\ q0.names = q.names
    BY <1>6, <1>7 DEF q, q0, Blank
  <2>3. q.stage \in {"liitetyt", "tarjoajat", "ready"} => q.stage = AfterParents(q0)
    BY <1>8
  <2> QED BY <2>1, <2>2, <2>3, ChecksLeft, SameChecks DEF Alone, ChildrenHold, LiitetytChecked
<1>16. \A other \in Requests \ {r} :
          /\ q.creates => req[other].entity # q.entity
          /\ Busy(other) /\ req[other].creates => q.entity # req[other].entity
  <2> SUFFICES ASSUME NEW other \in Requests \ {r}, Busy(other), req[other].creates,
                      req[other].entity = e
               PROVE  FALSE
    BY <1>3, <1>6, <1>7
  <2>1. tila[e] = Absent
    BY ReqTyped DEF Good, Held
  <2> QED BY <2>1, <1>3
<1>17. UNCHANGED dbVars /\ saves' \in Nat
  BY DEF Begin, IInv, TypeOK
<1> QED BY <1>3, <1>11, <1>12, <1>13, <1>14, <1>15, <1>16, <1>17, HoldKeeps DEF Good

(* A step that goes on to the next check, having read what it checked. *)
LEMMA CheckKeeps ==
    ASSUME IInv, UNCHANGED <<dbVars, saves>>, NEW r \in Requests, Busy(r),
           NEW q \in Saves, Hold(r, q), q.stage \notin {"idle", "koulutus"},
           q.unread # {} <=> q.stage = "parents",
           /\ q.entity = req[r].entity /\ q.creates = req[r].creates /\ q.tila = req[r].tila
           /\ q.names = req[r].names /\ q.token = req[r].token /\ q.moves = req[r].moves
           /\ q.disturbed = req[r].disturbed,
           q.unread \subseteq req[r].unread,
           \A d \in req[r].unread \ q.unread : DependencyHolds(q.entity, q.tila, d),
           KoulutusHeld(q),
           ~q.disturbed => ChildrenHold(q) /\ LiitetytChecked(q)
    PROVE  IInv'
<1>1. Good(req[r]) /\ req[r] \in Saves
  BY ReqTyped
<1>2. \A d \in q.names.parents \ q.unread : d \in req[r].unread \ q.unread \/ d \notin req[r].unread
  OBVIOUS
<1>3. \A d \in req[r].unread \ q.unread : tila[d] # Absent
  BY DEF DependencyHolds, OnlyOlemassaolevat, Absent
<1>4. Held(q)
  BY <1>1, <1>2, <1>3 DEF Good, Held
<1>5. ~q.disturbed => ParentsHold(q)
  BY <1>1, <1>2 DEF Good, Alone, ParentsHold
<1>6. Good(q)
  BY <1>4, <1>5 DEF Good, Alone
<1>7. UNCHANGED dbVars /\ saves' \in Nat
  BY DEF IInv, TypeOK
<1> QED BY <1>6, <1>7, ReqTyped, HoldKeeps

(* A step that changes nothing but the stage, after the parents. *)
LEMMA StageKeeps ==
    ASSUME IInv, UNCHANGED <<dbVars, saves>>, NEW r \in Requests,
           req[r].stage \in {"children", "liitetyt", "tarjoajat"},
           NEW stage \in {"liitetyt", "tarjoajat", "ready"},
           Hold(r, [req[r] EXCEPT !.stage = stage]),
           LET q == [req[r] EXCEPT !.stage = stage]
           IN ~q.disturbed => ChildrenHold(q) /\ LiitetytChecked(q)
    PROVE  IInv'
<1> DEFINE q == [req[r] EXCEPT !.stage = stage]
<1>1. req[r] \in Saves /\ Good(req[r]) /\ req[r].unread = {} /\ Busy(r)
  BY ReqTyped DEF Busy
<1>2. q \in Saves
  <2>1. stage \in Stages
    BY DEF Stages, CheckStages
  <2> QED BY <1>1, <2>1, ZenonT(60) DEF Saves
<1>3. /\ q.stage = stage /\ q.entity = req[r].entity /\ q.creates = req[r].creates
      /\ q.tila = req[r].tila /\ q.names = req[r].names /\ q.token = req[r].token
      /\ q.moves = req[r].moves /\ q.disturbed = req[r].disturbed /\ q.unread = req[r].unread
      /\ q.koulutusToken = req[r].koulutusToken
  BY <1>1, Zenon DEF Saves
<1>4. KoulutusHeld(q)
  BY <1>1, <1>3 DEF Good, KoulutusHeld
<1>5. Hold(r, q) /\ (~q.disturbed => ChildrenHold(q) /\ LiitetytChecked(q))
  OBVIOUS
<1> HIDE DEF q
<1> QED BY <1>1, <1>2, <1>3, <1>4, <1>5, CheckKeeps

LEMMA ReadKoulutusKeeps ==
    ASSUME IInv, NEW r \in Requests, ReadKoulutus(r)
    PROVE  IInv'
<1> DEFINE koulutus == KoulutusOf(req[r].names)
           q == [req[r] EXCEPT !.stage = "parents", !.koulutusToken = version[koulutus]]
<1>1. /\ req[r] \in Saves /\ Good(req[r]) /\ Busy(r) /\ req[r].stage = "koulutus"
      /\ req[r].unread # {} /\ UNCHANGED <<dbVars, saves>> /\ Hold(r, q)
  BY ReqTyped DEF Busy, ReadKoulutus
<1>2. koulutus \in Entities /\ koulutus \in req[r].unread /\ version[koulutus] \in Nat
  BY <1>1, KoulutusNamed DEF Good, Held, IInv, TypeOK
<1>3. q \in Saves
  <2>1. "parents" \in Stages
    BY DEF Stages, CheckStages
  <2> HIDE DEF koulutus
  <2> QED BY <1>1, <1>2, <2>1, ZenonT(60) DEF Saves
<1>4. /\ q.stage = "parents" /\ q.entity = req[r].entity /\ q.creates = req[r].creates
      /\ q.tila = req[r].tila /\ q.names = req[r].names /\ q.token = req[r].token
      /\ q.moves = req[r].moves /\ q.disturbed = req[r].disturbed /\ q.unread = req[r].unread
      /\ q.koulutusToken = version[koulutus]
  BY <1>1 DEF Saves
<1>5. KoulutusHeld(q) /\ ChildrenHold(q) /\ LiitetytChecked(q)
  BY <1>2, <1>4 DEF KoulutusHeld, ChildrenHold, LiitetytChecked
<1> HIDE DEF q
<1> QED BY <1>1, <1>3, <1>4, <1>5, CheckKeeps

LEMMA CheckParentKeeps ==
    ASSUME IInv, NEW r \in Requests, CheckParent(r)
    PROVE  IInv'
<1>1. /\ req[r] \in Saves /\ Good(req[r]) /\ Busy(r) /\ req[r].stage = "parents"
      /\ UNCHANGED <<dbVars, saves>>
  BY ReqTyped DEF Busy, CheckParent
<1>2. PICK d \in req[r].unread :
        IF DependencyHolds(req[r].entity, req[r].tila, d)
        THEN Hold(r, [req[r] EXCEPT !.unread = @ \ {d},
                         !.stage = IF req[r].unread = {d} THEN AfterParents(req[r]) ELSE @])
        ELSE Answer(r)
  BY DEF CheckParent
<1>3. CASE ~DependencyHolds(req[r].entity, req[r].tila, d)
  BY <1>1, <1>2, <1>3, AnswerKeeps
<1>4. CASE DependencyHolds(req[r].entity, req[r].tila, d)
  <2> DEFINE stage == IF req[r].unread = {d} THEN AfterParents(req[r]) ELSE req[r].stage
             q == [req[r] EXCEPT !.unread = @ \ {d}, !.stage = stage]
  <2>1. Hold(r, q)
    BY <1>2, <1>4
  <2>2. stage \in {"parents", "children", "liitetyt", "tarjoajat", "ready"}
        /\ (stage = "parents" <=> req[r].unread # {d})
    BY <1>1, ChecksLeft
  <2>3. q \in Saves
    <3>1. stage \in Stages /\ req[r].unread \ {d} \in SUBSET Entities
      BY <1>1, <2>2 DEF Stages, CheckStages, Saves
    <3> HIDE DEF stage
    <3> QED BY <3>1, <1>1, ZenonT(60) DEF Saves
  <2>4. /\ q.stage = stage /\ q.entity = req[r].entity /\ q.creates = req[r].creates
        /\ q.tila = req[r].tila /\ q.names = req[r].names /\ q.token = req[r].token
        /\ q.moves = req[r].moves /\ q.disturbed = req[r].disturbed
        /\ q.unread = req[r].unread \ {d} /\ q.koulutusToken = req[r].koulutusToken
    BY <1>1 DEF Saves
  <2>5. KoulutusHeld(q)
    <3>1. d = KoulutusOf(q.names) /\ q.moves => d \notin Haut
      BY <1>1, <2>4, KoulutusNamed, EntitiesAssumption DEF Good, Held
    <3> QED BY <3>1, <1>1, <1>4, <2>2, <2>4 DEF Good, KoulutusHeld, DependencyHolds
  <2>6. ChildrenHold(q) /\ LiitetytChecked(q)
    <3>1. q.stage \in {"liitetyt", "tarjoajat", "ready"} => q.stage = AfterParents(req[r])
      BY <2>2, <2>4
    <3> HIDE DEF q, stage
    <3>2. (Deletes(q) <=> Deletes(req[r])) /\ (ChecksLiitetyt(q) <=> ChecksLiitetyt(req[r]))
      BY <2>4, SameChecks
    <3> QED BY <3>1, <3>2, ChecksLeft DEF ChildrenHold, LiitetytChecked
  <2> HIDE DEF q, stage
  <2> QED BY <1>1, <1>4, <2>1, <2>2, <2>3, <2>4, <2>5, <2>6, CheckKeeps
<1> QED BY <1>3, <1>4

LEMMA CheckChildrenKeeps ==
    ASSUME IInv, NEW r \in Requests, CheckChildren(r)
    PROVE  IInv'
<1>1. /\ req[r] \in Saves /\ Busy(r) /\ req[r].stage = "children"
      /\ UNCHANGED <<dbVars, saves>>
  BY ReqTyped DEF Busy, CheckChildren
<1>2. CASE Children(req[r].entity) # {}
  BY <1>1, <1>2, AnswerKeeps DEF CheckChildren
<1>3. CASE Children(req[r].entity) = {}
  <2> DEFINE stage == AfterChildren(req[r])
             q == [req[r] EXCEPT !.stage = stage]
  <2>1. Hold(r, q) /\ stage \in {"liitetyt", "tarjoajat", "ready"}
    BY <1>3, ChecksLeft DEF CheckChildren
  <2>2. /\ q.stage = stage /\ q.entity = req[r].entity /\ q.creates = req[r].creates
        /\ q.tila = req[r].tila /\ q.names = req[r].names
    BY <1>1 DEF Saves
  <2>3. ChildrenHold(q) /\ LiitetytChecked(q)
    <3>1. ChecksLiitetyt(q) <=> ChecksLiitetyt(req[r])
      <4> HIDE DEF q
      <4> QED BY <2>2, SameChecks
    <3> QED BY <1>3, <2>2, <3>1, ChecksLeft DEF ChildrenHold, LiitetytChecked
  <2> HIDE DEF stage
  <2> QED BY <1>1, <2>1, <2>3, StageKeeps
<1> QED BY <1>2, <1>3

LEMMA CheckLiitetytKeeps ==
    ASSUME IInv, NEW r \in Requests, CheckLiitetyt(r)
    PROVE  IInv'
<1> DEFINE Passes == IF req[r].entity \in Liitettavat THEN AttachedSafely(req[r].entity, req[r].tila)
                     ELSE LiitetytHold(req[r].tila, req[r].names.liitetyt)
<1>1. /\ req[r] \in Saves /\ Busy(r) /\ req[r].stage = "liitetyt" /\ Good(req[r])
      /\ UNCHANGED <<dbVars, saves>>
  BY ReqTyped DEF Busy, CheckLiitetyt
<1>2. CASE ~Passes
  BY <1>1, <1>2, AnswerKeeps DEF CheckLiitetyt
<1>3. CASE Passes
  <2> DEFINE stage == AfterLiitetyt(req[r])
             q == [req[r] EXCEPT !.stage = stage]
  <2>1. Hold(r, q) /\ stage \in {"tarjoajat", "ready"}
    BY <1>3, ChecksLeft DEF CheckLiitetyt
  <2>2. /\ q.stage = stage /\ q.entity = req[r].entity /\ q.creates = req[r].creates
        /\ q.tila = req[r].tila /\ q.names = req[r].names /\ q.disturbed = req[r].disturbed
    BY <1>1 DEF Saves
  <2>3. ~q.disturbed => ChildrenHold(q) /\ LiitetytChecked(q)
    <3>1. Deletes(q) <=> Deletes(req[r])
      <4> HIDE DEF q
      <4> QED BY <2>2, SameChecks
    <3> QED BY <1>1, <1>3, <2>2, <3>1 DEF ChildrenHold, LiitetytChecked, Good, Alone
  <2> HIDE DEF stage
  <2> QED BY <1>1, <2>1, <2>3, StageKeeps
<1> QED BY <1>2, <1>3

LEMMA CheckTarjoajatKeeps ==
    ASSUME IInv, NEW r \in Requests, CheckTarjoajat(r)
    PROVE  IInv'
<1> DEFINE q == [req[r] EXCEPT !.stage = "ready"]
<1>1. /\ req[r] \in Saves /\ Busy(r) /\ req[r].stage = "tarjoajat" /\ Good(req[r])
      /\ UNCHANGED <<dbVars, saves>> /\ (Answer(r) \/ Hold(r, q))
  BY ReqTyped DEF Busy, CheckTarjoajat
<1>2. CASE Answer(r)
  BY <1>1, <1>2, AnswerKeeps
<1>3. CASE Hold(r, q)
  <2>1. /\ q.stage = "ready" /\ q.entity = req[r].entity /\ q.creates = req[r].creates
        /\ q.tila = req[r].tila /\ q.names = req[r].names /\ q.disturbed = req[r].disturbed
    BY <1>1 DEF Saves
  <2>2. ~q.disturbed => ChildrenHold(q) /\ LiitetytChecked(q)
    <3>1. (Deletes(q) <=> Deletes(req[r])) /\ (ChecksLiitetyt(q) <=> ChecksLiitetyt(req[r]))
      <4> HIDE DEF q
      <4> QED BY <2>1, SameChecks
    <3> QED BY <1>1, <2>1, <3>1 DEF ChildrenHold, LiitetytChecked, Good, Alone
  <2> QED BY <1>1, <1>3, <2>2, StageKeeps
<1> QED BY <1>1, <1>2, <1>3

LEMMA RollBackKeeps ==
    ASSUME IInv, NEW r \in Requests, RollBack(r)
    PROVE  IInv'
BY AnswerKeeps DEF RollBack, Busy

(* What a commit leaves: its own entity is new, no version is older, and an *)
(* entity whose version is the same is.                                     *)
LEMMA CommitSays ==
    ASSUME IInv, NEW r \in Requests, Commit(r)
    PROVE  LET q == req[r] IN
           /\ Busy(r) /\ q \in Saves /\ Good(q) /\ q.unread = {} /\ q.entity \in Entities
           /\ \A e \in Entities :
                /\ e # q.entity => tila'[e] = tila[e] /\ names'[e] = names[e]
                /\ version[e] \in Nat /\ version'[e] \in Nat /\ version'[e] >= version[e]
           /\ tila'[q.entity] = q.tila /\ names'[q.entity] = q.names
           /\ version'[q.entity] > version[q.entity]
<1>1. /\ Busy(r) /\ req[r] \in Saves /\ Good(req[r]) /\ req[r].unread = {}
      /\ req[r].entity \in Entities
  BY ReqTyped DEF Commit, Busy, Good, Held
<1>2. /\ tila \in [Entities -> Tilat \cup {Absent}] /\ names \in [Entities -> Names]
      /\ version \in [Entities -> Nat]
  BY DEF IInv, TypeOK
<1>3. \A e \in Entities : version'[e] = IF e = req[r].entity \/ (req[r].moves /\ e = KoulutusOf(req[r].names))
                                        THEN version[e] + 1 ELSE version[e]
  BY DEF Commit
<1> QED BY <1>1, <1>2, <1>3 DEF Commit

(* The others are disturbed: what they hold of what has been written is    *)
(* older than its version now.                                             *)
LEMMA CommitKeeps ==
    ASSUME IInv, NEW r \in Requests, Commit(r)
    PROVE  IInv'
<1> DEFINE e == req[r].entity
           After(q) == [q EXCEPT !.disturbed = TRUE]
<1>1. /\ Busy(r) /\ req[r] \in Saves /\ Good(req[r]) /\ req[r].unread = {} /\ e \in Entities
      /\ \A d \in Entities :
           /\ d # e => tila'[d] = tila[d] /\ names'[d] = names[d]
           /\ version[d] \in Nat /\ version'[d] \in Nat /\ version'[d] >= version[d]
      /\ tila'[e] = req[r].tila /\ names'[e] = req[r].names /\ version'[e] > version[e]
  BY CommitSays
<1>2. /\ tila \in [Entities -> Tilat \cup {Absent}] /\ names \in [Entities -> Names]
      /\ version \in [Entities -> Nat] /\ req \in [Requests -> Saves]
      /\ req[r].tila \in Tilat /\ req[r].names \in Bodies[e] /\ req[r].names \in Names
  BY <1>1, BodiesTyped DEF IInv, TypeOK, Good, Held
<1>3. req'[r] = Blank /\ \A other \in Requests \ {r} :
          req'[other] = [req[other] EXCEPT !.disturbed = Busy(other)]
  BY DEF Commit
<1>4. ASSUME NEW other \in Requests \ {r}
      PROVE  /\ req'[other] \in Saves
             /\ LET p == req[other] q == req'[other]
                IN /\ q.stage = p.stage /\ q.entity = p.entity /\ q.creates = p.creates
                   /\ q.tila = p.tila /\ q.names = p.names /\ q.token = p.token
                   /\ q.unread = p.unread /\ q.moves = p.moves
                   /\ q.koulutusToken = p.koulutusToken
                   /\ Busy(other) => q.disturbed
  <2>1. req[other] \in Saves /\ Busy(other) \in BOOLEAN /\ req'[other] = [req[other] EXCEPT !.disturbed = Busy(other)]
    BY <1>2, <1>3 DEF Busy
  <2>2. req'[other] \in Saves
    BY <2>1, ZenonT(60) DEF Saves
  <2>3. req[other] \in Saves /\ (Busy(other) => req'[other].disturbed)
    BY <2>1, Zenon DEF Saves
  <2> QED BY <2>1, <2>2, <2>3 DEF Saves
<1>5. TypeOK'
  <2>1. tila' \in [Entities -> Tilat \cup {Absent}] /\ names' \in [Entities -> Names]
    BY <1>1, <1>2 DEF Commit
  <2>2. version' \in [Entities -> Nat]
    BY <1>2 DEF Commit
  <2>3. \A other \in Requests : req'[other] \in Saves
          /\ (req'[other].unread # {} <=> req'[other].stage \in {"koulutus", "parents"})
    BY <1>3, <1>4, BlankSave, ReqTyped
  <2>4. req' \in [Requests -> Saves]
    BY <2>3 DEF Commit
  <2> QED BY <2>1, <2>2, <2>3, <2>4 DEF TypeOK, Commit, IInv
<1>6. DbInv'
  <2>1. \A d \in Entities : tila[d] # Absent => tila'[d] # Absent
    BY <1>1, <1>2 DEF Tilat, Absent
  <2>0. \A d \in Entities : tila'[d] = Absent <=> version'[d] = 0
    <3>1. tila'[e] # Absent /\ version'[e] # 0
      BY <1>1, <1>2 DEF Tilat, Absent
    <3>2. ASSUME NEW d \in Entities, d # e
          PROVE  tila'[d] = Absent <=> version'[d] = 0
      <4>1. CASE req[r].moves /\ d = KoulutusOf(req[r].names)
        <5>1. d \in req[r].names.parents
          BY <1>1, <4>1, KoulutusNamed DEF Good, Held
        <5>2. tila[d] # Absent
          BY <1>1, <5>1 DEF Good, Held
        <5> QED BY <1>1, <3>2, <5>2 DEF IInv, DbInv
      <4>2. CASE ~(req[r].moves /\ d = KoulutusOf(req[r].names))
        <5>1. version'[d] = version[d]
          BY <3>2, <4>2 DEF Commit
        <5> QED BY <1>1, <3>2, <5>1 DEF IInv, DbInv
      <4> QED BY <4>1, <4>2
    <3> QED BY <3>1, <3>2
  <2>2. \A d \in Entities : d # e /\ tila'[d] # Absent => names'[d] \in Bodies[d]
                              /\ \A p \in names'[d].parents : tila'[p] # Absent
    BY <1>1, <2>1, BodiesTyped DEF IInv, DbInv
  <2>3. names'[e] \in Bodies[e] /\ \A p \in names'[e].parents : tila'[p] # Absent
    BY <1>1, <1>2, <2>1, BodiesTyped DEF Good, Held
  <2> QED BY <2>0, <2>2, <2>3 DEF DbInv
<1>7. Reserved'
  <2> SUFFICES ASSUME NEW one \in Requests, NEW other \in Requests, one # other,
                      req'[one].stage # "idle", req'[one].creates
               PROVE  req'[other].entity # req'[one].entity
    BY DEF Reserved, Busy
  <2>1. one # r /\ Busy(one) /\ req[one].creates /\ req'[one].entity = req[one].entity
        /\ req[one].entity \in Entities
    BY <1>3, <1>4, BlankSave DEF Busy, IInv, Good, Held
  <2>2. CASE other = r
    BY <2>1, <2>2, <1>3, EntitiesAssumption DEF Blank
  <2>3. CASE other # r
    BY <2>1, <2>3, <1>4 DEF IInv, Reserved
  <2> QED BY <2>2, <2>3
<1>8. ASSUME NEW other \in Requests, Busy(other)'
      PROVE  Good(req[other])'
  <2>1. other # r /\ Busy(other) /\ Good(req[other]) /\ req[other] \in Saves
    BY <1>3, <1>4, <1>8, BlankSave, ReqTyped DEF Busy
  <2> DEFINE q == req'[other]
  <2>2. /\ q.entity = req[other].entity /\ q.creates = req[other].creates /\ q.tila = req[other].tila
        /\ q.stage = req[other].stage /\ q.names = req[other].names /\ q.token = req[other].token
        /\ q.unread = req[other].unread /\ q.moves = req[other].moves
        /\ q.koulutusToken = req[other].koulutusToken /\ q.disturbed
        /\ q.token \in Nat /\ q.koulutusToken \in Nat
    BY <1>4, <2>1 DEF Saves
  <2>3. req[other].creates => req[other].entity # e
    BY <2>1 DEF IInv, Reserved
  <2>4. Held(req[other])'
    <3>1. \A d \in Entities : tila[d] # Absent => tila'[d] # Absent
      BY <1>1, <1>2 DEF Tilat, Absent
    <3>2. Held(req[other])
      BY <2>1 DEF Good
    <3>3. q.token <= version'[q.entity] /\ (q.creates <=> tila'[q.entity] = Absent)
      BY <1>1, <2>2, <2>3, <3>1, <3>2 DEF Held
    <3>4. ~q.creates /\ version'[q.entity] = q.token => tila'[q.entity] \in OnlyOlemassaolevat
      <4>1. req[other].entity \in Entities /\ req[other].token <= version[req[other].entity]
        BY <3>2 DEF Held
      <4>2. version'[q.entity] = q.token => version[q.entity] = q.token /\ q.entity # e
        BY <1>1, <2>2, <4>1
      <4> QED BY <1>1, <2>2, <3>2, <4>1, <4>2 DEF Held
    <3>5. \A d \in q.names.parents \ q.unread : tila'[d] # Absent
      BY <2>2, <3>1, <3>2, BodiesTyped DEF Held
    <3> QED BY <2>2, <3>2, <3>3, <3>4, <3>5 DEF Held
  <2>5. KoulutusHeld(req[other])'
    <3> SUFFICES ASSUME q.moves, q.stage # "koulutus"
                 PROVE  LET koulutus == KoulutusOf(q.names) IN
                        /\ q.koulutusToken <= version'[koulutus]
                        /\ koulutus \notin q.unread /\ version'[koulutus] = q.koulutusToken =>
                             /\ tila'[koulutus] \in OnlyOlemassaolevat
                             /\ q.tila = "julkaistu" => tila'[koulutus] = "julkaistu"
      BY DEF KoulutusHeld, KoulutusOf
    <3>1. KoulutusOf(q.names) \in Entities
      BY <2>1, <2>2, KoulutusNamed DEF Good, Held
    <3>2. KoulutusHeld(req[other])
      BY <2>1 DEF Good
    <3> QED BY <1>1, <2>2, <3>1, <3>2 DEF KoulutusHeld
  <2>6. Alone(req[other])'
    BY <2>2 DEF Alone
  <2> QED BY <2>4, <2>5, <2>6 DEF Good
<1> QED BY <1>5, <1>6, <1>7, <1>8 DEF IInv

LEMMA Initially ==
    ASSUME Init
    PROVE  IInv
<1>1. PICK start \in Initial : tila = start.tila /\ names = start.names
  BY DEF Init
<1>2. tila \in [Entities -> Tilat \cup {Absent}] /\ names \in [Entities -> Names]
  BY <1>1, InitialAssumption
<1>3. TypeOK
  BY <1>2, BlankSave DEF TypeOK, Init
<1>4. DbInv
  BY <1>1, InitialAssumption DEF DbInv, Init
<1>5. \A r \in Requests : ~Busy(r)
  BY BlankSave DEF Init, Busy
<1> QED BY <1>3, <1>4, <1>5 DEF IInv, Reserved

LEMMA Inductive ==
    ASSUME IInv, [Next]_vars
    PROVE  IInv'
<1>1. CASE UNCHANGED vars
  <2>1. UNCHANGED dbVars /\ req' = req /\ saves' = saves
    BY <1>1 DEF vars, dbVars
  <2>2. TypeOK' /\ Reserved' /\ DbInv'
    BY <2>1, SameDb DEF IInv, TypeOK, Reserved, Busy, dbVars
  <2>3. ASSUME NEW r \in Requests, Busy(r)'
        PROVE  Good(req[r])'
    <3>1. Good(req'[r])
      BY <2>1, <2>3 DEF IInv, Busy
    <3> QED BY <2>1, <3>1, SameDb
  <2> QED BY <2>2, <2>3 DEF IInv
<1>2. ASSUME NEW r \in Requests, Begin(r)
      PROVE  IInv'
  BY <1>2, BeginKeeps
<1>3. ASSUME NEW r \in Requests, ReadKoulutus(r)
      PROVE  IInv'
  BY <1>3, ReadKoulutusKeeps
<1>4. ASSUME NEW r \in Requests, CheckParent(r)
      PROVE  IInv'
  BY <1>4, CheckParentKeeps
<1>5. ASSUME NEW r \in Requests, CheckChildren(r)
      PROVE  IInv'
  BY <1>5, CheckChildrenKeeps
<1>6. ASSUME NEW r \in Requests, CheckLiitetyt(r)
      PROVE  IInv'
  BY <1>6, CheckLiitetytKeeps
<1>7. ASSUME NEW r \in Requests, CheckTarjoajat(r)
      PROVE  IInv'
  BY <1>7, CheckTarjoajatKeeps
<1>8. ASSUME NEW r \in Requests, Commit(r)
      PROVE  IInv'
  BY <1>8, CommitKeeps
<1>9. ASSUME NEW r \in Requests, RollBack(r)
      PROVE  IInv'
  BY <1>9, RollBackKeeps
<1> QED BY <1>1, <1>2, <1>3, <1>4, <1>5, <1>6, <1>7, <1>8, <1>9 DEF Next

LEMMA Invariance == Spec => []IInv
<1>1. Init => IInv
  BY Initially
<1>2. IInv /\ [Next]_vars => IInv'
  BY Inductive
<1> QED BY <1>1, <1>2, PTL DEF Spec

-----------------------------------------------------------------------------
(* What follows *)

(* Every reachable state has its type, and no save gets past the parents   *)
(* with one it has not checked.                                            *)
THEOREM TypeCorrect == Spec => []TypeOK
<1>1. IInv => TypeOK
  BY DEF IInv
<1> QED BY <1>1, Invariance, PTL

(* Nothing but a commit changes the database. *)
LEMMA OnlyCommits ==
    ASSUME [Next]_vars, ~\E r \in Requests : Commit(r)
    PROVE  UNCHANGED dbVars
BY DEF Next, vars, dbVars, Begin, ReadKoulutus, CheckParent, CheckChildren, CheckLiitetyt,
       CheckTarjoajat, RollBack

(* The request that commits is the one whose step it is. *)
LEMMA CommitsIsCommit ==
    ASSUME IInv, [Next]_vars, NEW r \in Requests, Commits(r)
    PROVE  Commit(r)
<1>1. PICK one \in Requests : Commit(one)
  BY OnlyCommits DEF Commits, dbVars
<1>2. CASE one = r
  BY <1>1, <1>2
<1>3. CASE one # r
  <2>1. req'[r] = [req[r] EXCEPT !.disturbed = Busy(r)] /\ req[r] \in Saves
    BY <1>1, <1>3, ReqTyped DEF Commit
  <2> QED BY <2>1 DEF Commits, Saves
<1> QED BY <1>2, <1>3

(* Whoever saves it meanwhile, and however many: an entity that has been   *)
(* deleted is not brought back, as every save that had read it conflicts.  *)
THEOREM DeletedForGood == Spec => PoistettuIsFinal
<1>1. ASSUME IInv, [Next]_vars, NEW e \in Entities, tila[e] = "poistettu"
      PROVE  tila'[e] = "poistettu"
  <2>1. ASSUME NEW r \in Requests, Commit(r)
        PROVE  tila'[e] = "poistettu"
    <3>1. Held(req[r])
      BY <1>1, <2>1, CommitSays DEF Good
    <3>2. req[r].entity # e
      <4> SUFFICES ASSUME req[r].entity = e
                   PROVE  FALSE
        OBVIOUS
      <4>1. ~req[r].creates
        BY <1>1, <3>1 DEF Held, Absent
      <4>2. version[e] = req[r].token
        BY <2>1, <4>1 DEF Commit, Conflict
      <4> QED BY <1>1, <3>1, <4>1, <4>2 DEF Held, OnlyOlemassaolevat
    <3> QED BY <1>1, <2>1, <3>2, CommitSays
  <2>2. CASE ~\E r \in Requests : Commit(r)
    BY <1>1, <2>2, OnlyCommits DEF dbVars
  <2> QED BY <2>1, <2>2
<1>2. IInv /\ [Next]_vars => [\A e \in Entities : tila[e] = "poistettu" => tila'[e] = "poistettu"]_vars
  BY <1>1
<1> QED BY <1>2, Invariance, PTL DEF Spec, PoistettuIsFinal

(* The koulutus whose tarjoajat a save changes is locked by last_modified, *)
(* so what the validation found of it still holds.                         *)
THEOREM KoulutusFound == Spec => MovingTarjoajatFindsKoulutus
<1> DEFINE Finds(r) == Commits(r) /\ req[r].moves =>
        LET koulutus == KoulutusOf(req[r].names) IN
        /\ tila'[koulutus] \in OnlyOlemassaolevat
        /\ req[r].tila = "julkaistu" => tila'[koulutus] = "julkaistu"
<1>1. ASSUME IInv, [Next]_vars, NEW r \in Requests, Commits(r), req[r].moves
      PROVE  Finds(r)
  <2>1. Commit(r) /\ Good(req[r]) /\ req[r].unread = {}
    BY <1>1, CommitsIsCommit, CommitSays
  <2>2. KoulutusOf(req[r].names) \in Entities /\ KoulutusOf(req[r].names) # req[r].entity
    BY <1>1, <2>1, KoulutusNamed DEF Good, Held
  <2>3. version[KoulutusOf(req[r].names)] = req[r].koulutusToken /\ req[r].stage = "ready"
    BY <1>1, <2>1 DEF Commit, Conflict
  <2> QED BY <1>1, <2>1, <2>2, <2>3, CommitSays DEF Good, KoulutusHeld
<1>2. IInv /\ [Next]_vars => [\A r \in Requests : Finds(r)]_vars
  BY <1>1
<1> QED BY <1>2, Invariance, PTL DEF Spec, MovingTarjoajatFindsKoulutus

(* A save that no other commit came in between of leaves no existing entity *)
(* naming a deleted one, however many saves are under way.                  *)
THEOREM DependenciesKept == Spec => AloneKeepsDependencies
<1> DEFINE Keeps(r) == Commits(r) /\ ~req[r].disturbed => Orphaned' \subseteq Orphaned
<1>1. ASSUME IInv, [Next]_vars, NEW r \in Requests, Commits(r), ~req[r].disturbed
      PROVE  Orphaned' \subseteq Orphaned
  <2> DEFINE q == req[r]
             e == req[r].entity
  <2>1. /\ Commit(r) /\ Good(q) /\ q \in Saves /\ q.unread = {} /\ e \in Entities /\ q.stage = "ready"
        /\ \A d \in Entities : d # e => tila'[d] = tila[d] /\ names'[d] = names[d]
        /\ tila'[e] = q.tila /\ names'[e] = q.names
    BY <1>1, CommitsIsCommit, CommitSays DEF Commits
  <2>2. ParentsHold(q) /\ ChildrenHold(q)
    BY <1>1, <2>1 DEF Good, Alone
  <2> SUFFICES ASSUME NEW one \in Entities, NEW d \in Entities,
                      tila'[one] \in OnlyOlemassaolevat, tila'[d] = "poistettu",
                      d \in names'[one].parents, ~(one \in Toteutukset /\ d \in Sorakuvaukset)
               PROVE  <<one, d>> \in Orphaned
    BY DEF Orphaned
  <2>3. CASE one = e
    <3>1. d # e /\ tila[d] = "poistettu"
      BY <2>1, <2>3 DEF OnlyOlemassaolevat
    <3>2. tila[d] \in OnlyOlemassaolevat
      BY <2>1, <2>2, <2>3 DEF ParentsHold, DependencyHolds
    <3> QED BY <3>1, <3>2 DEF OnlyOlemassaolevat
  <2>4. CASE one # e /\ d = e
    <3>1. tila[one] \in OnlyOlemassaolevat /\ e \in names[one].parents /\ q.tila = "poistettu"
      BY <2>1, <2>4
    <3>2. names[one] \in Bodies[one] /\ tila[e] # Absent
      BY <1>1, <2>1, <3>1 DEF IInv, DbInv, OnlyOlemassaolevat, Absent
    <3>3. Children(e) = {}
      BY <2>1, <2>2, <3>1, <3>2 DEF ChildrenHold, Deletes, Good, Held
    <3>4. e \in Sorakuvaukset => one \in Koulutukset
      BY <2>4, <3>1, <3>2, NamesAssumption
    <3> QED BY <3>1, <3>3, <3>4 DEF Children
  <2>5. CASE one # e /\ d # e
    BY <2>1, <2>5 DEF Orphaned
  <2> QED BY <2>3, <2>4, <2>5
<1>2. IInv /\ [Next]_vars => [\A r \in Requests : Keeps(r)]_vars
  BY <1>1
<1> QED BY <1>2, Invariance, PTL DEF Spec, AloneKeepsDependencies

(* Nor does it leave anything published over what is not.                  *)
THEOREM PublishedKept == Spec => AloneKeepsPublished
<1> DEFINE Keeps(r) == Commits(r) /\ ~req[r].disturbed =>
        /\ req[r].tila = "julkaistu" =>
             \A d \in req[r].names.parents \ Haut : tila'[d] = "julkaistu"
        /\ AttachedUnpublished' \subseteq AttachedUnpublished
<1>1. ASSUME IInv, [Next]_vars, NEW r \in Requests, Commits(r), ~req[r].disturbed
      PROVE  Keeps(r)
  <2> DEFINE q == req[r]
             e == req[r].entity
  <2>1. /\ Commit(r) /\ Good(q) /\ q \in Saves /\ q.unread = {} /\ e \in Entities /\ q.stage = "ready"
        /\ \A d \in Entities : d # e => tila'[d] = tila[d] /\ names'[d] = names[d]
        /\ tila'[e] = q.tila /\ names'[e] = q.names
    BY <1>1, CommitsIsCommit, CommitSays DEF Commits
  <2>2. ParentsHold(q) /\ LiitetytChecked(q) /\ q.names \in Bodies[e]
    BY <1>1, <2>1 DEF Good, Held, Alone
  <2>3. ASSUME q.tila = "julkaistu", NEW d \in q.names.parents \ Haut
        PROVE  tila'[d] = "julkaistu"
    <3>1. d \in Entities /\ tila[d] = "julkaistu"
      BY <2>1, <2>2, <2>3, BodiesTyped DEF ParentsHold, DependencyHolds
    <3> QED BY <2>1, <2>3, <3>1
  <2>4. ASSUME NEW to \in Toteutukset, NEW l \in Liitettavat, to \notin Liitettavat,
               tila'[to] = "julkaistu", l \in names'[to].liitetyt, tila'[l] # "julkaistu"
        PROVE  <<to, l>> \in AttachedUnpublished
    <3>1. to \in Entities /\ l \in Entities /\ to # l
      BY <2>4, EntitiesAssumption DEF Entities
    <3>2. CASE to = e
      <4>1. ChecksLiitetyt(q)
        BY <2>1, <2>4, <3>2 DEF ChecksLiitetyt, OnlyOlemassaolevatAndArkistoimattomat
      <4>2. tila[l] = "julkaistu"
        BY <2>1, <2>2, <2>4, <3>2, <4>1 DEF LiitetytChecked, LiitetytHold
      <4> QED BY <2>1, <2>4, <3>1, <3>2, <4>2
    <3>3. CASE l = e
      <4>1. tila[to] = "julkaistu" /\ l \in names[to].liitetyt /\ q.tila # "julkaistu"
        BY <2>1, <2>4, <3>1, <3>3
      <4>2. CASE q.creates
        <5>1. tila[l] # "julkaistu"
          BY <2>1, <3>3, <4>2 DEF Good, Held, Absent
        <5> QED BY <2>4, <4>1, <5>1 DEF AttachedUnpublished
      <4>3. CASE ~q.creates
        BY <2>1, <2>2, <2>4, <3>3, <4>1, <4>3 DEF ChecksLiitetyt, LiitetytChecked, AttachedSafely
      <4> QED BY <4>2, <4>3
    <3>4. CASE to # e /\ l # e
      BY <2>1, <2>4, <3>1, <3>4 DEF AttachedUnpublished
    <3> QED BY <3>2, <3>3, <3>4
  <2>5. AttachedUnpublished' \subseteq AttachedUnpublished
    BY <2>4 DEF AttachedUnpublished
  <2> QED BY <2>3, <2>5
<1>2. IInv /\ [Next]_vars => [\A r \in Requests : Keeps(r)]_vars
  BY <1>1
<1> QED BY <1>2, Invariance, PTL DEF Spec, AloneKeepsPublished
-----------------------------------------------------------------------------
(* The registers *)

(* What a request goes by changes with the request only. *)
LEMMA SeenRow ==
    ASSUME NEW e \in Entities, NEW r \in Requests, NEW n,
           SeenBy(req'[r], e) = n,
           \A other \in Requests \ {r} : SeenBy(req'[other], e) = SeenBy(req[other], e)
    PROVE  [one \in Requests |-> SeenBy(req'[one], e)]
             = [[one \in Requests |-> SeenBy(req[one], e)] EXCEPT ![r] = n]
<1> DEFINE f == [one \in Requests |-> SeenBy(req[one], e)]
           g == [one \in Requests |-> SeenBy(req'[one], e)]
           h == [f EXCEPT ![r] = n]
<1>1. \A one \in Requests : g[one] = h[one]
  OBVIOUS
<1>2. g = [one \in Requests |-> g[one]] /\ h = [one \in Requests |-> h[one]]
  OBVIOUS
<1> HIDE DEF f, g, h
<1>3. g = h
  BY <1>1, <1>2, Zenon
<1> QED BY <1>3 DEF f, g, h
(* What a request holds when it has begun. *)
LEMMA BeginHolds ==
    ASSUME NEW r \in Requests, Begin(r)
    PROVE  \E q : /\ Hold(r, q) /\ q.stage # "idle" /\ q.entity \in Entities
                  /\ q.names \in Bodies[q.entity] /\ q.token = version[q.entity]
                  /\ q.moves => q.entity \in Toteutukset
                  /\ q.koulutusToken = 0
<1>1. PICK e \in Entities, new \in Tilat, moves \in BOOLEAN : \E body \in Bodies[e] :
        Begins(r, e, new, moves, body)
  BY BeginSays
<1>2. PICK body \in Bodies[e] : Begins(r, e, new, moves, body)
  BY <1>1
<1> DEFINE q0 == [Blank EXCEPT !.entity = e, !.creates = tila[e] = Absent, !.tila = new,
                               !.names = body, !.token = version[e],
                               !.unread = body.parents, !.moves = moves]
           stage == IF e \in Toteutukset THEN "koulutus"
                    ELSE IF body.parents # {} THEN "parents" ELSE AfterParents(q0)
           q == [q0 EXCEPT !.stage = stage]
<1>3. Hold(r, q) /\ (moves => e \in Toteutukset)
  BY <1>2 DEF Begins
<1>4. /\ q.entity = e /\ q.names = body /\ q.token = version[e]
      /\ q.moves = moves /\ q.koulutusToken = 0 /\ q.stage = stage
  BY DEF Blank
<1>5. stage # "idle"
  BY ChecksLeft
<1> HIDE DEF q, q0, stage
<1> QED BY <1>3, <1>4, <1>5

(* A check ends the save or lets it go on with what it goes by. *)
LEMMA CheckSays ==
    ASSUME IInv, NEW r \in Requests,
           CheckParent(r) \/ CheckChildren(r) \/ CheckLiitetyt(r) \/ CheckTarjoajat(r) \/ RollBack(r)
    PROVE  /\ UNCHANGED dbVars
           /\ \/ Answer(r)
              \/ \E q : /\ Hold(r, q) /\ q.stage \notin {"idle", "koulutus"}
                        /\ q.entity = req[r].entity /\ q.token = req[r].token
                        /\ q.moves = req[r].moves /\ q.names = req[r].names
                        /\ q.koulutusToken = req[r].koulutusToken
<1>1. UNCHANGED dbVars
  BY DEF CheckParent, CheckChildren, CheckLiitetyt, CheckTarjoajat, RollBack
<1>2. CASE CheckParent(r) /\ ~Answer(r)
  <2>1. PICK d \in req[r].unread :
          Hold(r, [req[r] EXCEPT !.unread = @ \ {d},
                       !.stage = IF req[r].unread = {d} THEN AfterParents(req[r]) ELSE @])
    BY <1>2 DEF CheckParent
  <2> DEFINE stage == IF req[r].unread = {d} THEN AfterParents(req[r]) ELSE req[r].stage
             q == [req[r] EXCEPT !.unread = @ \ {d}, !.stage = stage]
  <2>2. Hold(r, q) /\ stage \notin {"idle", "koulutus"}
    BY <1>2, <2>1, ChecksLeft DEF CheckParent
  <2>3. /\ q.stage = stage /\ q.entity = req[r].entity /\ q.token = req[r].token
        /\ q.moves = req[r].moves /\ q.names = req[r].names
        /\ q.koulutusToken = req[r].koulutusToken
    BY ReqTyped DEF Saves
  <2> HIDE DEF q, stage
  <2> QED BY <1>1, <2>2, <2>3
<1>3. CASE (CheckChildren(r) \/ CheckLiitetyt(r) \/ CheckTarjoajat(r)) /\ ~Answer(r)
  <2>1. PICK stage : stage \notin {"idle", "koulutus"} /\ Hold(r, [req[r] EXCEPT !.stage = stage])
    BY <1>3, ChecksLeft DEF CheckChildren, CheckLiitetyt, CheckTarjoajat
  <2> DEFINE q == [req[r] EXCEPT !.stage = stage]
  <2>2. /\ q.stage = stage /\ q.entity = req[r].entity /\ q.token = req[r].token
        /\ q.moves = req[r].moves /\ q.names = req[r].names
        /\ q.koulutusToken = req[r].koulutusToken
    BY ReqTyped DEF Saves
  <2> HIDE DEF q
  <2> QED BY <1>1, <2>1, <2>2 DEF q
<1> QED BY <1>1, <1>2, <1>3 DEF RollBack

(* A request that has not read an entity goes by no version of it. *)
Unread == \A r \in Requests :
    /\ ~Busy(r) => req[r].entity = Absent /\ ~req[r].moves
    /\ req[r].stage = "koulutus" => req[r].koulutusToken = 0

LEMMA UnreadInit == Init => Unread
BY DEF Init, Unread, Blank, Busy

LEMMA UnreadStep ==
    ASSUME IInv, Unread, [Next]_vars
    PROVE  Unread'
<1>1. ASSUME NEW r \in Requests, NEW q, Hold(r, q),
             q.stage = "idle" => q.entity = Absent /\ ~q.moves,
             q.stage = "koulutus" => q.koulutusToken = 0
      PROVE  Unread'
  BY <1>1 DEF Hold, Unread, Busy, IInv, TypeOK
<1>2. Blank.stage = "idle" /\ Blank.entity = Absent /\ ~Blank.moves
  BY DEF Blank
<1>3. ASSUME NEW r \in Requests, Begin(r)
      PROVE  Unread'
  BY <1>1, <1>3, BeginHolds
<1>4. ASSUME NEW r \in Requests, ReadKoulutus(r)
      PROVE  Unread'
  <2>1. PICK n : Hold(r, [req[r] EXCEPT !.stage = "parents", !.koulutusToken = n])
    BY <1>4 DEF ReadKoulutus
  <2>2. [req[r] EXCEPT !.stage = "parents", !.koulutusToken = n].stage = "parents"
    BY ReqTyped DEF Saves
  <2> QED BY <1>1, <2>1, <2>2
<1>5. ASSUME NEW r \in Requests,
             CheckParent(r) \/ CheckChildren(r) \/ CheckLiitetyt(r) \/ CheckTarjoajat(r) \/ RollBack(r)
      PROVE  Unread'
  BY <1>1, <1>2, <1>5, CheckSays DEF Answer
<1>6. ASSUME NEW r \in Requests, Commit(r)
      PROVE  Unread'
  <2>1. req'[r] = Blank /\ \A other \in Requests \ {r} :
           req'[other] = [req[other] EXCEPT !.disturbed = Busy(other)] /\ req[other] \in Saves
    BY <1>6, ReqTyped DEF Commit
  <2>2. \A other \in Requests \ {r} :
          LET p == req[other] q == req'[other]
          IN /\ q.stage = p.stage /\ q.entity = p.entity /\ q.moves = p.moves
             /\ q.koulutusToken = p.koulutusToken
    BY <2>1 DEF Saves
  <2> QED BY <1>2, <2>1, <2>2 DEF Unread, Busy
<1>7. CASE UNCHANGED vars
  BY <1>7 DEF vars, Unread, Busy
<1> QED BY <1>3, <1>4, <1>5, <1>6, <1>7 DEF Next

(* A request that reads an entity, goes on with it or leaves it. *)
LEMMA RegisterHeld ==
    ASSUME IInv, UNCHANGED dbVars, NEW r \in Requests, NEW q, Hold(r, q), NEW e \in Entities,
           \/ SeenBy(q, e) \in {SeenBy(req[r], e), 0}
           \/ SeenBy(req[r], e) = 0 /\ SeenBy(q, e) = version[e]
    PROVE  [Promise(e)!Next]_(Promise(e)!vars)
<1> DEFINE f == [one \in Requests |-> SeenBy(req[one], e)]
           g == [one \in Requests |-> SeenBy(req'[one], e)]
<1>1. version'[e] = version[e] /\ version[e] \in Nat /\ SeenBy(req[r], e) \in Nat
  BY ReqTyped DEF dbVars, IInv, TypeOK, SeenBy, Saves
<1>2. SeenBy(req'[r], e) = SeenBy(q, e)
      /\ \A other \in Requests \ {r} : SeenBy(req'[other], e) = SeenBy(req[other], e)
  BY DEF Hold, IInv, TypeOK
<1>3. g = [f EXCEPT ![r] = SeenBy(q, e)] /\ f[r] = SeenBy(req[r], e)
  BY <1>2, SeenRow
<1>4. CASE SeenBy(q, e) = SeenBy(req[r], e)
  <2>1. \A one \in Requests : SeenBy(req'[one], e) = SeenBy(req[one], e)
    BY <1>2, <1>4
  <2> QED BY <1>1, <2>1 DEF Promise!vars
<1>5. CASE SeenBy(q, e) = 0 /\ SeenBy(req[r], e) > 0
  <2>1. Promise(e)!Leave(r)
    BY <1>1, <1>3, <1>5 DEF Promise!Leave, Promise!Stops, SeenBy, KoulutusOf
  <2> QED BY <2>1 DEF Promise!Next
<1>6. CASE SeenBy(req[r], e) = 0 /\ SeenBy(q, e) = version[e] /\ version[e] > 0
  <2>1. Promise(e)!Read(r)
    BY <1>1, <1>3, <1>6 DEF Promise!Read, SeenBy, KoulutusOf
  <2> QED BY <2>1 DEF Promise!Next
<1> QED BY <1>1, <1>4, <1>5, <1>6
(* A commit is a save of the registers it writes by the version the request *)
(* read, or the creation of one nobody could read; the others only lose an  *)
(* editor.                                                                  *)
LEMMA RegisterCommit ==
    ASSUME IInv, NEW r \in Requests, Commit(r), NEW e \in Entities
    PROVE  [Promise(e)!Next]_(Promise(e)!vars)
<1> DEFINE q == req[r]
           koulutus == KoulutusOf(q.names)
           Written == e = q.entity \/ (q.moves /\ e = koulutus)
           f == [one \in Requests |-> SeenBy(req[one], e)]
           g == [one \in Requests |-> SeenBy(req'[one], e)]
<1>1. /\ Busy(r) /\ q \in Saves /\ Good(q) /\ q.unread = {} /\ q.entity \in Entities
      /\ ~Conflict(q)
  BY CommitSays DEF Commit
<1>2. version'[e] = (IF Written THEN version[e] + 1 ELSE version[e]) /\ version[e] \in Nat
  BY DEF Commit, IInv, TypeOK
<1>3. SeenBy(req'[r], e) = 0
  BY EntitiesAssumption DEF Commit, SeenBy, Blank
<1>4. ASSUME NEW other \in Requests \ {r}
      PROVE  SeenBy(req'[other], e) = SeenBy(req[other], e)
  <2>1. req'[other] = [req[other] EXCEPT !.disturbed = Busy(other)] /\ req[other] \in Saves
    BY ReqTyped DEF Commit
  <2>2. LET p == req[other] n == req'[other]
        IN /\ n.entity = p.entity /\ n.token = p.token /\ n.moves = p.moves
           /\ n.names = p.names /\ n.koulutusToken = p.koulutusToken
    BY <2>1 DEF Saves
  <2> QED BY <2>2 DEF SeenBy
<1>5. g = [f EXCEPT ![r] = 0] /\ f[r] = SeenBy(q, e) /\ SeenBy(q, e) \in Nat
  <2>1. SeenBy(q, e) \in Nat
    BY <1>1 DEF SeenBy, Saves
  <2> QED BY <1>3, <1>4, <2>1, SeenRow
<1>6. CASE Written /\ ~(e = q.entity /\ q.creates)
  <2>1. SeenBy(q, e) = version[e] /\ tila[e] # Absent
    <3>1. CASE e = q.entity
      BY <1>1, <1>6, <3>1 DEF Conflict, SeenBy, Good, Held
    <3>2. CASE e # q.entity
      <4>1. e \in q.names.parents
        BY <1>1, <1>6, <3>2, KoulutusNamed DEF Good, Held
      <4> QED BY <1>1, <1>6, <3>2, <4>1 DEF Conflict, SeenBy, Good, Held
    <3> QED BY <3>1, <3>2
  <2>2. version[e] > 0
    BY <1>2, <2>1 DEF IInv, DbInv
  <2>3. Promise(e)!Save(r)
    BY <1>2, <1>5, <1>6, <2>1, <2>2 DEF Promise!Save, Promise!Stops
  <2> QED BY <2>3 DEF Promise!Next
<1>7. CASE e = q.entity /\ q.creates
  <2>1. version[e] = 0 /\ SeenBy(q, e) = 0
    BY <1>1, <1>2, <1>7 DEF IInv, DbInv, Good, Held, SeenBy, Saves
  <2>2. g = f
    BY <1>3, <1>4, <2>1
  <2>3. Promise(e)!Create
    BY <1>2, <1>7, <2>1, <2>2 DEF Promise!Create
  <2> QED BY <2>3 DEF Promise!Next
<1>8. CASE ~Written
  <2>1. SeenBy(q, e) = 0
    BY <1>8 DEF SeenBy
  <2>2. g = f
    BY <1>3, <1>4, <2>1
  <2> QED BY <1>2, <1>8, <2>2 DEF Promise!vars
<1> QED BY <1>6, <1>7, <1>8

LEMMA RegisterStep ==
    ASSUME IInv, Unread, [Next]_vars, NEW e \in Entities
    PROVE  [Promise(e)!Next]_(Promise(e)!vars)
<1>1. SeenBy(Blank, e) = 0
  BY EntitiesAssumption DEF SeenBy, Blank
<1>2. ASSUME NEW r \in Requests, Begin(r)
      PROVE  [Promise(e)!Next]_(Promise(e)!vars)
  <2>1. SeenBy(req[r], e) = 0 /\ UNCHANGED dbVars
    BY <1>2, EntitiesAssumption DEF Begin, Unread, SeenBy
  <2>2. PICK q : /\ Hold(r, q) /\ q.token = version[q.entity] /\ q.koulutusToken = 0
    BY <1>2, BeginHolds
  <2>3. SeenBy(q, e) \in {0, version[e]}
    BY <2>2 DEF SeenBy
  <2> QED BY <2>1, <2>2, <2>3, RegisterHeld
<1>3. ASSUME NEW r \in Requests, ReadKoulutus(r)
      PROVE  [Promise(e)!Next]_(Promise(e)!vars)
  <2> DEFINE n == version[KoulutusOf(req[r].names)]
             q == [req[r] EXCEPT !.stage = "parents", !.koulutusToken = n]
  <2>1. /\ Hold(r, q) /\ UNCHANGED dbVars
        /\ q.entity = req[r].entity /\ q.token = req[r].token /\ q.moves = req[r].moves
        /\ q.names = req[r].names /\ q.koulutusToken = n
    BY <1>3, ReqTyped DEF ReadKoulutus, Saves
  <2>2. CASE req[r].entity # e /\ req[r].moves /\ KoulutusOf(req[r].names) = e
    <3>1. SeenBy(req[r], e) = 0
      BY <1>3, <2>2, ReqTyped DEF SeenBy, ReadKoulutus, Unread
    <3>2. SeenBy(q, e) = version[e]
      BY <2>1, <2>2 DEF SeenBy
    <3> QED BY <2>1, <3>1, <3>2, RegisterHeld
  <2>3. CASE ~(req[r].entity # e /\ req[r].moves /\ KoulutusOf(req[r].names) = e)
    <3>1. SeenBy(q, e) = SeenBy(req[r], e)
      BY <2>1, <2>3 DEF SeenBy
    <3> QED BY <2>1, <3>1, RegisterHeld
  <2> QED BY <2>2, <2>3
<1>4. ASSUME NEW r \in Requests,
             CheckParent(r) \/ CheckChildren(r) \/ CheckLiitetyt(r) \/ CheckTarjoajat(r) \/ RollBack(r)
      PROVE  [Promise(e)!Next]_(Promise(e)!vars)
  <2>1. UNCHANGED dbVars /\ \E q : Hold(r, q) /\ SeenBy(q, e) \in {SeenBy(req[r], e), 0}
    BY <1>1, <1>4, CheckSays DEF Answer, SeenBy
  <2> QED BY <2>1, RegisterHeld
<1>5. CASE UNCHANGED vars
  BY <1>5 DEF vars, Promise!vars
<1> QED BY <1>2, <1>3, <1>4, <1>5, RegisterCommit DEF Next

LEMMA RegistersBegin ==
    ASSUME Init, NEW e \in Entities
    PROVE  Promise(e)!Init
<1>1. \A r \in Requests : SeenBy(req[r], e) = 0
  BY EntitiesAssumption DEF Init, SeenBy, Blank
<1> QED BY <1>1 DEF Init, Promise!Init

LEMMA RegisterInvariance == Spec => [](IInv /\ Unread)
BY Initially, Inductive, UnreadInit, UnreadStep, PTL DEF Spec

(* Each entity, whatever else its saves read and write, implements the      *)
(* register of SavedEntity: the coarse transactions of this module promise  *)
(* what EntitySave shows its detailed ones to do.                           *)
THEOREM EachImplementsSavedEntity == Spec => \A e \in Entities : Promise(e)!Spec
<1> SUFFICES ASSUME NEW e \in Entities
             PROVE  Spec => Promise(e)!Spec
  OBVIOUS
<1>1. Init => Promise(e)!Init
  BY RegistersBegin
<1>2. IInv /\ Unread /\ [Next]_vars => [Promise(e)!Next]_(Promise(e)!vars)
  BY RegisterStep
<1> QED BY <1>1, <1>2, RegisterInvariance, PTL DEF Spec, Promise!Spec

(* The same as one formula about the steps of the system. *)
THEOREM PromisesKept == Spec => EntitiesKeepPromise
<1>1. Init => \A e \in Entities : Promise(e)!Init
  BY RegistersBegin
<1>2. IInv /\ Unread /\ [Next]_vars =>
        [\A e \in Entities : UNCHANGED Promise(e)!vars \/ Promise(e)!Next]_vars
  BY RegisterStep
<1> QED BY <1>1, <1>2, RegisterInvariance, PTL DEF Spec, EntitiesKeepPromise
-----------------------------------------------------------------------------
(* One save at a time *)

(* No save commits that another commit came in between of. *)
OneAtATime == [][\A r \in Requests : Commits(r) => ~req[r].disturbed]_vars

LEMMA CommitsRow ==
    ASSUME IInv, NEW r \in Requests, Commit(r)
    PROVE  Commits(r) /\ version' # version
<1>1. /\ req'[r] = Blank /\ req[r].stage = "ready" /\ req[r].entity \in Entities
      /\ version'[req[r].entity] > version[req[r].entity]
      /\ version[req[r].entity] \in Nat
  BY CommitSays DEF Commit
<1> QED BY <1>1, BlankSave DEF Commits

(* What the message of a refused deletion promises, that nothing existing    *)
(* names what has been deleted (Validations.scala), lasts once it holds as   *)
(* long as saves follow one another: only overlapping saves break it.        *)
THEOREM NoOrphansOneAtATime == Spec /\ OneAtATime /\ NoOrphans => []NoOrphans
<1>1. ASSUME IInv, [Next]_vars, NoOrphans,
             [\A r \in Requests : Commits(r) => ~req[r].disturbed]_vars,
             [\A r \in Requests : Commits(r) /\ ~req[r].disturbed => Orphaned' \subseteq Orphaned]_vars
      PROVE  NoOrphans'
  <2>1. CASE \E r \in Requests : Commit(r)
    <3>1. PICK r \in Requests : Commits(r) /\ version' # version
      BY <1>1, <2>1, CommitsRow
    <3>2. Orphaned' \subseteq Orphaned
      BY <1>1, <3>1 DEF vars
    <3> QED BY <1>1, <3>2 DEF NoOrphans
  <2>2. CASE ~\E r \in Requests : Commit(r)
    <3>1. tila' = tila /\ names' = names
      BY <1>1, <2>2, OnlyCommits DEF dbVars
    <3> QED BY <1>1, <3>1 DEF NoOrphans, Orphaned
  <2> QED BY <2>1, <2>2
<1>2. IInv /\ NoOrphans /\ [Next]_vars
        /\ [\A r \in Requests : Commits(r) => ~req[r].disturbed]_vars
        /\ [\A r \in Requests : Commits(r) /\ ~req[r].disturbed => Orphaned' \subseteq Orphaned]_vars
      => NoOrphans'
  BY <1>1
<1> QED BY <1>2, Invariance, DependenciesKept, PTL DEF Spec, OneAtATime, AloneKeepsDependencies

(* Everything attached to a published toteutus stays published, once it is,  *)
(* as long as saves follow one another (validateLiitettyEntityIntegrity).    *)
THEOREM AttachedOneAtATime ==
    Spec /\ OneAtATime /\ AttachedUnpublished = {} => [](AttachedUnpublished = {})
<1> DEFINE Kept == AttachedUnpublished = {}
<1>1. ASSUME IInv, [Next]_vars, Kept,
             [\A r \in Requests : Commits(r) => ~req[r].disturbed]_vars,
             [\A r \in Requests : Commits(r) /\ ~req[r].disturbed =>
                  /\ req[r].tila = "julkaistu" =>
                       \A d \in req[r].names.parents \ Haut : tila'[d] = "julkaistu"
                  /\ AttachedUnpublished' \subseteq AttachedUnpublished]_vars
      PROVE  Kept'
  <2>1. CASE \E r \in Requests : Commit(r)
    <3>1. PICK r \in Requests : Commits(r) /\ version' # version
      BY <1>1, <2>1, CommitsRow
    <3>2. AttachedUnpublished' \subseteq AttachedUnpublished
      BY <1>1, <3>1 DEF vars
    <3> QED BY <1>1, <3>2
  <2>2. CASE ~\E r \in Requests : Commit(r)
    <3>1. tila' = tila /\ names' = names
      BY <1>1, <2>2, OnlyCommits DEF dbVars
    <3> QED BY <1>1, <3>1 DEF AttachedUnpublished
  <2> QED BY <2>1, <2>2
<1>2. IInv /\ Kept /\ [Next]_vars
        /\ [\A r \in Requests : Commits(r) => ~req[r].disturbed]_vars
        /\ [\A r \in Requests : Commits(r) /\ ~req[r].disturbed =>
                  /\ req[r].tila = "julkaistu" =>
                       \A d \in req[r].names.parents \ Haut : tila'[d] = "julkaistu"
                  /\ AttachedUnpublished' \subseteq AttachedUnpublished]_vars
      => Kept'
  BY <1>1
<1> QED BY <1>2, Invariance, PublishedKept, PTL DEF Spec, OneAtATime, AloneKeepsPublished
=============================================================================
