----------------------------- MODULE SavedEntity -----------------------------
(***************************************************************************)
(* What saving one entity of kouta-backend promises to the people editing  *)
(* it: an editor reads a version, and an editor's save is accepted only    *)
(* while the version that editor read is still the stored one.  Nothing is *)
(* said of transactions, clocks, headers, images or indexing: EntitySave   *)
(* has those and implements this module.  Tarjoajat and Riippuvuudet, where*)
(* one save may write two entities, implement a copy of it for each.       *)
(***************************************************************************)
EXTENDS Naturals

CONSTANT Editors                 \* one element per editing session

VARIABLES version,               \* stored version, 0 while the entity is absent
          seen                   \* version each editor works on, 0 before reading

vars == <<version, seen>>

Init == /\ version \in {0, 1}     \* there may have been saves before
        /\ seen = [e \in Editors |-> 0]

Create == /\ version = 0
          /\ version' = 1
          /\ UNCHANGED seen

Read(e) == /\ version > 0
           /\ seen[e] = 0
           /\ seen' = [seen EXCEPT ![e] = version]
           /\ UNCHANGED version

Stops(e) == [seen EXCEPT ![e] = 0]

(* The editor may go on with the version read, now an old one, or not. *)
Save(e) == /\ version > 0
           /\ seen[e] = version
           /\ version' = version + 1
           /\ seen' \in {seen, Stops(e)}

(* Refused, given up or saved without a change. *)
Leave(e) == /\ seen[e] > 0
            /\ seen' = Stops(e)
            /\ UNCHANGED version

Next == Create \/ \E e \in Editors : Read(e) \/ Save(e) \/ Leave(e)

Spec == Init /\ [][Next]_vars
=============================================================================
