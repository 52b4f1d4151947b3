----------------------------- MODULE MCTarjoajat ------------------------------
(* Two toimipisteet of one oppilaitos and one of another. *)
EXTENDS Tarjoajat

CONSTANTS t1, t2, x1, x2, x3, o1, o2

MCTarjoajat == {x1, x2, x3}
MCOppilaitos == [x \in MCTarjoajat |-> IF x = x3 THEN o2 ELSE o1]
MCProviding == [t \in Existing |-> IF t = t1 THEN {x1, x2} ELSE {x3}]
MCChoices == {{}, {x1}, {x2, x3}}
=============================================================================
