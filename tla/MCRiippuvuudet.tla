---------------------------- MODULE MCRiippuvuudet ----------------------------
(* One entity of each kind but the valintaperuste, and an opintojakso.       *)
EXTENDS Riippuvuudet, TLC

CONSTANTS k, t, oj, h, a, s, r1, r2

Naming(parents, liitetyt) == [parents |-> parents, liitetyt |-> liitetyt]

MCBodies == [e \in Entities |->
    CASE e = k  -> {Naming({s}, {})}
      [] e = t  -> {Naming({k, s}, {}), Naming({k}, {oj})}
      [] e = oj -> {Naming({k}, {})}
      [] e = h  -> {Naming({t, a}, {})}
      [] OTHER  -> {NoNames}]

(* Databases in which every dependency holds: the hakukohde not put yet,   *)
(* not published or archived, the toteutukset published or not.            *)
MCInitial ==
    {[tila  |-> [e \in Entities |-> CASE e \in {k, s} -> "julkaistu"
                                      [] e = h -> th [] e \in {t, oj} -> tt
                                      [] OTHER -> "tallennettu"],
      names |-> [e \in Entities |-> IF e = h /\ th = Absent THEN NoNames
                                    ELSE CHOOSE body \in MCBodies[e] :
                                           e = t => body.liitetyt = {oj}]] :
        <<th, tt>> \in {<<Absent, "tallennettu">>, <<Absent, "julkaistu">>,
                        <<"tallennettu", "julkaistu">>, <<"arkistoitu", "tallennettu">>}}

Symmetry == Permutations(Requests)
=============================================================================
