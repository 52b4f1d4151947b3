------------------------------- MODULE MCYhteydet ------------------------------
(* One transaction with two queries inside, one with one, one with none.      *)
EXTENDS Yhteydet

CONSTANTS toteutus, koulutus, haku

MCInner == [t \in Transactions |-> CASE t = haku -> 0 [] t = toteutus -> 2 [] OTHER -> 1]
=============================================================================
