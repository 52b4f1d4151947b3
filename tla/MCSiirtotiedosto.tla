--------------------------- MODULE MCSiirtotiedosto ----------------------------
EXTENDS Siirtotiedosto, TLC

(* Rows of one table are alike. *)
Symmetry == Permutations(Entities) \cup Permutations(Oppilaitokset) \cup Permutations(Osat)
=============================================================================
