----------------------------- MODULE MCOddsCache -----------------------------
(* Instances of OddsCache for TLC. *)
EXTENDS OddsCache, TLC

CONSTANTS p1, p2, q1, q2

Placements2 == {p1, p2}
Updates2 == {q1, q2}

OddsSymmetry == Permutations(Placements2) \cup Permutations(Updates2)
===============================================================================
