------------------------------ MODULE MCExposure ------------------------------
(* Instances of Exposure for TLC. *)
EXTENDS Exposure, TLC

CONSTANTS p1, p2, p3

Requests3 == {p1, p2, p3}

RequestSymmetry == Permutations(Requests)
===============================================================================
