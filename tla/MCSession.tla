------------------------------- MODULE MCSession -------------------------------
(* Instances of Session for TLC. *)
EXTENDS Session, TLC

CONSTANTS c1, c2, c3

Calls3 == {c1, c2, c3}

CallSymmetry == Permutations(Calls)
===============================================================================
