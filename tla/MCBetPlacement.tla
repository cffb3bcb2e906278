---------------------------- MODULE MCBetPlacement ----------------------------
(* Instances of BetPlacement for TLC. *)
EXTENDS BetPlacement, TLC

CONSTANTS u1, u2, p1, p2, p3

Users2 == {u1, u2}
Requests2 == {p1, p2}
Requests3 == {p1, p2, p3}
Opening2 == u1 :> 3 @@ u2 :> 2
Opening1 == u1 :> 3

RequestSymmetry == Permutations(Requests)
===============================================================================
