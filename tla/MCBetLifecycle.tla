---------------------------- MODULE MCBetLifecycle ----------------------------
(* Instances of BetLifecycle for TLC. *)
EXTENDS BetLifecycle, TLC

CONSTANTS u1, b, p1, p2

Requests2 == {b, p1, p2}
Opening1 == u1 :> 3
LegOdds2 == [m \in Markets |-> 2]

RequestSymmetry == Permutations(Requests \ {b})
===============================================================================
