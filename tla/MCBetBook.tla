------------------------------ MODULE MCBetBook -------------------------------
(* Instances of BetBook for TLC. *)
EXTENDS BetBook, TLC

CONSTANTS u1, u2, b1, b2

MarketOfLeg == [l \in {"a", "b", "c"} |-> IF l = "a" THEN "m1" ELSE "m2"]

LegPrices == [l \in {"a", "b", "c"} |->
    CASE l = "a" -> {11, 20} [] l = "b" -> {13} [] l = "c" -> {19}]

TwoSlips ==
    {[type |-> "MULTI", legs |-> <<"b", "c">>, size |-> 2, stake |-> 3],
     [type |-> "SYSTEM", legs |-> <<"a", "b", "c">>, size |-> 2, stake |-> 4]}

QuotedPrices == 101 .. 500

BookSymmetry == Permutations(Users) \cup Permutations(Bets)
===============================================================================
