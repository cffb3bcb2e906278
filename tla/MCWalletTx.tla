------------------------------ MODULE MCWalletTx ------------------------------
(* Instances of WalletTx for TLC. *)
EXTENDS WalletTx, TLC

CONSTANTS u1, u2, p1, p2, p3, d1

Users2 == {u1, u2}
Requests2 == {p1, p2}
Requests3 == {p1, p2, p3}
Opening2 == u1 :> 3 @@ u2 :> 0
Opening1 == u1 :> 3

RequestSymmetry == Permutations(Requests)
===============================================================================
