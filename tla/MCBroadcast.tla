------------------------------ MODULE MCBroadcast ------------------------------
(* Instances of Broadcast for TLC. *)
EXTENDS Broadcast, TLC

CONSTANTS u1, u2, s1, s2

Updates2 == {u1, u2}
Sockets2 == {s1, s2}

Symmetry == Permutations(Updates) \cup Permutations(Sockets)
===============================================================================
