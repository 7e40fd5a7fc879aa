--------------------------- MODULE MCControlLease ---------------------------
(* An instance of ControlLease for TLC. *)
EXTENDS ControlLease

CONSTANTS c1, c2, c3, d1, d2

ThreeClients == {c1, c2, c3}
TwoDevices == {d1, d2}

\* The last connection is for another device, whose notices the others drop.
MixedTarget == [c \in Clients |-> IF c = c3 THEN d2 ELSE d1]
=============================================================================
