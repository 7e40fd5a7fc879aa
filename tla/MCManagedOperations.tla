------------------------ MODULE MCManagedOperations ------------------------
(* Instances of ManagedOperations for TLC. *)
EXTENDS ManagedOperations

CONSTANTS c1, c2

OneCall == {c1}
=============================================================================
