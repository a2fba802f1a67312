----------------------------- MODULE MCTokenRefresh -----------------------------
(* Instances of TokenRefresh for TLC. *)
EXTENDS TokenRefresh, TLC

CONSTANTS p1, p2

\* Processes are only compared with each other.
ProcSymmetry == Permutations(Procs)
=============================================================================
