---------------------------- MODULE MCSessionPickup ----------------------------
(* Instances of SessionPickup for TLC. *)
EXTENDS SessionPickup, TLC

CONSTANTS h1, h2

\* Hosts are only compared with each other.
HostSymmetry == Permutations(Hosts)
=============================================================================
