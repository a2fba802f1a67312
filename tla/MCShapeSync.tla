---------------------------- MODULE MCShapeSync ----------------------------
(* Instances of ShapeSync for TLC. *)
EXTENDS ShapeSync, TLC

CONSTANTS k1, k2, v1, v2, t1, t2
=============================================================================
