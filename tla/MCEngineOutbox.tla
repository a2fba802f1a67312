----------------------------- MODULE MCEngineOutbox -----------------------------
(* Instances of EngineOutbox for TLC. *)
EXTENDS EngineOutbox, TLC

CONSTANTS q1, m1, m2

\* Something said, then a question.
SayThenAsk == [n \in 1..2 |-> IF n = 2 THEN q1 ELSE NoCard]
=============================================================================
