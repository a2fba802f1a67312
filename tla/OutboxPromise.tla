------------------------------ MODULE OutboxPromise ------------------------------
(***************************************************************************)
(* What the outbox of a run promises, without its threads, queues, retries  *)
(* and waits: rows appear in the order the replies were made, and an id it   *)
(* was handed is owed until the server took it or refused it; the run's end *)
(* parks exactly what is owed then.                                         *)
(***************************************************************************)
EXTENDS Integers, Sequences

CONSTANTS
  Numbers,  \* of the replies
  Ids       \* of the messages the run is handed

VARIABLES
  said,     \* the numbers of the replies whose rows landed; a reply may land again
  owes,     \* ids handed over and not settled
  took,     \* ids the server consumed
  turned,   \* ids the server refused
  parked,   \* what the end parked
  over      \* the end parked it

promiseVars == <<said, owes, took, turned, parked, over>>

Init ==
  /\ said = <<>>
  /\ owes = {} /\ took = {} /\ turned = {} /\ parked = {}
  /\ over = FALSE

Say(n) ==
  /\ \A i \in DOMAIN said : said[i] <= n
  /\ said' = Append(said, n)
  /\ UNCHANGED <<owes, took, turned, parked, over>>

Hand(id) ==
  /\ ~over
  /\ owes' = owes \cup {id}
  /\ UNCHANGED <<said, took, turned, parked, over>>

\* The server consumes what it is owed, or refuses it, or some of both.
Answered(taken, sentBack) ==
  /\ taken \cup sentBack \subseteq owes
  /\ took' = took \cup taken
  /\ turned' = turned \cup sentBack
  /\ UNCHANGED <<said, owes, parked, over>>

Settled(ids) ==
  /\ ids \subseteq took \cup turned
  /\ owes' = owes \ ids
  /\ UNCHANGED <<said, took, turned, parked, over>>

Park ==
  /\ ~over
  /\ over' = TRUE
  /\ parked' = owes
  /\ UNCHANGED <<said, owes, took, turned>>

Next ==
  \/ \E n \in Numbers : Say(n)
  \/ \E id \in Ids : Hand(id)
  \/ \E taken, sentBack \in SUBSET owes : Answered(taken, sentBack)
  \/ \E ids \in SUBSET owes : Settled(ids)
  \/ Park

Spec == Init /\ [][Next]_promiseVars
=============================================================================
