------------------------------ MODULE EngineOutbox ------------------------------
(***************************************************************************)
(* The outbox of one run (engine/src/outbox.rs): the engine's thread queues *)
(* replies and the ids of messages the agent has read, two worker threads   *)
(* bring them to the server with retries, and the run's end closes the      *)
(* outbox for a bounded grace and parks what is still owed. One action is   *)
(* one critical section of one thread, or one call with its answer.         *)
(***************************************************************************)
EXTENDS Integers, Sequences, Functions

CONSTANTS
  MaxReplies,    \* bound: how many replies the mapper makes
  QuestionOf,    \* the question each reply's card asks, NoCard of a reply that asks nothing
  NoCard,
  Ids,           \* ids of the person messages the run is handed
  Ladder,        \* how many waits RETRY_BACKOFF has
  ConsumeChunk,  \* CONSUME_CHUNK of the api crate: ids of one request
  Refusals       \* whether the server may refuse a call for good (401, 403, 426, ...)

ReplyIds  == 1..MaxReplies
Cards     == {n \in ReplyIds : QuestionOf[n] # NoCard}
Questions == {QuestionOf[n] : n \in Cards}

ASSUME OutboxAssumption ==
  /\ MaxReplies \in Nat
  /\ QuestionOf \in [ReplyIds -> Questions \cup {NoCard}]
  /\ \A m, n \in Cards : QuestionOf[m] = QuestionOf[n] => m = n
  /\ Ladder \in Nat
  /\ ConsumeChunk \in Nat \ {0}
  /\ Refusals \in BOOLEAN

VARIABLES
  closing, openCards, resolved, unconsumed,   \* struct Shared
  replies, consumes,                          \* the two queues
  speaker,        \* the reply worker: where it stands, the reply in hand, failed attempts, its row
  taker,          \* the consume worker: where it stands, its batch, settled ids, failed attempts
  engine,         \* the engine's thread: where it stands, and with which id
  made,           \* how many replies the mapper has made: reply n is the n-th
  handed,         \* the ids given to consume
  answered,       \* per question: "no", or whether the engine resolved it before or after its card's row
  owed,           \* what the end sequence parks on the run record
  conversation,   \* the server's rows; `told` of a row whose id came back to the worker
  consumed,       \* the ids the server has consumed
  refused         \* the ids of a consume call of their own that the server refused

shared   == <<closing, openCards, resolved, unconsumed>>
server   == <<conversation, consumed, refused>>
thread   == <<engine, made, handed, answered, owed>>
vars     == <<shared, replies, consumes, speaker, taker, thread, server>>

Posted(q) == \E i \in DOMAIN conversation : QuestionOf[conversation[i].reply] = q

-----------------------------------------------------------------------------
(* The engine's thread. Its calls end before `close`: the connection is over by then. *)

Free == engine.step = "free" /\ ~closing

\* `post`: one reply into the queue. A worker that never started drops it with its queue.
Post ==
  /\ Free
  /\ made < MaxReplies
  /\ made' = made + 1
  /\ replies' = IF speaker.at = "absent" THEN replies ELSE Append(replies, made + 1)
  /\ UNCHANGED <<shared, consumes, speaker, taker, engine, handed, answered, owed, server>>

\* `consume`: the id is owed first, then queued.
ConsumeOwes(id) ==
  /\ Free
  /\ id \notin handed
  /\ handed' = handed \cup {id}
  /\ unconsumed' = unconsumed \cup {id}
  /\ engine' = [step |-> "sending", with |-> id]
  /\ UNCHANGED <<closing, openCards, resolved, replies, consumes, speaker, taker, made, answered, owed, server>>

ConsumeSends ==
  /\ engine.step = "sending"
  /\ consumes' = IF taker.at = "absent" THEN consumes ELSE Append(consumes, engine.with)
  /\ engine' = [step |-> "free", with |-> 0]
  /\ UNCHANGED <<shared, replies, speaker, taker, made, handed, answered, owed, server>>

Answer(q) == answered' = [answered EXCEPT ![q] = IF Posted(q) THEN "after" ELSE "before"]

\* `resolve_question`: the open cards under their lock; a question without one is remembered
\* as resolved, under a lock of its own.
ResolveCloses(q) ==
  /\ Free
  /\ answered[q] = "no"
  /\ openCards' = {c \in openCards : c.question # q}
  /\ \/ /\ openCards' # openCards
        /\ Answer(q)
        /\ UNCHANGED engine
     \/ /\ openCards' = openCards
        /\ engine' = [step |-> "resolving", with |-> q]
        /\ UNCHANGED answered
  /\ UNCHANGED <<closing, resolved, unconsumed, replies, consumes, speaker, taker, made, handed, owed, server>>

ResolveRemembers ==
  /\ engine.step = "resolving"
  /\ resolved' = resolved \cup {engine.with}
  /\ Answer(engine.with)
  /\ engine' = [step |-> "free", with |-> 0]
  /\ UNCHANGED <<closing, openCards, unconsumed, replies, consumes, speaker, taker, made, handed, owed, server>>

Close ==
  /\ Free
  /\ closing' = TRUE
  /\ UNCHANGED <<openCards, resolved, unconsumed, replies, consumes, speaker, taker, thread, server>>

\* `close` returns when both workers are done or the grace is over, which may be at any
\* moment; the end sequence then parks what is owed.
End ==
  /\ closing
  /\ engine.step = "free"
  /\ engine' = [step |-> "ended", with |-> 0]
  /\ owed' = unconsumed
  /\ UNCHANGED <<shared, replies, consumes, speaker, taker, made, handed, answered, server>>

-----------------------------------------------------------------------------
(* The reply worker. *)

Resting == [at |-> "next", reply |-> 0, tries |-> 0, row |-> 0]

SpeakerTakes ==
  /\ speaker.at = "next"
  /\ replies # <<>>
  /\ speaker' = [Resting EXCEPT !.at = "call", !.reply = Head(replies)]
  /\ replies' = Tail(replies)
  /\ UNCHANGED <<shared, consumes, taker, thread, server>>

SpeakerLeaves ==
  /\ speaker.at = "next"
  /\ closing
  /\ replies = <<>>
  /\ speaker' = [speaker EXCEPT !.at = "done"]
  /\ UNCHANGED <<shared, replies, consumes, taker, thread, server>>

RowType   == [reply : ReplyIds, told : BOOLEAN]
ToldRow   == [reply |-> speaker.reply, told |-> TRUE]
UntoldRow == [reply |-> speaker.reply, told |-> FALSE]

\* Mutant: the row's id off by one.
ReplyLandsOffByOne ==
  /\ speaker.at = "call"
  /\ conversation' = Append(conversation, ToldRow)
  /\ speaker' = IF speaker.reply \in Cards
                THEN [speaker EXCEPT !.at = "posted", !.row = Len(conversation)]
                ELSE Resting
  /\ UNCHANGED <<shared, replies, consumes, taker, thread, consumed, refused>>

\* The row landed and its id came back; a question card goes on to the open-card map.
ReplyLands ==
  /\ speaker.at = "call"
  /\ conversation' = Append(conversation, ToldRow)
  /\ speaker' = IF speaker.reply \in Cards
                THEN [speaker EXCEPT !.at = "posted", !.row = Len(conversation) + 1]
                ELSE Resting
  /\ UNCHANGED <<shared, replies, consumes, taker, thread, consumed, refused>>

\* Mutants: one wait more than the ladder has; waits without end, as of a consume.
AfterReplyFailureOnceMore ==
  IF closing \/ speaker.tries > Ladder
  THEN Resting
  ELSE [speaker EXCEPT !.at = "wait", !.tries = @ + 1]

AfterReplyFailureForever ==
  IF closing
  THEN Resting
  ELSE [speaker EXCEPT !.at = "wait", !.tries = IF @ < Ladder THEN @ + 1 ELSE @]

\* A transient failure, of which the caller cannot tell whether the row landed: another
\* attempt after a wait, unless the outbox is closing or the ladder is at its end.
AfterReplyFailure ==
  IF closing \/ speaker.tries = Ladder
  THEN Resting
  ELSE [speaker EXCEPT !.at = "wait", !.tries = @ + 1]

\* Mutant: a failed reply goes to the end of the queue.
ReplyFailsRequeued ==
  /\ speaker.at = "call"
  /\ replies' = Append(replies, speaker.reply)
  /\ speaker' = Resting
  /\ UNCHANGED <<shared, consumes, taker, thread, server>>

ReplyFails ==
  /\ speaker.at = "call"
  /\ \/ conversation' = conversation
     \/ conversation' = Append(conversation, UntoldRow)
  /\ speaker' = AfterReplyFailure
  /\ UNCHANGED <<shared, replies, consumes, taker, thread, consumed, refused>>

ReplyRefused ==
  /\ Refusals
  /\ speaker.at = "call"
  /\ speaker' = Resting
  /\ UNCHANGED <<shared, replies, consumes, taker, thread, server>>

\* The wait is over, or cut by the close.
ReplyRetries ==
  /\ speaker.at = "wait"
  /\ speaker' = [speaker EXCEPT !.at = "call"]
  /\ UNCHANGED <<shared, replies, consumes, taker, thread, server>>

\* Mutant: whether the question is resolved is not asked.
CardAsksNot ==
  /\ speaker.at = "posted"
  /\ speaker' = [speaker EXCEPT !.at = "opening"]
  /\ UNCHANGED <<shared, replies, consumes, taker, thread, server>>

\* A posted card: was its question resolved already? ...
CardAsks ==
  /\ speaker.at = "posted"
  /\ LET q == QuestionOf[speaker.reply] IN
       /\ resolved' = resolved \ {q}
       /\ speaker' = IF q \in resolved THEN Resting ELSE [speaker EXCEPT !.at = "opening"]
  /\ UNCHANGED <<closing, openCards, unconsumed, replies, consumes, taker, thread, server>>

\* ... and if it was not, the card is open. The locks are two, taken one after the other.
CardOpens ==
  /\ speaker.at = "opening"
  /\ openCards' = openCards \cup {[row |-> speaker.row, question |-> QuestionOf[speaker.reply]]}
  /\ speaker' = Resting
  /\ UNCHANGED <<closing, resolved, unconsumed, replies, consumes, taker, thread, server>>

-----------------------------------------------------------------------------
(* The consume worker. `whole` while the batch goes in one call, FALSE once it goes id by id. *)

Waiting == [at |-> "next", batch |-> <<>>, whole |-> TRUE, settled |-> {}, tries |-> 0]

\* The first id and whatever else is queued.
TakerTakes ==
  /\ taker.at = "next"
  /\ consumes # <<>>
  /\ taker' = [Waiting EXCEPT !.at = "call", !.batch = consumes]
  /\ consumes' = <<>>
  /\ UNCHANGED <<shared, replies, speaker, thread, server>>

TakerLeaves ==
  /\ taker.at = "next"
  /\ closing
  /\ consumes = <<>>
  /\ taker' = [taker EXCEPT !.at = "done"]
  /\ UNCHANGED <<shared, replies, consumes, speaker, thread, server>>

\* What the call at hand sends, and the prefixes of it that may land: whole chunks.
Sent     == IF taker.whole THEN taker.batch ELSE <<Head(taker.batch)>>
Landed   == {SubSeq(Sent, 1, k) : k \in {j \in 0..Len(Sent) : j % ConsumeChunk = 0 \/ j = Len(Sent)}}

\* The call at hand is over, with these ids settled: the next id, or the end of the batch.
Over(ids) ==
  IF taker.whole \/ Len(taker.batch) = 1
  THEN [taker EXCEPT !.at = "settle", !.batch = <<>>, !.settled = @ \cup ids]
  ELSE [taker EXCEPT !.batch = Tail(@), !.settled = @ \cup ids, !.tries = 0]

ConsumeLands ==
  /\ taker.at = "call"
  /\ consumed' = consumed \cup Range(Sent)
  /\ taker' = Over(Range(Sent))
  /\ UNCHANGED <<shared, replies, consumes, speaker, thread, conversation, refused>>

\* Mutants: an id given up at the close counts as settled; retries outlive the close; a
\* consume is given up at the end of the ladder, as a reply is.
AfterConsumeFailureSettled ==
  IF closing
  THEN Over(Range(Sent))
  ELSE [taker EXCEPT !.at = "wait", !.tries = IF @ < Ladder THEN @ + 1 ELSE @]

AfterConsumeFailureForever ==
  [taker EXCEPT !.at = "wait", !.tries = IF @ < Ladder THEN @ + 1 ELSE @]

AfterConsumeFailureLaddered ==
  IF closing \/ taker.tries = Ladder
  THEN Over({})
  ELSE [taker EXCEPT !.at = "wait", !.tries = @ + 1]

\* A transient failure: retried while the run lives, past the ladder at its last wait;
\* as the run ends its ids stay owed.
AfterConsumeFailure ==
  IF closing
  THEN Over({})
  ELSE [taker EXCEPT !.at = "wait", !.tries = IF @ < Ladder THEN @ + 1 ELSE @]

ConsumeFails ==
  /\ taker.at = "call"
  /\ \E ids \in Landed : consumed' = consumed \cup Range(ids)
  /\ taker' = AfterConsumeFailure
  /\ UNCHANGED <<shared, replies, consumes, speaker, thread, conversation, refused>>

\* Mutant: a refused batch is settled whole.
AfterRefusalWhole == Over(Range(Sent))

\* A refusal: a batch of several goes id by id, a single id counts as settled.
AfterRefusal ==
  IF taker.whole /\ Len(taker.batch) > 1
  THEN [taker EXCEPT !.whole = FALSE, !.tries = 0]
  ELSE Over(Range(Sent))

ConsumeRefused ==
  /\ Refusals
  /\ taker.at = "call"
  /\ \E ids \in Landed : Len(ids) < Len(Sent) /\ consumed' = consumed \cup Range(ids)
  /\ refused' = refused \cup (IF Len(Sent) = 1 THEN Range(Sent) ELSE {})
  /\ taker' = AfterRefusal
  /\ UNCHANGED <<shared, replies, consumes, speaker, thread, conversation>>

ConsumeRetries ==
  /\ taker.at = "wait"
  /\ taker' = [taker EXCEPT !.at = "call"]
  /\ UNCHANGED <<shared, replies, consumes, speaker, thread, server>>

Settle ==
  /\ taker.at = "settle"
  /\ unconsumed' = unconsumed \ taker.settled
  /\ taker' = Waiting
  /\ UNCHANGED <<closing, openCards, resolved, replies, consumes, speaker, thread, server>>

-----------------------------------------------------------------------------
\* `spawn`: a thread that could not start is logged and missing from then on.
Init ==
  /\ closing = FALSE
  /\ openCards = {} /\ resolved = {} /\ unconsumed = {}
  /\ replies = <<>> /\ consumes = <<>>
  /\ speaker \in {Resting, [Resting EXCEPT !.at = "absent"]}
  /\ taker \in {Waiting, [Waiting EXCEPT !.at = "absent"]}
  /\ engine = [step |-> "free", with |-> 0]
  /\ made = 0
  /\ handed = {}
  /\ answered = [q \in Questions |-> "no"]
  /\ owed = {}
  /\ conversation = <<>> /\ consumed = {} /\ refused = {}

EngineStep ==
  \/ Post
  \/ \E id \in Ids : ConsumeOwes(id)
  \/ ConsumeSends
  \/ \E q \in Questions : ResolveCloses(q)
  \/ ResolveRemembers
  \/ Close
  \/ End

SpeakerStep ==
  \/ SpeakerTakes \/ SpeakerLeaves
  \/ ReplyLands \/ ReplyFails \/ ReplyRefused \/ ReplyRetries
  \/ CardAsks \/ CardOpens

TakerStep ==
  \/ TakerTakes \/ TakerLeaves
  \/ ConsumeLands \/ ConsumeFails \/ ConsumeRefused \/ ConsumeRetries
  \/ Settle

Next == EngineStep \/ SpeakerStep \/ TakerStep

Spec == Init /\ [][Next]_vars

(* Threads run: a worker that can step does, and the engine's thread finishes a call it is in.
   Nothing is assumed of the server. *)
FairSpec ==
  /\ Spec
  /\ WF_vars(SpeakerStep) /\ WF_vars(TakerStep)
  /\ WF_vars(ConsumeSends \/ ResolveRemembers)

\* A server that recovers: a consume tried again and again lands in the end.
Recovery == SF_vars(ConsumeLands)

-----------------------------------------------------------------------------
\* The shapes of the variables, of the queues and of the workers' hands.
TypeOK ==
  /\ closing \in BOOLEAN
  /\ openCards \subseteq [row : Nat, question : Questions]
  /\ resolved \subseteq Questions
  /\ unconsumed \subseteq Ids /\ handed \subseteq Ids /\ owed \subseteq Ids
  /\ replies \in Seq(ReplyIds) /\ consumes \in Seq(Ids)
  /\ speaker \in [at : {"next", "call", "wait", "posted", "opening", "done", "absent"},
                  reply : ReplyIds \cup {0}, tries : 0..Ladder, row : Nat]
  /\ taker \in [at : {"next", "call", "wait", "settle", "done", "absent"},
                batch : Seq(Ids), whole : BOOLEAN, settled : SUBSET Ids, tries : 0..Ladder]
  /\ engine \in [step : {"free", "sending", "resolving", "ended"}, with : Ids \cup Questions \cup {0}]
  /\ made \in 0..MaxReplies
  /\ answered \in [Questions -> {"no", "before", "after"}]
  /\ conversation \in Seq(RowType)
  /\ consumed \subseteq Ids /\ refused \subseteq Ids

\* "Strictly in order: a failed post is retried with backoff and nothing behind it overtakes
\* it." A row whose answer was lost may appear twice, but never after a later reply's.
InOrder ==
  \A i, j \in DOMAIN conversation : i < j => conversation[i].reply <= conversation[j].reply

\* When the end sequence has parked what is owed, no id the run was handed is forgotten: the server
\* consumed it, refused it, or it is parked for the next wake. Whichever way the close met
\* the workers: in a call, between a call and its booking, in a wait, or dead.
EndOwesTheRest ==
  engine.step = "ended" => handed \subseteq owed \cup consumed \cup refused

\* A card the engine resolved before its post landed never reads open.
ResolvedFirstStaysShut ==
  \A c \in openCards : answered[c.question] # "before"

\* An answer given in a posted card finds the engine's open ask: once the worker that got the
\* row's id is past it, the card of a question the engine has not resolved is in the map.
UnansweredReadsOpen ==
  \A i \in DOMAIN conversation :
    LET q == QuestionOf[conversation[i].reply] IN
      /\ conversation[i].told
      /\ q # NoCard
      /\ answered[q] = "no"
      /\ engine # [step |-> "resolving", with |-> q]
      /\ speaker.row # i
      => [row |-> i, question |-> q] \in openCards

\* "The engine resolved question_id (answered anywhere, or dismissed): its card is no longer
\* open." (resolve_question)
AnsweredCardsClose ==
  \A c \in openCards : answered[c.question] = "no"

-----------------------------------------------------------------------------
\* Every reply queued is posted or given up in the end, also against a server that never
\* answers: the ladder of a reply's retries has an end.
RepliesDrain ==
  \A n \in ReplyIds : n \in Range(replies) ~> n \notin Range(replies) \cup {speaker.reply}

\* A close ends both workers, whatever the server does: no retry outlives it.
CloseEnds ==
  closing ~> speaker.at \in {"done", "absent"} /\ taker.at \in {"done", "absent"}

\* A consume is tried for as long as the run lives: with a server that recovers it lands and is
\* settled, and the message no longer reads queued, unless the run ends before.
ConsumesLand ==
  Recovery => \A id \in Ids : id \in unconsumed /\ taker.at # "absent" ~> closing \/ id \notin unconsumed

\* The threads keep the promise of OutboxPromise.
Promise == INSTANCE OutboxPromise WITH
  Numbers <- ReplyIds,
  said   <- [i \in DOMAIN conversation |-> conversation[i].reply],
  owes   <- unconsumed,
  took   <- consumed,
  turned <- refused,
  parked <- owed,
  over   <- engine.step = "ended"

KeepsPromise == Promise!Init /\ [][Promise!Next]_(Promise!promiseVars)
=============================================================================
