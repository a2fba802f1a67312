--------------------------- MODULE EngineOutboxProofs ---------------------------
(***************************************************************************)
(* EngineOutbox for all numbers of replies and messages, any ladder and any *)
(* chunk: its types, the order of the replies, what the end parks, the      *)
(* cards, and that it implements OutboxPromise.                             *)
(***************************************************************************)
EXTENDS EngineOutbox, SequenceTheorems, TLAPS

\* What each worker, and the engine, has in hand while it stands where it stands.
Hands ==
  /\ speaker.at \in {"call", "wait", "posted", "opening"} => speaker.reply \in ReplyIds
  /\ speaker.at \notin {"call", "wait", "posted", "opening"} => speaker.reply = 0
  /\ speaker.at \notin {"posted", "opening"} => speaker.row = 0
  /\ speaker.at \in {"posted", "opening"} =>
       /\ speaker.reply \in Cards
       /\ speaker.row \in DOMAIN conversation
       /\ conversation[speaker.row].reply = speaker.reply
  /\ taker.at \in {"call", "wait"} <=> taker.batch # <<>>
  /\ engine.step = "sending" => engine.with \in Ids
  /\ engine.step = "resolving" => engine.with \in Questions

TypeInv == TypeOK /\ Hands

LEMMA QuestionsOfCards ==
  ASSUME NEW n \in Cards
  PROVE  QuestionOf[n] \in Questions /\ n \in ReplyIds
  BY DEF Questions, Cards

\* What the call at hand sends is of the batch, and so is every part of it that may land.
LEMMA SentInBatch ==
  ASSUME TypeInv, taker.at = "call"
  PROVE  /\ Sent \in Seq(Ids) /\ Sent # <<>>
         /\ Range(Sent) \subseteq Range(taker.batch)
         /\ \A ids \in Landed : Range(ids) \subseteq Range(Sent)
<1>1. taker.batch \in Seq(Ids) /\ taker.batch # <<>>
  BY DEF TypeInv, TypeOK, Hands
<1>2. Sent \in Seq(Ids) /\ Sent # <<>> /\ Range(Sent) \subseteq Range(taker.batch)
  <2>1. CASE taker.whole
    BY <1>1, <2>1 DEF Sent
  <2>2. CASE ~taker.whole
    <3>1. Sent = <<taker.batch[1]>> /\ taker.batch[1] \in Ids /\ 1 \in DOMAIN taker.batch
      BY <1>1, <2>2 DEF Sent
    <3> QED BY <3>1 DEF Range
  <2> QED BY <2>1, <2>2
<1>3. ASSUME NEW ids \in Landed
      PROVE  Range(ids) \subseteq Range(Sent)
  <2>1. PICK k \in 0..Len(Sent) : ids = SubSeq(Sent, 1, k)
    BY DEF Landed
  <2>2. DOMAIN ids \subseteq DOMAIN Sent /\ \A i \in DOMAIN ids : ids[i] = Sent[i]
    BY <1>2, <2>1
  <2> QED BY <2>2 DEF Range
<1> QED BY <1>2, <1>3

\* Where the consume worker goes from a call.
LEMMA OverMoves ==
  ASSUME TypeInv, taker.at = "call", NEW ids \in SUBSET Ids
  PROVE  /\ Over(ids) \in [at : {"call", "settle"}, batch : Seq(Ids), whole : BOOLEAN,
                           settled : SUBSET Ids, tries : 0..Ladder]
         /\ Over(ids).at = "call" <=> Over(ids).batch # <<>>
         /\ Over(ids).settled = taker.settled \cup ids
         /\ Over(ids).batch \in {<<>>, Tail(taker.batch)}
<1>1. /\ taker.batch \in Seq(Ids) /\ taker.batch # <<>> /\ taker.whole \in BOOLEAN
      /\ taker.settled \in SUBSET Ids /\ taker.tries \in 0..Ladder /\ 0 \in 0..Ladder
      /\ taker \in [at : {"next", "call", "wait", "settle", "done", "absent"},
                    batch : Seq(Ids), whole : BOOLEAN, settled : SUBSET Ids, tries : 0..Ladder]
  BY OutboxAssumption DEF TypeInv, TypeOK, Hands
<1>2. taker.settled \cup ids \in SUBSET Ids
  BY <1>1
<1>3. CASE taker.whole \/ Len(taker.batch) = 1
  <2>1. Over(ids) = [taker EXCEPT !.at = "settle", !.batch = <<>>, !.settled = taker.settled \cup ids]
    BY <1>3 DEF Over
  <2>2. <<>> \in Seq(Ids)
    OBVIOUS
  <2> QED BY <1>1, <1>2, <2>1, <2>2
<1>4. CASE ~(taker.whole \/ Len(taker.batch) = 1)
  <2>1. Over(ids) = [taker EXCEPT !.batch = Tail(taker.batch), !.settled = taker.settled \cup ids, !.tries = 0]
    BY <1>4 DEF Over
  <2>2. Tail(taker.batch) \in Seq(Ids) /\ Tail(taker.batch) # <<>>
    <3>1. Len(taker.batch) \in Nat \ {0}
      BY <1>1, EmptySeq
    <3>2. Tail(taker.batch) \in Seq(Ids) /\ Len(Tail(taker.batch)) = Len(taker.batch) - 1
      BY <1>1, HeadTailProperties
    <3>3. Len(Tail(taker.batch)) # 0
      BY <1>4, <3>1, <3>2
    <3> QED BY <3>2, <3>3, EmptySeq
  <2> QED BY <1>1, <1>2, <2>1, <2>2
<1> QED BY <1>3, <1>4

-----------------------------------------------------------------------------
(* Types. *)

LEMMA TypeInit == Init => TypeInv
<1> SUFFICES ASSUME Init PROVE TypeInv
  OBVIOUS
<1>1. 0 \in 0..Ladder /\ 0 \in 0..MaxReplies
  BY OutboxAssumption
<1>2. /\ speaker \in [at : {"next", "absent"}, reply : {0}, tries : {0}, row : {0}]
      /\ taker \in [at : {"next", "absent"}, batch : {<<>>}, whole : {TRUE}, settled : {{}}, tries : {0}]
  <2>1. /\ Resting \in [at : {"next", "absent"}, reply : {0}, tries : {0}, row : {0}]
        /\ [Resting EXCEPT !.at = "absent"] \in [at : {"next", "absent"}, reply : {0}, tries : {0}, row : {0}]
    BY DEF Resting
  <2>2. /\ Waiting \in [at : {"next", "absent"}, batch : {<<>>}, whole : {TRUE}, settled : {{}}, tries : {0}]
        /\ [Waiting EXCEPT !.at = "absent"]
             \in [at : {"next", "absent"}, batch : {<<>>}, whole : {TRUE}, settled : {{}}, tries : {0}]
    BY DEF Waiting
  <2> QED BY <2>1, <2>2 DEF Init
<1>3. <<>> \in Seq(ReplyIds) /\ <<>> \in Seq(Ids) /\ <<>> \in Seq(RowType)
  OBVIOUS
<1>4. TypeOK
  <2>1. speaker \in [at : {"next", "call", "wait", "posted", "opening", "done", "absent"},
                     reply : ReplyIds \cup {0}, tries : 0..Ladder, row : Nat]
    BY <1>1, <1>2
  <2>4. taker \in [at : {"next", "call", "wait", "settle", "done", "absent"},
                   batch : Seq(Ids), whole : BOOLEAN, settled : SUBSET Ids, tries : 0..Ladder]
    <3>1. {} \in SUBSET Ids
      OBVIOUS
    <3> QED BY <1>1, <1>2, <1>3, <3>1
  <2>2. engine \in [step : {"free", "sending", "resolving", "ended"}, with : Ids \cup Questions \cup {0}]
    BY DEF Init
  <2>3. answered \in [Questions -> {"no", "before", "after"}]
    BY DEF Init
  <2> QED BY <1>1, <1>3, <2>1, <2>2, <2>3, <2>4 DEF Init, TypeOK
<1>5. Hands
  BY <1>2 DEF Init, Hands
<1> QED BY <1>4, <1>5 DEF TypeInv

LEMMA EngineTyped ==
  ASSUME TypeInv, EngineStep
  PROVE  TypeInv'
<1> USE DEF TypeInv, shared, server, thread
<1>1. CASE Post
  <2>1. made + 1 \in ReplyIds /\ made + 1 \in 0..MaxReplies
    BY <1>1, OutboxAssumption DEF Post, TypeOK, ReplyIds
  <2>2. replies' \in Seq(ReplyIds)
    BY <1>1, <2>1, AppendProperties DEF Post, TypeOK
  <2>3. TypeOK'
    BY <1>1, <2>1, <2>2 DEF Post, TypeOK
  <2>4. Hands'
    BY <1>1 DEF Post, Hands
  <2> QED BY <2>3, <2>4
<1>2. CASE \E id \in Ids : ConsumeOwes(id)
  <2> PICK id \in Ids : ConsumeOwes(id)
    BY <1>2
  <2>1. engine' \in [step : {"free", "sending", "resolving", "ended"}, with : Ids \cup Questions \cup {0}]
    BY DEF ConsumeOwes
  <2>2. TypeOK'
    BY <2>1 DEF ConsumeOwes, TypeOK
  <2>3. Hands'
    BY DEF ConsumeOwes, Hands
  <2> QED BY <2>2, <2>3
<1>3. CASE ConsumeSends
  <2>1. engine' \in [step : {"free", "sending", "resolving", "ended"}, with : Ids \cup Questions \cup {0}]
    BY <1>3 DEF ConsumeSends
  <2>2. consumes' \in Seq(Ids)
    BY <1>3, AppendProperties DEF ConsumeSends, TypeOK, Hands
  <2>3. TypeOK'
    BY <1>3, <2>1, <2>2 DEF ConsumeSends, TypeOK
  <2>4. Hands'
    BY <1>3 DEF ConsumeSends, Hands
  <2> QED BY <2>3, <2>4
<1>4. CASE \E q \in Questions : ResolveCloses(q)
  <2> PICK q \in Questions : ResolveCloses(q)
    BY <1>4
  <2>1. answered' \in [Questions -> {"no", "before", "after"}]
    BY DEF ResolveCloses, Answer, TypeOK
  <2>2. /\ engine' \in [step : {"free", "sending", "resolving", "ended"}, with : Ids \cup Questions \cup {0}]
        /\ engine'.step = "sending" => FALSE
        /\ engine'.step = "resolving" => engine'.with \in Questions
    BY DEF ResolveCloses, TypeOK, Free
  <2>3. TypeOK'
    BY <2>1, <2>2 DEF ResolveCloses, TypeOK
  <2>4. Hands'
    BY <2>2 DEF ResolveCloses, Hands
  <2> QED BY <2>3, <2>4
<1>5. CASE ResolveRemembers
  <2>1. /\ answered' \in [Questions -> {"no", "before", "after"}]
        /\ resolved' \subseteq Questions
    BY <1>5 DEF ResolveRemembers, Answer, TypeOK, Hands
  <2>2. engine' \in [step : {"free", "sending", "resolving", "ended"}, with : Ids \cup Questions \cup {0}]
    BY <1>5 DEF ResolveRemembers
  <2>3. TypeOK'
    BY <1>5, <2>1, <2>2 DEF ResolveRemembers, TypeOK
  <2>4. Hands'
    BY <1>5 DEF ResolveRemembers, Hands
  <2> QED BY <2>3, <2>4
<1>6. CASE Close
  BY <1>6 DEF Close, TypeOK, Hands
<1>7. CASE End
  <2>1. engine' \in [step : {"free", "sending", "resolving", "ended"}, with : Ids \cup Questions \cup {0}]
    BY <1>7 DEF End
  <2>2. TypeOK'
    BY <1>7, <2>1 DEF End, TypeOK
  <2>3. Hands'
    BY <1>7 DEF End, Hands
  <2> QED BY <2>2, <2>3
<1> QED BY <1>1, <1>2, <1>3, <1>4, <1>5, <1>6, <1>7 DEF EngineStep

LEMMA Appended ==
  ASSUME NEW S, NEW s \in Seq(S), NEW e \in S
  PROVE  /\ Append(s, e) \in Seq(S)
         /\ DOMAIN Append(s, e) = DOMAIN s \cup {Len(s) + 1}
         /\ Len(s) + 1 \notin DOMAIN s /\ Len(s) + 1 \in Nat
         /\ \A i \in DOMAIN s : Append(s, e)[i] = s[i]
         /\ Append(s, e)[Len(s) + 1] = e
  BY AppendProperties

\* A worker that has nothing in hand, or a reply.
LEMMA RestingTyped ==
  /\ Resting \in [at : {"next"}, reply : {0}, tries : 0..Ladder, row : {0}]
  /\ Waiting \in [at : {"next"}, batch : Seq(Ids), whole : BOOLEAN, settled : SUBSET Ids, tries : 0..Ladder]
  /\ Waiting.batch = <<>> /\ Waiting.settled = {}
<1>1. 0 \in 0..Ladder
  BY OutboxAssumption
<1>2. <<>> \in Seq(Ids) /\ {} \in SUBSET Ids
  OBVIOUS
<1> QED BY <1>1, <1>2 DEF Resting, Waiting

LEMMA SpeakerTyped ==
  ASSUME TypeInv, SpeakerStep
  PROVE  TypeInv'
<1> DEFINE Worker == [at : {"next", "call", "wait", "posted", "opening", "done", "absent"},
                      reply : ReplyIds \cup {0}, tries : 0..Ladder, row : Nat]
<1> USE DEF TypeInv, shared, server, thread
<1>a. speaker \in Worker /\ 0 \in ReplyIds \cup {0} /\ 0 \in 0..Ladder /\ 0 \in Nat
  BY OutboxAssumption DEF TypeOK
<1>b. Resting \in Worker /\ Resting.at = "next" /\ Resting.reply = 0 /\ Resting.row = 0
  BY <1>a, RestingTyped
<1>1. CASE SpeakerTakes
  <2>1. Head(replies) \in ReplyIds /\ replies' \in Seq(ReplyIds)
    BY <1>1, HeadTailProperties DEF SpeakerTakes, TypeOK
  <2>2. speaker' = [at |-> "call", reply |-> Head(replies), tries |-> 0, row |-> 0]
    BY <1>1 DEF SpeakerTakes, Resting
  <2>3. speaker' \in Worker
    BY <1>a, <2>1, <2>2
  <2>4. TypeOK'
    BY <1>1, <2>1, <2>3 DEF SpeakerTakes, TypeOK
  <2>5. speaker'.at = "call" /\ speaker'.reply \in ReplyIds /\ speaker'.row = 0
    BY <2>1, <2>2
  <2>6. Hands'
    BY <1>1, <2>5 DEF SpeakerTakes, Hands
  <2> QED BY <2>4, <2>6
<1>2. CASE SpeakerLeaves
  <2>1. speaker' \in Worker /\ speaker'.at = "done" /\ speaker'.reply = speaker.reply /\ speaker'.row = speaker.row
    BY <1>2, <1>a DEF SpeakerLeaves
  <2>2. TypeOK'
    BY <1>2, <2>1 DEF SpeakerLeaves, TypeOK
  <2>3. Hands'
    BY <1>2, <2>1 DEF SpeakerLeaves, Hands
  <2> QED BY <2>2, <2>3
<1>3. CASE ReplyLands
  <2>1. ToldRow \in RowType /\ ToldRow.reply = speaker.reply
    BY <1>3 DEF ReplyLands, ToldRow, RowType, Hands
  <2>2. /\ conversation' \in Seq(RowType)
        /\ Len(conversation) + 1 \in DOMAIN conversation'
        /\ conversation'[Len(conversation) + 1] = ToldRow
    <3>1. conversation \in Seq(RowType) /\ conversation' = Append(conversation, ToldRow)
      BY <1>3 DEF ReplyLands, TypeOK
    <3> QED BY ONLY <2>1, <3>1, Appended
  <2>3. CASE speaker.reply \in Cards
    <3>1. speaker' = [speaker EXCEPT !.at = "posted", !.row = Len(conversation) + 1]
      BY <1>3, <2>3 DEF ReplyLands
    <3>2. Len(conversation) + 1 \in Nat
      BY DEF TypeOK
    <3>3. /\ speaker' \in Worker /\ speaker'.at = "posted" /\ speaker'.reply = speaker.reply
          /\ speaker'.row = Len(conversation) + 1
      BY <1>a, <3>1, <3>2
    <3>4. TypeOK'
      BY <1>3, <2>2, <3>3 DEF ReplyLands, TypeOK
    <3>5. Hands'
      BY <1>3, <2>1, <2>2, <2>3, <3>3 DEF ReplyLands, Hands
    <3> QED BY <3>4, <3>5
  <2>4. CASE speaker.reply \notin Cards
    <3>1. speaker' = Resting
      BY <1>3, <2>4 DEF ReplyLands
    <3>2. TypeOK'
      BY <1>3, <1>b, <2>2, <3>1 DEF ReplyLands, TypeOK
    <3>3. Hands'
      BY <1>3, <1>b, <3>1 DEF ReplyLands, Hands
    <3> QED BY <3>2, <3>3
  <2> QED BY <2>3, <2>4
<1>4. CASE ReplyFails
  <2>1. UntoldRow \in RowType
    BY <1>4 DEF ReplyFails, UntoldRow, RowType, Hands
  <2>2. conversation' \in Seq(RowType)
    <3>1. /\ conversation \in Seq(RowType)
          /\ conversation' \in {conversation, Append(conversation, UntoldRow)}
      BY <1>4 DEF ReplyFails, TypeOK
    <3> QED BY ONLY <2>1, <3>1, Appended
  <2>3. CASE closing \/ speaker.tries = Ladder
    <3>1. speaker' = Resting
      BY <1>4, <2>3 DEF ReplyFails, AfterReplyFailure
    <3>2. TypeOK'
      BY <1>4, <1>b, <2>2, <3>1 DEF ReplyFails, TypeOK
    <3>3. Hands'
      BY <1>4, <1>b, <3>1 DEF ReplyFails, Hands
    <3> QED BY <3>2, <3>3
  <2>4. CASE ~(closing \/ speaker.tries = Ladder)
    <3>1. speaker' = [speaker EXCEPT !.at = "wait", !.tries = speaker.tries + 1]
      BY <1>4, <2>4 DEF ReplyFails, AfterReplyFailure
    <3>2. speaker.tries + 1 \in 0..Ladder
      BY <1>a, <2>4, OutboxAssumption
    <3>3. /\ speaker' \in Worker /\ speaker'.at = "wait" /\ speaker'.reply = speaker.reply
          /\ speaker'.row = speaker.row
      BY <1>a, <3>1, <3>2
    <3>4. TypeOK'
      BY <1>4, <2>2, <3>3 DEF ReplyFails, TypeOK
    <3>5. Hands'
      BY <1>4, <3>3 DEF ReplyFails, Hands
    <3> QED BY <3>4, <3>5
  <2> QED BY <2>3, <2>4
<1>5. CASE ReplyRefused
  BY <1>5, <1>b DEF ReplyRefused, TypeOK, Hands
<1>6. CASE ReplyRetries
  <2>1. speaker' \in Worker /\ speaker'.at = "call" /\ speaker'.reply = speaker.reply /\ speaker'.row = speaker.row
    BY <1>6, <1>a DEF ReplyRetries
  <2>2. TypeOK'
    BY <1>6, <2>1 DEF ReplyRetries, TypeOK
  <2>3. Hands'
    BY <1>6, <2>1 DEF ReplyRetries, Hands
  <2> QED BY <2>2, <2>3
<1>7. CASE CardAsks
  <2>1. \/ speaker' = Resting
        \/ speaker' = [speaker EXCEPT !.at = "opening"]
    BY <1>7 DEF CardAsks
  <2>2. \/ speaker' = Resting
        \/ /\ speaker' \in Worker /\ speaker'.at = "opening" /\ speaker'.reply = speaker.reply
           /\ speaker'.row = speaker.row
    BY <1>a, <2>1
  <2>3. TypeOK'
    BY <1>7, <1>b, <2>2 DEF CardAsks, TypeOK
  <2>4. Hands'
    BY <1>7, <1>b, <2>2 DEF CardAsks, Hands
  <2> QED BY <2>3, <2>4
<1>8. CASE CardOpens
  <2>1. [row |-> speaker.row, question |-> QuestionOf[speaker.reply]] \in [row : Nat, question : Questions]
    BY <1>8, <1>a, QuestionsOfCards DEF CardOpens, Hands
  <2>2. TypeOK'
    BY <1>8, <1>b, <2>1 DEF CardOpens, TypeOK
  <2>3. Hands'
    BY <1>8, <1>b DEF CardOpens, Hands
  <2> QED BY <2>2, <2>3
<1> QED BY <1>1, <1>2, <1>3, <1>4, <1>5, <1>6, <1>7, <1>8 DEF SpeakerStep

LEMMA TakerTyped ==
  ASSUME TypeInv, TakerStep
  PROVE  TypeInv'
<1> DEFINE Worker == [at : {"next", "call", "wait", "settle", "done", "absent"},
                      batch : Seq(Ids), whole : BOOLEAN, settled : SUBSET Ids, tries : 0..Ladder]
           \* The consume worker after a step, well formed.
           Moved  == taker' \in Worker /\ (taker'.at \in {"call", "wait"} <=> taker'.batch # <<>>)
<1>a. taker \in Worker /\ 0 \in 0..Ladder
  BY OutboxAssumption DEF TypeInv, TypeOK
<1>b. taker.at \in {"call", "wait"} <=> taker.batch # <<>>
  BY DEF TypeInv, Hands
<1>c. ASSUME NEW ids \in SUBSET Ids, taker.at = "call", taker' = Over(ids)
      PROVE  Moved
  BY <1>c, OverMoves
<1>d. ASSUME taker.at = "call"
      PROVE  Range(Sent) \in SUBSET Ids
  <2>1. Range(taker.batch) \subseteq Ids
    BY <1>a, RangeOfSeq DEF Range
  <2> QED BY <1>d, <2>1, SentInBatch
<1>1. CASE TakerTakes
  <2>1. taker' = [at |-> "call", batch |-> consumes, whole |-> TRUE, settled |-> {}, tries |-> 0]
    BY <1>1 DEF TakerTakes, Waiting
  <2>2. consumes \in Seq(Ids) /\ consumes # <<>> /\ {} \in SUBSET Ids
    BY <1>1 DEF TakerTakes, TypeInv, TypeOK
  <2>3. Moved
    BY <1>a, <2>1, <2>2
  <2> QED BY <1>1, <2>3 DEF TakerTakes, TypeInv, TypeOK, Hands, shared, server, thread
<1>2. CASE TakerLeaves
  <2>1. Moved
    BY <1>2, <1>a, <1>b DEF TakerLeaves
  <2> QED BY <1>2, <2>1 DEF TakerLeaves, TypeInv, TypeOK, Hands, shared, server, thread
<1>3. CASE ConsumeLands
  <2>1. Moved
    BY <1>3, <1>c, <1>d DEF ConsumeLands
  <2>2. consumed' \subseteq Ids
    BY <1>3, <1>d DEF ConsumeLands, TypeInv, TypeOK
  <2> QED BY <1>3, <2>1, <2>2 DEF ConsumeLands, TypeInv, TypeOK, Hands, shared, server, thread
<1>4. CASE ConsumeFails
  <2>1. Moved
    <3>1. CASE closing
      BY <1>4, <1>c, <3>1 DEF ConsumeFails, AfterConsumeFailure
    <3>2. CASE ~closing
      <4>1. taker' = [taker EXCEPT !.at = "wait", !.tries = IF taker.tries < Ladder THEN taker.tries + 1 ELSE taker.tries]
        BY <1>4, <3>2 DEF ConsumeFails, AfterConsumeFailure
      <4>2. (IF taker.tries < Ladder THEN taker.tries + 1 ELSE taker.tries) \in 0..Ladder
        BY <1>a, OutboxAssumption
      <4> QED BY <1>4, <1>a, <1>b, <4>1, <4>2 DEF ConsumeFails
    <3> QED BY <3>1, <3>2
  <2>2. consumed' \subseteq Ids
    BY <1>4, <1>d, SentInBatch DEF ConsumeFails, TypeInv, TypeOK
  <2> QED BY <1>4, <2>1, <2>2 DEF ConsumeFails, TypeInv, TypeOK, Hands, shared, server, thread
<1>5. CASE ConsumeRefused
  <2>1. Moved
    <3>1. CASE taker.whole /\ Len(taker.batch) > 1
      <4>1. taker' = [taker EXCEPT !.whole = FALSE, !.tries = 0]
        BY <1>5, <3>1 DEF ConsumeRefused, AfterRefusal
      <4> QED BY <1>a, <1>b, <4>1
    <3>2. CASE ~(taker.whole /\ Len(taker.batch) > 1)
      BY <1>5, <1>c, <1>d, <3>2 DEF ConsumeRefused, AfterRefusal
    <3> QED BY <3>1, <3>2
  <2>2. consumed' \subseteq Ids /\ refused' \subseteq Ids
    BY <1>5, <1>d, SentInBatch DEF ConsumeRefused, TypeInv, TypeOK
  <2> QED BY <1>5, <2>1, <2>2 DEF ConsumeRefused, TypeInv, TypeOK, Hands, shared, server, thread
<1>6. CASE ConsumeRetries
  <2>1. Moved
    BY <1>6, <1>a, <1>b DEF ConsumeRetries
  <2> QED BY <1>6, <2>1 DEF ConsumeRetries, TypeInv, TypeOK, Hands, shared, server, thread
<1>7. CASE Settle
  <2>1. Moved
    BY <1>7, RestingTyped DEF Settle
  <2> QED BY <1>7, <2>1 DEF Settle, TypeInv, TypeOK, Hands, shared, server, thread
<1> QED BY <1>1, <1>2, <1>3, <1>4, <1>5, <1>6, <1>7 DEF TakerStep

LEMMA TypeStep == TypeInv /\ [Next]_vars => TypeInv'
<1> SUFFICES ASSUME TypeInv, [Next]_vars PROVE TypeInv'
  OBVIOUS
<1>1. CASE UNCHANGED vars
  BY <1>1 DEF vars, shared, server, thread, TypeInv, TypeOK, Hands
<1> QED BY <1>1, EngineTyped, SpeakerTyped, TakerTyped DEF Next

\* The variables, and what the three threads have in hand, keep their shapes.
THEOREM OutboxTyped == Spec => []TypeOK
<1>1. TypeInv => TypeOK
  BY DEF TypeInv
<1>2. Spec => []TypeInv
  BY TypeInit, TypeStep, PTL DEF Spec
<1> QED BY <1>1, <1>2, PTL

-----------------------------------------------------------------------------
(* The order of the replies. InOrder alone is not inductive: what is queued must be behind
   what is in hand, and what is in hand not behind what was said. *)

OrderInv ==
  /\ speaker.reply <= made
  /\ \A i \in DOMAIN replies : speaker.reply < replies[i] /\ replies[i] <= made
  /\ \A i, j \in DOMAIN replies : i < j => replies[i] < replies[j]
  /\ \A i \in DOMAIN conversation :
       /\ conversation[i].reply <= made
       /\ speaker.reply # 0 => conversation[i].reply <= speaker.reply
       /\ \A j \in DOMAIN replies : conversation[i].reply < replies[j]
  /\ InOrder

\* The numbers that OrderInv compares.
LEMMA OrderNumbers ==
  ASSUME TypeInv
  PROVE  /\ made \in Nat /\ speaker.reply \in Nat
         /\ replies \in Seq(ReplyIds) /\ \A i \in DOMAIN replies : replies[i] \in Nat /\ replies[i] > 0
         /\ conversation \in Seq(RowType) /\ \A i \in DOMAIN conversation : conversation[i].reply \in Nat
<1>1. ReplyIds \subseteq Nat /\ \A n \in ReplyIds : n > 0
  BY OutboxAssumption DEF ReplyIds
<1>2. /\ replies \in Seq(ReplyIds) /\ conversation \in Seq(RowType)
      /\ speaker.reply \in ReplyIds \cup {0} /\ made \in 0..MaxReplies
  BY DEF TypeInv, TypeOK
<1>3. \A i \in DOMAIN conversation : conversation[i] \in RowType
  BY <1>2
<1>4. \A i \in DOMAIN conversation : conversation[i].reply \in ReplyIds
  BY <1>3 DEF RowType
<1>5. \A i \in DOMAIN replies : replies[i] \in ReplyIds
  BY <1>2
<1>6. made \in Nat /\ speaker.reply \in Nat
  BY <1>1, <1>2, OutboxAssumption
<1>7. \A i \in DOMAIN replies : replies[i] \in Nat /\ replies[i] > 0
  BY <1>1, <1>5
<1>8. \A i \in DOMAIN conversation : conversation[i].reply \in Nat
  BY <1>1, <1>4
<1> QED BY <1>2, <1>6, <1>7, <1>8

\* A row of the reply in hand may be added.
LEMMA SaidInOrder ==
  ASSUME TypeInv, OrderInv, speaker.reply \in ReplyIds, NEW row \in RowType, row.reply = speaker.reply
  PROVE  LET said == Append(conversation, row) IN
         /\ \A i, j \in DOMAIN said : i < j => said[i].reply <= said[j].reply
         /\ \A i \in DOMAIN said : /\ said[i].reply <= speaker.reply
                                   /\ said[i].reply <= made
                                   /\ \A j \in DOMAIN replies : said[i].reply < replies[j]
<1> DEFINE said == Append(conversation, row)
<1>1. /\ DOMAIN said = DOMAIN conversation \cup {Len(conversation) + 1}
      /\ Len(conversation) + 1 \notin DOMAIN conversation
      /\ \A i \in DOMAIN conversation : said[i] = conversation[i] /\ i < Len(conversation) + 1
      /\ said[Len(conversation) + 1] = row
  BY OrderNumbers, Appended
<1>2. speaker.reply \in Nat /\ speaker.reply # 0
  BY OutboxAssumption DEF ReplyIds
<1>3. \A i \in DOMAIN said : said[i].reply \in Nat /\ said[i].reply <= speaker.reply
  BY <1>1, <1>2, OrderNumbers DEF OrderInv
<1> HIDE DEF said
<1>4. \A i, j \in DOMAIN said : i < j => said[i].reply <= said[j].reply
  <2> SUFFICES ASSUME NEW i \in DOMAIN said, NEW j \in DOMAIN said, i < j
               PROVE  said[i].reply <= said[j].reply
    OBVIOUS
  <2>0. i \in DOMAIN conversation
    BY <1>1, OrderNumbers
  <2>1. CASE j \in DOMAIN conversation
    BY <1>1, <2>0, <2>1 DEF OrderInv, InOrder
  <2>2. CASE j = Len(conversation) + 1
    BY <1>1, <1>3, <2>2
  <2> QED BY <1>1, <2>1, <2>2
<1>5. \A i \in DOMAIN said : /\ said[i].reply <= speaker.reply
                             /\ said[i].reply <= made
                             /\ \A j \in DOMAIN replies : said[i].reply < replies[j]
  BY <1>2, <1>3, OrderNumbers DEF OrderInv
<1> QED BY <1>4, <1>5 DEF said

LEMMA OrderInit == Init => OrderInv
  BY DEF Init, OrderInv, InOrder, Resting

LEMMA OrderStep ==
  ASSUME TypeInv, OrderInv, [Next]_vars
  PROVE  OrderInv'
<1>1. CASE Post
  <2>1. made' = made + 1 /\ speaker' = speaker /\ conversation' = conversation
    BY <1>1 DEF Post, server
  <2>2. CASE replies' = replies
    BY <2>1, <2>2, OrderNumbers DEF OrderInv, InOrder
  <2>3. CASE replies' = Append(replies, made + 1)
    <3>1. made + 1 \in ReplyIds
      BY <1>1, OrderNumbers, OutboxAssumption DEF Post, ReplyIds
    <3>2. /\ DOMAIN replies' = DOMAIN replies \cup {Len(replies) + 1}
          /\ Len(replies) + 1 \notin DOMAIN replies
          /\ \A i \in DOMAIN replies : replies'[i] = replies[i] /\ i < Len(replies) + 1
          /\ replies'[Len(replies) + 1] = made + 1
      BY <2>3, <3>1, OrderNumbers, Appended
    <3>3. \A i \in DOMAIN replies' : i \in DOMAIN replies \/ (i = Len(replies) + 1 /\ replies'[i] = made + 1)
      BY <3>2
    <3>4. \A i, j \in DOMAIN replies' : i < j => replies'[i] < replies'[j]
      <4> SUFFICES ASSUME NEW i \in DOMAIN replies', NEW j \in DOMAIN replies', i < j
                   PROVE  replies'[i] < replies'[j]
        OBVIOUS
      <4>1. i \in DOMAIN replies
        BY <3>2, OrderNumbers
      <4> QED BY <3>2, <3>3, <4>1, OrderNumbers DEF OrderInv
    <3>5. \A i \in DOMAIN replies' : speaker.reply < replies'[i] /\ replies'[i] <= made + 1
      BY <3>2, <3>3, OrderNumbers DEF OrderInv
    <3>6. \A i \in DOMAIN conversation : \A j \in DOMAIN replies' : conversation[i].reply < replies'[j]
      BY <3>2, <3>3, OrderNumbers DEF OrderInv
    <3> QED BY <2>1, <3>4, <3>5, <3>6, OrderNumbers DEF OrderInv, InOrder
  <2> QED BY <1>1, <2>2, <2>3 DEF Post
<1>2. CASE SpeakerTakes
  <2>1. /\ speaker'.reply = replies[1] /\ 1 \in DOMAIN replies
        /\ replies' = Tail(replies) /\ made' = made /\ conversation' = conversation
    BY <1>2, OrderNumbers DEF SpeakerTakes, Resting, thread, server
  <2>2. \A i \in DOMAIN replies' : i + 1 \in DOMAIN replies /\ replies'[i] = replies[i + 1] /\ 1 < i + 1 /\ i \in Nat
    BY <2>1, OrderNumbers, HeadTailProperties
  <2>3. \A i \in DOMAIN replies' : speaker'.reply < replies'[i] /\ replies'[i] <= made
    BY <2>1, <2>2, OrderNumbers DEF OrderInv
  <2>4. \A i, j \in DOMAIN replies' : i < j => replies'[i] < replies'[j]
    BY <2>2, OrderNumbers DEF OrderInv
  <2>5. \A i \in DOMAIN conversation : /\ conversation[i].reply <= speaker'.reply
                                       /\ \A j \in DOMAIN replies' : conversation[i].reply < replies'[j]
    BY <2>1, <2>2, OrderNumbers DEF OrderInv
  <2> QED BY <2>1, <2>3, <2>4, <2>5, OrderNumbers DEF OrderInv, InOrder
<1>3. CASE ReplyLands \/ ReplyFails
  <2>1. speaker.reply \in ReplyIds /\ speaker'.reply \in {0, speaker.reply}
    <3>1. speaker.at = "call" /\ speaker.reply \in ReplyIds
      BY <1>3 DEF ReplyLands, ReplyFails, TypeInv, Hands
    <3>2. \/ speaker' = Resting
          \/ speaker' = [speaker EXCEPT !.at = "posted", !.row = Len(conversation) + 1]
          \/ speaker' = [speaker EXCEPT !.at = "wait", !.tries = speaker.tries + 1]
      BY <1>3 DEF ReplyLands, ReplyFails, AfterReplyFailure
    <3>3. speaker \in [at : {"next", "call", "wait", "posted", "opening", "done", "absent"},
                       reply : ReplyIds \cup {0}, tries : 0..Ladder, row : Nat]
      BY DEF TypeInv, TypeOK
    <3>4. Resting.reply = 0
      BY DEF Resting
    <3>5. speaker' = Resting \/ speaker'.reply = speaker.reply
      BY <3>2, <3>3
    <3> QED BY <3>1, <3>4, <3>5
  <2>2. replies' = replies /\ made' = made
    BY <1>3 DEF ReplyLands, ReplyFails, thread
  <2>3. \/ conversation' = conversation
        \/ \E row \in RowType : row.reply = speaker.reply /\ conversation' = Append(conversation, row)
    BY <1>3, <2>1 DEF ReplyLands, ReplyFails, ToldRow, UntoldRow, RowType
  <2>4. /\ InOrder'
        /\ \A i \in DOMAIN conversation' :
             /\ conversation'[i].reply <= speaker.reply /\ conversation'[i].reply <= made
             /\ \A j \in DOMAIN replies : conversation'[i].reply < replies[j]
    BY <2>1, <2>3, SaidInOrder DEF OrderInv, InOrder, ReplyIds
  <2> QED BY <2>1, <2>2, <2>4, OrderNumbers DEF OrderInv
<1>4. CASE SpeakerLeaves \/ ReplyRefused \/ ReplyRetries \/ CardAsks \/ CardOpens
  <2>1. speaker'.reply \in {0, speaker.reply} /\ replies' = replies /\ made' = made /\ conversation' = conversation
    BY <1>4 DEF SpeakerLeaves, ReplyRefused, ReplyRetries, CardAsks, CardOpens, Resting, thread, server, TypeInv, TypeOK
  <2> QED BY <2>1, OrderNumbers DEF OrderInv, InOrder
<1>5. CASE UNCHANGED <<speaker, replies, made, conversation>>
  BY <1>5 DEF OrderInv, InOrder
<1>6. EngineStep => Post \/ UNCHANGED <<speaker, replies, made, conversation>>
  BY DEF EngineStep, ConsumeOwes, ConsumeSends, ResolveCloses, ResolveRemembers, Close, End, thread, server
<1>7. TakerStep => UNCHANGED <<speaker, replies, made, conversation>>
  BY DEF TakerStep, TakerTakes, TakerLeaves, ConsumeLands, ConsumeFails, ConsumeRefused, ConsumeRetries, Settle,
         thread, server
<1>8. UNCHANGED vars => UNCHANGED <<speaker, replies, made, conversation>>
  BY DEF vars, thread, server
<1> QED BY <1>1, <1>2, <1>3, <1>4, <1>5, <1>6, <1>7, <1>8 DEF Next, SpeakerStep

\* Nothing overtakes a reply that waits for its retry: the rows are in the order the mapper made them.
THEOREM RepliesInOrder == Spec => []InOrder
<1>1. Spec => [](TypeInv /\ OrderInv)
  <2>1. TypeInv /\ OrderInv /\ [Next]_vars => (TypeInv /\ OrderInv)'
    BY TypeStep, OrderStep
  <2> QED BY TypeInit, OrderInit, <2>1, PTL DEF Spec
<1>2. OrderInv => InOrder
  BY DEF OrderInv
<1> QED BY <1>1, <1>2, PTL

-----------------------------------------------------------------------------
(* What the run owes. What the worker has booked as settled, and not yet taken off the debt,
   must be the server's already: the end may read the debt at any moment. *)

DebtInv ==
  /\ handed \subseteq unconsumed \cup consumed \cup refused
  /\ taker.settled \subseteq consumed \cup refused
  /\ EndOwesTheRest

\* What a call of the consume worker, once answered, adds to what is settled.
LEMMA AnswerBooked ==
  ASSUME TypeInv, ConsumeLands \/ ConsumeFails \/ ConsumeRefused
  PROVE  /\ taker.at = "call"
         /\ consumed \subseteq consumed' /\ refused \subseteq refused'
         /\ (consumed' \ consumed) \cup (refused' \ refused) \subseteq Range(Sent)
         /\ \/ \E ids \in SUBSET Range(Sent) :
                 taker' = Over(ids) /\ ids \subseteq consumed' \cup refused'
            \/ /\ taker'.settled = taker.settled /\ taker'.batch = taker.batch
               /\ taker'.at \in {"call", "wait"}
<1>a. taker.at = "call"
  BY DEF ConsumeLands, ConsumeFails, ConsumeRefused
<1>b. taker \in [at : {"next", "call", "wait", "settle", "done", "absent"},
                 batch : Seq(Ids), whole : BOOLEAN, settled : SUBSET Ids, tries : 0..Ladder]
  BY DEF TypeInv, TypeOK
<1>1. CASE ConsumeLands
  BY <1>1, <1>a DEF ConsumeLands, server
<1>2. CASE ConsumeFails
  <2>1. /\ consumed \subseteq consumed' /\ refused' = refused
        /\ consumed' \ consumed \subseteq Range(Sent)
    BY <1>2, <1>a, SentInBatch DEF ConsumeFails
  <2>2. CASE closing
    BY <1>2, <1>a, <2>1, <2>2 DEF ConsumeFails, AfterConsumeFailure
  <2>3. CASE ~closing
    <3>1. taker' = [taker EXCEPT !.at = "wait", !.tries = IF taker.tries < Ladder THEN taker.tries + 1 ELSE taker.tries]
      BY <1>2, <2>3 DEF ConsumeFails, AfterConsumeFailure
    <3>2. taker'.settled = taker.settled /\ taker'.batch = taker.batch /\ taker'.at = "wait"
      BY <1>b, <3>1
    <3> QED BY <1>a, <2>1, <3>2
  <2> QED BY <2>2, <2>3
<1>3. CASE ConsumeRefused
  <2>1. /\ consumed \subseteq consumed' /\ refused \subseteq refused'
        /\ consumed' \ consumed \subseteq Range(Sent) /\ refused' \ refused \subseteq Range(Sent)
    BY <1>3, <1>a, SentInBatch DEF ConsumeRefused
  <2>2. CASE taker.whole /\ Len(taker.batch) > 1
    <3>1. taker' = [taker EXCEPT !.whole = FALSE, !.tries = 0]
      BY <1>3, <2>2 DEF ConsumeRefused, AfterRefusal
    <3>2. taker'.settled = taker.settled /\ taker'.batch = taker.batch /\ taker'.at = "call"
      BY <1>a, <1>b, <3>1
    <3> QED BY <1>a, <2>1, <3>2
  <2>3. CASE ~(taker.whole /\ Len(taker.batch) > 1)
    <3>1. taker' = Over(Range(Sent))
      BY <1>3, <2>3 DEF ConsumeRefused, AfterRefusal
    <3>2. Len(Sent) = 1
      <4>1. Sent \in Seq(Ids) /\ Sent # <<>>
        BY <1>a, SentInBatch
      <4>2. Len(Sent) \in Nat \ {0}
        BY <4>1, EmptySeq
      <4>3. CASE taker.whole
        <5>1. Sent = taker.batch /\ ~(Len(taker.batch) > 1)
          BY <2>3, <4>3 DEF Sent
        <5>2. Len(taker.batch) \in Nat \ {0} /\ Len(Sent) = Len(taker.batch)
          BY <4>2, <5>1
        <5>3. \A n \in Nat \ {0} : n > 1 \/ n = 1
          OBVIOUS
        <5> QED BY <5>1, <5>2, <5>3
      <4>4. CASE ~taker.whole
        <5>1. Sent = <<Head(taker.batch)>>
          BY <4>4 DEF Sent
        <5> QED BY <5>1
      <4> QED BY <4>3, <4>4
    <3>3. Range(Sent) \subseteq refused'
      BY <1>3, <3>2 DEF ConsumeRefused
    <3> QED BY <1>a, <2>1, <3>1, <3>3
  <2> QED BY <2>2, <2>3
<1> QED BY <1>1, <1>2, <1>3

LEMMA DebtInit == Init => DebtInv
  BY DEF Init, DebtInv, EndOwesTheRest, Waiting

LEMMA DebtStep ==
  ASSUME TypeInv, DebtInv, [Next]_vars
  PROVE  DebtInv'
<1>1. CASE \E id \in Ids : ConsumeOwes(id)
  BY <1>1 DEF ConsumeOwes, DebtInv, EndOwesTheRest, server
<1>2. CASE End
  BY <1>2 DEF End, DebtInv, EndOwesTheRest, shared, server
<1>3. CASE Settle
  BY <1>3 DEF Settle, DebtInv, EndOwesTheRest, Waiting, thread, server
<1>4. CASE ConsumeLands \/ ConsumeFails \/ ConsumeRefused
  <2>1. unconsumed' = unconsumed /\ handed' = handed /\ engine' = engine /\ owed' = owed
    BY <1>4 DEF ConsumeLands, ConsumeFails, ConsumeRefused, shared, thread
  <2>2. taker'.settled \subseteq consumed' \cup refused'
    <3>1. CASE taker'.settled = taker.settled
      BY <1>4, <3>1, AnswerBooked DEF DebtInv
    <3>2. ASSUME NEW ids \in SUBSET Range(Sent), taker' = Over(ids), ids \subseteq consumed' \cup refused'
          PROVE  taker'.settled \subseteq consumed' \cup refused'
      <4>1. ids \in SUBSET Ids
        BY <1>4, AnswerBooked, SentInBatch, RangeOfSeq DEF Range
      <4>2. taker'.settled = taker.settled \cup ids
        BY <1>4, <3>2, <4>1, AnswerBooked, OverMoves
      <4> QED BY <1>4, <3>2, <4>2, AnswerBooked DEF DebtInv
    <3> QED BY <1>4, <3>1, <3>2, AnswerBooked
  <2> QED BY <1>4, <2>1, <2>2, AnswerBooked DEF DebtInv, EndOwesTheRest
<1>5. CASE TakerTakes \/ TakerLeaves \/ ConsumeRetries
  <2>1. taker'.settled = taker.settled \/ taker'.settled = {}
    BY <1>5 DEF TakerTakes, TakerLeaves, ConsumeRetries, Waiting, TypeInv, TypeOK
  <2>2. UNCHANGED <<unconsumed, handed, engine, owed, consumed, refused>>
    BY <1>5 DEF TakerTakes, TakerLeaves, ConsumeRetries, shared, thread, server
  <2> QED BY <2>1, <2>2 DEF DebtInv, EndOwesTheRest
<1>6. CASE ConsumeSends \/ (\E q \in Questions : ResolveCloses(q)) \/ ResolveRemembers
  <2>1. UNCHANGED <<unconsumed, handed, taker, owed, consumed, refused>>
    BY <1>6 DEF ConsumeSends, ResolveCloses, ResolveRemembers, shared, thread, server
  <2>2. engine'.step # "ended"
    BY <1>6 DEF ConsumeSends, ResolveCloses, ResolveRemembers, Free
  <2> QED BY <2>1, <2>2 DEF DebtInv, EndOwesTheRest
<1>7. CASE UNCHANGED <<unconsumed, handed, engine, taker, owed, consumed, refused>>
  BY <1>7 DEF DebtInv, EndOwesTheRest
<1>8. Post \/ Close \/ SpeakerStep \/ UNCHANGED vars =>
        UNCHANGED <<unconsumed, handed, engine, taker, owed, consumed, refused>>
  BY DEF Post, Close, SpeakerStep, SpeakerTakes, SpeakerLeaves, ReplyLands, ReplyFails, ReplyRefused, ReplyRetries,
         CardAsks, CardOpens, vars, shared, thread, server
<1> QED BY <1>1, <1>2, <1>3, <1>4, <1>5, <1>6, <1>7, <1>8 DEF Next, EngineStep, TakerStep

\* Whenever the end reads the debt, and whatever the worker was doing then: what the run was
\* handed is parked, or the server has consumed or refused it.
THEOREM NothingForgotten == Spec => []EndOwesTheRest
<1>1. Spec => [](TypeInv /\ DebtInv)
  <2>1. TypeInv /\ DebtInv /\ [Next]_vars => (TypeInv /\ DebtInv)'
    BY TypeStep, DebtStep
  <2> QED BY TypeInit, DebtInit, <2>1, PTL DEF Spec
<1>2. DebtInv => EndOwesTheRest
  BY DEF DebtInv
<1> QED BY <1>1, <1>2, PTL

-----------------------------------------------------------------------------
(***************************************************************************)
(* The open-card map: what the two locks of either side do keep.           *)
(***************************************************************************)

\* The reply's card has not asked yet whether its question is resolved.
Unasked(n) ==
  \/ n > made
  \/ n \in Range(replies)
  \/ speaker.reply = n /\ speaker.at # "opening"

(* A question answered before its card's row is remembered until the card asks; then the card does
   not open. A card that is open, or opens, has its row. What is remembered is answered. *)
CardInv ==
  /\ \A c \in openCards : Posted(c.question)
  /\ ResolvedFirstStaysShut
  /\ speaker.at = "opening" => answered[QuestionOf[speaker.reply]] # "before"
  /\ \A n \in Cards : Unasked(n) /\ answered[QuestionOf[n]] = "before" => QuestionOf[n] \in resolved
  /\ \A q \in resolved : answered[q] # "no"
  /\ UnansweredReadsOpen

LEMMA CardInit == Init => CardInv
<1> SUFFICES ASSUME Init PROVE CardInv
  OBVIOUS
<1>1. /\ openCards = {} /\ resolved = {} /\ conversation = <<>>
      /\ \A q \in Questions : answered[q] = "no"
  BY DEF Init
<1>2. speaker.at # "opening"
  <2>1. Resting.at = "next" /\ [Resting EXCEPT !.at = "absent"].at = "absent"
    BY DEF Resting
  <2> QED BY <2>1 DEF Init
<1> QED BY <1>1, <1>2, QuestionsOfCards DEF CardInv, ResolvedFirstStaysShut, UnansweredReadsOpen

\* A row, once there, stays.
LEMMA PostedStays ==
  ASSUME TypeInv, conversation' = conversation \/ \E row \in RowType : conversation' = Append(conversation, row)
  PROVE  /\ \A q \in Questions : Posted(q) => Posted(q)'
         /\ DOMAIN conversation \subseteq DOMAIN conversation'
         /\ \A i \in DOMAIN conversation : conversation'[i] = conversation[i]
<1>1. conversation \in Seq(RowType)
  BY DEF TypeInv, TypeOK
<1>2. CASE conversation' = conversation
  BY <1>2 DEF Posted
<1>3. ASSUME NEW row \in RowType, conversation' = Append(conversation, row)
      PROVE  /\ DOMAIN conversation \subseteq DOMAIN conversation'
             /\ \A i \in DOMAIN conversation : conversation'[i] = conversation[i]
  BY <1>1, <1>3, AppendProperties
<1>4. CASE \E row \in RowType : conversation' = Append(conversation, row)
  BY <1>3, <1>4 DEF Posted
<1> QED BY <1>2, <1>4

\* What the engine resolves while its card is open, or about to be, is answered after the card's row.
LEMMA OpeningPosted ==
  ASSUME TypeInv, speaker.at = "opening"
  PROVE  Posted(QuestionOf[speaker.reply]) /\ QuestionOf[speaker.reply] \in Questions
  BY QuestionsOfCards DEF TypeInv, Hands, Posted

LEMMA AnswerKeepsCards ==
  ASSUME TypeInv, CardInv, NEW q \in Questions, Answer(q),
         openCards' \subseteq openCards, q \in resolved' \/ Posted(q), resolved' = resolved \/ resolved' = resolved \cup {q},
         UNCHANGED <<made, replies, speaker, conversation>>
  PROVE  /\ \A c \in openCards' : Posted(c.question)'
         /\ ResolvedFirstStaysShut'
         /\ speaker'.at = "opening" => answered'[QuestionOf[speaker'.reply]] # "before"
         /\ \A n \in Cards : Unasked(n)' /\ answered'[QuestionOf[n]] = "before" => QuestionOf[n] \in resolved'
         /\ \A p \in resolved' : answered'[p] # "no"
<1>1. /\ answered \in [Questions -> {"no", "before", "after"}]
      /\ openCards \subseteq [row : Nat, question : Questions] /\ resolved \subseteq Questions
  BY DEF TypeInv, TypeOK
<1>2. /\ answered'[q] = IF Posted(q) THEN "after" ELSE "before"
      /\ \A p \in Questions : p # q => answered'[p] = answered[p]
  BY <1>1 DEF Answer
<1>3. \A p \in Questions : Posted(p)' <=> Posted(p)
  BY DEF Posted
<1>4. \A n \in Cards : Unasked(n)' <=> Unasked(n)
  BY DEF Unasked
<1>5. \A c \in openCards' : c \in openCards /\ c.question \in Questions
  BY <1>1
<1>6. ResolvedFirstStaysShut'
  BY <1>2, <1>5 DEF CardInv, ResolvedFirstStaysShut
<1>7. speaker'.at = "opening" => answered'[QuestionOf[speaker'.reply]] # "before"
  BY <1>2, OpeningPosted DEF CardInv
<1>8. ASSUME NEW n \in Cards, Unasked(n)', answered'[QuestionOf[n]] = "before"
      PROVE  QuestionOf[n] \in resolved'
  BY <1>2, <1>4, <1>8, QuestionsOfCards DEF CardInv
<1>9. \A p \in resolved' : answered'[p] # "no"
  BY <1>1, <1>2 DEF CardInv
<1> QED BY <1>3, <1>5, <1>6, <1>7, <1>8, <1>9 DEF CardInv

\* A told row of a question's card, as UnansweredReadsOpen speaks of it.
Due(i) ==
  LET q == QuestionOf[conversation[i].reply] IN
    /\ conversation[i].told
    /\ q # NoCard
    /\ answered[q] = "no"
    /\ engine # [step |-> "resolving", with |-> q]
    /\ speaker.row # i

CardOf(i) == [row |-> i, question |-> QuestionOf[conversation[i].reply]]

LEMMA DueOpen == UnansweredReadsOpen <=> \A i \in DOMAIN conversation : Due(i) => CardOf(i) \in openCards
  BY DEF UnansweredReadsOpen, Due, CardOf

\* The question of a row, when it has one.
LEMMA RowAsks ==
  ASSUME TypeInv, NEW i \in DOMAIN conversation, QuestionOf[conversation[i].reply] # NoCard
  PROVE  conversation[i].reply \in Cards /\ QuestionOf[conversation[i].reply] \in Questions
<1>1. conversation[i] \in RowType
  BY DEF TypeInv, TypeOK
<1>2. conversation[i].reply \in ReplyIds
  BY <1>1 DEF RowType
<1> QED BY <1>2, QuestionsOfCards DEF Cards

LEMMA CardEngine ==
  ASSUME TypeInv, CardInv, EngineStep
  PROVE  CardInv'
<1>a. UNCHANGED <<speaker, conversation>>
  BY DEF EngineStep, Post, ConsumeOwes, ConsumeSends, ResolveCloses, ResolveRemembers, Close, End, server
<1>b. /\ answered \in [Questions -> {"no", "before", "after"}]
      /\ openCards \subseteq [row : Nat, question : Questions] /\ resolved \subseteq Questions
  BY DEF TypeInv, TypeOK
<1>1. CASE Post
  <2>1. /\ UNCHANGED <<openCards, resolved, engine, answered>> /\ made' = made + 1
        /\ replies' = replies \/ replies' = Append(replies, made + 1)
    BY <1>1 DEF Post, shared
  <2>2. \A n \in Cards : Unasked(n)' => Unasked(n)
    <3>1. replies \in Seq(ReplyIds) /\ made \in Nat /\ made + 1 \in ReplyIds /\ \A n \in Cards : n \in Nat
      BY <1>1, OutboxAssumption DEF Post, TypeInv, TypeOK, ReplyIds, Cards
    <3>2. /\ DOMAIN Append(replies, made + 1) = 1..Len(replies) + 1 /\ DOMAIN replies = 1..Len(replies)
          /\ \A i \in 1..Len(replies) : Append(replies, made + 1)[i] = replies[i]
          /\ Append(replies, made + 1)[Len(replies) + 1] = made + 1
          /\ Len(replies) \in Nat
      BY <3>1, AppendProperties
    <3>3. \A i \in 1..Len(replies) + 1 : i \in 1..Len(replies) \/ i = Len(replies) + 1
      BY <3>2
    <3>4. Range(Append(replies, made + 1)) \subseteq Range(replies) \cup {made + 1}
      BY <3>2, <3>3 DEF Range
    <3>5. ASSUME NEW n \in Cards, Unasked(n)'
          PROVE  Unasked(n)
      <4>1. n > made + 1 => n > made
        BY <3>1
      <4>2. n = made + 1 => n > made
        BY <3>1
      <4>3. Range(replies') \subseteq Range(replies) \cup {made + 1}
        BY <2>1, <3>4
      <4> QED BY <1>a, <2>1, <3>5, <4>1, <4>2, <4>3 DEF Unasked
    <3> QED BY <3>5
  <2>3. \A q : Posted(q)' <=> Posted(q)
    BY <1>a DEF Posted
  <2>4. UnansweredReadsOpen'
    BY <1>a, <2>1 DEF UnansweredReadsOpen, CardInv
  <2> QED BY <1>a, <2>1, <2>2, <2>3, <2>4 DEF CardInv, ResolvedFirstStaysShut
<1>2. ASSUME NEW q \in Questions, ResolveCloses(q)
      PROVE  CardInv'
  <2>0. UNCHANGED <<made, replies, resolved>> /\ openCards' = {c \in openCards : c.question # q} /\ engine.step = "free"
    BY <1>2 DEF ResolveCloses, Free
  <2>1. CASE openCards' # openCards
    <3>1. Answer(q) /\ engine' = engine
      BY <1>2, <2>1 DEF ResolveCloses
    <3>2. PICK c \in openCards : c.question = q
      BY <2>0, <2>1
    <3>3. Posted(q)
      BY <3>2 DEF CardInv
    <3>4. UnansweredReadsOpen'
      <4>1. ASSUME NEW i \in DOMAIN conversation, Due(i)'
            PROVE  CardOf(i)' \in openCards'
        <5>1. QuestionOf[conversation[i].reply] \in Questions
          BY <1>a, <4>1, RowAsks DEF Due
        <5>2. answered'[q] # "no" /\ \A p \in Questions : p # q => answered'[p] = answered[p]
          BY <1>b, <3>1 DEF Answer
        <5>3. QuestionOf[conversation[i].reply] # q /\ Due(i)
          BY <1>a, <3>1, <4>1, <5>1, <5>2 DEF Due
        <5>4. CardOf(i) \in openCards /\ CardOf(i).question # q
          BY <5>3, DueOpen DEF CardInv, CardOf
        <5> QED BY <1>a, <2>0, <5>4 DEF CardOf
      <4> QED BY <1>a, <4>1 DEF UnansweredReadsOpen, Due, CardOf
    <3> QED BY <1>a, <2>0, <3>1, <3>3, <3>4, AnswerKeepsCards DEF CardInv
  <2>2. CASE openCards' = openCards
    <3>1. \/ answered' = answered
          \/ Answer(q) /\ openCards' # openCards
      BY <1>2 DEF ResolveCloses
    <3>2. answered' = answered
      BY <2>2, <3>1
    <3>3. \A p : Posted(p)' <=> Posted(p)
      BY <1>a DEF Posted
    <3>4. \A n \in Cards : Unasked(n)' <=> Unasked(n)
      BY <1>a, <2>0 DEF Unasked
    <3>5. \A i : Due(i)' => Due(i)
      <4>1. \A p : engine # [step |-> "resolving", with |-> p]
        BY <2>0
      <4> QED BY <1>a, <3>2, <4>1 DEF Due
    <3>6. UnansweredReadsOpen'
      BY <1>a, <2>2, <3>5, DueOpen DEF CardInv, UnansweredReadsOpen, Due, CardOf
    <3> QED BY <1>a, <2>0, <2>2, <3>2, <3>3, <3>4, <3>6 DEF CardInv, ResolvedFirstStaysShut
  <2> QED BY <2>1, <2>2
<1>3. CASE ResolveRemembers
  <2> DEFINE q == engine.with
  <2>1. /\ engine.step = "resolving" /\ q \in Questions /\ Answer(q) /\ resolved' = resolved \cup {q}
        /\ UNCHANGED <<made, replies, openCards>> /\ engine'.step = "free"
    BY <1>3 DEF ResolveRemembers, TypeInv, Hands
  <2>2. answered'[q] # "no" /\ \A p \in Questions : p # q => answered'[p] = answered[p]
    BY <1>b, <2>1 DEF Answer
  <2>3. UnansweredReadsOpen'
    <3>1. ASSUME NEW i \in DOMAIN conversation, Due(i)'
          PROVE  CardOf(i)' \in openCards'
      <4>1. QuestionOf[conversation[i].reply] \in Questions
        BY <1>a, <3>1, RowAsks DEF Due
      <4>2. QuestionOf[conversation[i].reply] # q
        BY <1>a, <2>2, <3>1 DEF Due
      <4>3. engine # [step |-> "resolving", with |-> QuestionOf[conversation[i].reply]]
        BY <4>2
      <4>4. Due(i)
        BY <1>a, <2>2, <3>1, <4>1, <4>2, <4>3 DEF Due
      <4> QED BY <1>a, <2>1, <4>4, DueOpen DEF CardInv, CardOf
    <3> QED BY <1>a, <3>1 DEF UnansweredReadsOpen, Due, CardOf
  <2> HIDE DEF q
  <2> QED BY <1>a, <2>1, <2>3, AnswerKeepsCards DEF CardInv
<1>4. CASE (\E id \in Ids : ConsumeOwes(id)) \/ ConsumeSends \/ Close \/ End
  <2>1. /\ UNCHANGED <<openCards, resolved, made, replies, answered>>
        /\ engine' = engine \/ engine.step # "resolving"
    BY <1>4 DEF ConsumeOwes, ConsumeSends, Close, End, Free, shared, thread
  <2>2. \A p : engine # [step |-> "resolving", with |-> p] \/ engine' = engine
    BY <2>1
  <2>3. /\ \A p : Posted(p)' <=> Posted(p)
        /\ \A n \in Cards : Unasked(n)' <=> Unasked(n)
        /\ \A i : Due(i)' => Due(i)
    BY <1>a, <2>1, <2>2 DEF Posted, Unasked, Due
  <2>4. UnansweredReadsOpen'
    BY <1>a, <2>1, <2>3, DueOpen DEF CardInv, UnansweredReadsOpen, Due, CardOf
  <2> QED BY <1>a, <2>1, <2>3, <2>4 DEF CardInv, ResolvedFirstStaysShut
<1> QED BY <1>1, <1>2, <1>3, <1>4 DEF EngineStep

LEMMA CardSpeaker ==
  ASSUME TypeInv, OrderInv, CardInv, SpeakerStep
  PROVE  CardInv'
<1>a. UNCHANGED <<engine, answered, made>>
  BY DEF SpeakerStep, SpeakerTakes, SpeakerLeaves, ReplyLands, ReplyFails, ReplyRefused, ReplyRetries, CardAsks,
         CardOpens, thread
<1>b. /\ speaker \in [at : {"next", "call", "wait", "posted", "opening", "done", "absent"},
                      reply : ReplyIds \cup {0}, tries : 0..Ladder, row : Nat]
      /\ openCards \subseteq [row : Nat, question : Questions] /\ resolved \subseteq Questions
      /\ conversation \in Seq(RowType)
  BY DEF TypeInv, TypeOK
<1>c. Resting.at = "next" /\ Resting.reply = 0 /\ Resting.row = 0 /\ \A n \in Cards : n # 0
  BY OutboxAssumption DEF Resting, Cards, ReplyIds
<1>1. CASE SpeakerTakes
  <2>1. /\ UNCHANGED <<openCards, resolved, conversation>> /\ replies \in Seq(ReplyIds) /\ replies # <<>>
        /\ speaker' = [Resting EXCEPT !.at = "call", !.reply = Head(replies)] /\ replies' = Tail(replies)
        /\ speaker.at = "next"
    BY <1>1 DEF SpeakerTakes, shared, server, TypeInv, TypeOK
  <2>2. speaker'.at = "call" /\ speaker'.reply = Head(replies) /\ speaker'.row = 0 /\ speaker.row = 0
    BY <2>1 DEF Resting, TypeInv, Hands
  <2>3. /\ Head(replies) = replies[1] /\ 1 \in DOMAIN replies
        /\ \A i \in DOMAIN Tail(replies) : i + 1 \in DOMAIN replies /\ Tail(replies)[i] = replies[i + 1]
    BY <2>1, HeadTailProperties
  <2>4. \A n \in Cards : Unasked(n)' => Unasked(n)
    BY <1>a, <2>1, <2>2, <2>3 DEF Unasked, Range
  <2>5. (\A p : Posted(p)' <=> Posted(p)) /\ UnansweredReadsOpen'
    BY <1>a, <2>1, <2>2 DEF Posted, UnansweredReadsOpen, CardInv
  <2> QED BY <1>a, <2>1, <2>2, <2>4, <2>5 DEF CardInv, ResolvedFirstStaysShut
<1>2. CASE ReplyLands \/ ReplyFails
  <2>1. /\ speaker.at = "call" /\ speaker.row = 0 /\ speaker.reply \in ReplyIds
        /\ UNCHANGED <<openCards, resolved, replies>>
    BY <1>2 DEF ReplyLands, ReplyFails, shared, TypeInv, Hands
  <2>2. \/ speaker' = Resting
        \/ speaker' = [speaker EXCEPT !.at = "posted", !.row = Len(conversation) + 1]
        \/ speaker' = [speaker EXCEPT !.at = "wait", !.tries = speaker.tries + 1]
    BY <1>2 DEF ReplyLands, ReplyFails, AfterReplyFailure
  <2>3. speaker'.at # "opening" /\ (speaker'.reply = speaker.reply \/ speaker'.reply = 0)
    <3>1. \/ speaker'.at = "next" /\ speaker'.reply = 0
          \/ speaker'.at \in {"posted", "wait"} /\ speaker'.reply = speaker.reply
      BY <1>b, <1>c, <2>2
    <3> QED BY <3>1
  <2>4. \A n \in Cards : Unasked(n)' => Unasked(n)
    BY <1>a, <1>c, <2>1, <2>3 DEF Unasked
  <2>5. conversation' = conversation \/ \E row \in RowType : conversation' = Append(conversation, row)
    BY <1>2, <2>1 DEF ReplyLands, ReplyFails, ToldRow, UntoldRow, RowType
  <2>6. \A c \in openCards' : Posted(c.question)'
    BY <1>b, <2>1, <2>5, PostedStays DEF CardInv
  <2>7. UnansweredReadsOpen'
    <3>1. ASSUME NEW i \in DOMAIN conversation, Due(i)'
          PROVE  CardOf(i)' \in openCards'
      <4>1. conversation'[i] = conversation[i] /\ i # 0
        BY <1>b, <2>5, PostedStays
      <4>2. Due(i)
        BY <1>a, <2>1, <3>1, <4>1 DEF Due
      <4> QED BY <2>1, <4>1, <4>2, DueOpen DEF CardInv, CardOf
    <3>2. ASSUME NEW i \in DOMAIN conversation', i \notin DOMAIN conversation
          PROVE  ~Due(i)'
      <4>1. CASE conversation' = conversation
        BY <3>2, <4>1
      <4>2. ASSUME NEW row \in RowType, conversation' = Append(conversation, row)
            PROVE  i = Len(conversation) + 1 /\ conversation'[i] = row
        <5>1. /\ DOMAIN conversation' = 1..Len(conversation) + 1 /\ DOMAIN conversation = 1..Len(conversation)
              /\ Len(conversation) \in Nat /\ conversation'[Len(conversation) + 1] = row
          BY <1>b, <4>2, AppendProperties
        <5>2. i = Len(conversation) + 1
          BY <3>2, <5>1
        <5> QED BY <5>1, <5>2
      <4>3. CASE ReplyFails /\ conversation' # conversation
        <5>1. UntoldRow \in RowType /\ conversation' = Append(conversation, UntoldRow) /\ UntoldRow.told = FALSE
          BY <2>1, <4>3 DEF ReplyFails, UntoldRow, RowType
        <5>2. conversation'[i] = UntoldRow
          BY <4>2, <5>1
        <5> QED BY <5>1, <5>2 DEF Due
      <4>4. CASE ReplyLands
        <5>1. ToldRow \in RowType /\ conversation' = Append(conversation, ToldRow) /\ ToldRow.reply = speaker.reply
          BY <2>1, <4>4 DEF ReplyLands, ToldRow, RowType
        <5>2. i = Len(conversation) + 1 /\ conversation'[i].reply = speaker.reply
          BY <4>2, <5>1
        <5>3. CASE speaker.reply \in Cards
          <6>1. speaker' = [speaker EXCEPT !.at = "posted", !.row = Len(conversation) + 1]
            BY <4>4, <5>3 DEF ReplyLands
          <6>2. speaker'.row = Len(conversation) + 1
            BY <1>b, <6>1
          <6> QED BY <5>2, <6>2 DEF Due
        <5>4. CASE speaker.reply \notin Cards
          <6>1. QuestionOf[conversation'[i].reply] = NoCard
            BY <2>1, <5>2, <5>4 DEF Cards
          <6> QED BY <6>1 DEF Due
        <5> QED BY <5>3, <5>4
      <4> QED BY <1>2, <4>1, <4>3, <4>4
    <3> QED BY <3>1, <3>2 DEF UnansweredReadsOpen, Due, CardOf
  <2> QED BY <1>a, <2>1, <2>3, <2>4, <2>6, <2>7 DEF CardInv, ResolvedFirstStaysShut
<1>3. CASE CardAsks
  <2> DEFINE q == QuestionOf[speaker.reply]
  <2>1. /\ speaker.at = "posted" /\ speaker.reply \in Cards /\ q \in Questions
        /\ UNCHANGED <<openCards, conversation, replies>> /\ resolved' = resolved \ {q}
        /\ speaker' = IF q \in resolved THEN Resting ELSE [speaker EXCEPT !.at = "opening"]
    BY <1>3, QuestionsOfCards DEF CardAsks, server, TypeInv, Hands
  <2>2. \A n \in Cards : Unasked(n)' => n # speaker.reply
    <3>1. speaker.reply \notin Range(replies) /\ ~(speaker.reply > made)
      BY OrderNumbers DEF OrderInv, Range
    <3>2. speaker'.reply = 0 \/ speaker'.at = "opening"
      BY <1>b, <1>c, <2>1
    <3> QED BY <1>a, <1>c, <2>1, <3>1, <3>2 DEF Unasked
  <2>3. ASSUME NEW n \in Cards, Unasked(n)', answered'[QuestionOf[n]] = "before"
        PROVE  QuestionOf[n] \in resolved'
    <3>1. n # speaker.reply /\ QuestionOf[n] # q
      <4>1. n # speaker.reply
        BY <2>2, <2>3
      <4> QED BY <2>1, <4>1, OutboxAssumption
    <3>2. speaker'.reply = n => FALSE
      BY <1>b, <1>c, <2>1, <3>1
    <3>3. Unasked(n)
      BY <1>a, <2>1, <2>3, <3>2 DEF Unasked
    <3> QED BY <1>a, <2>1, <2>3, <3>1, <3>3 DEF CardInv
  <2>4. speaker'.at = "opening" => answered'[QuestionOf[speaker'.reply]] # "before"
    <3>1. CASE q \in resolved
      BY <1>c, <2>1, <3>1
    <3>2. CASE q \notin resolved
      <4>1. answered[q] # "before"
        BY <2>1, <3>2 DEF CardInv, Unasked
      <4>2. speaker'.reply = speaker.reply
        BY <1>b, <2>1, <3>2
      <4> QED BY <1>a, <4>1, <4>2
    <3> QED BY <3>1, <3>2
  <2>5. UnansweredReadsOpen'
    <3>1. CASE q \in resolved
      <4>1. ASSUME NEW i \in DOMAIN conversation, Due(i)'
            PROVE  CardOf(i)' \in openCards'
        <5>1. i # speaker.row
          <6>1. answered[q] # "no"
            BY <3>1 DEF CardInv
          <6>2. i = speaker.row => QuestionOf[conversation[i].reply] = q
            BY <2>1 DEF TypeInv, Hands
          <6> QED BY <1>a, <2>1, <4>1, <6>1, <6>2 DEF Due
        <5>2. Due(i)
          BY <1>a, <2>1, <4>1, <5>1 DEF Due
        <5> QED BY <2>1, <5>2, DueOpen DEF CardInv, CardOf
      <4> QED BY <2>1, <4>1 DEF UnansweredReadsOpen, Due, CardOf
    <3>2. CASE q \notin resolved
      <4>1. speaker'.row = speaker.row
        BY <1>b, <2>1, <3>2
      <4> QED BY <1>a, <2>1, <4>1 DEF CardInv, UnansweredReadsOpen
    <3> QED BY <3>1, <3>2
  <2>6. \A p : Posted(p)' <=> Posted(p)
    BY <2>1 DEF Posted
  <2> HIDE DEF q
  <2> QED BY <1>a, <2>1, <2>3, <2>4, <2>5, <2>6 DEF CardInv, ResolvedFirstStaysShut
<1>4. CASE CardOpens
  <2> DEFINE q == QuestionOf[speaker.reply]
             card == [row |-> speaker.row, question |-> q]
  <2>1. /\ speaker.at = "opening" /\ speaker.reply \in Cards /\ q \in Questions /\ Posted(q)
        /\ UNCHANGED <<resolved, conversation, replies>> /\ speaker' = Resting
        /\ openCards' = openCards \cup {card}
    BY <1>4, QuestionsOfCards, OpeningPosted DEF CardOpens, server, TypeInv, Hands
  <2>2. \A n \in Cards : Unasked(n)' => Unasked(n)
    BY <1>a, <1>c, <2>1 DEF Unasked
  <2>3. \A p : Posted(p)' <=> Posted(p)
    BY <2>1 DEF Posted
  <2>4. UnansweredReadsOpen'
    <3>1. ASSUME NEW i \in DOMAIN conversation, Due(i)'
          PROVE  CardOf(i)' \in openCards'
      <4>1. CASE i = speaker.row
        <5>1. CardOf(i) = card
          BY <2>1, <4>1 DEF CardOf, TypeInv, Hands
        <5> QED BY <2>1, <5>1 DEF CardOf
      <4>2. CASE i # speaker.row
        <5>1. Due(i)
          BY <1>a, <2>1, <3>1, <4>2 DEF Due
        <5> QED BY <2>1, <5>1, DueOpen DEF CardInv, CardOf
      <4> QED BY <4>1, <4>2
    <3> QED BY <2>1, <3>1 DEF UnansweredReadsOpen, Due, CardOf
  <2>5. ResolvedFirstStaysShut'
    <3>1. answered[q] # "before"
      BY <2>1 DEF CardInv
    <3> QED BY <1>a, <2>1, <3>1 DEF CardInv, ResolvedFirstStaysShut
  <2> QED BY <1>a, <1>c, <2>1, <2>2, <2>3, <2>4, <2>5 DEF CardInv
<1>5. CASE SpeakerLeaves \/ ReplyRefused \/ ReplyRetries
  <2>1. /\ UNCHANGED <<openCards, resolved, replies, conversation>>
        /\ speaker.at \in {"next", "call", "wait"} /\ speaker.row = 0
    BY <1>5 DEF SpeakerLeaves, ReplyRefused, ReplyRetries, shared, server, TypeInv, Hands
  <2>2. speaker'.at # "opening" /\ speaker'.row = 0 /\ speaker'.reply \in {0, speaker.reply}
    BY <1>5, <1>b, <1>c, <2>1 DEF SpeakerLeaves, ReplyRefused, ReplyRetries
  <2>3. \A n \in Cards : Unasked(n)' => Unasked(n)
    BY <1>a, <1>c, <2>1, <2>2 DEF Unasked
  <2>4. (\A p : Posted(p)' <=> Posted(p)) /\ UnansweredReadsOpen'
    BY <1>a, <2>1, <2>2 DEF Posted, UnansweredReadsOpen, CardInv
  <2> QED BY <1>a, <2>1, <2>2, <2>3, <2>4 DEF CardInv, ResolvedFirstStaysShut
<1> QED BY <1>1, <1>2, <1>3, <1>4, <1>5 DEF SpeakerStep

LEMMA CardStep ==
  ASSUME TypeInv, OrderInv, CardInv, [Next]_vars
  PROVE  CardInv'
<1>1. CASE TakerStep \/ UNCHANGED vars
  <2>1. UNCHANGED <<openCards, resolved, replies, speaker, engine, made, answered, conversation>>
    BY <1>1 DEF TakerStep, TakerTakes, TakerLeaves, ConsumeLands, ConsumeFails, ConsumeRefused, ConsumeRetries,
                Settle, vars, shared, thread, server
  <2>2. (\A p : Posted(p)' <=> Posted(p)) /\ (\A n \in Cards : Unasked(n)' <=> Unasked(n)) /\ UnansweredReadsOpen'
    BY <2>1 DEF Posted, Unasked, UnansweredReadsOpen, CardInv
  <2> QED BY <2>1, <2>2 DEF CardInv, ResolvedFirstStaysShut
<1> QED BY <1>1, CardEngine, CardSpeaker DEF Next

LEMMA CardsAreSound == Spec => [](TypeInv /\ OrderInv /\ CardInv)
<1>1. TypeInv /\ OrderInv /\ CardInv /\ [Next]_vars => (TypeInv /\ OrderInv /\ CardInv)'
  BY TypeStep, OrderStep, CardStep
<1> QED BY TypeInit, OrderInit, CardInit, <1>1, PTL DEF Spec

\* A card whose question was resolved before its post landed never opens, in every interleaving
\* of the worker's two locks and the resolver's two.
THEOREM ResolvedFirst == Spec => []ResolvedFirstStaysShut
<1>1. CardInv => ResolvedFirstStaysShut
  BY DEF CardInv
<1> QED BY <1>1, CardsAreSound, PTL

\* The posted card of a question nobody answered is in the map that answers are looked up in.
THEOREM Unanswered == Spec => []UnansweredReadsOpen
<1>1. CardInv => UnansweredReadsOpen
  BY DEF CardInv
<1> QED BY <1>1, CardsAreSound, PTL

-----------------------------------------------------------------------------
(* Where an id is between the engine's call and its booking: sent, queued, in the worker's
   batch or settled, and owed wherever it is. What settles is therefore owed, and taking it off
   the debt takes off nothing that is still on its way. *)

FlightInv ==
  /\ unconsumed \subseteq handed
  /\ Range(taker.batch) \subseteq unconsumed
  /\ taker.settled \subseteq unconsumed
  /\ Range(consumes) \subseteq unconsumed
  /\ Range(consumes) \cap (Range(taker.batch) \cup taker.settled) = {}
  /\ engine.step = "sending" =>
       /\ engine.with \in unconsumed
       /\ engine.with \notin Range(consumes) \cup Range(taker.batch) \cup taker.settled

LEMMA EmptyRange ==
  ASSUME NEW s, s = <<>>
  PROVE  Range(s) = {}
  BY DEF Range

LEMMA RangeAppended ==
  ASSUME NEW S, NEW s \in Seq(S), NEW x \in S
  PROVE  Range(Append(s, x)) = Range(s) \cup {x}
<1>1. /\ DOMAIN Append(s, x) = 1..Len(s) + 1 /\ DOMAIN s = 1..Len(s) /\ Len(s) \in Nat
      /\ \A i \in 1..Len(s) : Append(s, x)[i] = s[i]
      /\ Append(s, x)[Len(s) + 1] = x
  BY AppendProperties
<1>2. Range(s) \cup {x} \subseteq Range(Append(s, x))
  <2>1. Len(s) + 1 \in 1..Len(s) + 1 /\ 1..Len(s) \subseteq 1..Len(s) + 1
    BY <1>1
  <2> QED BY <1>1, <2>1 DEF Range
<1>3. Range(Append(s, x)) \subseteq Range(s) \cup {x}
  <2>1. ASSUME NEW i \in 1..Len(s) + 1 PROVE i \in 1..Len(s) \/ i = Len(s) + 1
    BY <1>1
  <2> QED BY <1>1, <2>1 DEF Range
<1> QED BY <1>2, <1>3

LEMMA RangeOfTail ==
  ASSUME NEW S, NEW s \in Seq(S), s # <<>>
  PROVE  Range(Tail(s)) \subseteq Range(s)
<1>1. /\ Len(s) \in Nat /\ DOMAIN s = 1..Len(s)
      /\ Tail(s) \in Seq(S) /\ DOMAIN Tail(s) = 1..Len(s) - 1
      /\ \A i \in DOMAIN Tail(s) : i + 1 \in DOMAIN s /\ Tail(s)[i] = s[i + 1]
  BY HeadTailProperties
<1> QED BY <1>1 DEF Range

LEMMA FlightInit == Init => FlightInv
<1> SUFFICES ASSUME Init PROVE FlightInv
  OBVIOUS
<1>1. taker.batch = <<>> /\ taker.settled = {}
  <2>1. Waiting.batch = <<>> /\ Waiting.settled = {}
    BY DEF Waiting
  <2>2. [Waiting EXCEPT !.at = "absent"].batch = <<>> /\ [Waiting EXCEPT !.at = "absent"].settled = {}
    BY DEF Waiting
  <2> QED BY <2>1, <2>2 DEF Init
<1>2. consumes = <<>> /\ engine.step = "free" /\ unconsumed = {} /\ handed = {}
  BY DEF Init
<1> QED BY <1>1, <1>2, EmptyRange DEF FlightInv

LEMMA FlightStep ==
  ASSUME TypeInv, FlightInv, [Next]_vars
  PROVE  FlightInv'
<1>a. /\ consumes \in Seq(Ids) /\ taker.batch \in Seq(Ids)
  BY DEF TypeInv, TypeOK
<1>1. ASSUME NEW id \in Ids, ConsumeOwes(id)
      PROVE  FlightInv'
  <2>1. /\ unconsumed' = unconsumed \cup {id} /\ handed' = handed \cup {id} /\ id \notin handed
        /\ engine' = [step |-> "sending", with |-> id] /\ UNCHANGED <<consumes, taker>>
    BY <1>1 DEF ConsumeOwes
  <2>2. engine'.with = id
    BY <2>1
  <2> QED BY <2>1, <2>2 DEF FlightInv
<1>2. CASE ConsumeSends
  <2>1. /\ engine.step = "sending" /\ engine.with \in Ids /\ engine'.step = "free"
        /\ UNCHANGED <<unconsumed, handed, taker>>
        /\ consumes' = consumes \/ consumes' = Append(consumes, engine.with)
    BY <1>2 DEF ConsumeSends, shared, TypeInv, Hands
  <2>2. Range(consumes') \subseteq Range(consumes) \cup {engine.with}
    <3>1. Range(Append(consumes, engine.with)) = Range(consumes) \cup {engine.with}
      BY <1>a, <2>1, RangeAppended
    <3> QED BY <2>1, <3>1
  <2> QED BY <2>1, <2>2 DEF FlightInv
<1>3. CASE TakerTakes
  <2>1. /\ taker'.batch = consumes /\ taker'.settled = {} /\ consumes' = <<>>
        /\ UNCHANGED <<unconsumed, handed, engine>>
    BY <1>3 DEF TakerTakes, Waiting, shared, thread
  <2> QED BY <2>1, EmptyRange DEF FlightInv
<1>4. CASE ConsumeLands \/ ConsumeFails \/ ConsumeRefused
  <2>1. UNCHANGED <<unconsumed, handed, engine, consumes>>
    BY <1>4 DEF ConsumeLands, ConsumeFails, ConsumeRefused, shared, thread
  <2>2. taker.at = "call" /\ taker.batch # <<>>
    BY <1>4, AnswerBooked DEF TypeInv, Hands
  <2>3. ASSUME NEW ids \in SUBSET Range(Sent), taker' = Over(ids)
        PROVE  /\ taker'.settled \subseteq taker.settled \cup Range(taker.batch)
               /\ Range(taker'.batch) \subseteq Range(taker.batch)
    <3>1. ids \in SUBSET Ids /\ ids \subseteq Range(taker.batch)
      BY <2>2, SentInBatch, RangeOfSeq DEF Range
    <3>2. taker'.settled = taker.settled \cup ids /\ taker'.batch \in {<<>>, Tail(taker.batch)}
      BY <2>2, <2>3, <3>1, OverMoves
    <3> QED BY <1>a, <2>2, <3>1, <3>2, EmptyRange, RangeOfTail
  <2>4. /\ taker'.settled \subseteq taker.settled \cup Range(taker.batch)
        /\ Range(taker'.batch) \subseteq Range(taker.batch)
    BY <1>4, <2>3, AnswerBooked
  <2> QED BY <2>1, <2>4 DEF FlightInv
<1>5. CASE TakerLeaves \/ ConsumeRetries
  <2>1. /\ taker'.batch = taker.batch /\ taker'.settled = taker.settled
        /\ UNCHANGED <<unconsumed, handed, engine, consumes>>
    BY <1>5 DEF TakerLeaves, ConsumeRetries, shared, thread, TypeInv, TypeOK
  <2> QED BY <2>1 DEF FlightInv
<1>6. CASE Settle
  <2>1. /\ taker.at = "settle" /\ unconsumed' = unconsumed \ taker.settled
        /\ taker'.batch = <<>> /\ taker'.settled = {} /\ UNCHANGED <<handed, engine, consumes>>
    BY <1>6 DEF Settle, Waiting, thread
  <2> QED BY <2>1, EmptyRange DEF FlightInv
<1>7. CASE (\E q \in Questions : ResolveCloses(q)) \/ ResolveRemembers \/ End
  <2>1. engine'.step # "sending" \/ engine' = engine
    BY <1>7 DEF ResolveCloses, ResolveRemembers, End
  <2>2. UNCHANGED <<unconsumed, handed, consumes, taker>>
    BY <1>7 DEF ResolveCloses, ResolveRemembers, End, shared, thread
  <2> QED BY <2>1, <2>2 DEF FlightInv
<1>8. CASE UNCHANGED <<unconsumed, handed, engine, consumes, taker>>
  BY <1>8 DEF FlightInv
<1>9. Post \/ Close \/ SpeakerStep \/ UNCHANGED vars =>
        UNCHANGED <<unconsumed, handed, engine, consumes, taker>>
  BY DEF Post, Close, SpeakerStep, SpeakerTakes, SpeakerLeaves, ReplyLands, ReplyFails, ReplyRefused, ReplyRetries,
         CardAsks, CardOpens, vars, shared, thread
<1> QED BY <1>1, <1>2, <1>3, <1>4, <1>5, <1>6, <1>7, <1>8, <1>9 DEF Next, EngineStep, TakerStep

-----------------------------------------------------------------------------
(* The refinement. *)

Said == [i \in DOMAIN conversation |-> conversation[i].reply]

\* The rows the mapping shows, as a row lands.
LEMMA SaidMore ==
  ASSUME TypeInv, NEW row \in RowType, conversation' = Append(conversation, row)
  PROVE  Said' = Append(Said, row.reply)
<1>1. conversation \in Seq(RowType)
  BY DEF TypeInv, TypeOK
<1>2. /\ Len(conversation) \in Nat /\ DOMAIN conversation = 1..Len(conversation)
      /\ DOMAIN conversation' = 1..Len(conversation) + 1
      /\ \A i \in 1..Len(conversation) : conversation'[i] = conversation[i]
      /\ conversation'[Len(conversation) + 1] = row
  BY <1>1, AppendProperties
<1>3. \A i \in DOMAIN conversation : conversation[i] \in RowType
  BY <1>1
<1>4. Said \in Seq(ReplyIds) /\ Len(Said) = Len(conversation) /\ row.reply \in ReplyIds
  BY <1>2, <1>3 DEF Said, RowType
<1>5. Append(Said, row.reply) = [i \in 1..Len(conversation) + 1 |->
                                 IF i <= Len(conversation) THEN Said[i] ELSE row.reply]
  BY <1>2, <1>4
<1>6. \A i \in 1..Len(conversation) + 1 :
        conversation'[i].reply = IF i <= Len(conversation) THEN Said[i] ELSE row.reply
  BY <1>2 DEF Said
<1> QED BY <1>2, <1>5, <1>6 DEF Said

Inv == TypeInv /\ OrderInv /\ DebtInv /\ FlightInv

LEMMA PromiseInit == Init => Promise!Init
<1> SUFFICES ASSUME Init PROVE Promise!Init
  OBVIOUS
<1>1. /\ conversation = <<>> /\ unconsumed = {} /\ consumed = {} /\ refused = {} /\ owed = {}
      /\ engine.step = "free"
  BY DEF Init
<1>2. [i \in DOMAIN conversation |-> conversation[i].reply] = <<>>
  BY <1>1
<1> QED BY <1>1, <1>2 DEF Promise!Init

LEMMA PromiseStep ==
  ASSUME Inv, [Next]_vars
  PROVE  [Promise!Next]_(Promise!promiseVars)
<1> USE DEF Inv
<1> DEFINE Quiet == UNCHANGED <<conversation, unconsumed, consumed, refused, owed, engine.step = "ended">>
<1>q. ASSUME Quiet PROVE UNCHANGED Promise!promiseVars
  BY <1>q DEF Promise!promiseVars
<1>1. CASE ReplyLands \/ ReplyFails
  <2>1. UNCHANGED <<unconsumed, consumed, refused, owed, engine>> /\ speaker.at = "call"
    BY <1>1 DEF ReplyLands, ReplyFails, shared, thread
  <2>2. CASE conversation' = conversation
    BY <1>q, <2>1, <2>2
  <2>3. CASE \E row \in RowType : row.reply = speaker.reply /\ conversation' = Append(conversation, row)
    <3>1. PICK row \in RowType : row.reply = speaker.reply /\ conversation' = Append(conversation, row)
      BY <2>3
    <3>2. Said' = Append(Said, row.reply) /\ row.reply \in ReplyIds
      BY <3>1, SaidMore DEF RowType
    <3>3. \A i \in DOMAIN Said : Said[i] <= row.reply
      <4>1. speaker.reply # 0
        BY <3>1, <3>2, OutboxAssumption DEF ReplyIds
      <4> QED BY <3>1, <4>1 DEF OrderInv, Said
    <3>4. Promise!Say(row.reply)
      BY <2>1, <3>2, <3>3 DEF Promise!Say, Said
    <3> QED BY <3>2, <3>4 DEF Promise!Next
  <2>4. conversation' = conversation \/ \E row \in RowType : row.reply = speaker.reply /\ conversation' = Append(conversation, row)
    <3>1. speaker.reply \in ReplyIds
      BY <2>1 DEF TypeInv, Hands
    <3> QED BY <1>1, <3>1 DEF ReplyLands, ReplyFails, ToldRow, UntoldRow, RowType
  <2> QED BY <2>2, <2>3, <2>4
<1>2. ASSUME NEW id \in Ids, ConsumeOwes(id)
      PROVE  Promise!Next
  <2>1. /\ unconsumed' = unconsumed \cup {id} /\ engine.step = "free" /\ engine'.step = "sending"
        /\ UNCHANGED <<conversation, consumed, refused, owed>>
    BY <1>2 DEF ConsumeOwes, Free, server
  <2>2. Promise!Hand(id)
    BY <2>1 DEF Promise!Hand
  <2> QED BY <2>2 DEF Promise!Next
<1>3. CASE ConsumeLands \/ ConsumeFails \/ ConsumeRefused
  <2> DEFINE taken == consumed' \ consumed
             sentBack == refused' \ refused
  <2>1. UNCHANGED <<conversation, unconsumed, owed, engine>>
    BY <1>3 DEF ConsumeLands, ConsumeFails, ConsumeRefused, shared, thread
  <2>2. taken \cup sentBack \subseteq unconsumed
    <3>1. taker.at = "call" /\ taken \cup sentBack \subseteq Range(Sent)
      BY <1>3, AnswerBooked
    <3> QED BY <3>1, SentInBatch DEF FlightInv
  <2>3. consumed' = consumed \cup taken /\ refused' = refused \cup sentBack
    BY <1>3, AnswerBooked
  <2>4. Promise!Answered(taken, sentBack)
    BY <2>1, <2>2, <2>3 DEF Promise!Answered
  <2> QED BY <2>2, <2>4 DEF Promise!Next
<1>4. CASE Settle
  <2>1. unconsumed' = unconsumed \ taker.settled /\ UNCHANGED <<conversation, consumed, refused, owed, engine>>
    BY <1>4 DEF Settle, thread, server
  <2>2. Promise!Settled(taker.settled)
    BY <2>1 DEF Promise!Settled, DebtInv
  <2> QED BY <2>2 DEF Promise!Next, FlightInv
<1>5. CASE End
  <2>1. /\ engine.step = "free" /\ engine'.step = "ended" /\ owed' = unconsumed
        /\ UNCHANGED <<conversation, unconsumed, consumed, refused>>
    BY <1>5 DEF End, shared, server
  <2>2. Promise!Park
    BY <2>1 DEF Promise!Park
  <2> QED BY <2>2 DEF Promise!Next
<1>6. CASE \/ Post \/ Close \/ SpeakerTakes \/ SpeakerLeaves \/ ReplyRefused \/ ReplyRetries \/ CardAsks \/ CardOpens
           \/ TakerTakes \/ TakerLeaves \/ ConsumeRetries \/ UNCHANGED vars
  <2>1. Quiet
    BY <1>6 DEF Post, Close, SpeakerTakes, SpeakerLeaves, ReplyRefused, ReplyRetries, CardAsks, CardOpens,
                TakerTakes, TakerLeaves, ConsumeRetries, vars, shared, thread, server
  <2> QED BY <1>q, <2>1
<1>7. CASE ConsumeSends \/ (\E q \in Questions : ResolveCloses(q)) \/ ResolveRemembers
  <2>1. engine.step # "ended" /\ engine'.step # "ended"
    BY <1>7 DEF ConsumeSends, ResolveCloses, ResolveRemembers, Free
  <2>2. UNCHANGED <<conversation, unconsumed, consumed, refused, owed>>
    BY <1>7 DEF ConsumeSends, ResolveCloses, ResolveRemembers, shared, server
  <2> QED BY <1>q, <2>1, <2>2
<1> QED BY <1>1, <1>2, <1>3, <1>4, <1>5, <1>6, <1>7 DEF Next, EngineStep, SpeakerStep, TakerStep

\* The threads, queues, retries and refusals keep the promise: rows in order, an id owed until the
\* server took it or refused it, and the end parks exactly the debt.
THEOREM OutboxKeepsPromise == Spec => KeepsPromise
<1>1. Init => Inv
  BY TypeInit, OrderInit, DebtInit, FlightInit DEF Inv
<1>2. Inv /\ [Next]_vars => Inv'
  BY TypeStep, OrderStep, DebtStep, FlightStep DEF Inv
<1> QED BY <1>1, <1>2, PromiseInit, PromiseStep, PTL DEF Spec, KeepsPromise

=============================================================================
