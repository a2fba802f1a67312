------------------------------ MODULE HubBusProofs ------------------------------
(***************************************************************************)
(* The messages of AgentHub, for all constants: what the bus may carry to  *)
(* whom, that an end is reported once and wakes who waits for it, and that *)
(* an agent's ticks never stack. A step edits the messages there are (read,*)
(* answered, nothing else) and posts a batch (StepPosts); the invariants   *)
(* read only what those two may do.                                        *)
(***************************************************************************)
EXTENDS HubLifeProofs, FiniteSetTheorems

\* What an edit leaves of a message: all but whether it is pending and answered.
Same(m, o) ==
  /\ m.to = o.to /\ m.from = o.from /\ m.author = o.author /\ m.body = o.body
  /\ m.card = o.card /\ m.sealed = o.sealed /\ m.at = o.at /\ m.n = o.n

\* The step edits every message by f and posts the batch.
Posting(f, batch) ==
  /\ \A o \in msgs : Same(f[o], o)
  /\ msgs' = {f[o] : o \in msgs} \cup batch
  /\ seq' = IF batch = {} THEN seq ELSE seq + 1

\* An edit that arms no message again.
Lowers(f) == \A o \in msgs : f[o].pending => o.pending

\* A new message of the step: numbered by it, between rows there are.
Addressed(m) == m.n = seq /\ m.to \in Rows' /\ m.from \in Rows' \cup {None}

\* It carries no content past a reader who may not see its origin.
Discreet(m) ==
  m.body \in {"reply", "ask", "report", "pr"} /\ m.from \notin {None, m.to}
    => ~AskHidden(m.to, m.from)'

\* A copy of a turn's text comes with the turn itself, as sealed as that.
CopiesTurn(m, batch) ==
  m.body = "reply" /\ m.from # None =>
    \E own \in batch : /\ own.to = m.from /\ own.from = None /\ own.n = m.n
                       /\ own.body = "reply" /\ own.sealed = m.sealed

\* A send's text into a keyed tree is sealed.
Keyed(m) == m.body = "text" /\ node'[node'[m.to].root].keyed => m.sealed

Honest(m, batch) == Addressed(m) /\ Discreet(m) /\ CopiesTurn(m, batch) /\ Keyed(m)

-----------------------------------------------------------------------------
\* The batches.

\* A message that is neither a send's text nor a turn's.
Notice(m) == Addressed(m) /\ Discreet(m) /\ m.body \notin {"text", "reply"}

LEMMA NoticeIsHonest ==
  ASSUME NEW m, NEW batch, Notice(m)
  PROVE  Honest(m, batch)
  BY DEF Notice, Honest, CopiesTurn, Keyed

LEMMA SystemCardNotice ==
  ASSUME NEW to \in Rows', NEW card
  PROVE  /\ Notice(SystemCard(to, card))
         /\ SystemCard(to, card).card = card
  BY DEF SystemCard, Message, Notice, Addressed, Discreet

LEMMA LineNotice ==
  ASSUME NEW to \in Rows', NEW from \in Rows' \cup {None}, NEW author, NEW card, NEW sealed, NEW pending,
         NEW body \in {"line", "private"}
  PROVE  Notice(Message(to, from, author, body, card, sealed, pending))
  BY DEF Message, Notice, Addressed, Discreet

\* A delivery hides its content from whom the origin is hidden.
LEMMA DeliverNotice ==
  ASSUME Inv, node' = node, NEW c \in Rows, NEW listeners \in SUBSET Rows, NEW author,
         NEW body \in {"line", "ask", "report", "pr"}, NEW hidden \in {"line", "private"},
         NEW card, NEW waking, NEW m \in Deliver(c, listeners, author, body, hidden, card, waking)
  PROVE  Notice(m) /\ m.card = card
<1>1. PICK l \in listeners :
        m = Message(l, c, author, IF AskHidden(l, c) THEN hidden ELSE body, card, FALSE,
                    waking /\ IsLive(l))
  BY DEF Deliver
<1>2. /\ m.to = l /\ m.from = c /\ m.n = seq /\ m.card = card
      /\ m.body = IF AskHidden(l, c) THEN hidden ELSE body
  BY <1>1 DEF Message
<1>3. Rows' = Rows /\ AskHidden(l, c)' = AskHidden(l, c)
  BY DEF Rows, AskHidden
<1>4. Discreet(m)
  BY <1>2, <1>3 DEF Discreet
<1> QED BY <1>2, <1>3, <1>4 DEF Notice, Addressed

Transitions ==
  {"pr_opened", "session_claimed", "session_unclaimed", "session_stuck", "session_interrupted",
   "session_blocked"}

LEMMA BusLineNotice ==
  ASSUME Inv, node' = node, NEW c \in Rows, NEW event \in Transitions, NEW m \in BusLine(c, event)
  PROVE  Notice(m) /\ m.card.kind = event
<1> DEFINE all    == BusListeners(c)
           heard  == {l \in all : event \in SilentEvents => l # Root(l) \/ ~IsAssistant(l)}
           body   == IF event = "pr_opened" THEN "pr" ELSE "line"
           hidden == IF event = "pr_opened" THEN "private" ELSE "line"
           waking == event # "session_claimed"
           own    == Message(c, None, "system", body, Card(event, c), FALSE, FALSE)
<1>1. heard \in SUBSET Rows
  BY ListenersTyped DEF Inv
<1>2. body \in {"line", "ask", "report", "pr"} /\ hidden \in {"line", "private"}
  OBVIOUS
<1>3. Card(event, c).kind = event
  BY DEF Card
<1>4. Notice(own) /\ own.card = Card(event, c)
  BY DEF Message, Notice, Addressed, Discreet, Rows
<1>5. ASSUME NEW x \in Deliver(c, heard, "system", body, hidden, Card(event, c), waking)
      PROVE  Notice(x) /\ x.card = Card(event, c)
  <2> HIDE DEF heard, body, hidden, waking
  <2> QED BY <1>1, <1>2, <1>5, DeliverNotice
<1>6. BusLine(c, event) = IF all = {} /\ waking THEN {own}
        ELSE Deliver(c, heard, "system", body, hidden, Card(event, c), waking)
  BY DEF BusLine
<1> HIDE DEF all, heard, body, hidden, waking, own
<1> QED BY <1>3, <1>4, <1>5, <1>6

LEMMA BusAskNotice ==
  ASSUME Inv, node' = node, NEW c \in Rows, NEW m \in BusAsk(c)
  PROVE  Notice(m) /\ m.card.kind = "ask"
<1>1. BusListeners(c) \in SUBSET Rows
  BY ListenersTyped DEF Inv
<1>2. m \in Deliver(c, BusListeners(c), "agent", "ask", "private", Card("ask", c), TRUE)
  BY DEF BusAsk
<1>3. Notice(m) /\ m.card = Card("ask", c)
  <2> DEFINE card == Card("ask", c)
             waking == TRUE
  <2>1. m \in Deliver(c, BusListeners(c), "agent", "ask", "private", card, waking)
    BY <1>2
  <2> HIDE DEF card, waking
  <2>2. Notice(m) /\ m.card = card
    BY <1>1, <2>1, DeliverNotice
  <2> QED BY <2>2 DEF card
<1> QED BY <1>3 DEF Card

\* The text of a turn goes to whom may read it, and is as sealed as the turn.
LEMMA RelayedHonest ==
  ASSUME Inv, node' = node, NEW c \in Rows, NEW sealed \in BOOLEAN, NEW copies, NEW card,
         NEW m \in BusRelayTurn(c, sealed, copies), NEW batch,
         Message(c, None, "agent", "reply", card, sealed, FALSE) \in batch
  PROVE  Honest(m, batch) /\ m.card = NoCard
<1>1. PICK l \in BusListeners(c) : m = RelayedTurn(c, l, sealed, copies)
  BY DEF BusRelayTurn
<1> DEFINE readable == ~AskHidden(l, c) /\ (sealed => Root(l) \in {Root(c)} \cup copies)
           own == Message(c, None, "agent", "reply", card, sealed, FALSE)
<1>2. /\ m.to = l /\ m.from = c /\ m.n = seq /\ m.card = NoCard
      /\ m.body = IF readable THEN "reply" ELSE "private"
      /\ m.sealed = (sealed /\ readable)
  BY <1>1 DEF RelayedTurn, Message
<1>3. l \in Rows /\ Rows' = Rows /\ AskHidden(l, c)' = AskHidden(l, c)
  BY ListenersTyped DEF Inv, Rows, AskHidden
<1>4. Addressed(m) /\ Keyed(m) /\ Discreet(m)
  BY <1>2, <1>3 DEF Addressed, Keyed, Discreet
<1>5. own.to = c /\ own.from = None /\ own.n = seq /\ own.body = "reply" /\ own.sealed = sealed
  BY DEF Message
<1>6. readable => m.sealed = sealed
  BY <1>2
<1>7. CopiesTurn(m, batch)
  <2>1. m.body = "reply" => readable
    BY <1>2
  <2> HIDE DEF readable
  <2> QED BY <1>2, <1>5, <1>6, <2>1 DEF CopiesTurn
<1> QED BY <1>2, <1>4, <1>7 DEF Honest

\* A send's text, into a tree that takes it.
LEMMA InputHonest ==
  ASSUME NEW to \in Rows', NEW text \in {"none", "plain", "sealed"}, NEW caller \in Rows' \cup {None},
         text = "plain" => ~node'[node'[to].root].keyed,
         NEW m \in Input(to, text, caller), NEW batch
  PROVE  Honest(m, batch) /\ m.card = NoCard
<1>1. text # "none" /\ m = Message(to, caller, IF caller = None THEN "user" ELSE "agent", "text",
                                   NoCard, text = "sealed", TRUE)
  BY DEF Input
<1>2. /\ m.to = to /\ m.from = caller /\ m.n = seq /\ m.card = NoCard /\ m.body = "text"
      /\ m.sealed = (text = "sealed")
  BY <1>1 DEF Message
<1>3. Keyed(m)
  BY <1>1, <1>2 DEF Keyed
<1> QED BY <1>2, <1>3 DEF Honest, Addressed, Discreet, CopiesTurn

-----------------------------------------------------------------------------
\* Edits and postings.

\* The step posts a batch of notices, or of honest messages, over an edit of what there is;
\* a report comes only of an end, and a tick, or a message armed again, only of a schedule.
Posts(f, batch) ==
  /\ Posting(f, batch)
  /\ \A m \in batch : Honest(m, batch)
  /\ Ending \/ \A m \in batch : m.card.kind # "report"
  /\ TriggerSchedule \/ (Lowers(f) /\ \A m \in batch : m.card.kind # "tick")

LEMMA SameIsSame ==
  ASSUME NEW m \in MessageType, NEW b
  PROVE  /\ Same(m, m)
         /\ Same([m EXCEPT !.pending = b], m) /\ [m EXCEPT !.pending = b].pending = b
         /\ Same([m EXCEPT !.answered = b], m) /\ [m EXCEPT !.answered = b].pending = m.pending
  BY DEF MessageType, Same

LEMMA UneditedPosts ==
  ASSUME msgs \subseteq MessageType, NEW batch,
         Post(msgs, batch) \/ (batch = {} /\ msgs' = msgs /\ seq' = seq)
  PROVE  \E f : Posting(f, batch) /\ Lowers(f)
<1> DEFINE f == [o \in msgs |-> o]
<1>1. \A o \in msgs : f[o] = o /\ Same(o, o)
  BY SameIsSame
<1>2. {f[o] : o \in msgs} = msgs
  <2> DEFINE image == {f[o] : o \in msgs}
  <2>1. \A x : x \in image <=> x \in msgs
    <3> HIDE DEF f
    <3> QED BY <1>1
  <2> HIDE DEF image
  <2> QED BY <2>1
<1>3. /\ msgs' = msgs \cup batch
      /\ seq' = IF batch = {} THEN seq ELSE seq + 1
  BY DEF Post
<1> HIDE DEF f
<1>4. Posting(f, batch) /\ Lowers(f)
  BY <1>1, <1>2, <1>3 DEF Posting, Lowers
<1> QED BY <1>4

LEMMA DeliveredPosts ==
  ASSUME msgs \subseteq MessageType, NEW ms, NEW batch,
         Post(Delivered(ms), batch) \/ (batch = {} /\ msgs' = Delivered(ms) /\ seq' = seq)
  PROVE  \E f : Posting(f, batch) /\ Lowers(f)
<1> DEFINE f == [o \in msgs |-> IF o \in ms THEN [o EXCEPT !.pending = FALSE] ELSE o]
<1>1. Delivered(ms) = {f[o] : o \in msgs}
  BY DEF Delivered
<1>2. ASSUME NEW o \in msgs PROVE Same(f[o], o) /\ (f[o].pending => o.pending)
  <2>1. f[o] \in {o, [o EXCEPT !.pending = FALSE]}
    OBVIOUS
  <2>2. Same(o, o) /\ Same([o EXCEPT !.pending = FALSE], o) /\ ~[o EXCEPT !.pending = FALSE].pending
    BY DEF Same, MessageType
  <2> HIDE DEF f
  <2> QED BY <2>1, <2>2
<1>3. /\ msgs' = Delivered(ms) \cup batch
      /\ seq' = IF batch = {} THEN seq ELSE seq + 1
  BY DEF Post
<1> HIDE DEF f
<1>4. Posting(f, batch) /\ Lowers(f)
  BY <1>1, <1>2, <1>3 DEF Posting, Lowers
<1> QED BY <1>4

\* A batch that nobody's end or schedule has to do with.
Ordinary(batch) ==
  \A m \in batch : Honest(m, batch) /\ m.card.kind \notin {"report", "tick"}

LEMMA OrdinaryPosts ==
  ASSUME NEW f, NEW batch, Posting(f, batch), Lowers(f), Ordinary(batch)
  PROVE  Posts(f, batch)
  BY DEF Posts, Ordinary

LEMMA UneditedOrdinary ==
  ASSUME Inv, NEW batch, Ordinary(batch),
         Post(msgs, batch) \/ (batch = {} /\ msgs' = msgs /\ seq' = seq)
  PROVE  \E f, b : Posts(f, b)
<1>1. PICK f : Posting(f, batch) /\ Lowers(f)
  BY Counters, UneditedPosts
<1> QED BY <1>1, OrdinaryPosts

LEMMA NothingPosted ==
  ASSUME Inv, msgs' = msgs, seq' = seq
  PROVE  \E f, b : Posts(f, b)
<1> DEFINE batch == {}
<1>1. Ordinary(batch)
  BY DEF Ordinary
<1>2. batch = {} /\ msgs' = msgs /\ seq' = seq
  OBVIOUS
<1> HIDE DEF batch
<1> QED BY <1>1, <1>2, UneditedOrdinary

\* The batch of a new session: its input, and a card where it was started.
LEMMA StartBatch ==
  ASSUME Inv, PlacesStand, NEW s \in Rows', NEW d \in SendData, NEW caller \in Rows \cup {None},
         d.text = "plain" => ~node'[node'[s].root].keyed,
         NEW cards, \A m \in cards : Notice(m) /\ m.card.kind \in {"thread_started", "session"}
  PROVE  Ordinary(Input(s, d.text, caller) \cup cards)
<1>1. d.text \in {"none", "plain", "sealed"} /\ caller \in Rows' \cup {None}
  BY DEF SendData, PlacesStand
<1> DEFINE batch == Input(s, d.text, caller) \cup cards
<1>2. ASSUME NEW m \in Input(s, d.text, caller) PROVE Honest(m, batch) /\ m.card = NoCard
  <2> HIDE DEF batch
  <2> QED BY <1>1, InputHonest
<1>3. ASSUME NEW m \in cards PROVE Honest(m, batch) /\ m.card.kind \in {"thread_started", "session"}
  <2> HIDE DEF batch
  <2> QED BY NoticeIsHonest
<1>4. NoCard.kind = "none"
  BY DEF NoCard, Card
<1>5. \A m \in batch : Honest(m, batch) /\ m.card.kind \notin {"report", "tick"}
  BY <1>2, <1>3, <1>4
<1> QED BY <1>5 DEF Ordinary

LEMMA InsertingPosts ==
  ASSUME Inv, PlacesStand, Inserting
  PROVE  \E f, b : Posts(f, b)
<1>1. PICK s \in FreshIds, d \in SendData, caller \in Rows \cup {None} :
        \/ StartRoot(s, d, caller)
        \/ \E p \in Rows : StartChild(s, p, d, caller)
        \/ \E t \in Rows : ContinueChild(s, t, d, caller)
  BY DEF Inserting
<1>2. ASSUME NEW place, NEW watchers, InsertSession(s, place, watchers)
      PROVE  s \in Rows' /\ node'[s] = place
  BY <1>2, InsertFacts
<1>3. \A x \in Rows : x \in Rows' /\ node'[x] = node[x] /\ Root(x) \in Rows
  BY RowTyped DEF Inv, PlacesStand
<1>4. CASE StartRoot(s, d, caller)
  <2> DEFINE agent  == IF caller = None THEN None ELSE TreeAgent(caller)
             device == Or(d.device, IF agent = None THEN None ELSE node[Root(caller)].device)
             team   == IF caller = None THEN d.team ELSE Or(d.team, node[caller].team)
             user   == IF caller = None THEN d.user ELSE Or(d.user, node[caller].user)
             place  == [parent |-> None, root |-> s, depth |-> 0, team |-> team, user |-> user,
                        shared |-> d.shared, agent |-> None, startedBy |-> agent, cont |-> None,
                        device |-> device, keyed |-> d.text = "sealed", created |-> clock]
             watch  == IF caller = None THEN {}
                       ELSE {w \in {caller} : MayWatch(w, team, d.shared, user)}
             thread == IF caller = None THEN {} ELSE {SystemCard(caller, Card("thread_started", s))}
  <2>1. InsertSession(s, place, watch) /\ Post(msgs, Input(s, d.text, caller) \cup thread)
    BY <1>4 DEF StartRoot
  <2>2. place.root = s /\ place.keyed = (d.text = "sealed")
    OBVIOUS
  <2>3. s \in Rows' /\ node'[s] = place
    <3> HIDE DEF place, watch
    <3> QED BY <1>2, <2>1
  <2>4. d.text = "plain" => ~node'[node'[s].root].keyed
    <3> HIDE DEF place
    <3> QED BY <2>2, <2>3
  <2>5. \A m \in thread : Notice(m) /\ m.card.kind \in {"thread_started", "session"}
    BY <1>3, SystemCardNotice DEF Card
  <2>6. Ordinary(Input(s, d.text, caller) \cup thread)
    <3> HIDE DEF thread, place
    <3> QED BY <2>3, <2>4, <2>5, StartBatch
  <2> HIDE DEF thread, place, watch
  <2> QED BY <2>1, <2>6, UneditedOrdinary
<1>5. ASSUME NEW p \in Rows, NEW place, InsertSession(s, place, {}), place.root = Root(p),
             TextAllowed(p, d.text),
             Post(msgs, Input(s, d.text, caller) \cup {SystemCard(p, Card("session", s))})
      PROVE  \E f, b : Posts(f, b)
  <2> DEFINE cards == {SystemCard(p, Card("session", s))}
  <2>1. s \in Rows' /\ node'[s] = place
    BY <1>2, <1>5
  <2>2. d.text = "plain" => ~node'[node'[s].root].keyed
    BY <1>3, <1>5, <2>1 DEF TextAllowed
  <2>3. \A m \in cards : Notice(m) /\ m.card.kind \in {"thread_started", "session"}
    BY <1>3, SystemCardNotice DEF Card
  <2> HIDE DEF cards
  <2>4. Ordinary(Input(s, d.text, caller) \cup cards)
    BY <2>1, <2>2, <2>3, StartBatch
  <2> QED BY <1>5, <2>4, UneditedOrdinary DEF cards
<1>6. ASSUME NEW p \in Rows, StartChild(s, p, d, caller) PROVE \E f, b : Posts(f, b)
  <2>1. PICK place : InsertSession(s, place, {}) /\ place.root = Root(p)
    BY <1>6 DEF StartChild, ChildPlace
  <2>2. /\ TextAllowed(p, d.text)
        /\ Post(msgs, Input(s, d.text, caller) \cup {SystemCard(p, Card("session", s))})
    BY <1>6 DEF StartChild
  <2> QED BY <1>5, <2>1, <2>2
<1>7. ASSUME NEW t \in Rows, ContinueChild(s, t, d, caller) PROVE \E f, b : Posts(f, b)
  <2> DEFINE p == node[t].parent
  <2>1. p \in Rows /\ Root(p) = Root(t)
    BY <1>7 DEF ContinueChild, Inv, TreesTyped, TreeShape
  <2>2. PICK place : InsertSession(s, place, {}) /\ place.root = Root(p)
    BY <1>7 DEF ContinueChild, ChildPlace
  <2>3. /\ TextAllowed(p, d.text)
        /\ Post(msgs, Input(s, d.text, caller) \cup {SystemCard(p, Card("session", s))})
    BY <1>7, <2>1 DEF ContinueChild, TextAllowed
  <2> HIDE DEF p
  <2> QED BY <1>5, <2>1, <2>2, <2>3
<1> QED BY <1>1, <1>4, <1>6, <1>7

-----------------------------------------------------------------------------
\* The other steps that post.

LEMMA InputPosts ==
  ASSUME Inv, node' = node, NEW t \in Rows, NEW d \in SendData, NEW caller \in Rows \cup {None},
         TextAllowed(t, d.text), Post(msgs, Input(t, d.text, caller))
  PROVE  \E f, b : Posts(f, b)
<1> DEFINE batch == Input(t, d.text, caller)
<1>1. t \in Rows' /\ caller \in Rows' \cup {None} /\ d.text \in {"none", "plain", "sealed"}
  BY DEF Rows, SendData
<1>2. d.text = "plain" => ~node'[node'[t].root].keyed
  BY DEF TextAllowed, Root
<1>3. ASSUME NEW m \in batch PROVE Honest(m, batch) /\ m.card = NoCard
  <2>1. m \in Input(t, d.text, caller)
    OBVIOUS
  <2> HIDE DEF batch
  <2> QED BY <1>1, <1>2, <2>1, InputHonest
<1>4. NoCard.kind = "none"
  BY DEF NoCard, Card
<1>5. Ordinary(batch)
  <2> HIDE DEF batch
  <2> QED BY <1>3, <1>4 DEF Ordinary
<1> HIDE DEF batch
<1> QED BY <1>5, UneditedOrdinary DEF batch

LEMMA LinesOrdinary ==
  ASSUME NEW batch, \A m \in batch : Notice(m) /\ m.card.kind \in Transitions
  PROVE  Ordinary(batch)
  BY NoticeIsHonest DEF Ordinary, Transitions

LEMMA ClaimPosts ==
  ASSUME Inv, NEW s \in Rows, Claim(s)
  PROVE  \E f, b : Posts(f, b)
<1> DEFINE queued == run[s].status = "queued"
           first  == queued /\ ~run[s].started
           batch  == IF queued THEN BusLine(s, "session_claimed") ELSE {}
<1>1. node' = node /\ Post(IF first THEN Delivered(FirstInput(s)) ELSE msgs, batch)
  BY DEF Claim
<1>2. "session_claimed" \in Transitions
  BY DEF Transitions
<1>3. \A m \in batch : Notice(m) /\ m.card.kind \in Transitions
  BY <1>1, <1>2, BusLineNotice
<1> HIDE DEF batch, first
<1>4. Ordinary(batch)
  BY <1>3, LinesOrdinary
<1>5. PICK f : Posting(f, batch) /\ Lowers(f)
  <2>1. CASE first
    BY <1>1, <2>1, Counters, DeliveredPosts
  <2>2. CASE ~first
    BY <1>1, <2>2, Counters, UneditedPosts
  <2> QED BY <2>1, <2>2
<1> QED BY <1>4, <1>5, OrdinaryPosts

LEMMA LinePosts ==
  ASSUME Inv, node' = node, NEW batch, Post(msgs, batch),
         \A m \in batch : Notice(m) /\ m.card.kind \in Transitions
  PROVE  \E f, b : Posts(f, b)
  BY LinesOrdinary, UneditedOrdinary

LEMMA PrOpenedPosts ==
  ASSUME Inv, NEW s \in Rows, PrOpened(s)
  PROVE  \E f, b : Posts(f, b)
<1>1. node' = node /\ Post(msgs, BusLine(s, "pr_opened")) /\ "pr_opened" \in Transitions
  BY DEF PrOpened, Transitions
<1>2. \A m \in BusLine(s, "pr_opened") : Notice(m) /\ m.card.kind \in Transitions
  BY <1>1, BusLineNotice
<1> QED BY <1>1, <1>2, LinePosts

LEMMA ReportStatePosts ==
  ASSUME Inv, NEW s \in Rows, NEW d, ReportState(s, d)
  PROVE  \E f, b : Posts(f, b)
<1> DEFINE batch == IF SaysWall(run[s], d) THEN BusLine(s, "session_blocked") ELSE {}
<1>1. node' = node /\ Post(msgs, batch) /\ "session_blocked" \in Transitions
  BY DEF ReportState, Transitions
<1>2. \A m \in batch : Notice(m) /\ m.card.kind \in Transitions
  BY <1>1, BusLineNotice
<1> HIDE DEF batch
<1> QED BY <1>1, <1>2, LinePosts

LEMMA TickPosts ==
  ASSUME Inv, Tick
  PROVE  \E f, b : Posts(f, b)
<1> DEFINE unclaimed == UNION {BusLine(s, "session_unclaimed") : s \in Unclaimed}
           stuck     == UNION {BusLine(s, "session_stuck") : s \in Stuck}
           overdue   == UNION {BusLine(s, "session_interrupted") : s \in Overdue}
<1>1. Unclaimed \subseteq Rows /\ Stuck \subseteq Rows /\ Overdue \subseteq Rows
  BY DEF Unclaimed, Stuck, Busy, Overdue
<1>2. node' = node /\ Post(msgs, unclaimed \cup stuck \cup overdue)
  BY DEF Tick
<1>3. {"session_unclaimed", "session_stuck", "session_interrupted"} \subseteq Transitions
  BY DEF Transitions
<1>4. ASSUME NEW s \in Rows, NEW event \in Transitions, NEW m \in BusLine(s, event)
      PROVE  Notice(m) /\ m.card.kind \in Transitions
  BY <1>2, BusLineNotice
<1>5. \A m \in unclaimed : \E s \in Rows : m \in BusLine(s, "session_unclaimed")
  BY <1>1
<1>6. \A m \in stuck : \E s \in Rows : m \in BusLine(s, "session_stuck")
  BY <1>1
<1>7. \A m \in overdue : \E s \in Rows : m \in BusLine(s, "session_interrupted")
  BY <1>1
<1> HIDE DEF unclaimed, stuck, overdue
<1>8. \A m \in unclaimed \cup stuck \cup overdue : Notice(m) /\ m.card.kind \in Transitions
  BY <1>3, <1>4, <1>5, <1>6, <1>7
<1> QED BY <1>2, <1>8, LinePosts

LEMMA ReplyPosts ==
  ASSUME Inv, NEW s \in Rows, NEW d \in ReplyInputs, Reply(s, d)
  PROVE  \E f, b : Posts(f, b)
<1> DEFINE sealed == d.sealed
           card   == IF d.card THEN Card("question", s) ELSE NoCard
           own    == Message(s, None, "agent", "reply", card, sealed, FALSE)
           copies == IF d.card THEN BusAsk(s) ELSE BusRelayTurn(s, sealed, d.copies)
           batch  == {own} \cup copies
<1>1. node' = node /\ Post(msgs, batch) /\ sealed \in BOOLEAN
  BY DeviceAssumption DEF DeviceAssumption, ReplyData, Reply
<1>2. /\ own.to = s /\ own.from = None /\ own.n = seq /\ own.body = "reply" /\ own.card = card
      /\ card.kind \in {"question", "none"} /\ NoCard.kind = "none"
  BY DEF Message, Card, NoCard
<1>3. s \in Rows'
  BY <1>1 DEF Rows
<1>4. own \in batch
  OBVIOUS
<1>5. Honest(own, batch)
  <2> HIDE DEF own, batch
  <2> QED BY <1>2, <1>3 DEF Honest, Addressed, Discreet, CopiesTurn, Keyed
<1>6. ASSUME NEW m \in copies PROVE Honest(m, batch) /\ m.card.kind \in {"ask", "none"}
  <2>1. CASE d.card
    <3>1. m \in BusAsk(s)
      BY <2>1
    <3> HIDE DEF batch
    <3> QED BY <1>1, <3>1, BusAskNotice, NoticeIsHonest
  <2>2. CASE ~d.card
    <3>1. m \in BusRelayTurn(s, sealed, d.copies)
      BY <2>2
    <3>2. Message(s, None, "agent", "reply", card, sealed, FALSE) \in batch
      BY <1>4
    <3> HIDE DEF batch, sealed, card
    <3> QED BY <1>1, <1>2, <3>1, <3>2, RelayedHonest
  <2> QED BY <2>1, <2>2
<1> HIDE DEF own, copies, card
<1>7. Ordinary(batch)
  BY <1>2, <1>5, <1>6 DEF Ordinary
<1> HIDE DEF batch
<1> QED BY <1>1, <1>7, UneditedOrdinary

LEMMA ConsumePosts ==
  ASSUME Inv, NEW s \in Rows, NEW ms, Consume(s, ms)
  PROVE  \E f, b : Posts(f, b)
<1> DEFINE batch == {}
<1>1. batch = {} /\ msgs' = Delivered(ms) /\ seq' = seq
  BY DEF Consume
<1>2. Ordinary(batch)
  BY DEF Ordinary
<1> HIDE DEF batch
<1>3. PICK f : Posting(f, batch) /\ Lowers(f)
  BY <1>1, Counters, DeliveredPosts
<1> QED BY <1>2, <1>3, OrdinaryPosts

\* Every agent has its conversation.
ConversationsStand == Conversations \subseteq Rows

Firing(a, kind, t) == Message(Conv(a), None, "user", "line", Card(kind, t), FALSE, TRUE)

LEMMA WakeNotice ==
  ASSUME Inv, ConversationsStand, node' = node, NEW a \in Agents, NEW kind, NEW t
  PROVE  /\ Notice(Firing(a, kind, t)) /\ Firing(a, kind, t).card.kind = kind
         /\ Firing(a, kind, t).to = Conv(a) /\ Firing(a, kind, t).n = seq
<1> DEFINE card == Card(kind, t)
           m == Message(Conv(a), None, "user", "line", card, FALSE, TRUE)
<1>1. Conv(a) \in Rows /\ Rows' = Rows
  BY DEF ConversationsStand, Conversations, Conv, Rows
<1>2. card.kind = kind
  BY DEF Card
<1> HIDE DEF card
<1>3. Notice(m)
  BY <1>1, LineNotice
<1>4. m.card = card /\ m.to = Conv(a) /\ m.n = seq
  BY DEF Message
<1>5. m = Firing(a, kind, t)
  BY DEF Firing, card
<1> HIDE DEF m
<1> QED BY <1>2, <1>3, <1>4, <1>5

LEMMA EmittedPosts ==
  ASSUME Inv, ConversationsStand, NEW team, NEW origin, NEW takers, Emitted(team, origin, takers)
  PROVE  \E f, b : Posts(f, b)
<1> DEFINE emitter == IF origin = None THEN None ELSE TreeAgent(origin)
           heard   == {a \in Agents : Profile[a].team = team /\ a # emitter}
           wake(a, t) == Firing(a, "event_fired", t)
           wakes(a) == {wake(a, t) : t \in Profile[a].events \cap takers}
           batch   == UNION {wakes(a) : a \in heard}
<1>1. node' = node /\ Post(msgs, batch)
  BY DEF Emitted, Firing
<1>2. ASSUME NEW a \in Agents, NEW t
      PROVE  Notice(wake(a, t)) /\ wake(a, t).card.kind = "event_fired"
  BY <1>1, WakeNotice
<1>3. \A m \in batch : \E a \in Agents : \E t : m = wake(a, t)
  <2>1. \A m \in batch : \E a \in heard : m \in wakes(a)
    <3> HIDE DEF wakes, heard
    <3> QED OBVIOUS
  <2> HIDE DEF batch, emitter, wake
  <2> QED BY <2>1
<1> HIDE DEF wake, batch
<1>4. \A m \in batch : Honest(m, batch) /\ m.card.kind \notin {"report", "tick"}
  BY <1>2, <1>3, NoticeIsHonest
<1> QED BY <1>1, <1>4, UneditedOrdinary DEF Ordinary

\* Armed again, or posted: the two outcomes of a schedule.
ArmedAgain(a, o) == IF o \in Rearmed(a) THEN [o EXCEPT !.pending = TRUE] ELSE o

LEMMA ArmedSame ==
  ASSUME msgs \subseteq MessageType, NEW a, NEW o \in msgs
  PROVE  Same(ArmedAgain(a, o), o)
<1>1. Same(o, o) /\ Same([o EXCEPT !.pending = TRUE], o)
  BY SameIsSame
<1> QED BY <1>1 DEF ArmedAgain

LEMMA SchedulePosts ==
  ASSUME Inv, ConversationsStand, TriggerSchedule
  PROVE  \E f, b : Posts(f, b)
<1>1. PICK a \in Agents : \E due \in SUBSET Profile[a].schedules, at \in 0..clock : Schedule(a, due, at)
  BY DEF TriggerSchedule
<1>2. PICK due \in SUBSET Profile[a].schedules, at \in 0..clock : Schedule(a, due, at)
  BY <1>1
<1>3. node' = node
  BY <1>2 DEF Schedule
<1>4. CASE Rearmed(a) # {}
  <2> DEFINE f == [o \in msgs |-> ArmedAgain(a, o)]
             batch == {}
  <2>1. \A o \in msgs : f[o] = ArmedAgain(a, o) /\ Same(f[o], o)
    BY Counters, ArmedSame
  <2>2. msgs' = {ArmedAgain(a, o) : o \in msgs} /\ seq' = seq
    BY <1>2, <1>4 DEF Schedule, Post, ArmedAgain
  <2>3. msgs' = {f[o] : o \in msgs} \cup batch
    BY <2>1, <2>2
  <2>4. batch = {}
    OBVIOUS
  <2> HIDE DEF f, batch
  <2>5. Posts(f, batch)
    BY <2>1, <2>2, <2>3, <2>4 DEF Posts, Posting
  <2> QED BY <2>5
<1>5. CASE Rearmed(a) = {}
  <2>1. PICK t \in due : Post(msgs, {Firing(a, "tick", t)})
    BY <1>2, <1>5 DEF Schedule, Firing
  <2> DEFINE m == Firing(a, "tick", t)
             batch == {m}
  <2>2. Notice(m) /\ m.card.kind = "tick"
    BY <1>3, WakeNotice
  <2>3. Post(msgs, batch)
    BY <2>1
  <2> HIDE DEF m
  <2>4. \A x \in batch : Honest(x, batch) /\ x.card.kind # "report"
    BY <2>2, NoticeIsHonest
  <2> HIDE DEF batch
  <2>5. PICK f : Posting(f, batch)
    BY <2>3, Counters, UneditedPosts
  <2>6. Posts(f, batch)
    BY <2>4, <2>5 DEF Posts
  <2> QED BY <2>6
<1> QED BY <1>4, <1>5

-----------------------------------------------------------------------------
\* The batch of an end.

LiveAtTurn(rows, c, l) == IsLive(l) /\ (l \in Endable(rows) => EndsBefore(c, l))
Hearers(rows, c) == Parents(c) \cup {w \in Watchers(c) : LiveAtTurn(rows, c, w)}
ReportOf(rows, c, l) ==
  Message(l, c, "agent", IF AskHidden(l, c) THEN "private" ELSE "report", Card("report", c), FALSE,
          LiveAtTurn(rows, c, l))
EndSaid(rows, c) ==
  {ReportOf(rows, c, l) : l \in Hearers(rows, c)} \cup {SystemCard(c, Card("session_ended", c))}
EndBatch(rows) == UNION {EndSaid(rows, c) : c \in Endable(rows)}

LEMMA EndBatchIs ==
  ASSUME NEW m, NEW rows
  PROVE  m \in EndBatch(rows) <=>
           \E c \in Endable(rows) :
             \/ m = SystemCard(c, Card("session_ended", c))
             \/ \E l \in Hearers(rows, c) : m = ReportOf(rows, c, l)
  BY DEF EndBatch, EndSaid

LEMMA ReportReads ==
  ASSUME NEW rows, NEW c, NEW l
  PROVE  LET m == ReportOf(rows, c, l) IN
           /\ m.to = l /\ m.from = c /\ m.n = seq /\ m.card = Card("report", c)
           /\ m.body = IF AskHidden(l, c) THEN "private" ELSE "report"
           /\ m.pending = LiveAtTurn(rows, c, l)
           /\ m.card.kind = "report" /\ m.card.about = c
<1> DEFINE body == IF AskHidden(l, c) THEN "private" ELSE "report"
           waking == LiveAtTurn(rows, c, l)
<1>1. ReportOf(rows, c, l) = Message(l, c, "agent", body, Card("report", c), FALSE, waking)
  BY DEF ReportOf
<1> HIDE DEF body, waking
<1>2. LET m == ReportOf(rows, c, l) IN
        /\ m.to = l /\ m.from = c /\ m.n = seq /\ m.card = Card("report", c)
        /\ m.body = body /\ m.pending = waking
        /\ m.card.kind = "report" /\ m.card.about = c
  BY <1>1 DEF Message, Card
<1> QED BY <1>2 DEF body, waking

LEMMA EndPosting ==
  ASSUME Inv, NEW rows, EndRows(rows)
  PROVE  \E f : Posting(f, EndBatch(rows)) /\ Lowers(f)
<1> DEFINE E == Endable(rows)
           f == [m \in msgs |-> IF m.card.kind = "ask" /\ m.card.about \in E
                                THEN [m EXCEPT !.answered = TRUE] ELSE m]
           closed == {IF m.card.kind = "ask" /\ m.card.about \in E
                      THEN [m EXCEPT !.answered = TRUE] ELSE m : m \in msgs}
<1>1. Post(closed, EndBatch(rows))
  <2> DEFINE said(c) == {Message(l, c, "agent", IF AskHidden(l, c) THEN "private" ELSE "report",
                           Card("report", c), FALSE, IsLive(l) /\ (l \in E => EndsBefore(c, l))) :
                           l \in Parents(c) \cup
                             {w \in Watchers(c) : IsLive(w) /\ (w \in E => EndsBefore(c, w))}}
                        \cup {SystemCard(c, Card("session_ended", c))}
  <2>1. Post(closed, UNION {said(c) : c \in E})
    BY DEF EndRows
  <2>2. \A c : said(c) = EndSaid(rows, c)
    BY DEF EndSaid, Hearers, ReportOf, LiveAtTurn
  <2> HIDE DEF said, closed
  <2>3. UNION {said(c) : c \in E} = EndBatch(rows)
    BY <2>2 DEF EndBatch
  <2> QED BY <2>1, <2>3
<1>2. closed = {f[m] : m \in msgs}
  OBVIOUS
<1>3. ASSUME NEW m \in msgs PROVE Same(f[m], m) /\ (f[m].pending => m.pending)
  <2>1. f[m] \in {m, [m EXCEPT !.answered = TRUE]}
    OBVIOUS
  <2>2. Same(m, m) /\ Same([m EXCEPT !.answered = TRUE], m)
        /\ [m EXCEPT !.answered = TRUE].pending = m.pending
    BY Counters, SameIsSame
  <2> HIDE DEF f
  <2> QED BY <2>1, <2>2
<1> HIDE DEF f, closed
<1>4. Posting(f, EndBatch(rows)) /\ Lowers(f)
  BY <1>1, <1>2, <1>3 DEF Posting, Lowers, Post
<1> QED BY <1>4

LEMMA EndBatchNotices ==
  ASSUME Inv, NEW rows \in SUBSET Rows, EndRows(rows), NEW m \in EndBatch(rows)
  PROVE  Notice(m) /\ m.card.kind \in {"report", "session_ended"}
<1>1. PICK c \in Endable(rows) :
        \/ m = SystemCard(c, Card("session_ended", c))
        \/ \E l \in Hearers(rows, c) : m = ReportOf(rows, c, l)
  BY EndBatchIs
<1>2. node' = node /\ Rows' = Rows /\ c \in Rows
  BY DEF EndRows, Rows, Endable
<1>3. CASE m = SystemCard(c, Card("session_ended", c))
  BY <1>2, <1>3, SystemCardNotice DEF Card
<1>4. CASE \E l \in Hearers(rows, c) : m = ReportOf(rows, c, l)
  <2>1. PICK l \in Hearers(rows, c) : m = ReportOf(rows, c, l)
    BY <1>4
  <2>2. l \in Rows
    BY <1>2, ListenersTyped DEF Hearers, BusListeners, Inv
  <2>3. AskHidden(l, c)' = AskHidden(l, c)
    BY <1>2 DEF AskHidden
  <2>4. /\ m.to = l /\ m.from = c /\ m.n = seq /\ m.card.kind = "report"
        /\ m.body = IF AskHidden(l, c) THEN "private" ELSE "report"
    BY <2>1, ReportReads
  <2> QED BY <1>2, <2>2, <2>3, <2>4 DEF Notice, Addressed, Discreet
<1> QED BY <1>1, <1>3, <1>4

LEMMA EndingPosts ==
  ASSUME Inv, Ending
  PROVE  \E f, b : Posts(f, b)
<1>1. PICK rows \in SUBSET Rows : EndRows(rows)
  BY EndingEnds
<1>2. PICK f : Posting(f, EndBatch(rows)) /\ Lowers(f)
  BY <1>1, EndPosting
<1>3. \A m \in EndBatch(rows) :
        Honest(m, EndBatch(rows)) /\ m.card.kind \in {"report", "session_ended"}
  BY <1>1, EndBatchNotices, NoticeIsHonest
<1>4. Posts(f, EndBatch(rows))
  BY <1>2, <1>3 DEF Posts
<1> QED BY <1>4

-----------------------------------------------------------------------------
\* Every step posts.

LEMMA SendMessagePosts ==
  ASSUME Inv, PlacesStand, SendMessage
  PROVE  \E f, b : Posts(f, b)
<1>1. PICK d \in SendInputs, t \in Rows : \E caller \in Callers(d) :
        \/ \E s \in FreshIds : ForkThread(s, t, d, caller) \/ ContinueChild(s, t, d, caller)
        \/ MessageLive(t, d, caller)
        \/ ReviveRoot(t, d, caller)
  BY DEF SendMessage
<1>2. PICK caller \in Callers(d) :
        \/ \E s \in FreshIds : ForkThread(s, t, d, caller) \/ ContinueChild(s, t, d, caller)
        \/ MessageLive(t, d, caller)
        \/ ReviveRoot(t, d, caller)
  BY <1>1
<1>3. d \in SendData /\ caller \in Rows \cup {None}
  BY SendAssumption DEF SendAssumption, Callers
<1>4. CASE MessageLive(t, d, caller)
  BY <1>3, <1>4, InputPosts DEF MessageLive
<1>5. CASE ReviveRoot(t, d, caller)
  BY <1>3, <1>5, InputPosts DEF ReviveRoot
<1>6. CASE \E s \in FreshIds : ForkThread(s, t, d, caller) \/ ContinueChild(s, t, d, caller)
  <2>1. PICK s \in FreshIds : ForkThread(s, t, d, caller) \/ ContinueChild(s, t, d, caller)
    BY <1>6
  <2>2. CASE ContinueChild(s, t, d, caller)
    BY <1>3, <2>2, InsertingPosts DEF Inserting
  <2>3. CASE ForkThread(s, t, d, caller)
    <3> DEFINE e == [d EXCEPT !.device = Or(@, node[t].device)]
    <3>1. StartRoot(s, e, caller)
      BY <2>3 DEF ForkThread
    <3>2. node[t].device \in Devices
      BY RowTyped DEF Inv, NodeType
    <3>3. e \in SendData
      BY <1>3, <3>2 DEF SendData, Or
    <3> HIDE DEF e
    <3>4. Inserting
      BY <1>3, <3>1, <3>3 DEF Inserting
    <3> QED BY <3>4, InsertingPosts
  <2> QED BY <2>1, <2>2, <2>3
<1> QED BY <1>2, <1>4, <1>5, <1>6

LEMMA DevicePosts ==
  ASSUME Inv, DeviceClaim \/ DeviceReport \/ DeviceReply \/ DeviceConsume \/ DeviceHeartbeat
  PROVE  \E f, b : Posts(f, b)
<1>1. CASE DeviceClaim
  BY <1>1, ClaimPosts DEF DeviceClaim
<1>2. CASE DeviceReport
  <2>1. PICK s \in Rows, d \in ReportInputs :
          ReportLost(s, d) \/ ReportEnded(s, d) \/ ReportState(s, d)
    BY <1>2 DEF DeviceReport
  <2>2. CASE ReportLost(s, d)
    BY <2>2, NothingPosted DEF ReportLost
  <2>3. CASE ReportEnded(s, d)
    BY <2>3, EndingPosts DEF ReportEnded, Ending
  <2>4. CASE ReportState(s, d)
    BY <2>4, ReportStatePosts
  <2> QED BY <2>1, <2>2, <2>3, <2>4
<1>3. CASE DeviceReply
  BY <1>3, ReplyPosts DEF DeviceReply
<1>4. CASE DeviceConsume
  <2>1. PICK s \in Rows : \E ms : Consume(s, ms)
    BY <1>4 DEF DeviceConsume
  <2> QED BY <2>1, ConsumePosts
<1>5. CASE DeviceHeartbeat
  <2>1. msgs' = msgs /\ seq' = seq
    BY <1>5 DEF DeviceHeartbeat, Heartbeat
  <2> QED BY <2>1, NothingPosted
<1> QED BY <1>1, <1>2, <1>3, <1>4, <1>5

LEMMA StepPosts ==
  ASSUME TypeInv, ConversationsStand, [Next]_vars
  PROVE  \E f, b : Posts(f, b)
<1>1. Inv /\ PlacesStand
  BY PlacesStandStep DEF TypeInv, Inv
<1>2. CASE SendStart
  BY <1>1, <1>2, SendStartKind, InsertingPosts
<1>3. CASE SendMessage
  BY <1>1, <1>3, SendMessagePosts
<1>4. CASE SendWatch
  BY <1>1, <1>4, NothingPosted DEF SendWatch, Watch
<1>5. CASE SessionEnd
  BY <1>1, <1>5, EndingPosts DEF SessionEnd, EndSession, Ending
<1>6. CASE SessionPrOpened
  BY <1>1, <1>6, PrOpenedPosts DEF SessionPrOpened
<1>7. CASE DeviceClaim \/ DeviceReport \/ DeviceReply \/ DeviceConsume \/ DeviceHeartbeat
  BY <1>1, <1>7, DevicePosts
<1>8. CASE WatchdogTick
  BY <1>1, <1>8, TickPosts DEF WatchdogTick
<1>9. CASE TriggerSchedule
  BY <1>1, <1>9, SchedulePosts
<1>10. CASE TriggerEvent
  BY <1>1, <1>10, EmittedPosts DEF TriggerEvent
<1>11. CASE Advance
  BY <1>1, <1>11, NothingPosted DEF Advance
<1>12. CASE UNCHANGED vars
  BY <1>1, <1>12, NothingPosted DEF vars
<1> QED BY <1>2, <1>3, <1>4, <1>5, <1>6, <1>7, <1>8, <1>9, <1>10, <1>11, <1>12 DEF Next, HostEvent

-----------------------------------------------------------------------------
\* What the bus may carry.

MessagesStand ==
  \A m \in msgs : /\ m.to \in Rows /\ m.from \in Rows \cup {None}
                  /\ m.n \in Nat /\ m.n < seq

BusInv ==
  ConversationsStand /\ MessagesStand /\ NoPrivateLeak /\ SealedTurnStaysSealed /\ KeyedTakesSealed

LEMMA BusInvInit == Init => BusInv
<1> SUFFICES ASSUME Init PROVE BusInv
  OBVIOUS
<1>1. msgs = {} /\ Rows = Conversations
  BY DEF Init, Rows
<1> QED BY <1>1 DEF BusInv, ConversationsStand, MessagesStand, NoPrivateLeak, SealedTurnStaysSealed,
                    KeyedTakesSealed

\* A message after a step is new, or what the step left of one that was there.
LEMMA OldOrNew ==
  ASSUME NEW f, NEW batch, Posting(f, batch), NEW m \in msgs'
  PROVE  m \in batch \/ \E o \in msgs : m = f[o] /\ Same(m, o)
  BY DEF Posting

LEMMA BusInvStep == TypeInv /\ BusInv /\ [Next]_vars => BusInv'
<1> SUFFICES ASSUME TypeInv, BusInv, [Next]_vars PROVE BusInv'
  OBVIOUS
<1>1. PlacesStand /\ Inv /\ seq \in Nat
  BY PlacesStandStep, Counters DEF TypeInv, Inv
<1>2. PICK f, batch : Posts(f, batch)
  BY StepPosts DEF BusInv
<1>3. /\ Posting(f, batch)
      /\ \A m \in batch : Honest(m, batch)
      /\ batch \subseteq msgs' /\ \A o \in msgs : f[o] \in msgs' /\ Same(f[o], o)
  BY <1>2 DEF Posts, Posting
<1>4. ConversationsStand'
  BY <1>1 DEF BusInv, ConversationsStand, PlacesStand, Conversations
<1>5. \A o \in msgs : /\ o.to \in Rows /\ o.from \in Rows \cup {None}
                      /\ o.to \in Rows' /\ o.from \in Rows' \cup {None}
  BY <1>1 DEF BusInv, MessagesStand, PlacesStand
<1>6. MessagesStand'
  <2>1. seq' \in Nat /\ seq <= seq' /\ (batch # {} => seq < seq')
    BY <1>1, <1>3 DEF Posting
  <2>2. ASSUME NEW m \in msgs'
        PROVE  m.to \in Rows' /\ m.from \in Rows' \cup {None} /\ m.n \in Nat /\ m.n < seq'
    <3>1. CASE m \in batch
      BY <1>1, <1>3, <2>1, <3>1 DEF Honest, Addressed
    <3>2. ASSUME NEW o \in msgs, Same(m, o)
          PROVE  m.to \in Rows' /\ m.from \in Rows' \cup {None} /\ m.n \in Nat /\ m.n < seq'
      <4>1. m.to = o.to /\ m.from = o.from /\ m.n = o.n
        BY <3>2 DEF Same
      <4>2. o.n \in Nat /\ o.n < seq
        BY DEF BusInv, MessagesStand
      <4> QED BY <1>1, <1>5, <2>1, <4>1, <4>2
    <3> QED BY <1>3, <3>1, <3>2, OldOrNew
  <2> QED BY <2>2 DEF MessagesStand
<1>7. NoPrivateLeak'
  <2>1. \A l, c \in Rows : AskHidden(l, c)' <=> AskHidden(l, c)
    BY <1>1 DEF PlacesStand, AskHidden
  <2>2. ASSUME NEW m \in msgs' PROVE Discreet(m)
    <3>1. CASE m \in batch
      BY <1>3, <3>1 DEF Honest
    <3>2. ASSUME NEW o \in msgs, Same(m, o) PROVE Discreet(m)
      BY <1>5, <2>1, <3>2 DEF Same, Discreet, BusInv, NoPrivateLeak
    <3> QED BY <1>3, <3>1, <3>2, OldOrNew
  <2> QED BY <2>2 DEF NoPrivateLeak, Discreet
<1>8. SealedTurnStaysSealed'
  <2>1. ASSUME NEW m \in msgs', m.body = "reply", m.from # None
        PROVE  \E own \in msgs' : /\ own.to = m.from /\ own.from = None /\ own.n = m.n
                                  /\ own.body = "reply" /\ own.sealed = m.sealed
    <3>1. CASE m \in batch
      BY <1>3, <2>1, <3>1 DEF Honest, CopiesTurn
    <3>2. ASSUME NEW o \in msgs, Same(m, o)
          PROVE  \E own \in msgs' : /\ own.to = m.from /\ own.from = None /\ own.n = m.n
                                    /\ own.body = "reply" /\ own.sealed = m.sealed
      <4>1. m.from = o.from /\ m.n = o.n /\ m.body = o.body /\ m.sealed = o.sealed
        BY <3>2 DEF Same
      <4>2. PICK own \in msgs : /\ own.to = o.from /\ own.from = None /\ own.n = o.n
                                /\ own.body = "reply" /\ own.sealed = o.sealed
        BY <2>1, <4>1 DEF BusInv, SealedTurnStaysSealed
      <4>3. f[own] \in msgs' /\ Same(f[own], own)
        BY <1>3
      <4> QED BY <4>1, <4>2, <4>3 DEF Same
    <3> QED BY <1>3, <3>1, <3>2, OldOrNew
  <2> QED BY <2>1 DEF SealedTurnStaysSealed
<1>9. KeyedTakesSealed'
  <2>1. \A x \in Rows : Root(x) \in Rows /\ node'[x] = node[x]
    BY <1>1, RowTyped DEF Inv, PlacesStand
  <2>2. ASSUME NEW m \in msgs' PROVE Keyed(m)
    <3>1. CASE m \in batch
      BY <1>3, <3>1 DEF Honest
    <3>2. ASSUME NEW o \in msgs, Same(m, o) PROVE Keyed(m)
      <4>1. m.to = o.to /\ m.body = o.body /\ m.sealed = o.sealed
        BY <3>2 DEF Same
      <4>2. node'[node'[o.to].root] = node[node[o.to].root]
        BY <1>5, <2>1 DEF Root
      <4>3. o.body = "text" /\ node[node[o.to].root].keyed => o.sealed
        BY DEF BusInv, KeyedTakesSealed, Root
      <4> QED BY <4>1, <4>2, <4>3 DEF Keyed
    <3> QED BY <1>3, <3>1, <3>2, OldOrNew
  <2> QED BY <2>2 DEF KeyedTakesSealed, Keyed, Root
<1> QED BY <1>4, <1>6, <1>7, <1>8, <1>9 DEF BusInv

LEMMA BusHolds == Spec => [](TypeInv /\ LifeInv /\ BusInv)
<1>1. Init => BusInv
  BY BusInvInit
<1>2. TypeInv /\ BusInv /\ [Next]_vars => BusInv'
  BY BusInvStep
<1> QED BY <1>1, <1>2, LivesHold, PTL DEF Spec

\* Whoever listens, however late it came to, no copy carries the turns, asks, report or pull
\* request of a private session to a reader who may not see it.
THEOREM NothingPrivateLeaks == Spec => []NoPrivateLeak
<1>1. BusInv => NoPrivateLeak
  BY DEF BusInv
<1> QED BY <1>1, BusHolds, PTL

\* A turn its device sealed is relayed in the clear to no one: each copy of its text is
\* sealed as the turn in the session's own conversation is.
THEOREM SealedIsRelayedSealed == Spec => []SealedTurnStaysSealed
<1>1. BusInv => SealedTurnStaysSealed
  BY DEF BusInv
<1> QED BY <1>1, BusHolds, PTL

\* A keyed tree takes no plaintext by any of the ways a send comes in.
THEOREM KeyedTreesTakeSealed == Spec => []KeyedTakesSealed
<1>1. BusInv => KeyedTakesSealed
  BY DEF BusInv
<1> QED BY <1>1, BusHolds, PTL

-----------------------------------------------------------------------------
\* An end wakes whoever waits for it.

LEMMA EndWakes ==
  ASSUME TypeInv, BusInv, [Next]_vars, NEW s \in Rows, IsLive(s), ~IsLive(s)',
         NEW l \in Rows \ {s}, l = node[s].parent \/ s \in wakeOn[l], IsLive(l), IsLive(l)'
  PROVE  \E m \in msgs' \ msgs : m.to = l /\ m.card = Card("report", s) /\ m.pending
<1>1. Inv /\ PlacesStand
  BY PlacesStandStep DEF TypeInv, Inv
<1>2. Ending
  BY <1>1, LivesMove DEF PlacesStand
<1>3. PICK rows \in SUBSET Rows : EndRows(rows)
  BY <1>2, EndingEnds
<1>4. s \in Endable(rows) /\ l \notin Endable(rows)
  BY <1>1, <1>3, EndFacts
<1>5. LiveAtTurn(rows, s, l)
  BY <1>4 DEF LiveAtTurn
<1>6. l \in Hearers(rows, s)
  <2>1. None \notin Rows
    BY <1>1, RowTyped, HubAssumption DEF HubAssumption, Inv
  <2> QED BY <1>5, <2>1 DEF Hearers, Parents, Watchers
<1> DEFINE m == ReportOf(rows, s, l)
<1>7. m.to = l /\ m.card = Card("report", s) /\ m.n = seq /\ m.pending
  <2>1. m.to = l /\ m.card = Card("report", s) /\ m.n = seq /\ m.pending = LiveAtTurn(rows, s, l)
    BY ReportReads
  <2> HIDE DEF m
  <2> QED BY <1>5, <2>1
<1>8. m \in msgs'
  BY <1>1, <1>3, <1>4, <1>6, EndBatchIs, EndPosting DEF Posting
<1>9. m \notin msgs
  <2>1. seq \in Nat /\ \A o \in msgs : o.n < seq
    BY <1>1, Counters DEF BusInv, MessagesStand
  <2> HIDE DEF m
  <2> QED BY <1>7, <2>1
<1> QED BY <1>7, <1>8, <1>9

\* Whoever waits on a session, as its parent or as a watcher, and outlives the step that
\* ends it, is woken by a report of that step; none comes late and none is left out.
THEOREM EndsAreHeard == Spec => EndWakesListeners
<1>1. TypeInv /\ BusInv /\ [Next]_vars =>
        [\A s \in Rows : IsLive(s) /\ ~IsLive(s)' =>
           \A l \in Rows \ {s} :
             (l = node[s].parent \/ s \in wakeOn[l]) /\ IsLive(l) /\ IsLive(l)' =>
             \E m \in msgs' \ msgs : m.to = l /\ m.card = Card("report", s) /\ m.pending]_vars
  BY EndWakes
<1> QED BY <1>1, BusHolds, PTL DEF Spec, EndWakesListeners

-----------------------------------------------------------------------------
\* One report of one end.

ReportsOf(s) == {m \in Conversation(node[s].parent) : m.card = Card("report", s)}

ReportsStand == \A m \in msgs : m.card.kind = "report" => m.card.about \in Rows

OneReport(s) == IF IsLive(s) THEN ReportsOf(s) = {} ELSE \E m : ReportsOf(s) = {m}

ReportInv == ReportsStand /\ \A s \in Rows : node[s].parent # None => OneReport(s)

LEMMA ReportInvInit == Init => ReportInv
<1> SUFFICES ASSUME Init PROVE ReportInv
  OBVIOUS
<1>1. msgs = {} /\ Rows = Conversations
  BY DEF Init, Rows
<1>2. \A s \in Rows : node[s].parent = None
  BY <1>1 DEF Init
<1> QED BY <1>1, <1>2 DEF ReportInv, ReportsStand

\* The reports of a session after a step: those it had, edited, and those of the batch.
LEMMA ReportsMove ==
  ASSUME NEW f, NEW batch, Posting(f, batch), NEW s \in Rows, node'[s] = node[s]
  PROVE  ReportsOf(s)' = {f[o] : o \in ReportsOf(s)}
           \cup {m \in batch : m.to = node[s].parent /\ m.card = Card("report", s)}
<1> DEFINE p == node[s].parent
           old == {f[o] : o \in ReportsOf(s)}
           new == {m \in batch : m.to = p /\ m.card = Card("report", s)}
<1>1. \A m : m \in ReportsOf(s)' <=> m \in msgs' /\ m.to = p /\ m.card = Card("report", s)
  BY DEF ReportsOf, Conversation, Card
<1>2. \A o : o \in ReportsOf(s) <=> o \in msgs /\ o.to = p /\ o.card = Card("report", s)
  BY DEF ReportsOf, Conversation
<1>3. \A o \in msgs : f[o].to = o.to /\ f[o].card = o.card /\ f[o] \in msgs'
  BY DEF Posting, Same
<1>4. \A m \in msgs' : m \in batch \/ \E o \in msgs : m = f[o]
  BY DEF Posting
<1>5. batch \subseteq msgs'
  BY DEF Posting
<1> HIDE DEF p
<1>6. \A m : m \in old <=> \E o \in ReportsOf(s) : m = f[o]
  OBVIOUS
<1>7. \A m : m \in new <=> m \in batch /\ m.to = p /\ m.card = Card("report", s)
  OBVIOUS
<1> HIDE DEF old, new
<1>8. \A m : m \in ReportsOf(s)' <=> m \in old \cup new
  BY <1>1, <1>2, <1>3, <1>4, <1>5, <1>6, <1>7
<1>9. ReportsOf(s)' = old \cup new
  BY <1>8
<1> QED BY <1>9 DEF old, new, p

\* The parent's report is one message of the batch of the end.
LEMMA EndReports ==
  ASSUME Inv, NEW rows \in SUBSET Rows, NEW s \in Rows, node[s].parent # None
  PROVE  {m \in EndBatch(rows) : m.to = node[s].parent /\ m.card = Card("report", s)}
           = IF s \in Endable(rows) THEN {ReportOf(rows, s, node[s].parent)} ELSE {}
<1> DEFINE p == node[s].parent
           r == ReportOf(rows, s, p)
           new == {m \in EndBatch(rows) : m.to = p /\ m.card = Card("report", s)}
<1>1. ASSUME NEW m \in new PROVE m = r /\ s \in Endable(rows)
  <2>1. m \in EndBatch(rows) /\ m.to = p /\ m.card = Card("report", s)
    OBVIOUS
  <2>2. PICK c \in Endable(rows) :
          \/ m = SystemCard(c, Card("session_ended", c))
          \/ \E l \in Hearers(rows, c) : m = ReportOf(rows, c, l)
    BY <2>1, EndBatchIs
  <2>3. m.card.kind = "report" /\ m.card.about = s
    BY <2>1 DEF Card
  <2>4. m # SystemCard(c, Card("session_ended", c))
    <3>1. SystemCard(c, Card("session_ended", c)).card.kind = "session_ended"
      BY DEF SystemCard, Message, Card
    <3> HIDE DEF new
    <3> QED BY <2>3, <3>1
  <2>5. PICK l \in Hearers(rows, c) : m = ReportOf(rows, c, l)
    BY <2>2, <2>4
  <2>6. m.to = l /\ m.card.about = c
    BY <2>5, ReportReads
  <2> QED BY <2>1, <2>3, <2>5, <2>6
<1>2. ASSUME s \in Endable(rows) PROVE r \in new
  <2>1. p \in Hearers(rows, s)
    BY DEF Hearers, Parents
  <2>2. r \in EndBatch(rows)
    BY <1>2, <2>1, EndBatchIs
  <2>3. r.to = p /\ r.card = Card("report", s)
    BY ReportReads
  <2> HIDE DEF r
  <2> QED BY <2>2, <2>3
<1>3. new = IF s \in Endable(rows) THEN {r} ELSE {}
  <2> HIDE DEF new, r
  <2> QED BY <1>1, <1>2
<1> QED BY <1>3

LEMMA ReportsStandStep ==
  ASSUME TypeInv, BusInv, ReportInv, [Next]_vars
  PROVE  ReportsStand'
<1>1. Inv /\ PlacesStand
  BY PlacesStandStep DEF TypeInv, Inv
<1>2. ASSUME NEW f, NEW batch, Posting(f, batch),
             \A m \in batch : m.card.kind = "report" => m.card.about \in Rows
      PROVE  ReportsStand'
  <2>1. ASSUME NEW m \in msgs', m.card.kind = "report" PROVE m.card.about \in Rows
    <3>1. CASE m \in batch
      BY <1>2, <2>1, <3>1
    <3>2. ASSUME NEW o \in msgs, Same(m, o) PROVE m.card.about \in Rows
      BY <2>1, <3>2 DEF Same, ReportInv, ReportsStand
    <3> QED BY <1>2, <3>1, <3>2, OldOrNew
  <2> QED BY <1>1, <2>1 DEF ReportsStand, PlacesStand
<1>3. CASE ~Ending
  <2>1. PICK f, batch : Posts(f, batch)
    BY StepPosts DEF BusInv
  <2> QED BY <1>2, <1>3, <2>1 DEF Posts
<1>4. CASE Ending
  <2>1. PICK rows \in SUBSET Rows : EndRows(rows)
    BY <1>4, EndingEnds
  <2>2. PICK f : Posting(f, EndBatch(rows))
    BY <1>1, <2>1, EndPosting
  <2>3. ASSUME NEW m \in EndBatch(rows) PROVE m.card.about \in Rows
    <3>1. PICK c \in Endable(rows) :
            \/ m = SystemCard(c, Card("session_ended", c))
            \/ \E l \in Hearers(rows, c) : m = ReportOf(rows, c, l)
      BY EndBatchIs
    <3>2. m.card.about = c
      <4>1. SystemCard(c, Card("session_ended", c)).card.about = c
        BY DEF SystemCard, Message, Card
      <4>2. \A l : ReportOf(rows, c, l).card.about = c
        BY ReportReads
      <4> QED BY <3>1, <4>1, <4>2
    <3> QED BY <2>1, <3>1, <3>2 DEF Endable
  <2> QED BY <1>2, <2>2, <2>3
<1> QED BY <1>3, <1>4

LEMMA OneReportStep ==
  ASSUME TypeInv, BusInv, ReportInv, [Next]_vars, NEW s \in Rows', node'[s].parent # None
  PROVE  OneReport(s)'
<1>1. Inv /\ PlacesStand
  BY PlacesStandStep DEF TypeInv, Inv
<1>2. s \in Rows => /\ node'[s] = node[s] /\ node[s].parent # None /\ OneReport(s)
  BY <1>1 DEF PlacesStand, ReportInv
<1>3. CASE s \notin Rows
  <2>1. IsLive(s)'
    BY <1>3, LivesMove
  <2>2. ~Ending
    BY <1>1, <1>3, EndingEnds, EndFacts
  <2>3. PICK f, batch : Posts(f, batch)
    BY StepPosts DEF BusInv
  <2>4. Posting(f, batch) /\ \A m \in batch : m.card.kind # "report"
    BY <2>2, <2>3 DEF Posts
  <2>5. ASSUME NEW m \in msgs' PROVE m.card # Card("report", s)
    <3>1. CASE m \in batch
      BY <2>4, <3>1 DEF Card
    <3>2. ASSUME NEW o \in msgs, Same(m, o) PROVE m.card # Card("report", s)
      BY <1>3, <3>2 DEF Same, Card, ReportInv, ReportsStand
    <3> QED BY <2>4, <3>1, <3>2, OldOrNew
  <2>6. ReportsOf(s)' = {}
    BY <2>5 DEF ReportsOf, Conversation, Card
  <2> QED BY <2>1, <2>6 DEF OneReport
<1>4. CASE s \in Rows /\ ~Ending
  <2>1. PICK f, batch : Posts(f, batch)
    BY StepPosts DEF BusInv
  <2>2. Posting(f, batch) /\ \A m \in batch : m.card.kind # "report"
    BY <1>4, <2>1 DEF Posts
  <2> DEFINE new == {m \in batch : m.to = node[s].parent /\ m.card = Card("report", s)}
             old == {f[o] : o \in ReportsOf(s)}
  <2>3. new = {}
    BY <2>2 DEF Card
  <2>4. ReportsOf(s)' = old \cup new
    BY <1>2, <1>4, <2>2, ReportsMove
  <2> HIDE DEF new
  <2>5. ReportsOf(s)' = old
    BY <2>3, <2>4
  <2>6. IsLive(s)' <=> IsLive(s)
    BY <1>2, <1>4, LivesMove
  <2>7. CASE IsLive(s)
    BY <1>2, <1>4, <2>5, <2>6, <2>7 DEF OneReport
  <2>8. CASE ~IsLive(s)
    <3>1. PICK m : ReportsOf(s) = {m}
      BY <1>2, <1>4, <2>8 DEF OneReport
    <3>2. ReportsOf(s)' = {f[m]}
      BY <2>5, <3>1
    <3> QED BY <2>6, <2>8, <3>2 DEF OneReport
  <2> QED BY <2>7, <2>8
<1>5. CASE s \in Rows /\ Ending
  <2>1. PICK rows \in SUBSET Rows : EndRows(rows)
    BY <1>5, EndingEnds
  <2>2. PICK f : Posting(f, EndBatch(rows))
    BY <1>1, <2>1, EndPosting
  <2> DEFINE old == {f[o] : o \in ReportsOf(s)}
             new == {m \in EndBatch(rows) : m.to = node[s].parent /\ m.card = Card("report", s)}
             r == ReportOf(rows, s, node[s].parent)
  <2>3. new = IF s \in Endable(rows) THEN {r} ELSE {}
    BY <1>1, <1>2, <1>5, <2>1, EndReports
  <2>4. ReportsOf(s)' = old \cup new
    BY <1>2, <1>5, <2>2, ReportsMove
  <2>5. IsLive(s)' <=> IsLive(s) /\ s \notin Endable(rows)
    BY <1>1, <1>5, <2>1, EndFacts
  <2> HIDE DEF new, r
  <2>6. CASE s \in Endable(rows)
    <3>1. IsLive(s)
      BY <2>6 DEF Endable
    <3>2. ReportsOf(s)' = {r}
      BY <1>2, <1>5, <2>3, <2>4, <2>6, <3>1 DEF OneReport
    <3> QED BY <2>5, <2>6, <3>2 DEF OneReport
  <2>7. CASE s \notin Endable(rows) /\ IsLive(s)
    BY <1>2, <1>5, <2>3, <2>4, <2>5, <2>7 DEF OneReport
  <2>8. CASE s \notin Endable(rows) /\ ~IsLive(s)
    <3>1. PICK m : ReportsOf(s) = {m}
      BY <1>2, <1>5, <2>8 DEF OneReport
    <3>2. ReportsOf(s)' = {f[m]}
      BY <2>3, <2>4, <2>8, <3>1
    <3> QED BY <2>5, <2>8, <3>2 DEF OneReport
  <2> QED BY <2>6, <2>7, <2>8
<1> QED BY <1>3, <1>4, <1>5

LEMMA ReportInvStep == TypeInv /\ BusInv /\ ReportInv /\ [Next]_vars => ReportInv'
<1> SUFFICES ASSUME TypeInv, BusInv, ReportInv, [Next]_vars PROVE ReportInv'
  OBVIOUS
<1>1. ReportsStand'
  BY ReportsStandStep
<1>2. \A s \in Rows' : node'[s].parent # None => OneReport(s)'
  BY OneReportStep
<1> QED BY <1>1, <1>2 DEF ReportInv

\* A child is ended exactly when its parent's conversation holds one final report of it: no
\* end goes unreported and none is reported twice, however the rows end.
THEOREM EndsAreReportedOnce == Spec => []ReportedOnce
<1>1. ReportInv => ReportedOnce
  <2> SUFFICES ASSUME ReportInv, NEW s \in Rows, node[s].parent # None
               PROVE  Cardinality(ReportsOf(s)) = (IF IsLive(s) THEN 0 ELSE 1)
    BY DEF ReportedOnce, ReportsOf
  <2>1. OneReport(s)
    BY DEF ReportInv
  <2>2. CASE IsLive(s)
    BY <2>1, <2>2, FS_EmptySet DEF OneReport
  <2>3. CASE ~IsLive(s)
    BY <2>1, <2>3, FS_Singleton DEF OneReport
  <2> QED BY <2>2, <2>3
<1> QED BY <1>1, ReportInvInit, ReportInvStep, BusHolds, PTL DEF Spec

-----------------------------------------------------------------------------
\* An agent's ticks.

IsTickTo(to, m) == m.to = to /\ m.card.kind = "tick"

\* Of two ticks to one conversation neither is the other's double, and an unread one is the
\* newer: the first makes LastTick one message, the second keeps a new tick from a
\* conversation that has an unread one.
TicksApart ==
  \A m, o \in msgs : IsTickTo(m.to, m) /\ IsTickTo(m.to, o) /\ m.n = o.n => m = o
UnreadIsLast ==
  \A m, o \in msgs : IsTickTo(m.to, m) /\ IsTickTo(m.to, o) /\ m.pending => o.n <= m.n

TickInv == TicksApart /\ UnreadIsLast

LEMMA TickInvInit == Init => TickInv
  BY DEF Init, TickInv, TicksApart, UnreadIsLast

\* What an edit of the messages keeps, if what it leaves unread is the newest.
LEMMA EditedTicks ==
  ASSUME TickInv, NEW f, \A o \in msgs : Same(f[o], o), msgs' = {f[o] : o \in msgs},
         \A m, o \in msgs : IsTickTo(m.to, m) /\ IsTickTo(m.to, o) /\ f[m].pending => o.n <= m.n
  PROVE  TickInv'
<1>1. ASSUME NEW m \in msgs', NEW o \in msgs', IsTickTo(m.to, m), IsTickTo(m.to, o)
      PROVE  (m.n = o.n => m = o) /\ (m.pending => o.n <= m.n)
  <2>1. PICK p \in msgs : m = f[p] /\ Same(m, p)
    OBVIOUS
  <2>2. PICK q \in msgs : o = f[q] /\ Same(o, q)
    OBVIOUS
  <2>3. IsTickTo(p.to, p) /\ IsTickTo(p.to, q) /\ p.n = m.n /\ q.n = o.n
    BY <1>1, <2>1, <2>2 DEF Same, IsTickTo
  <2>4. m.n = o.n => p = q
    BY <2>3 DEF TickInv, TicksApart
  <2>5. m.pending => o.n <= m.n
    BY <2>1, <2>3
  <2> QED BY <2>1, <2>2, <2>4, <2>5
<1> QED BY <1>1 DEF TickInv, TicksApart, UnreadIsLast, IsTickTo

\* A step that schedules nothing posts no tick and arms none again.
LEMMA OtherTicks ==
  ASSUME TypeInv, BusInv, TickInv, [Next]_vars, ~TriggerSchedule
  PROVE  TickInv'
<1>1. PICK f, batch : Posts(f, batch)
  BY StepPosts DEF BusInv
<1>2. Posting(f, batch) /\ Lowers(f) /\ \A m \in batch : m.card.kind # "tick"
  BY <1>1 DEF Posts
<1>3. ASSUME NEW m \in msgs', NEW o \in msgs', IsTickTo(m.to, m), IsTickTo(m.to, o)
      PROVE  (m.n = o.n => m = o) /\ (m.pending => o.n <= m.n)
  <2>1. m \notin batch /\ o \notin batch
    BY <1>2, <1>3 DEF IsTickTo
  <2>2. PICK p \in msgs : m = f[p] /\ Same(m, p)
    BY <1>2, <2>1, OldOrNew
  <2>3. PICK q \in msgs : o = f[q] /\ Same(o, q)
    BY <1>2, <2>1, OldOrNew
  <2>4. IsTickTo(p.to, p) /\ IsTickTo(p.to, q) /\ p.n = m.n /\ q.n = o.n
    BY <1>3, <2>2, <2>3 DEF Same, IsTickTo
  <2>5. m.n = o.n => p = q
    BY <2>4 DEF TickInv, TicksApart
  <2>6. m.pending => o.n <= m.n
    BY <1>2, <2>2, <2>4 DEF Lowers, TickInv, UnreadIsLast
  <2> QED BY <2>2, <2>3, <2>5, <2>6
<1> QED BY <1>3 DEF TickInv, TicksApart, UnreadIsLast, IsTickTo

LEMMA ScheduledTicks ==
  ASSUME TypeInv, BusInv, TickInv, TriggerSchedule
  PROVE  TickInv'
<1>1. Inv /\ msgs \subseteq MessageType
  BY Counters DEF TypeInv, Inv
<1>2. PICK a \in Agents : \E due \in SUBSET Profile[a].schedules, at \in 0..clock : Schedule(a, due, at)
  BY DEF TriggerSchedule
<1>3. PICK due \in SUBSET Profile[a].schedules, at \in 0..clock : Schedule(a, due, at)
  BY <1>2
<1>4. \A m : m \in Ticks(a) <=> m \in msgs /\ IsTickTo(Conv(a), m)
  BY DEF Ticks, Conversation, IsTickTo
<1>5. CASE Rearmed(a) # {}
  <2> DEFINE f == [o \in msgs |-> ArmedAgain(a, o)]
  <2>1. \A o \in msgs : f[o] = ArmedAgain(a, o) /\ Same(f[o], o)
    BY <1>1, ArmedSame
  <2>2. msgs' = {ArmedAgain(a, o) : o \in msgs}
    BY <1>3, <1>5 DEF Schedule, Post, ArmedAgain
  <2>3. msgs' = {f[o] : o \in msgs}
    BY <2>1, <2>2
  <2> HIDE DEF f
  <2>4. ASSUME NEW m \in msgs, NEW o \in msgs,
               IsTickTo(m.to, m), IsTickTo(m.to, o), f[m].pending
        PROVE  o.n <= m.n
    <3>1. CASE m \in Rearmed(a)
      <4>1. m \in LastTick(a) /\ m \in Ticks(a)
        BY <3>1 DEF Rearmed, LastTick
      <4>2. o \in Ticks(a)
        BY <1>4, <2>4, <4>1 DEF IsTickTo
      <4> QED BY <4>1, <4>2 DEF LastTick
    <3>2. CASE m \notin Rearmed(a)
      BY <2>1, <2>4, <3>2 DEF ArmedAgain, TickInv, UnreadIsLast
    <3> QED BY <3>1, <3>2
  <2> QED BY <2>1, <2>3, <2>4, EditedTicks
<1>6. CASE Rearmed(a) = {}
  <2>1. PICK t \in due : Post(msgs, {Firing(a, "tick", t)})
    BY <1>3, <1>6 DEF Schedule, Firing
  <2> DEFINE new == Firing(a, "tick", t)
  <2>2. msgs' = msgs \cup {new}
    BY <2>1 DEF Post
  <2>3. new.to = Conv(a) /\ new.n = seq
    BY DEF Firing, Message
  <2> HIDE DEF new
  <2>4. seq \in Nat /\ \A o \in msgs : o.n \in Nat /\ o.n < seq
    BY <1>1, Counters DEF BusInv, MessagesStand
  <2>5. \A o \in msgs : IsTickTo(Conv(a), o) => ~o.pending
    <3>1. SUFFICES ASSUME NEW o \in msgs, IsTickTo(Conv(a), o), o.pending PROVE FALSE
      OBVIOUS
    <3>2. \A x \in Ticks(a) : x.n <= o.n
      BY <1>4, <3>1 DEF TickInv, UnreadIsLast, IsTickTo
    <3>3. o \in Rearmed(a)
      BY <1>4, <3>1, <3>2 DEF Rearmed, LastTick
    <3> QED BY <1>6, <3>3
  <2>6. ASSUME NEW m \in msgs', NEW o \in msgs', IsTickTo(m.to, m), IsTickTo(m.to, o)
        PROVE  (m.n = o.n => m = o) /\ (m.pending => o.n <= m.n)
    <3>1. CASE m \in msgs /\ o \in msgs
      BY <2>6, <3>1 DEF TickInv, TicksApart, UnreadIsLast
    <3>2. CASE m = new
      BY <2>2, <2>3, <2>4, <3>2
    <3>3. CASE m \in msgs /\ o = new
      <4>1. IsTickTo(Conv(a), m)
        BY <2>3, <2>6, <3>3 DEF IsTickTo
      <4> QED BY <2>3, <2>4, <2>5, <3>3, <4>1
    <3> QED BY <2>2, <3>1, <3>2, <3>3
  <2> QED BY <2>6 DEF TickInv, TicksApart, UnreadIsLast, IsTickTo
<1> QED BY <1>5, <1>6

LEMMA TickInvStep == TypeInv /\ BusInv /\ TickInv /\ [Next]_vars => TickInv'
  BY OtherTicks, ScheduledTicks

\* Schedule firings never stack: an agent's conversation has at most one unread tick, the
\* newest, and the newest is one message.
THEOREM TicksAreOne == Spec => []TicksNeverStack
<1>1. TypeInv /\ BusInv /\ TickInv => TicksNeverStack
  <2> SUFFICES ASSUME TypeInv, BusInv, TickInv, NEW a \in Agents, NEW t \in Ticks(a), t.pending
               PROVE  t \in LastTick(a) /\ LastTick(a) = {t}
    BY DEF TicksNeverStack
  <2>1. \A m \in Ticks(a) : m \in msgs /\ IsTickTo(Conv(a), m) /\ m.to = Conv(a) /\ m.n \in Nat
    BY DEF Ticks, Conversation, IsTickTo, BusInv, MessagesStand
  <2>2. t \in LastTick(a)
    BY <2>1 DEF LastTick, TickInv, UnreadIsLast
  <2>3. ASSUME NEW m \in LastTick(a) PROVE m = t
    <3>1. m \in Ticks(a) /\ t.n <= m.n /\ m.n <= t.n
      BY <2>2, <2>3 DEF LastTick
    <3>2. m.n = t.n
      BY <2>1, <3>1
    <3> QED BY <2>1, <3>1, <3>2 DEF TickInv, TicksApart
  <2> QED BY <2>2, <2>3
<1> QED BY <1>1, TickInvInit, TickInvStep, BusHolds, PTL DEF Spec

=============================================================================
