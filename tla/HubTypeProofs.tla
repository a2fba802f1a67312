----------------------------- MODULE HubTypeProofs -----------------------------
(***************************************************************************)
(* Type correctness of AgentHub and the shape of its trees. The two are one *)
(* induction: a sub-session's row reads its parent's and its root's rows,   *)
(* so its type rests on the shape, and the shape on the rows being typed.   *)
(***************************************************************************)
EXTENDS HubRowProofs

TreesTyped ==
  /\ Rows \subseteq Sessions
  /\ node \in [Rows -> NodeType]
  /\ wakeOn \in [Rows -> SUBSET Rows]
  /\ scope \in [Rows -> SUBSET Teams]
  /\ TreeShape

MessagesTyped == msgs \subseteq MessageType /\ seq \in 0..MaxSeq

HostTyped ==
  /\ devices \in [Devices -> DeviceType]
  /\ fired \in [Triggers -> Time]
  /\ clock \in 0..MaxClock

TypeInv == TreesTyped /\ MessagesTyped /\ HostTyped /\ RowsSound

-----------------------------------------------------------------------------
\* The trees.

LEMMA RowTyped ==
  ASSUME TreesTyped, NEW s \in Rows
  PROVE  /\ s \in Sessions /\ Root(s) \in Rows /\ node[s] \in NodeType
         /\ node[s].parent \in Rows \cup {None}
         /\ wakeOn[s] \subseteq Rows /\ scope[s] \subseteq Teams
<1>1. None \notin Sessions
  BY HubAssumption DEF HubAssumption
<1>2. node[s].parent # None => node[s].parent \in Rows
  BY DEF TreesTyped, TreeShape
<1> QED BY <1>1, <1>2 DEF TreesTyped, TreeShape

LEMMA TreeAgentTyped ==
  ASSUME TreesTyped, NEW s \in Rows
  PROVE  TreeAgent(s) \in Agents \cup {None}
<1>1. node[Root(s)] \in NodeType
  BY RowTyped
<1> QED BY <1>1 DEF TreeAgent, NodeType

\* Where a new session may be placed.
Placed(s, place) ==
  /\ place \in NodeType
  /\ IF place.parent = None
     THEN place.root = s /\ place.depth = 0
     ELSE /\ place.parent \in Rows
          /\ place.root = Root(place.parent)
          /\ place.depth = node[place.parent].depth + 1
          /\ place.depth <= Rules.treeMaxDepth

\* TreeShape of a given function from sessions to places.
Shape(n) ==
  \A s \in DOMAIN n :
    /\ n[s].depth <= Rules.treeMaxDepth
    /\ n[s].root \in DOMAIN n /\ n[n[s].root].parent = None
    /\ n[s].parent = None => n[s].root = s /\ n[s].depth = 0
    /\ n[s].parent # None => /\ n[s].parent \in DOMAIN n
                             /\ n[n[s].parent].root = n[s].root
                             /\ n[s].depth = n[n[s].parent].depth + 1

LEMMA ShapeOfTree == TreeShape <=> Shape(node)
  BY DEF TreeShape, Shape, Root, Rows

LEMMA ShapeExtends ==
  ASSUME NEW n, Shape(n), NEW s, s \notin DOMAIN n, NEW place, Rules.treeMaxDepth \in Nat,
         place.parent = None => place.root = s /\ place.depth = 0,
         place.parent # None =>
           /\ place.parent \in DOMAIN n /\ place.root = n[place.parent].root
           /\ place.depth = n[place.parent].depth + 1 /\ place.depth <= Rules.treeMaxDepth
  PROVE  Shape([x \in DOMAIN n \cup {s} |-> IF x = s THEN place ELSE n[x]])
<1> DEFINE m == [x \in DOMAIN n \cup {s} |-> IF x = s THEN place ELSE n[x]]
<1>1. DOMAIN m = DOMAIN n \cup {s} /\ m[s] = place /\ \A x \in DOMAIN n : m[x] = n[x]
  OBVIOUS
<1> HIDE DEF m
<1>2. ASSUME NEW x \in DOMAIN m
      PROVE  /\ m[x].depth <= Rules.treeMaxDepth
             /\ m[x].root \in DOMAIN m /\ m[m[x].root].parent = None
             /\ m[x].parent = None => m[x].root = x /\ m[x].depth = 0
             /\ m[x].parent # None => /\ m[x].parent \in DOMAIN m
                                      /\ m[m[x].parent].root = m[x].root
                                      /\ m[x].depth = m[m[x].parent].depth + 1
  BY <1>1 DEF Shape
<1> QED BY <1>2 DEF Shape, m

LEMMA InsertTyped ==
  ASSUME TreesTyped, NEW s \in Sessions, NEW place, Placed(s, place),
         NEW watchers, InsertSession(s, place, watchers)
  PROVE  TreesTyped'
<1>1. s \notin Rows /\ s \in Sessions /\ None \notin Sessions /\ Rules.treeMaxDepth \in Nat
  BY HubAssumption DEF HubAssumption, InsertSession, FreshIds, RulesType
<1>2. Rows' = Rows \cup {s} /\ Rows' \subseteq Sessions
  BY <1>1 DEF InsertSession, Insert, Rows, TreesTyped
<1>3. node' = [x \in Rows' |-> IF x = s THEN place ELSE node[x]]
  BY <1>2 DEF InsertSession, Insert, Rows, TreesTyped
<1>4. node' \in [Rows' -> NodeType]
  BY <1>2, <1>3 DEF Placed, TreesTyped
<1>5. scope' \in [Rows' -> SUBSET Teams]
  BY <1>2 DEF InsertSession, Insert, TreesTyped
<1>6. wakeOn' \in [Rows' -> SUBSET Rows']
  <2>1. Watched(wakeOn, watchers, s) \in [Rows -> SUBSET Rows']
    BY <1>2 DEF Watched, TreesTyped
  <2>2. wakeOn' = Insert(Watched(wakeOn, watchers, s), s, {})
    BY DEF InsertSession
  <2> DEFINE wakes == Watched(wakeOn, watchers, s)
  <2> HIDE DEF wakes
  <2>3. wakeOn' = [x \in Rows' |-> IF x = s THEN {} ELSE wakes[x]]
    BY <1>2, <2>1, <2>2 DEF Insert, wakes
  <2> QED BY <1>2, <2>1, <2>3 DEF wakes
<1>7. TreeShape'
  <2>1. Shape(node) /\ DOMAIN node = Rows
    BY ShapeOfTree DEF TreesTyped, Rows
  <2>2. place.parent # None =>
          /\ place.parent \in Rows /\ place.root = node[place.parent].root
          /\ place.depth = node[place.parent].depth + 1 /\ place.depth <= Rules.treeMaxDepth
    BY DEF Placed, Root
  <2>3. place.parent = None => place.root = s /\ place.depth = 0
    BY DEF Placed
  <2>4. Shape([x \in Rows \cup {s} |-> IF x = s THEN place ELSE node[x]])
    BY <1>1, <2>1, <2>2, <2>3, ShapeExtends
  <2>5. Shape(node')
    BY <1>2, <1>3, <2>4
  <2> QED BY <2>5 DEF TreeShape, Shape, Root, Rows
<1> QED BY <1>2, <1>4, <1>5, <1>6, <1>7 DEF TreesTyped

\* The trees stand while only lists of watched sessions and scopes change.
LEMMA SameTreesTyped ==
  ASSUME TreesTyped, node' = node,
         wakeOn' \in [Rows -> SUBSET Rows], scope' \in [Rows -> SUBSET Teams]
  PROVE  TreesTyped'
<1>1. Rows' = Rows /\ TreeShape'
  BY DEF Rows, TreesTyped, TreeShape, Root
<1> QED BY <1>1 DEF TreesTyped

-----------------------------------------------------------------------------
\* Messages.

CardType == [kind : CardKinds, about : Sessions \cup Triggers \cup {None}]

LEMMA CardMessageTyped ==
  ASSUME clock \in Nat, seq \in Nat, NEW to \in Sessions, NEW from \in Sessions \cup {None},
         NEW author \in {"user", "agent", "system"}, NEW body \in Bodies,
         NEW card \in CardType, NEW sealed \in BOOLEAN, NEW pending \in BOOLEAN
  PROVE  Message(to, from, author, body, card, sealed, pending) \in MessageType
  BY DEF Message, MessageType, CardType

LEMMA MessageTyped ==
  ASSUME clock \in Nat, seq \in Nat, NEW to \in Sessions, NEW from \in Sessions \cup {None},
         NEW author \in {"user", "agent", "system"}, NEW body \in Bodies,
         NEW kind \in CardKinds, NEW about \in Sessions \cup Triggers \cup {None},
         NEW sealed \in BOOLEAN, NEW pending \in BOOLEAN
  PROVE  Message(to, from, author, body, Card(kind, about), sealed, pending) \in MessageType
<1>1. Card(kind, about) \in CardType
  BY DEF Card, CardType
<1> QED BY <1>1, CardMessageTyped

LEMMA NoCardMessageTyped ==
  ASSUME clock \in Nat, seq \in Nat, NEW to \in Sessions, NEW from \in Sessions \cup {None},
         NEW author \in {"user", "agent", "system"}, NEW body \in Bodies,
         NEW sealed \in BOOLEAN, NEW pending \in BOOLEAN
  PROVE  Message(to, from, author, body, NoCard, sealed, pending) \in MessageType
<1>1. NoCard \in CardType
  BY DEF NoCard, Card, CardType, CardKinds
<1> QED BY <1>1, CardMessageTyped

LEMMA SystemCardTyped ==
  ASSUME clock \in Nat, seq \in Nat, NEW to \in Sessions, NEW kind \in CardKinds,
         NEW about \in Sessions
  PROVE  SystemCard(to, Card(kind, about)) \in MessageType
  BY MessageTyped DEF SystemCard, Bodies

LEMMA ListenersTyped ==
  ASSUME TreesTyped, NEW c \in Rows
  PROVE  BusListeners(c) \subseteq Rows /\ BusListeners(c) \subseteq Sessions
<1>1. node[c].parent \in Rows \cup {None}
  BY RowTyped
<1> QED BY <1>1 DEF BusListeners, Parents, Watchers, TreesTyped

LEMMA DeliverTyped ==
  ASSUME TreesTyped, clock \in Nat, seq \in Nat, NEW c \in Rows,
         NEW listeners \in SUBSET Rows, NEW author \in {"user", "agent", "system"},
         NEW body \in Bodies, NEW hidden \in Bodies, NEW kind \in CardKinds,
         NEW waking \in BOOLEAN
  PROVE  Deliver(c, listeners, author, body, hidden, Card(kind, c), waking) \subseteq MessageType
<1> SUFFICES ASSUME NEW l \in listeners
             PROVE  Message(l, c, author, IF AskHidden(l, c) THEN hidden ELSE body,
                            Card(kind, c), FALSE, waking /\ IsLive(l)) \in MessageType
  BY DEF Deliver
<1>1. l \in Sessions /\ c \in Sessions
  BY DEF TreesTyped
<1>2. (IF AskHidden(l, c) THEN hidden ELSE body) \in Bodies
  OBVIOUS
<1>3. (waking /\ IsLive(l)) \in BOOLEAN
  OBVIOUS
<1> QED BY <1>1, <1>2, <1>3, MessageTyped

LEMMA BusLineTyped ==
  ASSUME TreesTyped, clock \in Nat, seq \in Nat, NEW c \in Rows, NEW event \in CardKinds
  PROVE  BusLine(c, event) \subseteq MessageType
<1> DEFINE all    == BusListeners(c)
           heard  == {l \in all : event \in SilentEvents => l # Root(l) \/ ~IsAssistant(l)}
           body   == IF event = "pr_opened" THEN "pr" ELSE "line"
           hidden == IF event = "pr_opened" THEN "private" ELSE "line"
           waking == event # "session_claimed"
<1>1. heard \in SUBSET Rows
  BY ListenersTyped
<1>2. body \in Bodies /\ hidden \in Bodies /\ waking \in BOOLEAN
  BY DEF Bodies
<1>3. Deliver(c, heard, "system", body, hidden, Card(event, c), waking) \subseteq MessageType
  BY <1>1, <1>2, DeliverTyped
<1>4. Message(c, None, "system", body, Card(event, c), FALSE, FALSE) \in MessageType
  BY <1>2, MessageTyped DEF TreesTyped
<1>5. BusLine(c, event) = IF all = {} /\ waking
        THEN {Message(c, None, "system", body, Card(event, c), FALSE, FALSE)}
        ELSE Deliver(c, heard, "system", body, hidden, Card(event, c), waking)
  BY DEF BusLine
<1> HIDE DEF all, heard, body, hidden, waking
<1> QED BY <1>3, <1>4, <1>5

LEMMA BusRelayTurnTyped ==
  ASSUME TreesTyped, clock \in Nat, seq \in Nat, NEW c \in Rows, NEW sealed \in BOOLEAN, NEW copies
  PROVE  BusRelayTurn(c, sealed, copies) \subseteq MessageType
<1>1. ASSUME NEW l \in BusListeners(c)
      PROVE  RelayedTurn(c, l, sealed, copies) \in MessageType
  <2> DEFINE readable == ~AskHidden(l, c) /\ (sealed => Root(l) \in {Root(c)} \cup copies)
             body     == IF readable THEN "reply" ELSE "private"
             shut     == sealed /\ readable
             live     == IsLive(l)
  <2>1. l \in Sessions /\ c \in Sessions
    BY ListenersTyped DEF TreesTyped
  <2>2. body \in Bodies /\ shut \in BOOLEAN /\ live \in BOOLEAN
    BY DEF Bodies, IsLive
  <2>3. RelayedTurn(c, l, sealed, copies) = Message(l, c, "agent", body, NoCard, shut, live)
    BY DEF RelayedTurn
  <2> HIDE DEF readable, body, shut, live
  <2> QED BY <2>1, <2>2, <2>3, NoCardMessageTyped
<1> QED BY <1>1 DEF BusRelayTurn

LEMMA BusAskTyped ==
  ASSUME TreesTyped, clock \in Nat, seq \in Nat, NEW c \in Rows
  PROVE  BusAsk(c) \subseteq MessageType
<1>1. BusListeners(c) \in SUBSET Rows
  BY ListenersTyped
<1>2. "ask" \in Bodies /\ "private" \in Bodies /\ "ask" \in CardKinds
  BY DEF Bodies, CardKinds
<1>3. Deliver(c, BusListeners(c), "agent", "ask", "private", Card("ask", c), TRUE) \subseteq MessageType
  BY <1>1, <1>2, DeliverTyped
<1> QED BY <1>3 DEF BusAsk

LEMMA InputTyped ==
  ASSUME clock \in Nat, seq \in Nat, NEW to \in Sessions, NEW text,
         NEW caller \in Sessions \cup {None}
  PROVE  Input(to, text, caller) \subseteq MessageType
<1> DEFINE author == IF caller = None THEN "user" ELSE "agent"
           sealed == text = "sealed"
<1>1. author \in {"user", "agent", "system"} /\ sealed \in BOOLEAN /\ "text" \in Bodies
  BY DEF Bodies
<1>2. Message(to, caller, author, "text", NoCard, sealed, TRUE) \in MessageType
  BY <1>1, NoCardMessageTyped
<1>3. Input(to, text, caller) \in {{}, {Message(to, caller, author, "text", NoCard, sealed, TRUE)}}
  BY DEF Input
<1> QED BY <1>2, <1>3

\* A posting keeps the messages typed and their numbering within its bound.
LEMMA PostTyped ==
  ASSUME seq \in 0..MaxSeq, NEW before \in SUBSET MessageType, NEW batch \in SUBSET MessageType,
         Post(before, batch)
  PROVE  MessagesTyped'
<1>1. seq' \in {seq, seq + 1} /\ seq' <= MaxSeq /\ MaxSeq \in Nat
  BY HubAssumption DEF Post, HubAssumption
<1> QED BY <1>1 DEF Post, MessagesTyped

LEMMA SameMessagesTyped ==
  ASSUME MessagesTyped, msgs' = msgs, seq' = seq
  PROVE  MessagesTyped'
  BY DEF MessagesTyped

\* Rewriting a message's pending or answered flag keeps its type.
LEMMA EditedTyped ==
  ASSUME NEW m \in MessageType, NEW b \in BOOLEAN
  PROVE  /\ [m EXCEPT !.pending = b] \in MessageType
         /\ [m EXCEPT !.answered = b] \in MessageType
  BY DEF MessageType

LEMMA DeliveredTyped ==
  ASSUME msgs \subseteq MessageType, NEW ms
  PROVE  Delivered(ms) \subseteq MessageType
  BY EditedTyped DEF Delivered

-----------------------------------------------------------------------------
\* The steps of the sends.

Inv == TreesTyped /\ MessagesTyped /\ RowsSound

LEMMA Counters == Inv => clock \in Nat /\ seq \in Nat /\ seq \in 0..MaxSeq /\ msgs \subseteq MessageType
  BY DEF Inv, MessagesTyped, RowsSound

LEMMA NoneIsNoId ==
  /\ None \notin Sessions /\ None \notin Agents /\ None \notin Devices
  /\ None \notin Users /\ None \notin Teams
  BY HubAssumption DEF HubAssumption

LEMMA ChildPlaced ==
  ASSUME Inv, NEW s, NEW parent \in Rows, NEW depth, depth = node[parent].depth + 1,
         depth <= Rules.treeMaxDepth, NEW team \in Teams, NEW user \in Users,
         NEW device \in Devices, NEW cont \in Sessions \cup {None}
  PROVE  Placed(s, ChildPlace(parent, depth, team, user, device, cont))
<1> DEFINE place == ChildPlace(parent, depth, team, user, device, cont)
<1>1. /\ parent \in Sessions /\ node[parent] \in NodeType /\ Root(parent) \in Sessions
      /\ node[Root(parent)] \in NodeType
  BY RowTyped DEF Inv, TreesTyped
<1>2. depth \in Nat /\ node[Root(parent)].shared \in BOOLEAN /\ clock \in Nat
  BY <1>1, Counters DEF NodeType
<1>3. place \in NodeType
  BY <1>1, <1>2 DEF ChildPlace, NodeType
<1>4. place.parent = parent /\ place.root = Root(parent) /\ place.depth = depth /\ parent # None
  BY <1>1, NoneIsNoId DEF ChildPlace
<1> QED BY <1>3, <1>4 DEF Placed

LEMMA StartRootStep ==
  ASSUME Inv, NEW s \in FreshIds, NEW d \in SendData, NEW caller \in Rows \cup {None},
         StartRoot(s, d, caller)
  PROVE  TreesTyped' /\ MessagesTyped'
<1> DEFINE agent  == IF caller = None THEN None ELSE TreeAgent(caller)
           device == Or(d.device, IF agent = None THEN None ELSE node[Root(caller)].device)
           team   == IF caller = None THEN d.team ELSE Or(d.team, node[caller].team)
           user   == IF caller = None THEN d.user ELSE Or(d.user, node[caller].user)
           place  == [parent |-> None, root |-> s, depth |-> 0, team |-> team, user |-> user,
                      shared |-> d.shared, agent |-> None, startedBy |-> agent, cont |-> None,
                      device |-> device, keyed |-> d.text = "sealed", created |-> clock]
           watch  == IF caller = None THEN {}
                     ELSE {w \in {caller} : MayWatch(w, team, d.shared, user)}
           thread == IF caller = None THEN {} ELSE {SystemCard(caller, Card("thread_started", s))}
<1>1. /\ None \notin {device, team, user}
      /\ InsertSession(s, place, watch)
      /\ Post(msgs, Input(s, d.text, caller) \cup thread)
  BY DEF StartRoot
<1>2. s \in Sessions /\ clock \in Nat /\ seq \in Nat /\ caller \in Sessions \cup {None}
  BY Counters DEF FreshIds, Inv, TreesTyped
<1>3. caller # None => node[caller] \in NodeType /\ node[Root(caller)] \in NodeType
                       /\ TreeAgent(caller) \in Agents \cup {None}
  BY RowTyped, TreeAgentTyped DEF Inv
<1>4. agent \in Agents \cup {None} /\ d.shared \in BOOLEAN /\ (d.text = "sealed") \in BOOLEAN
  BY <1>3 DEF SendData
<1>5. device \in Devices
  BY <1>1, <1>3 DEF Or, NodeType, SendData
<1>6. team \in Teams /\ user \in Users
  BY <1>1, <1>3 DEF Or, NodeType, SendData
<1>7. thread \subseteq MessageType
  BY <1>2, SystemCardTyped DEF CardKinds
<1>8. Input(s, d.text, caller) \subseteq MessageType
  BY <1>2, InputTyped
<1>9. place \in NodeType /\ place.parent = None /\ place.root = s /\ place.depth = 0
  <2> DEFINE keyed == d.text = "sealed"
             shared == d.shared
  <2>1. keyed \in BOOLEAN /\ shared \in BOOLEAN
    BY <1>4
  <2> HIDE DEF agent, device, team, user, keyed, shared
  <2>2. [parent |-> None, root |-> s, depth |-> 0, team |-> team, user |-> user,
         shared |-> shared, agent |-> None, startedBy |-> agent, cont |-> None,
         device |-> device, keyed |-> keyed, created |-> clock] \in NodeType
    BY <1>2, <1>4, <1>5, <1>6, <2>1 DEF NodeType
  <2> QED BY <2>2 DEF keyed, shared
<1>10. Placed(s, place)
  <2> HIDE DEF place
  <2> QED BY <1>9 DEF Placed
<1>11. TreesTyped'
  <2> HIDE DEF place, watch
  <2> QED BY <1>1, <1>2, <1>10, InsertTyped DEF Inv
<1>12. MessagesTyped'
  <2> HIDE DEF thread
  <2> QED BY <1>1, <1>7, <1>8, Counters, PostTyped
<1> QED BY <1>11, <1>12

LEMMA StartChildStep ==
  ASSUME Inv, NEW s \in FreshIds, NEW p \in Rows, NEW d \in SendData,
         NEW caller \in Rows \cup {None}, StartChild(s, p, d, caller)
  PROVE  TreesTyped' /\ MessagesTyped'
<1> DEFINE depth  == node[p].depth + 1
           team   == Or(d.team, node[p].team)
           user   == Or(d.user, IF caller = None THEN node[p].user ELSE node[caller].user)
           device == Or(d.device, node[p].device)
           place  == ChildPlace(p, depth, team, user, device, None)
<1>1. /\ depth <= Rules.treeMaxDepth
      /\ InsertSession(s, place, {})
      /\ Post(msgs, Input(s, d.text, caller) \cup {SystemCard(p, Card("session", s))})
  BY DEF StartChild, TreeRoom
<1>2. /\ s \in Sessions /\ clock \in Nat /\ seq \in Nat /\ caller \in Sessions \cup {None}
      /\ p \in Sessions
  BY Counters DEF FreshIds, Inv, TreesTyped
<1>3. node[p] \in NodeType /\ (caller # None => node[caller] \in NodeType)
  BY RowTyped DEF Inv
<1>4. team \in Teams /\ user \in Users /\ device \in Devices
  BY <1>3 DEF Or, NodeType, SendData
<1>5. Placed(s, place)
  <2> HIDE DEF team, user, device
  <2> QED BY <1>1, <1>4, ChildPlaced
<1>6. SystemCard(p, Card("session", s)) \in MessageType
  BY <1>2, SystemCardTyped DEF CardKinds
<1>7. Input(s, d.text, caller) \subseteq MessageType
  BY <1>2, InputTyped
<1>8. TreesTyped'
  <2> HIDE DEF place
  <2> QED BY <1>1, <1>2, <1>5, InsertTyped DEF Inv
<1>9. MessagesTyped'
  BY <1>1, <1>6, <1>7, Counters, PostTyped
<1> QED BY <1>8, <1>9

LEMMA ContinueChildStep ==
  ASSUME Inv, NEW s \in FreshIds, NEW t \in Rows, NEW d \in SendData,
         NEW caller \in Rows \cup {None}, ContinueChild(s, t, d, caller)
  PROVE  TreesTyped' /\ MessagesTyped'
<1> DEFINE p      == node[t].parent
           user   == Or(d.user, IF caller = None THEN node[t].user ELSE node[caller].user)
           device == Or(d.device, node[t].device)
           place  == ChildPlace(p, node[t].depth, node[t].team, user, device, t)
<1>1. /\ p # None /\ node[t].depth <= Rules.treeMaxDepth
      /\ InsertSession(s, place, {})
      /\ Post(msgs, Input(s, d.text, caller) \cup {SystemCard(p, Card("session", s))})
  BY DEF ContinueChild, TreeRoom
<1>2. /\ s \in Sessions /\ clock \in Nat /\ seq \in Nat /\ caller \in Sessions \cup {None}
      /\ t \in Sessions
  BY Counters DEF FreshIds, Inv, TreesTyped
<1>3. node[t] \in NodeType /\ (caller # None => node[caller] \in NodeType)
  BY RowTyped DEF Inv
<1>4. p \in Rows /\ p \in Sessions /\ node[t].depth = node[p].depth + 1
  BY <1>1 DEF Inv, TreesTyped, TreeShape
<1>5. node[t].team \in Teams /\ user \in Users /\ device \in Devices
  BY <1>3 DEF Or, NodeType, SendData
<1>6. Placed(s, place)
  <2> HIDE DEF p, user, device
  <2> QED BY <1>1, <1>2, <1>4, <1>5, ChildPlaced
<1>7. SystemCard(p, Card("session", s)) \in MessageType
  BY <1>2, <1>4, SystemCardTyped DEF CardKinds
<1>8. Input(s, d.text, caller) \subseteq MessageType
  BY <1>2, InputTyped
<1>9. TreesTyped'
  <2> HIDE DEF place
  <2> QED BY <1>1, <1>2, <1>6, InsertTyped DEF Inv
<1>10. MessagesTyped'
  BY <1>1, <1>7, <1>8, Counters, PostTyped
<1> QED BY <1>9, <1>10

LEMMA RescopedTyped ==
  ASSUME TreesTyped, NEW t \in Rows, NEW d \in SendData
  PROVE  Rescoped(t, d) \in [Rows -> SUBSET Teams]
<1>1. d.scope \in SUBSET Teams /\ scope \in [Rows -> SUBSET Teams]
  BY DEF SendData, TreesTyped
<1> QED BY <1>1 DEF Rescoped

LEMMA WatchedTyped ==
  ASSUME TreesTyped, NEW ws, NEW s \in Rows
  PROVE  Watched(wakeOn, ws, s) \in [Rows -> SUBSET Rows]
  BY DEF Watched, TreesTyped

LEMMA SendMessageTyped ==
  ASSUME Inv, SendMessage
  PROVE  TreesTyped' /\ MessagesTyped'
<1>1. PICK d \in SendInputs, t \in Rows : \E caller \in Callers(d) :
        \/ \E s \in FreshIds : ForkThread(s, t, d, caller) \/ ContinueChild(s, t, d, caller)
        \/ MessageLive(t, d, caller)
        \/ ReviveRoot(t, d, caller)
  BY DEF SendMessage
<1>2. PICK caller \in Callers(d) :
        \/ \E s \in FreshIds : ForkThread(s, t, d, caller) \/ ContinueChild(s, t, d, caller)
        \/ MessageLive(t, d, caller)
        \/ ReviveRoot(t, d, caller)
  BY <1>1
<1>3. d \in SendData /\ caller \in Rows \cup {None}
  BY SendAssumption DEF SendAssumption, Callers
<1>4. /\ clock \in Nat /\ seq \in Nat /\ t \in Sessions /\ caller \in Sessions \cup {None}
      /\ wakeOn \in [Rows -> SUBSET Rows] /\ scope \in [Rows -> SUBSET Teams]
  BY <1>3, Counters DEF Inv, TreesTyped
<1>5. Input(t, d.text, caller) \subseteq MessageType
  BY <1>4, InputTyped
<1>6. CASE \E s \in FreshIds : ForkThread(s, t, d, caller)
  <2> DEFINE e == [d EXCEPT !.device = Or(@, node[t].device)]
  <2>1. PICK s \in FreshIds : StartRoot(s, e, caller)
    BY <1>6 DEF ForkThread
  <2>2. node[t].device \in Devices
    BY RowTyped DEF Inv, NodeType
  <2>3. e \in SendData
    BY <1>3, <2>2 DEF SendData, Or
  <2> HIDE DEF e
  <2> QED BY <1>3, <2>1, <2>3, StartRootStep
<1>7. CASE \E s \in FreshIds : ContinueChild(s, t, d, caller)
  BY <1>3, <1>7, ContinueChildStep
<1>8. CASE MessageLive(t, d, caller)
  <2>1. /\ scope' = Rescoped(t, d) /\ node' = node /\ wakeOn' = wakeOn
        /\ Post(msgs, Input(t, d.text, caller))
    BY <1>8 DEF MessageLive
  <2>2. TreesTyped'
    BY <1>3, <1>4, <2>1, RescopedTyped, SameTreesTyped DEF Inv
  <2>3. MessagesTyped'
    BY <1>5, <2>1, Counters, PostTyped
  <2> QED BY <2>2, <2>3
<1>9. CASE ReviveRoot(t, d, caller)
  <2>1. /\ wakeOn' = Watched(wakeOn, Rewatchers(t, caller), t) /\ node' = node
        /\ scope' = scope /\ Post(msgs, Input(t, d.text, caller))
    BY <1>9 DEF ReviveRoot
  <2>2. TreesTyped'
    BY <1>4, <2>1, WatchedTyped, SameTreesTyped DEF Inv
  <2>3. MessagesTyped'
    BY <1>5, <2>1, Counters, PostTyped
  <2> QED BY <2>2, <2>3
<1> QED BY <1>2, <1>6, <1>7, <1>8, <1>9

LEMMA EndRowsTyped ==
  ASSUME Inv, NEW rows \in SUBSET Rows, EndRows(rows)
  PROVE  TreesTyped' /\ MessagesTyped'
<1> DEFINE E == Endable(rows)
           closed == {IF m.card.kind = "ask" /\ m.card.about \in E
                      THEN [m EXCEPT !.answered = TRUE] ELSE m : m \in msgs}
<1>1. E \subseteq Rows /\ Rows \subseteq Sessions /\ clock \in Nat /\ seq \in Nat
  BY Counters DEF Endable, Inv, TreesTyped
<1>2. closed \subseteq MessageType
  BY Counters, EditedTyped
<1>3. PICK reports : /\ \A c \in E : reports[c] \subseteq MessageType
                     /\ Post(closed, UNION {reports[c] : c \in E})
  <2> DEFINE live(c, l) == IsLive(l) /\ (l \in E => EndsBefore(c, l))
             hearers(c) == Parents(c) \cup {w \in Watchers(c) : live(c, w)}
             said(c) == {Message(l, c, "agent", IF AskHidden(l, c) THEN "private" ELSE "report",
                                 Card("report", c), FALSE, live(c, l)) : l \in hearers(c)}
             batch(c) == said(c) \cup {SystemCard(c, Card("session_ended", c))}
             reports == [c \in E |-> batch(c)]
  <2>1. ASSUME NEW c \in E PROVE batch(c) \subseteq MessageType
    <3>1. hearers(c) \subseteq Sessions /\ c \in Sessions
      BY <1>1, ListenersTyped DEF BusListeners, Inv
    <3>2. ASSUME NEW l \in hearers(c)
          PROVE  Message(l, c, "agent", IF AskHidden(l, c) THEN "private" ELSE "report",
                         Card("report", c), FALSE, live(c, l)) \in MessageType
      <4> DEFINE body == IF AskHidden(l, c) THEN "private" ELSE "report"
                 pending == live(c, l)
      <4>1. body \in Bodies /\ pending \in BOOLEAN /\ "report" \in CardKinds /\ l \in Sessions
        BY <3>1 DEF Bodies, CardKinds
      <4> HIDE DEF body, pending
      <4>2. Message(l, c, "agent", body, Card("report", c), FALSE, pending) \in MessageType
        BY <1>1, <3>1, <4>1, MessageTyped
      <4> QED BY <4>2 DEF body, pending
    <3>3. SystemCard(c, Card("session_ended", c)) \in MessageType
      BY <1>1, <3>1, SystemCardTyped DEF CardKinds
    <3> QED BY <3>2, <3>3
  <2>2. Post(closed, UNION {batch(c) : c \in E})
    BY DEF EndRows
  <2>3. \A c \in E : reports[c] = batch(c)
    OBVIOUS
  <2> HIDE DEF closed, E, batch
  <2>4. UNION {batch(c) : c \in E} = UNION {reports[c] : c \in E}
    BY <2>3
  <2>5. Post(closed, UNION {reports[c] : c \in E})
    BY <2>2, <2>4
  <2> QED BY <2>1, <2>3, <2>5
<1>4. MessagesTyped'
  <2> HIDE DEF closed, E
  <2> QED BY <1>2, <1>3, Counters, PostTyped
<1>5. TreesTyped'
  <2>1. node' = node /\ scope' = scope /\ wakeOn' = [x \in DOMAIN wakeOn |-> wakeOn[x] \ E]
    BY DEF EndRows
  <2>2. wakeOn' \in [Rows -> SUBSET Rows]
    BY <2>1 DEF Inv, TreesTyped
  <2> QED BY <2>1, <2>2, SameTreesTyped DEF Inv, TreesTyped
<1> QED BY <1>4, <1>5

\* A step that writes rows only, and posts a typed batch.
LEMMA PostingTyped ==
  ASSUME Inv, node' = node, wakeOn' = wakeOn, scope' = scope,
         NEW before \in SUBSET MessageType, NEW batch \in SUBSET MessageType, Post(before, batch)
  PROVE  TreesTyped' /\ MessagesTyped'
<1>1. TreesTyped'
  BY SameTreesTyped DEF Inv, TreesTyped
<1>2. MessagesTyped'
  BY Counters, PostTyped
<1> QED BY <1>1, <1>2

LEMMA SendStartTyped ==
  ASSUME Inv, SendStart
  PROVE  TreesTyped' /\ MessagesTyped'
<1>1. PICK d \in SendInputs, s \in FreshIds : \E caller \in Callers(d) :
        StartRoot(s, d, caller) \/ \E p \in Rows : StartChild(s, p, d, caller)
  BY DEF SendStart
<1>2. PICK caller \in Callers(d) :
        StartRoot(s, d, caller) \/ \E p \in Rows : StartChild(s, p, d, caller)
  BY <1>1
<1>3. d \in SendData /\ caller \in Rows \cup {None}
  BY SendAssumption DEF SendAssumption, Callers
<1> QED BY <1>2, <1>3, StartRootStep, StartChildStep

LEMMA SendWatchTyped ==
  ASSUME Inv, SendWatch
  PROVE  TreesTyped' /\ MessagesTyped'
<1>1. PICK w \in Rows, ids \in SUBSET Rows : Watch(w, ids)
  BY DEF SendWatch
<1>2. Watchable(w, ids) \subseteq Rows
  BY DEF Watchable
<1>3. /\ node' = node /\ scope' = scope /\ msgs' = msgs /\ seq' = seq
      /\ wakeOn' = [wakeOn EXCEPT ![w] = @ \cup Watchable(w, ids)]
  BY <1>1 DEF Watch
<1>4. wakeOn' \in [Rows -> SUBSET Rows]
  BY <1>2, <1>3 DEF Inv, TreesTyped
<1>5. TreesTyped'
  BY <1>3, <1>4, SameTreesTyped DEF Inv, TreesTyped
<1> QED BY <1>3, <1>5, SameMessagesTyped DEF Inv

LEMMA SessionEndTyped ==
  ASSUME Inv, SessionEnd
  PROVE  TreesTyped' /\ MessagesTyped'
<1>1. PICK t \in Rows : EndRows(LiveSubtree(t))
  BY DEF SessionEnd, EndSession
<1>2. LiveSubtree(t) \in SUBSET Rows
  BY DEF LiveSubtree
<1> QED BY <1>1, <1>2, EndRowsTyped

LEMMA SessionPrOpenedTyped ==
  ASSUME Inv, SessionPrOpened
  PROVE  TreesTyped' /\ MessagesTyped'
<1>1. PICK s \in Rows : PrOpened(s)
  BY DEF SessionPrOpened
<1>2. "pr_opened" \in CardKinds
  BY DEF CardKinds
<1>3. BusLine(s, "pr_opened") \subseteq MessageType
  BY <1>2, Counters, BusLineTyped DEF Inv
<1> QED BY <1>1, <1>3, Counters, PostingTyped DEF PrOpened

-----------------------------------------------------------------------------
\* The steps of the devices.

LEMMA DeviceClaimTyped ==
  ASSUME Inv, DeviceClaim
  PROVE  TreesTyped' /\ MessagesTyped'
<1>1. PICK s \in Rows : Claim(s)
  BY DEF DeviceClaim
<1> DEFINE queued == run[s].status = "queued"
           before == IF queued /\ ~run[s].started THEN Delivered(FirstInput(s)) ELSE msgs
           batch  == IF queued THEN BusLine(s, "session_claimed") ELSE {}
<1>2. before \subseteq MessageType
  BY Counters, DeliveredTyped
<1>3. batch \subseteq MessageType
  <2>1. "session_claimed" \in CardKinds
    BY DEF CardKinds
  <2> QED BY <2>1, Counters, BusLineTyped DEF Inv
<1>4. Post(before, batch) /\ node' = node /\ wakeOn' = wakeOn /\ scope' = scope
  BY <1>1 DEF Claim
<1> HIDE DEF before, batch
<1> QED BY <1>2, <1>3, <1>4, PostingTyped

LEMMA DeviceReportTyped ==
  ASSUME Inv, DeviceReport
  PROVE  TreesTyped' /\ MessagesTyped'
<1>1. PICK s \in Rows, d \in ReportInputs : ReportLost(s, d) \/ ReportEnded(s, d) \/ ReportState(s, d)
  BY DEF DeviceReport
<1>2. CASE ReportLost(s, d)
  <2>1. node' = node /\ wakeOn' = wakeOn /\ scope' = scope /\ msgs' = msgs /\ seq' = seq
    BY <1>2 DEF ReportLost
  <2> QED BY <2>1, SameTreesTyped, SameMessagesTyped DEF Inv, TreesTyped
<1>3. CASE ReportEnded(s, d)
  BY <1>3, EndRowsTyped DEF ReportEnded
<1>4. CASE ReportState(s, d)
  <2> DEFINE batch == IF SaysWall(run[s], d) THEN BusLine(s, "session_blocked") ELSE {}
  <2>1. "session_blocked" \in CardKinds
    BY DEF CardKinds
  <2>2. batch \subseteq MessageType
    BY <2>1, Counters, BusLineTyped DEF Inv
  <2>3. Post(msgs, batch) /\ node' = node /\ wakeOn' = wakeOn /\ scope' = scope
    BY <1>4 DEF ReportState
  <2> HIDE DEF batch
  <2> QED BY <2>2, <2>3, Counters, PostingTyped
<1> QED BY <1>1, <1>2, <1>3, <1>4

LEMMA DeviceReplyTyped ==
  ASSUME Inv, DeviceReply
  PROVE  TreesTyped' /\ MessagesTyped'
<1>1. PICK s \in Rows, d \in ReplyInputs : Reply(s, d)
  BY DEF DeviceReply
<1> DEFINE sealed == d.sealed
           card   == IF d.card THEN Card("question", s) ELSE NoCard
           own    == Message(s, None, "agent", "reply", card, sealed, FALSE)
           copies == IF d.card THEN BusAsk(s) ELSE BusRelayTurn(s, sealed, d.copies)
<1>2. sealed \in BOOLEAN /\ s \in Sessions /\ clock \in Nat /\ seq \in Nat /\ "reply" \in Bodies
  BY Counters, DeviceAssumption DEF DeviceAssumption, ReplyData, Inv, TreesTyped, Bodies
<1>3. card \in CardType
  BY <1>2 DEF CardType, Card, NoCard, CardKinds
<1>4. own \in MessageType
  <2> HIDE DEF sealed, card
  <2> QED BY <1>2, <1>3, CardMessageTyped
<1>5. copies \subseteq MessageType
  <2> HIDE DEF sealed
  <2> QED BY <1>2, BusAskTyped, BusRelayTurnTyped DEF Inv
<1>6. Post(msgs, {own} \cup copies) /\ node' = node /\ wakeOn' = wakeOn /\ scope' = scope
  BY <1>1 DEF Reply
<1> HIDE DEF own, copies
<1>7. {own} \cup copies \in SUBSET MessageType
  BY <1>4, <1>5
<1> QED BY <1>6, <1>7, Counters, PostingTyped

LEMMA DeviceConsumeTyped ==
  ASSUME Inv, DeviceConsume
  PROVE  TreesTyped' /\ MessagesTyped'
<1>1. PICK s \in Rows : \E ms : Consume(s, ms)
  BY DEF DeviceConsume
<1>a. PICK ms : Consume(s, ms)
  BY <1>1
<1>2. /\ msgs' = Delivered(ms) /\ seq' = seq
      /\ node' = node /\ wakeOn' = wakeOn /\ scope' = scope
  BY <1>a DEF Consume
<1>3. MessagesTyped'
  BY <1>2, Counters, DeliveredTyped DEF MessagesTyped
<1> QED BY <1>2, <1>3, SameTreesTyped DEF Inv, TreesTyped

LEMMA DeviceHeartbeatTyped ==
  ASSUME Inv, HostTyped, DeviceHeartbeat
  PROVE  TreesTyped' /\ MessagesTyped' /\ HostTyped'
<1>a. PICK dev \in Devices, live \in SUBSET Rows :
        \E beat, active, at : beat \in Beats(live) /\ Heartbeat(dev, beat, active, at)
  BY DEF DeviceHeartbeat
<1>1. PICK beat, active, at :
        beat \in Beats(live) /\ Heartbeat(dev, beat, active, at)
  BY <1>a
<1>2. beat \in DeviceType
  <2>1. clock \in Time /\ Never \in Time /\ live \subseteq Sessions
    BY Counters, ClockTime DEF Inv, TreesTyped
  <2>2. [seen |-> clock, says |-> TRUE, live |-> live] \in DeviceType
    BY <2>1 DEF DeviceType
  <2>3. [seen |-> clock, says |-> FALSE, live |-> {}] \in DeviceType
    BY <2>1 DEF DeviceType
  <2> QED BY <1>1, <2>2, <2>3 DEF Beats
<1>3. /\ devices' = [devices EXCEPT ![dev] = beat]
      /\ node' = node /\ wakeOn' = wakeOn /\ scope' = scope /\ msgs' = msgs /\ seq' = seq
      /\ fired' = fired /\ clock' = clock
  BY <1>1 DEF Heartbeat, DeviceHeartbeat
<1>4. HostTyped'
  BY <1>2, <1>3 DEF HostTyped
<1> QED BY <1>3, <1>4, SameTreesTyped, SameMessagesTyped DEF Inv, TreesTyped

-----------------------------------------------------------------------------
\* The steps of the watchdog and of the wake-ups.

LEMMA WatchdogTickTyped ==
  ASSUME Inv, WatchdogTick
  PROVE  TreesTyped' /\ MessagesTyped'
<1>1. Unclaimed \subseteq Rows /\ Stuck \subseteq Rows /\ Overdue \subseteq Rows
  BY DEF Unclaimed, Stuck, Busy, Overdue
<1>2. {"session_unclaimed", "session_stuck", "session_interrupted"} \subseteq CardKinds
  BY DEF CardKinds
<1>3. \A s \in Rows : /\ BusLine(s, "session_unclaimed") \subseteq MessageType
                      /\ BusLine(s, "session_stuck") \subseteq MessageType
                      /\ BusLine(s, "session_interrupted") \subseteq MessageType
  BY <1>2, Counters, BusLineTyped DEF Inv
<1> DEFINE batch == (UNION {BusLine(s, "session_unclaimed") : s \in Unclaimed})
           \cup (UNION {BusLine(s, "session_stuck") : s \in Stuck})
           \cup (UNION {BusLine(s, "session_interrupted") : s \in Overdue})
<1>4. batch \subseteq MessageType
  BY <1>1, <1>3
<1>5. Post(msgs, batch) /\ node' = node /\ wakeOn' = wakeOn /\ scope' = scope
  BY DEF WatchdogTick, Tick
<1> HIDE DEF batch
<1> QED BY <1>4, <1>5, Counters, PostingTyped

LEMMA WakeTyped ==
  ASSUME Inv, NEW a \in Agents, NEW kind \in CardKinds, NEW t \in Triggers
  PROVE  Message(Conv(a), None, "user", "line", Card(kind, t), FALSE, TRUE) \in MessageType
<1>1. Conv(a) \in Sessions
  BY HubAssumption DEF HubAssumption, ProfileType, Conv
<1> QED BY <1>1, Counters, MessageTyped DEF Bodies

LEMMA TriggerScheduleTyped ==
  ASSUME Inv, HostTyped, TriggerSchedule
  PROVE  TreesTyped' /\ MessagesTyped' /\ HostTyped'
<1>1. PICK a \in Agents : \E due \in SUBSET Profile[a].schedules, at \in 0..clock : Schedule(a, due, at)
  BY DEF TriggerSchedule
<1>2. PICK due \in SUBSET Profile[a].schedules, at \in 0..clock : Schedule(a, due, at)
  BY <1>1
<1>3. due \subseteq Triggers
  BY HubAssumption DEF HubAssumption, ProfileType
<1>4. /\ fired' = [t \in Triggers |-> IF t \in due THEN at ELSE fired[t]]
      /\ node' = node /\ wakeOn' = wakeOn /\ scope' = scope /\ devices' = devices /\ clock' = clock
  BY <1>2 DEF Schedule
<1>5. HostTyped'
  <2>1. at \in Time
    BY Counters DEF Time
  <2> QED BY <1>4, <2>1 DEF HostTyped
<1> DEFINE before == {IF m \in Rearmed(a) THEN [m EXCEPT !.pending = TRUE] ELSE m : m \in msgs}
<1>6. before \subseteq MessageType
  BY Counters, EditedTyped
<1>7. PICK old \in SUBSET MessageType, batch \in SUBSET MessageType : Post(old, batch)
  <2>1. CASE Post(before, {})
    BY <1>6, <2>1
  <2>2. CASE \E t \in due :
               Post(msgs, {Message(Conv(a), None, "user", "line", Card("tick", t), FALSE, TRUE)})
    <3>1. "tick" \in CardKinds
      BY DEF CardKinds
    <3>2. PICK t \in due :
            Post(msgs, {Message(Conv(a), None, "user", "line", Card("tick", t), FALSE, TRUE)})
      BY <2>2
    <3>3. Message(Conv(a), None, "user", "line", Card("tick", t), FALSE, TRUE) \in MessageType
      BY <1>3, <3>1, WakeTyped
    <3> QED BY <3>2, <3>3, Counters
  <2> QED BY <1>2, <2>1, <2>2 DEF Schedule
<1> QED BY <1>4, <1>5, <1>7, PostingTyped

LEMMA TriggerEventTyped ==
  ASSUME Inv, TriggerEvent
  PROVE  TreesTyped' /\ MessagesTyped'
<1>1. PICK team, origin, takers : Emitted(team, origin, takers)
  BY DEF TriggerEvent
<1> DEFINE emitter == IF origin = None THEN None ELSE TreeAgent(origin)
           heard   == {a \in Agents : Profile[a].team = team /\ a # emitter}
           wakes(a) == {Message(Conv(a), None, "user", "line", Card("event_fired", t), FALSE, TRUE) :
                          t \in Profile[a].events \cap takers}
           batch   == UNION {wakes(a) : a \in heard}
<1>2. \A a \in Agents : Profile[a].events \subseteq Triggers
  BY HubAssumption DEF HubAssumption, ProfileType
<1>3. "event_fired" \in CardKinds
  BY DEF CardKinds
<1>4. ASSUME NEW a \in Agents PROVE wakes(a) \subseteq MessageType
  BY <1>2, <1>3, WakeTyped
<1>5. batch \subseteq MessageType
  <2> HIDE DEF wakes
  <2> QED BY <1>4
<1>6. Post(msgs, batch) /\ node' = node /\ wakeOn' = wakeOn /\ scope' = scope
  BY <1>1 DEF Emitted
<1> HIDE DEF batch
<1> QED BY <1>5, <1>6, Counters, PostingTyped

-----------------------------------------------------------------------------
\* The induction.

LEMMA TypeInvInit == Init => TypeInv
<1> SUFFICES ASSUME Init PROVE TypeInv
  OBVIOUS
<1>1. Rows = Conversations /\ Conversations \subseteq Sessions
  BY HubAssumption DEF Init, Rows, Conversations, HubAssumption, ProfileType
<1>2. ASSUME NEW s \in Conversations
      PROVE  /\ node[s] \in NodeType /\ node[s].parent = None
             /\ node[s].root = s /\ node[s].depth = 0
  <2> DEFINE a == CHOOSE x \in Agents : Profile[x].conv = s
  <2>1. a \in Agents
    BY DEF Conversations
  <2>2. node[s] = [parent |-> None, root |-> s, depth |-> 0, team |-> Profile[a].team,
                   user |-> Profile[a].owner, shared |-> Profile[a].shared, agent |-> a,
                   startedBy |-> None, cont |-> None, device |-> Profile[a].device,
                   keyed |-> FALSE, created |-> 0]
    BY DEF Init
  <2> HIDE DEF a
  <2>3. Profile[a] \in ProfileType
    BY <2>1, HubAssumption DEF HubAssumption
  <2> QED BY <1>1, <2>1, <2>2, <2>3 DEF NodeType, ProfileType
<1>3. node \in [Rows -> NodeType]
  BY <1>1, <1>2 DEF Init
<1>4. TreeShape
  <2>1. Rules.treeMaxDepth >= 0
    BY HubAssumption DEF HubAssumption, RulesType
  <2> QED BY <1>1, <1>2, <2>1 DEF TreeShape, Root
<1>5. TreesTyped
  BY <1>1, <1>3, <1>4 DEF TreesTyped, Init
<1>6. MessagesTyped
  BY HubAssumption DEF MessagesTyped, Init, HubAssumption
<1>7. HostTyped
  <2>1. [seen |-> Never, says |-> FALSE, live |-> {}] \in DeviceType
    BY DEF DeviceType, Time
  <2> QED BY <2>1, HubAssumption DEF HostTyped, Init, HubAssumption, Time
<1> QED BY <1>5, <1>6, <1>7, RowsSoundInit DEF TypeInv

LEMMA TypeInvStep == TypeInv /\ [Next]_vars => TypeInv'
<1> SUFFICES ASSUME TypeInv, [Next]_vars PROVE TypeInv'
  OBVIOUS
<1>1. Inv /\ HostTyped /\ RowsSound'
  BY RowsSoundStep DEF TypeInv, Inv
<1>2. Host => HostTyped'
  BY <1>1 DEF Host, HostTyped
<1>3. CASE SendStart
  BY <1>1, <1>2, <1>3, SendStartTyped DEF TypeInv, SendStart
<1>4. CASE SendMessage
  BY <1>1, <1>2, <1>4, SendMessageTyped DEF TypeInv, SendMessage
<1>5. CASE SendWatch
  BY <1>1, <1>2, <1>5, SendWatchTyped DEF TypeInv, SendWatch
<1>6. CASE SessionEnd
  BY <1>1, <1>2, <1>6, SessionEndTyped DEF TypeInv, SessionEnd
<1>7. CASE SessionPrOpened
  BY <1>1, <1>2, <1>7, SessionPrOpenedTyped DEF TypeInv, SessionPrOpened
<1>8. CASE DeviceClaim
  BY <1>1, <1>2, <1>8, DeviceClaimTyped DEF TypeInv, DeviceClaim
<1>9. CASE DeviceReport
  BY <1>1, <1>2, <1>9, DeviceReportTyped DEF TypeInv, DeviceReport
<1>10. CASE DeviceReply
  BY <1>1, <1>2, <1>10, DeviceReplyTyped DEF TypeInv, DeviceReply
<1>11. CASE DeviceConsume
  BY <1>1, <1>2, <1>11, DeviceConsumeTyped DEF TypeInv, DeviceConsume
<1>12. CASE DeviceHeartbeat
  BY <1>1, <1>12, DeviceHeartbeatTyped DEF TypeInv
<1>13. CASE WatchdogTick
  <2>1. HostTyped'
    BY <1>1, <1>13 DEF HostTyped, WatchdogTick, Tick
  <2> QED BY <1>1, <1>13, <2>1, WatchdogTickTyped DEF TypeInv
<1>14. CASE TriggerSchedule
  BY <1>1, <1>14, TriggerScheduleTyped DEF TypeInv
<1>15. CASE TriggerEvent
  <2>1. HostTyped'
    BY <1>1, <1>15 DEF HostTyped, TriggerEvent, Emitted
  <2> QED BY <1>1, <1>15, <2>1, TriggerEventTyped DEF TypeInv
<1>16. CASE Advance
  <2>1. HostTyped'
    BY <1>1, <1>16, HubAssumption DEF HostTyped, Advance, HubAssumption
  <2> QED BY <1>1, <1>16, <2>1, SameTreesTyped, SameMessagesTyped
          DEF TypeInv, Inv, TreesTyped, Advance
<1>17. CASE UNCHANGED vars
  BY <1>1, <1>17, SameTreesTyped, SameMessagesTyped
     DEF vars, Inv, TypeInv, TreesTyped, HostTyped
<1> QED BY <1>3, <1>4, <1>5, <1>6, <1>7, <1>8, <1>9, <1>10, <1>11, <1>12, <1>13, <1>14, <1>15,
           <1>16, <1>17 DEF Next, HostEvent

\* Whatever the constants, every reachable state is typed.
THEOREM TypesHold == Spec => []TypeOK
<1>1. TypeInv => TypeOK
  BY DEF TypeInv, TreesTyped, MessagesTyped, HostTyped, RowsSound, TypeOK
<1> QED BY <1>1, TypeInvInit, TypeInvStep, PTL DEF Spec

\* Whatever order sessions start, end, revive and continue in, their trees keep their shape.
THEOREM TreesKeepShape == Spec => []TreeShape
<1>1. TypeInv => TreeShape
  BY DEF TypeInv, TreesTyped
<1> QED BY <1>1, TypeInvInit, TypeInvStep, PTL DEF Spec

=============================================================================
