------------------------------- MODULE HubState -------------------------------
(***************************************************************************)
(* The state of the agent hub (eagent-hub-core: model.rs) and the rules    *)
(* every handler of its reducer shares (reduce.rs): session trees, the     *)
(* conversations' messages, and the bus that carries a session's           *)
(* transitions to its parent and its watchers.                             *)
(*                                                                         *)
(* One HubSession row is split by who may write it: node (its place in its *)
(* tree, fixed at insertion), run (what its device and the watchdog write),*)
(* wakeOn (whom it watches) and scope (a root's other teams).              *)
(***************************************************************************)
EXTENDS Integers, FiniteSets

CONSTANTS
  Sessions,   \* session ids: naturals, since ids break the ties of createdAt
  Devices, Users, Teams, Agents, Triggers,
  None,       \* the absent id
  Profile,    \* an agent's configuration: conversation, owner, team, role, triggers
  Rules,      \* rules.json: caps, reuse and watchdog thresholds, in clock units
  MaxClock,   \* bound: the clock stops here
  MaxSeq      \* bound: that many events may post messages

Never == -1
Time  == Nat \cup {Never}

ProfileType ==
  [conv : Sessions, owner : Users, team : Teams, device : Devices, shared : BOOLEAN,
   assistant : BOOLEAN, schedules : SUBSET Triggers, events : SUBSET Triggers]

RulesType ==
  [treeMaxDepth : Nat, treeMaxSessions : Nat,
   maxEnded : Nat, maxIdle : Nat, maxChildren : Nat,
   unclaimed : Nat, resume : Nat, offline : Nat,
   stuck : Nat, backgroundStuck : Nat, online : Nat]

ASSUME HubAssumption ==
  /\ Sessions \subseteq Nat
  /\ None \notin Sessions \cup Agents \cup Devices \cup Users \cup Teams
  /\ Profile \in [Agents -> ProfileType]
  /\ \A a, b \in Agents : Profile[a].conv = Profile[b].conv => a = b
  /\ Rules \in RulesType
  /\ MaxClock \in Nat /\ MaxSeq \in Nat

VARIABLES
  node,     \* session -> its place in its tree; the DOMAIN is the rows that exist
  run,      \* session -> its status and flags
  wakeOn,   \* session -> the sessions it watches
  scope,    \* session -> a root's other teams
  msgs,     \* every message of every conversation
  seq,      \* how many events have posted: numbers the messages of one event
  devices,  \* device -> its last heartbeat
  fired,    \* trigger -> the due minute it last fired for
  clock

vars == <<node, run, wakeOn, scope, msgs, seq, devices, fired, clock>>

-----------------------------------------------------------------------------
\* The shapes of the rows (model.rs).

Statuses      == {"queued", "running", "idle", "ended"}
Interruptions == {"device_offline", "restarted"}
OnPersonKinds == {"rate_limit", "unclaimed", "stuck", "start_failed"}
BlockedKinds  == Interruptions \cup OnPersonKinds

\* A Blocked flag; kind "none" is an unset one. `resume` of the code is TRUE exactly on
\* the interruptions, the only flags the hub sets it on, so it is no field of its own.
BlockedType == [kind : BlockedKinds \cup {"none"}, since : Time, resumeSince : Time, resetsAt : Time]

Flag(kind, since, resumeSince, resetsAt) ==
  [kind |-> kind, since |-> since, resumeSince |-> resumeSince, resetsAt |-> resetsAt]

NotBlocked == Flag("none", Never, Never, Never)

NodeType ==
  [parent : Sessions \cup {None}, root : Sessions, depth : Nat, team : Teams, user : Users,
   shared : BOOLEAN, agent : Agents \cup {None}, startedBy : Agents \cup {None},
   cont : Sessions \cup {None}, device : Devices, keyed : BOOLEAN, created : Nat]

RunType ==
  [status : Statuses, busy : BOOLEAN, background : BOOLEAN, needsInput : BOOLEAN,
   blocked : BlockedType, started : BOOLEAN, ended : Time, lastTurn : Time,
   lastActivity : Time, updated : Nat]

\* An event card is named by its event; "tick" is a trigger_fired card of a schedule,
\* "event_fired" one of an event trigger. A question card stands for a plan card too.
CardKinds ==
  {"none", "question", "ask", "report", "session", "thread_started", "session_ended",
   "session_claimed", "session_unclaimed", "session_stuck", "session_interrupted",
   "session_blocked", "pr_opened", "tick", "event_fired"}

Card(kind, about) == [kind |-> kind, about |-> about]
NoCard == Card("none", None)

\* What a body says, as far as privacy tells it apart: a send's text, a turn's reply, an
\* ask, a report, a pull request, or a line that says nothing of its origin's content.
Bodies == {"", "text", "reply", "ask", "report", "pr", "line", "private"}

MessageType ==
  [to : Sessions, from : Sessions \cup {None}, author : {"user", "agent", "system"},
   body : Bodies, card : [kind : CardKinds, about : Sessions \cup Triggers \cup {None}],
   sealed : BOOLEAN, pending : BOOLEAN, answered : BOOLEAN, at : Nat, n : Nat]

DeviceType == [seen : Time, says : BOOLEAN, live : SUBSET Sessions]

-----------------------------------------------------------------------------
\* Shared rules.

Rows == DOMAIN node

IsLive(s)    == run[s].status # "ended"
IsWorking(s) == run[s].status \in {"running", "idle"}
Root(s)      == node[s].root

\* tree_agent_id of a session's root: the agent that acts for its tree.
TreeAgent(s) ==
  IF node[Root(s)].agent # None THEN node[Root(s)].agent ELSE node[Root(s)].startedBy

\* A reader of `listener` may not see `origin`.
AskHidden(listener, origin) ==
  /\ ~node[origin].shared
  /\ node[listener].shared \/ node[listener].user # node[origin].user

IsAssistant(s) == node[s].agent # None /\ Profile[node[s].agent].assistant

Conversation(s) == {m \in msgs : m.to = s}
OpenCards(s)    == \E m \in Conversation(s) : m.card.kind = "question" /\ ~m.answered
IsPendingInput(m) == m.author = "user" \/ m.from \notin {None, m.to}

\* A flag lifted: needsInput is derived anew from the open cards.
ClearBlocked(s, r) ==
  [r EXCEPT !.blocked = NotBlocked, !.needsInput = OpenCards(s), !.updated = clock]

\* Mutant: the background flag survives the interruption.
ParkedInBackground(r, kind, resumeSince) ==
  [r EXCEPT !.status = "idle", !.busy = FALSE,
            !.blocked = Flag(kind, clock, resumeSince, Never), !.updated = clock]

\* An interruption parks the session: idle, for its device to continue.
Parked(r, kind, resumeSince) ==
  [r EXCEPT !.status = "idle", !.busy = FALSE, !.background = FALSE,
            !.blocked = Flag(kind, clock, resumeSince, Never), !.updated = clock]

\* Live sessions of the tree's teams that the watcher's account may see.
TreeTeams(s) == {node[Root(s)].team} \cup scope[Root(s)]
\* Mutant: any session of the tree's teams may be watched.
MayWatchTeam(w, team, shared, user) == team \in TreeTeams(w)

MayWatch(w, team, shared, user) == team \in TreeTeams(w) /\ (shared \/ user = node[w].user)
Watched(wakes, ws, s) ==
  [w \in DOMAIN wakes |-> IF w \in ws THEN wakes[w] \cup {s} ELSE wakes[w]]

Insert(f, s, value) == [x \in DOMAIN f \cup {s} |-> IF x = s THEN value ELSE f[x]]

-----------------------------------------------------------------------------
\* Messages. The messages of one event share `n`; none of them are equal, for one event
\* says one thing once to a conversation.

Message(to, from, author, body, card, sealed, pending) ==
  [to |-> to, from |-> from, author |-> author, body |-> body, card |-> card, sealed |-> sealed,
   pending |-> pending, answered |-> FALSE, at |-> clock, n |-> seq]

SystemCard(to, card) == Message(to, None, "system", "", card, FALSE, FALSE)

\* What an event posts, in one batch (none posted: the numbering stands still).
Post(before, batch) ==
  /\ msgs' = before \cup batch
  /\ seq' = IF batch = {} THEN seq ELSE seq + 1
  /\ seq' <= MaxSeq

-----------------------------------------------------------------------------
\* The bus.

\* Mutant: an ended parent is not told.
LiveParents(c) == {p \in {node[c].parent} \ {None} : IsLive(p)}

Parents(c)  == {node[c].parent} \ {None}
\* Mutant: only the watchers of its own tree hear a session.
TreeWatchers(c) ==
  {w \in Rows \ ({c} \cup Parents(c)) : IsLive(w) /\ c \in wakeOn[w] /\ Root(w) = Root(c)}

Watchers(c) ==
  {w \in Rows \ ({c} \cup Parents(c)) : IsLive(w) /\ c \in wakeOn[w]}

\* Who a transition of c reaches: its parent whatever its status, and every live watcher.
BusListeners(c) == Parents(c) \cup Watchers(c)

\* Mutant: every listener gets the content.
DeliverOpenly(c, listeners, author, body, hidden, card, waking) ==
  {Message(l, c, author, body, card, FALSE, waking /\ IsLive(l)) : l \in listeners}

\* One copy per listener: `hidden` for a reader who may not see c; it wakes a live one.
Deliver(c, listeners, author, body, hidden, card, waking) ==
  {Message(l, c, author, IF AskHidden(l, c) THEN hidden ELSE body, card, FALSE,
           waking /\ IsLive(l)) : l \in listeners}

\* The events an Assistant's conversation is not told of (assistantSilentEvents).
SilentEvents == {"pr_opened", "session_claimed"}

\* A transition said on the bus; with no listener at all it is said on the session itself.
BusLine(c, event) ==
  LET all    == BusListeners(c)
      heard  == {l \in all : event \in SilentEvents => l # Root(l) \/ ~IsAssistant(l)}
      body   == IF event = "pr_opened" THEN "pr" ELSE "line"
      hidden == IF event = "pr_opened" THEN "private" ELSE "line"
      waking == event # "session_claimed"
  IN  IF all = {} /\ waking
      THEN {Message(c, None, "system", body, Card(event, c), FALSE, FALSE)}
      ELSE Deliver(c, heard, "system", body, hidden, Card(event, c), waking)

\* Mutant: the relayed copies lose the seal.
RelayedOpenly(c, l, sealed, copies) ==
  Message(l, c, "agent", IF AskHidden(l, c) THEN "private" ELSE "reply", NoCard, FALSE, IsLive(l))

\* A turn's text. A team agent's conversation that only watches c hears no turns, unless
\* its agent started the thread. A sealed text is copied inside its tree and to the trees
\* the reply brings a copy for; every other listener gets the neutral line.
RelayedTurn(c, l, sealed, copies) ==
  LET readable == ~AskHidden(l, c) /\ (sealed => Root(l) \in {Root(c)} \cup copies)
  IN  Message(l, c, "agent", IF readable THEN "reply" ELSE "private", NoCard,
              sealed /\ readable, IsLive(l))

BusRelayTurn(c, sealed, copies) ==
  {RelayedTurn(c, l, sealed, copies) :
     l \in {x \in BusListeners(c) : \/ node[x].agent = None
                                   \/ x = node[c].parent
                                   \/ node[x].agent = node[c].startedBy}}

\* The ask's mirror in every listener's conversation.
BusAsk(c) == Deliver(c, BusListeners(c), "agent", "ask", "private", Card("ask", c), TRUE)

=============================================================================
