-------------------------------- MODULE HubSend --------------------------------
(***************************************************************************)
(* What sends do to the session trees (reduce.rs: send.start, send.message,*)
(* send.watch, session.end, session.pr_opened). A refused send leaves the  *)
(* state as it was, so a refusal is a guard. A send's data is one of       *)
(* SendInputs; the caller is a session or None (a person).                 *)
(***************************************************************************)
EXTENDS HubState

CONSTANTS
  SendInputs,
  IdsInOrder   \* bound: a run may take ids in ascending order only

SendData ==
  [bySession : BOOLEAN, device : Devices \cup {None}, team : Teams \cup {None}, user : Users \cup {None},
   shared : BOOLEAN, text : {"none", "plain", "sealed"}, work : BOOLEAN,
   rescope : BOOLEAN, scope : SUBSET Teams]

ASSUME SendAssumption == SendInputs \subseteq SendData /\ IdsInOrder \in BOOLEAN

\* callerId: a session of the tree, or None for a person.
Callers(d) == IF d.bySession THEN Rows ELSE {None}

\* insert_session refuses an id that exists.
FreshIds ==
  {s \in Sessions \ Rows : IdsInOrder => \A x \in Sessions \ Rows : s <= x}

\* Mutant: what a send leaves out has no default.
OnlyGiven(given, default) == given

Or(given, default) == IF given # None THEN given ELSE default

-----------------------------------------------------------------------------
\* The tree.

\* assert_tree_room: one more session at `depth` of this tree.
LiveInTree(root) == {s \in Rows : Root(s) = root /\ IsLive(s)}
\* Mutant: the depth is not capped.
TreeRoomByCount(root, depth) == Cardinality(LiveInTree(root)) < Rules.treeMaxSessions

TreeRoom(root, depth) ==
  /\ depth <= Rules.treeMaxDepth
  /\ Cardinality(LiveInTree(root)) < Rules.treeMaxSessions

\* start_team: the named team, when the tree works there.
StartTeamAllowed(tree, team) == team = None \/ team \in TreeTeams(tree) \cup {node[tree].team}

NewRun ==
  [status |-> "queued", busy |-> FALSE, background |-> FALSE, needsInput |-> FALSE,
   blocked |-> NotBlocked, started |-> FALSE, ended |-> Never, lastTurn |-> Never,
   lastActivity |-> Never, updated |-> clock]

\* insert_session: a queued row that nobody watches but `watchers`.
InsertSession(s, place, watchers) ==
  /\ s \in FreshIds
  /\ node' = Insert(node, s, place)
  /\ run' = Insert(run, s, NewRun)
  /\ scope' = Insert(scope, s, {})
  /\ wakeOn' = Insert(Watched(wakeOn, watchers, s), s, {})

\* The row of a sub-session below `parent`: it is as shared as its root.
ChildPlace(parent, depth, team, user, device, cont) ==
  [parent |-> parent, root |-> Root(parent), depth |-> depth, team |-> team, user |-> user,
   shared |-> node[Root(parent)].shared, agent |-> None, startedBy |-> None, cont |-> cont,
   device |-> device, keyed |-> FALSE, created |-> clock]

\* post_send: the caller's message, pending input of `to`.
Input(to, text, caller) ==
  IF text = "none" THEN {}
  ELSE {Message(to, caller, IF caller = None THEN "user" ELSE "agent", "text", NoCard,
                text = "sealed", TRUE)}

\* Mutant: the key is looked for on the row, not on its root.
TextAllowedByRow(to, text) == text = "plain" => ~node[to].keyed

\* A keyed tree takes no plaintext, not even from its own agent.
TextAllowed(to, text) == text = "plain" => ~node[Root(to)].keyed

-----------------------------------------------------------------------------
\* send.start

StartRoot(s, d, caller) ==
  LET agent  == IF caller = None THEN None ELSE TreeAgent(caller)
      device == Or(d.device, IF agent = None THEN None ELSE node[Root(caller)].device)
      team   == IF caller = None THEN d.team ELSE Or(d.team, node[caller].team)
      user   == IF caller = None THEN d.user ELSE Or(d.user, node[caller].user)
      place  == [parent |-> None, root |-> s, depth |-> 0, team |-> team, user |-> user,
                 shared |-> d.shared, agent |-> None, startedBy |-> agent, cont |-> None,
                 device |-> device, keyed |-> d.text = "sealed", created |-> clock]
      watch  == IF caller = None THEN {}
                ELSE {w \in {caller} : MayWatch(w, team, d.shared, user)}
      thread == IF caller = None THEN {} ELSE {SystemCard(caller, Card("thread_started", s))}
  IN  /\ None \notin {device, team, user}
      /\ d.text # "none" \/ d.work
      /\ agent # None => StartTeamAllowed(caller, d.team)
      /\ InsertSession(s, place, watch)
      /\ Post(msgs, Input(s, d.text, caller) \cup thread)

StartChild(s, p, d, caller) ==
  LET user == Or(d.user, IF caller = None THEN node[p].user ELSE node[caller].user)
  IN  /\ TreeRoom(Root(p), node[p].depth + 1)
      /\ StartTeamAllowed(p, d.team)
      /\ TextAllowed(p, d.text)
      /\ InsertSession(s, ChildPlace(p, node[p].depth + 1, Or(d.team, node[p].team), user,
                                     Or(d.device, node[p].device), None), {})
      /\ Post(msgs, Input(s, d.text, caller) \cup {SystemCard(p, Card("session", s))})

-----------------------------------------------------------------------------
\* send.message

\* awaits_caller: the target's tree has the last word with the caller.
AwaitsCaller(caller, t) ==
  LET heard == {m \in msgs : m.to = caller /\ m.author = "agent"
                             /\ m.from # None /\ Root(m.from) = Root(t)}
      said  == {m \in msgs : m.from = caller /\ Root(m.to) = Root(t)}
  IN  \E h \in heard : \A m \in said : h.at > m.at

LastSign(r) ==
  IF r.lastTurn # Never THEN r.lastTurn
  ELSE IF r.lastActivity # Never THEN r.lastActivity ELSE r.updated

\* reuse_refusal, of a thread that waits on nobody: too long ended, too idle, too crowded.
ReuseRefused(t) ==
  \/ run[t].status = "ended" /\ clock - run[t].ended >= Rules.maxEnded
  \/ clock - LastSign(run[t]) >= Rules.maxIdle
  \/ Cardinality({c \in Rows \ {t} : Root(c) = t}) >= Rules.maxChildren

\* agent_fresh_thread: an agent's message to another tree's stale root starts a new one.
Forks(t, d, caller) ==
  /\ caller # None
  /\ Root(caller) # Root(t)
  /\ node[t].parent = None /\ node[t].agent = None
  /\ d.text = "plain"
  /\ ~run[t].needsInput
  /\ TreeAgent(caller) # None
  /\ ~AwaitsCaller(caller, t)
  /\ ReuseRefused(t)

\* Only an Assistant's conversation takes a turn's teams: they become its root's scope.
MayRescope(t, d) == d.rescope => IsAssistant(t) /\ node[t].parent = None
Rescoped(t, d) ==
  IF d.rescope THEN [scope EXCEPT ![t] = d.scope \ {node[t].team}] ELSE scope
Touched(t, d) == IF d.rescope THEN [run EXCEPT ![t].updated = clock] ELSE run

ForkThread(s, t, d, caller) ==
  /\ Forks(t, d, caller)
  /\ ~d.rescope
  /\ StartRoot(s, [d EXCEPT !.device = Or(@, node[t].device)], caller)

MessageLive(t, d, caller) ==
  /\ IsLive(t) \/ node[t].agent # None
  /\ MayRescope(t, d)
  /\ ~Forks(t, d, caller)
  /\ TextAllowed(t, d.text)
  /\ scope' = Rescoped(t, d)
  /\ run' = Touched(t, d)
  /\ Post(msgs, Input(t, d.text, caller))
  /\ UNCHANGED <<node, wakeOn>>

\* Mutant: an ended child revives in place too.
RevivableAtAnyDepth(t) == ~IsLive(t) /\ node[t].agent = None

Revivable(t) == ~IsLive(t) /\ node[t].parent = None /\ node[t].agent = None

Revived(r) ==
  [r EXCEPT !.status = "idle", !.ended = Never, !.busy = FALSE, !.background = FALSE,
            !.needsInput = FALSE, !.blocked = NotBlocked, !.updated = clock]

\* rewatch_revived: its starter (the live session with its thread_started card) and the
\* caller outside its tree watch the revived root again, where they may.
Rewatchers(t, caller) ==
  LET starters == {m.to : m \in {x \in msgs : x.card = Card("thread_started", t)}}
  IN  {w \in {x \in starters : IsLive(x)} \cup ({caller} \ {None}) :
         Root(w) # t /\ MayWatch(w, node[t].team, node[t].shared, node[t].user)}

\* An ended root revives in place.
ReviveRoot(t, d, caller) ==
  /\ Revivable(t)
  /\ ~d.rescope
  /\ ~Forks(t, d, caller)
  /\ d.text # "none"
  /\ TextAllowed(t, d.text)
  /\ run' = [run EXCEPT ![t] = Revived(@)]
  /\ wakeOn' = Watched(wakeOn, Rewatchers(t, caller), t)
  /\ Post(msgs, Input(t, d.text, caller))
  /\ UNCHANGED <<node, scope>>

\* An ended child continues as its sibling.
ContinueChild(s, t, d, caller) ==
  LET user == Or(d.user, IF caller = None THEN node[t].user ELSE node[caller].user)
      p    == node[t].parent
  IN  /\ ~IsLive(t) /\ p # None /\ node[t].agent = None
      /\ ~d.rescope
      /\ d.text # "none"
      /\ TreeRoom(Root(t), node[t].depth)
      /\ TextAllowed(t, d.text)
      /\ InsertSession(s, ChildPlace(p, node[t].depth, node[t].team, user,
                                     Or(d.device, node[t].device), t), {})
      /\ Post(msgs, Input(s, d.text, caller) \cup {SystemCard(p, Card("session", s))})

\* send.watch
\* Mutant: an ended session may be watched.
WatchableEnded(w, ids) ==
  {s \in ids \ {w} : MayWatch(w, node[s].team, node[s].shared, node[s].user)}

Watchable(w, ids) ==
  {s \in ids \ {w} : IsLive(s) /\ MayWatch(w, node[s].team, node[s].shared, node[s].user)}

Watch(w, ids) ==
  /\ wakeOn' = [wakeOn EXCEPT ![w] = @ \cup Watchable(w, ids)]
  /\ UNCHANGED <<node, run, scope, msgs, seq>>

-----------------------------------------------------------------------------
\* session.end

\* The sessions above s in its tree.
Ancestors ==
  LET above[s \in Rows] ==
        IF node[s].parent = None THEN {} ELSE {node[s].parent} \cup above[node[s].parent]
  IN  above

\* live_subtree: a root's whole tree, else the session and what is below it.
LiveSubtree(t) ==
  {s \in Rows : /\ IsLive(s)
                /\ IF node[t].parent = None THEN Root(s) = t ELSE s = t \/ t \in Ancestors[s]}

\* The order a subtree ends in: deepest first, then oldest, then by id.
EndsBefore(a, b) ==
  \/ node[a].depth > node[b].depth
  \/ node[a].depth = node[b].depth /\ node[a].created < node[b].created
  \/ node[a].depth = node[b].depth /\ node[a].created = node[b].created /\ a < b

\* Mutant: a held session keeps its flag when it ends.
EndedHeld(r) ==
  [r EXCEPT !.status = "ended", !.ended = clock, !.busy = FALSE, !.background = FALSE,
            !.needsInput = FALSE, !.updated = clock]

Ended(r) ==
  [r EXCEPT !.status = "ended", !.ended = clock, !.busy = FALSE, !.background = FALSE,
            !.needsInput = FALSE, !.blocked = NotBlocked, !.updated = clock]

\* Mutant: an agent's conversation ends with its tree.
EndableAgents(rows) == {s \in rows : IsLive(s)}

Endable(rows) == {s \in rows : IsLive(s) /\ node[s].agent = None}

\* end_rows: each row of E ends in turn (never an agent's conversation), closes its ask
\* mirrors, says so on itself and reports to its parent and to the watchers that are still
\* live at its turn; nobody watches it from then on.
EndRows(rows) ==
  LET E == Endable(rows)
      liveAtTurnOf(c, l) == IsLive(l) /\ (l \in E => EndsBefore(c, l))
      hearers(c) == Parents(c) \cup {w \in Watchers(c) : liveAtTurnOf(c, w)}
      reports(c) == {Message(l, c, "agent", IF AskHidden(l, c) THEN "private" ELSE "report",
                             Card("report", c), FALSE, liveAtTurnOf(c, l)) : l \in hearers(c)}
      closed == {IF m.card.kind = "ask" /\ m.card.about \in E
                 THEN [m EXCEPT !.answered = TRUE] ELSE m : m \in msgs}
  IN  /\ run' = [s \in DOMAIN run |-> IF s \in E THEN Ended(run[s]) ELSE run[s]]
      /\ wakeOn' = [s \in DOMAIN wakeOn |-> wakeOn[s] \ E]
      /\ Post(closed, UNION {reports(c) \cup {SystemCard(c, Card("session_ended", c))} : c \in E})
      /\ UNCHANGED <<node, scope>>

EndSession(t) == EndRows(LiveSubtree(t))

\* session.pr_opened
PrOpened(s) ==
  /\ Post(msgs, BusLine(s, "pr_opened"))
  /\ UNCHANGED <<node, run, wakeOn, scope>>

=============================================================================
