------------------------------- MODULE HubWakeups -------------------------------
(***************************************************************************)
(* What wakes a team agent besides the bus (reduce.rs: trigger.schedule,   *)
(* trigger.event): a firing lands as pending input in the agent's          *)
(* conversation. Matching a cron or an event's name is the host's: an event *)
(* is told apart by the triggers that take it.                             *)
(***************************************************************************)
EXTENDS HubState

Conv(a) == Profile[a].conv

\* trees_moved: did anything this agent's trees did happen after `since`? An Assistant
\* watches its member's chats, its own conversation's turns are no news; another agent with
\* no tree at all always counts as moved.
TreesMoved(a, since) ==
  LET p      == Profile[a]
      teams  == IF p.assistant THEN TreeTeams(Conv(a)) ELSE {p.team}
      rows   == {s \in Rows : node[s].team \in teams}
      began(s) == node[s].startedBy = a
      roots  == {s \in rows : s = Root(s) /\ (began(s) \/ node[s].agent = a)}
      tree   == IF p.assistant
                THEN {s \in rows : node[s].user = p.owner /\ (node[s].agent # a \/ s # Root(s))}
                ELSE {s \in rows : Root(s) \in roots /\ (began(Root(s)) \/ s # Root(s))}
  IN  \/ \E s \in tree : run[s].lastActivity > since
      \/ ~p.assistant /\ tree = {}

Ticks(a) == {m \in Conversation(Conv(a)) : m.card.kind = "tick"}
LastTick(a) == {m \in Ticks(a) : \A o \in Ticks(a) : o.n <= m.n}

\* Input from a person (or another firing) after the tick answers it.
TickAnswered(a, t) == \E m \in Conversation(Conv(a)) : m.author = "user" /\ m # t /\ m.at > t.at

\* Mutant: an unread tick that was answered is left beside a new one.
RearmedUnanswered(a) == {m \in LastTick(a) : ~TickAnswered(a, m)}

\* Never stacks: an unread tick, or a read one nobody answered, is edited and armed again.
Rearmed(a) == {m \in LastTick(a) : m.pending \/ ~TickAnswered(a, m)}

\* An agent's schedules `due`, at the due minute.
Schedule(a, due, at) ==
  LET since == {fired[t] : t \in {x \in Profile[a].schedules : fired[x] # Never}}
  IN  /\ due # {} /\ due \subseteq Profile[a].schedules
      /\ since = {} \/ \E last \in since : (\A x \in since : x <= last) /\ TreesMoved(a, last)
      /\ fired' = [t \in Triggers |-> IF t \in due THEN at ELSE fired[t]]
      /\ IF Rearmed(a) # {}
         THEN Post({IF m \in Rearmed(a) THEN [m EXCEPT !.pending = TRUE] ELSE m : m \in msgs}, {})
         ELSE \E t \in due :
                Post(msgs, {Message(Conv(a), None, "user", "line", Card("tick", t), FALSE, TRUE)})
      /\ UNCHANGED <<node, run, wakeOn, scope, devices, clock>>

\* An event of a team, emitted from session `origin` (or from no session): every agent of
\* the team but the emitter's own hears it once per trigger that takes it.
Emitted(team, origin, takers) ==
  LET emitter == IF origin = None THEN None ELSE TreeAgent(origin)
      heard   == {a \in Agents : Profile[a].team = team /\ a # emitter}
  IN  /\ Post(msgs, UNION {{Message(Conv(a), None, "user", "line", Card("event_fired", t), FALSE, TRUE) :
                              t \in Profile[a].events \cap takers} : a \in heard})
      /\ UNCHANGED <<node, run, wakeOn, scope, devices, fired, clock>>

=============================================================================
