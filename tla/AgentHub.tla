-------------------------------- MODULE AgentHub --------------------------------
(***************************************************************************)
(* The agent hub: reduce(state, event) as a state machine. Every action is *)
(* one event's whole handler, the events come in any order the host sends  *)
(* them, and `at` is the clock.                                            *)
(***************************************************************************)
EXTENDS HubDevice, HubWatchdog, HubWakeups

CONSTANTS
  Events,       \* the event kinds the host sends (event.kind)
  MaxTalk,      \* bound: past that many postings only the watchdog and the triggers post
  ActivityAges  \* how old the activity is that a heartbeat names

ASSUME EventAssumption == ActivityAges \subseteq Nat /\ MaxTalk \in Nat

Conversations == {Profile[a].conv : a \in Agents}

\* An agent's conversation exists before anything is sent: a claimed, idle root.
Init ==
  LET agentOf(s) == CHOOSE a \in Agents : Profile[a].conv = s IN
  /\ node = [s \in Conversations |->
       LET a == agentOf(s) IN
         [parent |-> None, root |-> s, depth |-> 0, team |-> Profile[a].team,
          user |-> Profile[a].owner, shared |-> Profile[a].shared, agent |-> a,
          startedBy |-> None, cont |-> None, device |-> Profile[a].device,
          keyed |-> FALSE, created |-> 0]]
  /\ run = [s \in Conversations |->
       [status |-> "idle", busy |-> FALSE, background |-> FALSE, needsInput |-> FALSE,
        blocked |-> NotBlocked, started |-> TRUE, ended |-> Never, lastTurn |-> Never,
        lastActivity |-> Never, updated |-> 0]]
  /\ wakeOn = [s \in Conversations |-> {}]
  /\ scope = [s \in Conversations |-> {}]
  /\ msgs = {} /\ seq = 0
  /\ devices = [d \in Devices |-> [seen |-> Never, says |-> FALSE, live |-> {}]]
  /\ fired = [t \in Triggers |-> Never]
  /\ clock = 0

-----------------------------------------------------------------------------
\* One action per event kind (step, reduce).

Host == UNCHANGED <<devices, fired, clock>> /\ (seq' = seq \/ seq' <= MaxTalk)

SendStart ==
  /\ "send.start" \in Events
  /\ \E d \in SendInputs, s \in FreshIds : \E caller \in Callers(d) :
       StartRoot(s, d, caller) \/ \E p \in Rows : StartChild(s, p, d, caller)
  /\ Host

SendMessage ==
  /\ "send.message" \in Events
  /\ \E d \in SendInputs, t \in Rows : \E caller \in Callers(d) :
       \/ \E s \in FreshIds : ForkThread(s, t, d, caller) \/ ContinueChild(s, t, d, caller)
       \/ MessageLive(t, d, caller)
       \/ ReviveRoot(t, d, caller)
  /\ Host

SendWatch ==
  /\ "send.watch" \in Events
  /\ \E w \in Rows : \E ids \in SUBSET (Rows \ {w}) : Watch(w, ids)
  /\ Host

SessionEnd ==
  /\ "session.end" \in Events
  /\ \E t \in Rows : EndSession(t)
  /\ Host

SessionPrOpened ==
  /\ "session.pr_opened" \in Events
  /\ \E s \in Rows : PrOpened(s)
  /\ Host

DeviceClaim ==
  /\ "device.claim" \in Events
  /\ \E s \in Rows : Claim(s)
  /\ Host

DeviceReport ==
  /\ "device.report" \in Events
  /\ \E s \in Rows, d \in ReportInputs :
       ReportLost(s, d) \/ ReportEnded(s, d) \/ ReportState(s, d)
  /\ Host

DeviceReply ==
  /\ "device.reply" \in Events
  /\ \E s \in Rows, d \in ReplyInputs : Reply(s, d)
  /\ Host

DeviceConsume ==
  /\ "device.consume" \in Events
  /\ \E s \in Rows : \E ms \in SUBSET {m \in Conversation(s) : m.pending} : Consume(s, ms)
  /\ Host

DeviceHeartbeat ==
  /\ "device.heartbeat" \in Events
  /\ \E dev \in Devices, age \in ActivityAges :
       LET hosted == {s \in Rows : node[s].device = dev} IN
         \E live, active \in SUBSET hosted : \E beat \in Beats(live) :
           Heartbeat(dev, beat, active, IF age <= clock THEN clock - age ELSE 0)
  /\ UNCHANGED <<fired, clock>>

WatchdogTick == "watchdog.tick" \in Events /\ Tick

TriggerSchedule ==
  /\ "trigger.schedule" \in Events
  /\ \E a \in Agents : \E due \in SUBSET Profile[a].schedules, at \in 0..clock : Schedule(a, due, at)

EventTriggers == UNION {Profile[a].events : a \in Agents}

TriggerEvent ==
  /\ "trigger.event" \in Events
  /\ \E team \in {Profile[a].team : a \in Agents}, origin \in Rows \cup {None} :
       \E takers \in SUBSET EventTriggers : Emitted(team, origin, takers)

\* Time passes between events; a refused event changes nothing.
Advance ==
  /\ clock < MaxClock
  /\ clock' = clock + 1
  /\ UNCHANGED <<node, run, wakeOn, scope, msgs, seq, devices, fired>>

HostEvent ==
  \/ SendStart \/ SendMessage \/ SendWatch
  \/ SessionEnd \/ SessionPrOpened
  \/ DeviceClaim \/ DeviceReport \/ DeviceReply \/ DeviceConsume \/ DeviceHeartbeat
  \/ WatchdogTick
  \/ TriggerSchedule \/ TriggerEvent

Next == HostEvent \/ Advance

Spec == Init /\ [][Next]_vars

\* The host runs the watchdog every minute (rules.json), so the clock does not pass over rows
\* that are due; time passes and the watchdog runs.
NothingDue == Unclaimed \cup Stuck \cup Cut \cup Settled \cup Overdue \cup WallsReset = {}
FairSpec ==
  /\ Init /\ [][HostEvent \/ (NothingDue /\ Advance)]_vars
  /\ WF_vars(NothingDue /\ Advance) /\ WF_vars(WatchdogTick)

-----------------------------------------------------------------------------
\* Types.

TypeOK ==
  /\ Rows \subseteq Sessions
  /\ node \in [Rows -> NodeType]
  /\ run \in [Rows -> RunType]
  /\ wakeOn \in [Rows -> SUBSET Rows]
  /\ scope \in [Rows -> SUBSET Teams]
  /\ msgs \subseteq MessageType
  /\ seq \in 0..MaxSeq
  /\ devices \in [Devices -> DeviceType]
  /\ fired \in [Triggers -> Time]
  /\ clock \in 0..MaxClock

-----------------------------------------------------------------------------
\* The trees.

\* A tree is a tree: a child's parent is a row of the same tree one step nearer the root, a
\* root is its own root, and no session sits deeper than the cap, whatever order sessions
\* start, end, revive and continue in (insert_session, assert_tree_room).
TreeShape ==
  \A s \in Rows :
    /\ node[s].depth <= Rules.treeMaxDepth
    /\ Root(s) \in Rows /\ node[Root(s)].parent = None
    /\ IF node[s].parent = None
       THEN Root(s) = s /\ node[s].depth = 0
       ELSE LET p == node[s].parent IN
              p \in Rows /\ Root(p) = Root(s) /\ node[s].depth = node[p].depth + 1

\* A continuation is a sibling of the child it continues, and that child stays ended: only
\* roots revive in place (send_message).
ContinuesEnded ==
  \A s \in Rows : LET c == node[s].cont IN
    c # None => ~IsLive(c) /\ node[c].parent = node[s].parent /\ node[c].depth = node[s].depth

\* A tree never holds more live sessions than the cap (rules.json caps). The revival of a
\* root asks for no room, so the code does not keep this: see the run hub_treecap.
TreeCap == \A s \in Rows : Cardinality(LiveInTree(s)) <= Rules.treeMaxSessions

\* An agent's conversation is persistent: no end, of itself or of its tree, and no report of
\* its device ends it (end_rows, report).
AgentNeverEnds == \A s \in Rows : node[s].agent # None => IsLive(s)

\* A root that finished a turn only ends with its whole tree: a report of its device that
\* its process is gone never strands its sub-sessions (report, live_subtree).
RootEndsItsTree ==
  [][\A s \in Rows :
       node[s].parent = None /\ run[s].lastTurn # Never /\ IsLive(s) /\ ~IsLive(s)'
         => LiveInTree(s)' = {}]_vars

-----------------------------------------------------------------------------
\* The bus.

\* Nobody watches an ended session: its report takes it off every list, and a row that ends
\* in the same step as its watcher leaves nothing behind (bus_report, watch_sessions).
WakeOnLive == \A w \in Rows : \A s \in wakeOn[w] : s # w /\ IsLive(s)

\* A session watches only what its account may see (watch_sessions).
WatchersMaySee ==
  \A w \in Rows : \A s \in wakeOn[w] : node[s].shared \/ node[s].user = node[w].user

\* A child is ended exactly when its parent holds one final report of it: no end goes
\* unreported and none is reported twice, however the rows end (end_rows, bus_report).
ReportedOnce ==
  \A s \in Rows : node[s].parent # None =>
    Cardinality({m \in Conversation(node[s].parent) : m.card = Card("report", s)})
      = (IF IsLive(s) THEN 0 ELSE 1)

\* Whoever waits on a session, its parent or a watcher, and outlives the step that ends it is woken by its report.
EndWakesListeners ==
  [][\A s \in Rows : IsLive(s) /\ ~IsLive(s)' =>
       \A l \in Rows \ {s} :
         (l = node[s].parent \/ s \in wakeOn[l]) /\ IsLive(l) /\ IsLive(l)' =>
         \E m \in msgs' \ msgs : m.to = l /\ m.card = Card("report", s) /\ m.pending]_vars

\* No bus copy carries the content of a private session to a reader who may not see it:
\* not its turns, asks, report or pull request (deliver, ask_hidden).
NoPrivateLeak ==
  \A m \in msgs : m.body \in {"reply", "ask", "report", "pr"} /\ m.from \notin {None, m.to}
    => ~AskHidden(m.to, m.from)

\* A turn sealed by its device is relayed in the clear to no one: every copy of its text is
\* sealed too (bus_relay_turn).
SealedTurnStaysSealed ==
  \A m \in msgs : m.body = "reply" /\ m.from # None =>
    \E own \in msgs : /\ own.to = m.from /\ own.from = None /\ own.n = m.n
                      /\ own.body = "reply" /\ own.sealed = m.sealed

\* A keyed tree holds no plaintext send, whichever way it came in: a start, a sub-session, a
\* message, a revival, a continuation or a forked thread (post_send).
KeyedTakesSealed ==
  \A m \in msgs : m.body = "text" /\ node[Root(m.to)].keyed => m.sealed

-----------------------------------------------------------------------------
\* The device and the watchdog.

\* A session held by a wall, a failed start, or an unclaimed or stuck flag is on a person:
\* no report, claim, heartbeat or reset drops one and keeps the other.
BlockedOnPerson == \A s \in Rows : run[s].blocked.kind \in OnPersonKinds => run[s].needsInput

\* An interrupted session reads idle until its device continues it: it is never shown busy,
\* and no later tick interrupts or settles it again.
InterruptedIsIdle ==
  \A s \in Rows : run[s].blocked.kind \in Interruptions =>
    run[s].status = "idle" /\ ~run[s].busy /\ ~run[s].background

\* What ended is out of the watchdog's and the device's hands: not busy, not held, and its
\* end is stamped; a live row carries no end, revived ones included.
EndedIsQuiet ==
  \A s \in Rows :
    IF IsLive(s) THEN run[s].ended = Never
    ELSE /\ ~run[s].busy /\ ~run[s].background
         /\ run[s].blocked.kind = "none" /\ run[s].ended # Never

\* An interrupted session does not stay silently interrupted: its device continues it, or it
\* is put on a person, even when the device comes back once and goes away again. (Said of
\* interruptions early enough for the bounded clock to reach the watchdog's thresholds.)
InterruptedSettles ==
  \A s \in Sessions :
    (/\ s \in Rows /\ run[s].blocked.kind \in Interruptions
     /\ run[s].blocked.since + Rules.offline + Rules.resume + 2 <= MaxClock)
      ~> (s \in Rows /\ (run[s].needsInput \/ run[s].blocked.kind \notin Interruptions))

\* A session its device never picks up does not stay queued unnoticed.
QueuedSettles ==
  \A s \in Sessions :
    (s \in Rows /\ run[s].status = "queued" /\ node[s].created + Rules.unclaimed + 1 <= MaxClock)
      ~> (s \in Rows /\ (run[s].status # "queued" \/ run[s].needsInput))

-----------------------------------------------------------------------------
\* Wake-ups.

\* Schedule firings never stack: a conversation has at most one unread tick, and only the
\* newest tick is ever unread (schedule).
TicksNeverStack ==
  \A a \in Agents : \A t \in Ticks(a) : t.pending => t \in LastTick(a) /\ LastTick(a) = {t}

=============================================================================
