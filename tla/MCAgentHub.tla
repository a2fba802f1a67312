------------------------------- MODULE MCAgentHub -------------------------------
(* Instances of AgentHub for TLC: small sets of sessions, sends and reports. *)
EXTENDS AgentHub, TLC

CONSTANTS u1, u2, t1, t2, d1, d2, ag, as, cron, cron2, hook

NoAgents == [a \in {} |-> 0]

ScaledRules ==
  [treeMaxDepth |-> 2, treeMaxSessions |-> 3,
   maxEnded |-> 1, maxIdle |-> 2, maxChildren |-> 2,
   unclaimed |-> 0, resume |-> 0, offline |-> 1,
   stuck |-> 0, backgroundStuck |-> 1, online |-> 0]

Plain == [bySession |-> FALSE, device |-> d1, team |-> t1, user |-> u1, shared |-> TRUE, text |-> "plain",
          work |-> FALSE, rescope |-> FALSE, scope |-> {}]
Quiet == [lost |-> FALSE, midTurn |-> {}, status |-> "none", busy |-> {}, background |-> {},
          needsInput |-> {}, wall |-> "missing", resetsIn |-> Never, handled |-> FALSE]

\* A device that stays away is given up as soon as one that came back: a short clock gets there.
PromptRules == [ScaledRules EXCEPT !.offline = 0]

\* The trees: a person's sends, ends, and reports of a turn's end or a process gone.
TreeSends   == {Plain}
TreeReports == {[Quiet EXCEPT !.status = "ended"], [Quiet EXCEPT !.status = "idle"]}

\* The bus: a team agent of u1 whose conversation is session 1. Its sends start private and
\* sealed threads; a second account works in the same team.
OneAgent ==
  [a \in {ag} |-> [conv |-> 1, owner |-> u1, team |-> t1, device |-> d1, shared |-> TRUE,
                   assistant |-> FALSE, schedules |-> {}, events |-> {}]]
\* A thread is stale at once, so every send of the agent to one it is not in talk with forks it.
StaleRules == [ScaledRules EXCEPT !.maxIdle = 0]
ByAgent  == [Plain EXCEPT !.bySession = TRUE, !.device = None, !.team = None, !.user = None]
BusSends == {[ByAgent EXCEPT !.shared = FALSE], [ByAgent EXCEPT !.text = "sealed"],
             [Plain EXCEPT !.user = u2, !.device = None]}
BusReplies ==
  {[card |-> TRUE, sealed |-> FALSE, copies |-> {}], [card |-> FALSE, sealed |-> FALSE, copies |-> {}],
   [card |-> FALSE, sealed |-> TRUE, copies |-> {}], [card |-> FALSE, sealed |-> TRUE, copies |-> {1}]}

\* The watchdog: a device that works, hits walls, loses its process and goes away.
DeviceReports ==
  {[Quiet EXCEPT !.status = "running", !.busy = {TRUE}],
   [Quiet EXCEPT !.busy = {TRUE}, !.background = {TRUE}],
   [Quiet EXCEPT !.busy = {FALSE}, !.needsInput = {FALSE}],
   [Quiet EXCEPT !.status = "ended"],
   [Quiet EXCEPT !.lost = TRUE],
   [Quiet EXCEPT !.wall = "rate_limit", !.resetsIn = 1],
   [Quiet EXCEPT !.wall = "start_failed", !.status = "idle"]}
Asks == {[card |-> TRUE, sealed |-> FALSE, copies |-> {}]}

\* Wake-ups: a team agent and an Assistant of u1, each with a schedule and an event trigger,
\* and the threads the person and the agent start.
TwoAgents ==
  [a \in {ag, as} |->
    IF a = ag
    THEN [conv |-> 1, owner |-> u1, team |-> t1, device |-> d1, shared |-> TRUE,
          assistant |-> FALSE, schedules |-> {cron}, events |-> {hook}]
    ELSE [conv |-> 2, owner |-> u1, team |-> t1, device |-> d1, shared |-> FALSE,
          assistant |-> TRUE, schedules |-> {cron2}, events |-> {}]]
WakeSends == {[ByAgent EXCEPT !.text = "none", !.work = TRUE], [Plain EXCEPT !.text = "none", !.rescope = TRUE, !.scope = {t2}]}
Turns == {[card |-> FALSE, sealed |-> FALSE, copies |-> {}]}
=============================================================================
