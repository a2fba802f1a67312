--------------------------- MODULE SessionPickup ---------------------------
(***************************************************************************)
(* How the hosts of one device pick up a session: src/apps/desktop/crates/ *)
(* coding/src/pickup.rs, driven by the daemon's pass (cli/src/commands/    *)
(* daemon.rs).  The subject is ONE thread session, its row and its input   *)
(* messages on the server, the hosts of the device (processes sharing a    *)
(* data directory, hence the claim lock and the run record), the synced    *)
(* copy of the shapes each of them plans over, and the engine a host runs. *)
(* A message is its place in created_at order.                             *)
(***************************************************************************)
EXTENDS Naturals

CONSTANTS
    Hosts,          \* the processes of this device that run pickup passes
    Messages,       \* the session's input messages, oldest first
    MaxAttempts,    \* MAX_LAUNCH_ATTEMPTS
    MaxFaults       \* bound: crashes, engine stops, failures, withdrawals and the end

ASSUME MessagesAssumption == Messages \subseteq Nat /\ Messages # {}
ASSUME HostsAssumption == Hosts \cap {"free", "dead"} = {}
ASSUME MaxAttemptsAssumption == MaxAttempts \in Nat \ {0}
ASSUME MaxFaultsAssumption == MaxFaults \in Nat

VARIABLES
    row,        \* sessions.status on the server
    msg,        \* each message on the server
    seen,       \* per host: the synced copy [row, msg] its passes read
    host,       \* per host: the LiveRegistry, the attempt and the memory of its process
    agent,      \* per host: the engine; seed is the Request its first turn still owes,
                \* fed is all it was ever handed, twice what it was handed again,
                \* unconsumed what it read and did not report yet
    claim,      \* the ClaimLock: "free", its holder, or "dead" (its holder crashed)
    record,     \* the run record on disk; started: it names an agent session
    ghost,      \* messages an agent read (heard), whose failure was replied (told),
                \* that the server consumed at the claim (given); whether a host crashed
    faults      \* faults so far

vars == <<row, msg, seen, host, agent, claim, record, ghost, faults>>

Status == {"queued", "running", "idle", "ended"}
MessageState == {"unsent", "pending", "consumed", "withdrawn"}
\* A launch claims, fetches the brief, starts; a wake, or (reclaiming) a
\* continuation, locks, wakes, resumes.  batch: the messages a wake hands over;
\* seed: the Request, when the brief is (in) the prompt.
Steps == {"none", "claiming", "briefing", "starting",
          "locking", "reclaiming", "waking", "resuming"}
Reports == {"nothing", "idle", "unstarted"}

NoAttempt == [step |-> "none", batch |-> {}, seed |-> {}]
FreshHost == [up |-> TRUE, reconciled |-> FALSE, attempt |-> NoAttempt,
              entry |-> FALSE, handed |-> {}, refused |-> {},
              consuming |-> {}, jobs |-> {}, unsettled |-> 0, says |-> "nothing"]
NoAgent == [state |-> "none", seed |-> {}, queue |-> {}, fed |-> {}, twice |-> {},
            unconsumed |-> {}]

AttemptState == [step : Steps, batch : SUBSET Messages, seed : SUBSET Messages]
HostState == [up : BOOLEAN, reconciled : BOOLEAN, attempt : AttemptState,
              entry : BOOLEAN, handed : SUBSET Messages, refused : SUBSET Messages,
              consuming : SUBSET Messages, jobs : SUBSET Messages,
              unsettled : 0..MaxAttempts, says : Reports]
AgentState == [state : {"none", "starting", "up", "closing", "done"},
               seed : SUBSET Messages, queue : SUBSET Messages, fed : SUBSET Messages,
               twice : SUBSET Messages, unconsumed : SUBSET Messages]
View == [row : Status, msg : [Messages -> MessageState]]
RecordState == [exists : BOOLEAN, started : BOOLEAN, owed : SUBSET Messages]
GhostState == [heard : SUBSET Messages, told : SUBSET Messages,
               given : SUBSET Messages, crashed : BOOLEAN]

(* The type invariant.  unsettled never exceeds MAX_LAUNCH_ATTEMPTS: every  *)
(* way out of the last attempt but an unanswered claim forgets it.         *)
TypeOK ==
    /\ row \in Status
    /\ msg \in [Messages -> MessageState]
    /\ seen \in [Hosts -> View]
    /\ host \in [Hosts -> HostState]
    /\ agent \in [Hosts -> AgentState]
    /\ claim \in Hosts \cup {"free", "dead"}
    /\ record \in RecordState
    /\ ghost \in GhostState
    /\ faults \in 0..MaxFaults

(***************************************************************************)
(* The server.                                                             *)
(***************************************************************************)
Oldest(S) == {m \in S : \A n \in S : m <= n}

(* The brief's Request: the session's first input that still exists.       *)
Request == Oldest({m \in Messages : msg[m] \in {"pending", "consumed"}})

(* sessions.report on an ended row is a no-op.                             *)
Reported(status) == IF row = "ended" THEN row ELSE status

(* sessions.consume stamps what is still pending.                          *)
Consumed(ms) == [m \in Messages |->
    IF m \in ms /\ msg[m] = "pending" THEN "consumed" ELSE msg[m]]

(* What upsets the usual course is counted by the bound.                   *)
Fault == faults < MaxFaults /\ faults' = faults + 1

Init ==
    /\ row = "queued"
    /\ msg = [m \in Messages |-> IF m \in Oldest(Messages) THEN "pending" ELSE "unsent"]
    /\ seen = [h \in Hosts |-> [row |-> row, msg |-> msg]]
    /\ host = [h \in Hosts |-> [FreshHost EXCEPT !.reconciled = TRUE]]
    /\ agent = [h \in Hosts |-> NoAgent]
    /\ claim = "free"
    /\ record = [exists |-> FALSE, started |-> FALSE, owed |-> {}]
    /\ ghost = [heard |-> {}, told |-> {}, given |-> {}, crashed |-> FALSE]
    /\ faults = 0

Send(m) ==
    /\ row # "ended" /\ msg[m] = "unsent"
    /\ \A n \in Messages : n < m => msg[n] # "unsent"
    /\ msg' = [msg EXCEPT ![m] = "pending"]
    /\ UNCHANGED <<row, seen, host, agent, claim, record, ghost, faults>>

Withdraw(m) ==
    /\ msg[m] = "pending" /\ Fault
    /\ msg' = [msg EXCEPT ![m] = "withdrawn"]
    /\ UNCHANGED <<row, seen, host, agent, claim, record, ghost>>

EndSession ==
    /\ row # "ended" /\ Fault
    /\ row' = "ended"
    /\ UNCHANGED <<msg, seen, host, agent, claim, record, ghost>>

(* The two shapes reach a host independently.                              *)
SyncRow(h) ==
    /\ host[h].up /\ seen[h].row # row
    /\ seen' = [seen EXCEPT ![h].row = row]
    /\ UNCHANGED <<row, msg, host, agent, claim, record, ghost, faults>>

SyncMessages(h) ==
    /\ host[h].up /\ seen[h].msg # msg
    /\ seen' = [seen EXCEPT ![h].msg = msg]
    /\ UNCHANGED <<row, msg, host, agent, claim, record, ghost, faults>>

(***************************************************************************)
(* One pickup pass of a host: prune, settle_handed, the startup reconcile  *)
(* (its first pass only), retry_launches' forgetting, then the one action  *)
(* plan yields for the session.                                            *)
(***************************************************************************)
PendingIn(h) == {m \in Messages : seen[h].msg[m] = "pending"}
ConsumedIn(h) == {m \in Messages : seen[h].msg[m] = "consumed"}
Pruned(h) == host[h].entry /\ agent[h].state = "done"

(* Mutant: an attempt is counted with every pass, not with every launch.   *)
HousekeptCounting(h) ==
    [host[h] EXCEPT
        !.reconciled = TRUE,
        !.entry = @ /\ ~Pruned(h),
        !.handed = IF Pruned(h) THEN {} ELSE @ \ ConsumedIn(h),
        !.consuming = @ \ ConsumedIn(h),
        !.unsettled = IF seen[h].row \in {"queued", "running"} THEN @ + 1 ELSE 0]

Housekept(h) ==
    [host[h] EXCEPT
        !.reconciled = TRUE,
        !.entry = @ /\ ~Pruned(h),
        !.handed = IF Pruned(h) THEN {} ELSE @ \ ConsumedIn(h),
        !.consuming = @ \ ConsumedIn(h),
        !.unsettled = IF seen[h].row \in {"queued", "running"} THEN @ ELSE 0]

ClaimAfterPrune(h) == IF Pruned(h) THEN "free" ELSE claim

(* reconcile_rows: a row nobody on this machine holds (its claim lock is   *)
(* free for a moment), nothing pending.  An idle one is taken back only if *)
(* it still reads busy: row.busy is not kept, so it may or may not be.     *)
LeftBehind(h) ==
    /\ ~host[h].reconciled /\ ~Housekept(h).entry
    /\ seen[h].row \in {"running", "idle"} /\ PendingIn(h) = {}
    /\ claim = "free"
Reclaims(h) == LeftBehind(h) /\ seen[h].row = "running"

PlansKill(h) == Housekept(h).entry /\ seen[h].row = "ended"
PlansResume(h) ==
    /\ ~Housekept(h).entry
    /\ seen[h].row \in {"running", "idle"} /\ PendingIn(h) # {}
PlansLaunch(h) ==
    /\ ~Housekept(h).entry /\ ~PlansResume(h)
    /\ \/ seen[h].row = "queued"
       \/ seen[h].row = "running" /\ host[h].unsettled > 0
PlansFeed(h) == Housekept(h).entry /\ seen[h].row # "ended"

(* reclaim_step: a run no agent session was recorded of never started; a   *)
(* turn cut off is continued, the row in flight; a running row between     *)
(* turns idles.  What is only reported is so by a thread of its own.       *)
Reclaim(h) ==
    /\ LeftBehind(h)
    /\ LET k == Housekept(h) IN
       \/ ~record.started /\ host' = [host EXCEPT ![h] = [k EXCEPT !.says = "unstarted"]]
       \/ /\ record.started /\ host[h].attempt.step = "none"
          /\ host' = [host EXCEPT ![h] = [k EXCEPT !.attempt.step = "reclaiming"]]
       \/ /\ record.started /\ seen[h].row = "running"
          /\ host' = [host EXCEPT ![h] = [k EXCEPT !.says = "idle"]]
    /\ UNCHANGED <<row, msg, seen, agent, claim, record, ghost, faults>>

(* The thread's report lands, UNSTARTED_REPLY first: nothing holds the     *)
(* session for it.                                                         *)
Says(h) ==
    /\ host[h].says # "nothing"
    /\ host' = [host EXCEPT ![h].says = "nothing"]
    /\ row' = Reported("idle")
    /\ ghost' = [ghost EXCEPT !.told = @ \cup IF host[h].says = "unstarted" THEN Request ELSE {}]
    /\ UNCHANGED <<msg, seen, agent, claim, record, faults>>

(* Nothing to execute: an attempt holds the session, or plan is empty.     *)
Quiet(h) ==
    /\ \/ host[h].attempt.step # "none"
       \/ ~(PlansKill(h) \/ PlansResume(h) \/ PlansLaunch(h) \/ PlansFeed(h))
    /\ ~Reclaims(h)
    /\ host' = [host EXCEPT ![h] = Housekept(h)]
    /\ UNCHANGED agent
    /\ claim' = ClaimAfterPrune(h)
    /\ UNCHANGED <<row, msg, seen, record, ghost, faults>>

(* Launch and Resume run on a thread of their own, the row in flight.      *)
(* launch_queued takes the claim lock or skips.                            *)
BeginLaunch(h) ==
    /\ host[h].attempt.step = "none" /\ ~Reclaims(h) /\ PlansLaunch(h)
    /\ LET k == Housekept(h) IN
       IF ClaimAfterPrune(h) = "free"
       THEN /\ claim' = h
            /\ host' = [host EXCEPT ![h] = [k EXCEPT
                  !.attempt.step = "claiming",
                  !.unsettled = IF @ < MaxAttempts THEN @ + 1 ELSE @]]
       ELSE host' = [host EXCEPT ![h] = k] /\ UNCHANGED claim
    /\ UNCHANGED <<row, msg, seen, agent, record, ghost, faults>>

(* deliver, waking: the owed ids are consumed here, never delivered; what  *)
(* was refused before is not tried again.                                  *)
BeginWake(h) ==
    /\ host[h].attempt.step = "none" /\ ~Reclaims(h) /\ PlansResume(h)
    /\ LET k == Housekept(h)
           covered == (PendingIn(h) \cap record.owed) \ k.consuming
           left == PendingIn(h) \ (record.owed \cup k.consuming)
       IN host' = [host EXCEPT ![h] = [k EXCEPT
            !.consuming = @ \cup covered,
            !.jobs = @ \cup covered,
            !.attempt = IF left \subseteq k.refused THEN NoAttempt
                        ELSE [step |-> "locking", batch |-> left, seed |-> {}]]]
    /\ claim' = ClaimAfterPrune(h)
    /\ UNCHANGED <<row, msg, seen, agent, record, ghost, faults>>

(* Kill drops the entry, and its claim, before the engine is told.         *)
Kill(h) ==
    /\ host[h].attempt.step = "none" /\ PlansKill(h)
    /\ host' = [host EXCEPT ![h] = [Housekept(h) EXCEPT !.entry = FALSE, !.handed = {}]]
    /\ claim' = "free"
    /\ agent' = [agent EXCEPT ![h].state = "closing"]
    /\ UNCHANGED <<row, msg, seen, record, ghost, faults>>

(* Revokes, then the delivery of what was not handed yet (deliver's live   *)
(* path).                                                                  *)
Revoked(h) == {m \in Housekept(h).handed : seen[h].msg[m] = "withdrawn"}
(* Mutant: what was handed is handed again with the next pass.             *)
FreshForAgain(h) == PendingIn(h) \ Housekept(h).consuming

FreshFor(h) == PendingIn(h) \ (Housekept(h).handed \cup Housekept(h).consuming)

Feed(h) ==
    /\ host[h].attempt.step = "none" /\ PlansFeed(h)
    /\ host' = [host EXCEPT ![h] = [Housekept(h) EXCEPT
                    !.handed = (@ \ Revoked(h)) \cup FreshFor(h)]]
    /\ agent' = [agent EXCEPT
            ![h].queue = (@ \ Revoked(h)) \cup FreshFor(h),
            ![h].fed = @ \cup FreshFor(h),
            ![h].twice = @ \cup (FreshFor(h) \cap agent[h].fed)]
    /\ UNCHANGED <<row, msg, seen, claim, record, ghost, faults>>

Pass(h) == host[h].up /\ (Reclaim(h) \/ Quiet(h) \/ BeginLaunch(h)
                       \/ BeginWake(h) \/ Kill(h) \/ Feed(h))

(***************************************************************************)
(* Attempts.  At(h, step) is the thread of host h's attempt at a step.     *)
(***************************************************************************)
At(h, step) == host[h].up /\ host[h].attempt.step = step
Goes(h, step) == [host EXCEPT ![h].attempt.step = step]
Dropped(h) == [host EXCEPT ![h].attempt = NoAttempt]

(* spawn: an engine comes up on what prepare made, its seed and a queue;   *)
(* the claim stays with its entry (insert_for).                            *)
Spawned(h) ==
    /\ At(h, "starting") \/ At(h, "resuming")
    /\ LET a == host[h].attempt IN
       /\ host' = [host EXCEPT ![h] = [@ EXCEPT
               !.attempt = NoAttempt, !.entry = TRUE, !.handed = a.batch, !.refused = {}]]
       /\ agent' = [agent EXCEPT ![h] = [NoAgent EXCEPT
               !.state = "starting", !.seed = a.seed, !.queue = a.batch, !.fed = a.batch]]
    /\ row' = Reported("running")
    /\ UNCHANGED <<msg, seen, claim, record, ghost, faults>>

(* The session's end as the server stores it: a root that finished a turn  *)
(* outlives its process (FEED-134).                                        *)
EndStatus == IF ghost.heard = {} THEN "ended" ELSE "idle"

(* sessions.claim: the first start consumes the Request.                   *)
ClaimLands ==
    /\ row # "ended"
    /\ row' = IF row = "queued" THEN "running" ELSE row
    /\ msg' = IF row = "queued" THEN Consumed(Request) ELSE msg
    /\ ghost' = [ghost EXCEPT !.given = @ \cup {m \in Messages : msg'[m] # msg[m]}]

ClaimRow(h) ==
    /\ At(h, "claiming")
    /\ \/ /\ ClaimLands
          /\ host' = Goes(h, "briefing")
          /\ UNCHANGED <<claim, faults>>
       \/ /\ row = "ended"
          /\ host' = [Dropped(h) EXCEPT ![h].unsettled = 0]
          /\ claim' = "free"
          /\ ghost' = [ghost EXCEPT !.told = @ \cup Request]
          /\ UNCHANGED <<row, msg, faults>>
    /\ UNCHANGED <<seen, agent, record>>

(* Every retry of the claim failed: landed or not, the row is unsettled.   *)
ClaimUnanswered(h) ==
    /\ At(h, "claiming") /\ Fault
    /\ ClaimLands \/ UNCHANGED <<row, msg, ghost>>
    /\ host' = Dropped(h)
    /\ claim' = "free"
    /\ UNCHANGED <<seen, agent, record>>

(* prepare writes the run record before there is an engine, over an older  *)
(* one (prepare_session); the row is settled.                              *)
LaunchPrepared(h) ==
    /\ At(h, "briefing")
    /\ record' = [exists |-> TRUE, started |-> FALSE, owed |-> {}]
    /\ host' = [host EXCEPT ![h] = [@ EXCEPT
            !.attempt = [step |-> "starting", batch |-> {}, seed |-> Request],
            !.unsettled = 0]]
    /\ UNCHANGED <<row, msg, seen, agent, claim, ghost, faults>>

(* Mutant: a transient failure forgets the row.                            *)
LaunchFailsForgotten(h) ==
    /\ At(h, "briefing") /\ Fault
    /\ host' = [Dropped(h) EXCEPT ![h].unsettled = 0]
    /\ claim' = "free"
    /\ UNCHANGED <<row, msg, seen, agent, record, ghost>>

(* A transient failure leaves the row unsettled until MAX_LAUNCH_ATTEMPTS; *)
(* a failed prepare is said and the row idles; a refused one ends it.      *)
LaunchFails(h) ==
    /\ At(h, "briefing") /\ Fault
    /\ \/ /\ host[h].unsettled < MaxAttempts
          /\ host' = Dropped(h)
          /\ UNCHANGED <<row, ghost>>
       \/ /\ host' = [Dropped(h) EXCEPT ![h].unsettled = 0]
          /\ row' \in {Reported("idle"), Reported(EndStatus)}
          /\ ghost' = [ghost EXCEPT !.told = @ \cup Request]
    /\ claim' = "free"
    /\ UNCHANGED <<msg, seen, agent, record>>

(* Mutant: a wake does not ask whether another process runs the session.   *)
WakeLockBlind(h) ==
    /\ At(h, "locking")
    /\ claim' = h /\ host' = Goes(h, "waking")
    /\ UNCHANGED <<row, msg, seen, agent, record, ghost, faults>>

WakeLock(h) ==
    /\ At(h, "locking")
    /\ IF claim = "free"
       THEN claim' = h /\ host' = Goes(h, "waking")
       ELSE host' = Dropped(h) /\ UNCHANGED claim
    /\ UNCHANGED <<row, msg, seen, agent, record, ghost, faults>>

(* A continuation somebody else forestalls idles the row.                  *)
ContinueLock(h) ==
    /\ At(h, "reclaiming")
    /\ IF claim = "free"
       THEN claim' = h /\ host' = Goes(h, "waking") /\ UNCHANGED row
       ELSE host' = Dropped(h) /\ row' = Reported("idle") /\ UNCHANGED claim
    /\ UNCHANGED <<msg, seen, agent, record, ghost, faults>>

(* A wake resumes what the record names (prepare_resume).  With no record  *)
(* it is a launch; with one that names no agent session the conversation   *)
(* starts over from the brief: either way the Request leads the prompt.    *)
WakePrepared(h) ==
    /\ At(h, "waking")
    /\ record' = [record EXCEPT !.exists = TRUE]
    /\ host' = [host EXCEPT ![h].attempt.step = "resuming",
                            ![h].attempt.seed = IF record.started THEN {} ELSE Request]
    /\ UNCHANGED <<row, msg, seen, agent, claim, ghost, faults>>

(* Transient: as it was.  Otherwise the failure is said, the row idles and *)
(* these messages are not retried by themselves (note_refused); a failed   *)
(* START consumes them too (fail_start).                                   *)
WakeFails(h) ==
    /\ At(h, "waking") /\ Fault
    /\ LET batch == host[h].attempt.batch IN
       \/ host' = Dropped(h) /\ UNCHANGED <<row, ghost>>
       \/ /\ \E tried \in {{}, IF record.exists THEN {} ELSE batch} :
                host' = [host EXCEPT
                    ![h].attempt = NoAttempt, ![h].refused = batch,
                    ![h].jobs = @ \cup (tried \ host[h].consuming),
                    ![h].consuming = @ \cup tried]
          /\ row' = Reported("idle")
          /\ ghost' = [ghost EXCEPT !.told = @ \cup batch \cup
                                  IF record.exists THEN {} ELSE Request]
    /\ claim' = "free"
    /\ UNCHANGED <<msg, seen, agent, record>>

(* A failed spawn is said; the record stays.  A launch settles as refused, *)
(* a wake as failed.                                                       *)
SpawnFails(h) ==
    /\ Fault
    /\ \/ /\ At(h, "starting")
          /\ host' = Dropped(h)
          /\ row' \in {Reported("idle"), Reported(EndStatus)}
       \/ /\ At(h, "resuming")
          /\ host' = [host EXCEPT ![h].attempt = NoAttempt,
                                  ![h].refused = host[h].attempt.batch]
          /\ row' = Reported("idle")
    /\ ghost' = [ghost EXCEPT
            !.told = @ \cup host[h].attempt.batch \cup host[h].attempt.seed]
    /\ claim' = "free"
    /\ UNCHANGED <<msg, seen, agent, record>>

(* consume_off_thread, and what settle_owed does once it landed.           *)
ConsumeLands(h) ==
    /\ host[h].jobs # {}
    /\ msg' = Consumed(host[h].jobs)
    /\ record' = [record EXCEPT !.owed = @ \ host[h].jobs]
    /\ host' = [host EXCEPT ![h].jobs = {}]
    /\ UNCHANGED <<row, seen, agent, claim, ghost, faults>>

ConsumeGivesUp(h) ==
    /\ host[h].jobs # {}
    /\ host' = [host EXCEPT ![h].jobs = {}]
    /\ UNCHANGED <<row, msg, seen, agent, claim, record, ghost, faults>>

(***************************************************************************)
(* The engine, as the registry sees it.                                    *)
(***************************************************************************)
(* session/new (or session/load) answers: its ids go onto the record       *)
(* before the first turn does.                                             *)
AgentOpens(h) ==
    /\ agent[h].state = "starting"
    /\ agent' = [agent EXCEPT ![h].state = "up"]
    /\ record' = [record EXCEPT !.started = TRUE]
    /\ UNCHANGED <<row, msg, seen, host, claim, ghost, faults>>

(* The first turn: the seed, a message that came with it read next.        *)
AgentBegins(h) ==
    /\ agent[h].state = "up" /\ agent[h].seed # {}
    /\ agent' = [agent EXCEPT ![h].seed = {}]
    /\ ghost' = [ghost EXCEPT !.heard = @ \cup agent[h].seed]
    /\ UNCHANGED <<row, msg, seen, host, claim, record, faults>>

AgentReads(h) ==
    /\ agent[h].state = "up" /\ agent[h].seed = {}
    /\ \E m \in Oldest(agent[h].queue) :
       /\ agent' = [agent EXCEPT ![h].queue = @ \ {m}, ![h].unconsumed = @ \cup {m}]
       /\ ghost' = [ghost EXCEPT !.heard = @ \cup {m}]
    /\ UNCHANGED <<row, msg, seen, host, claim, record, faults>>

AgentConsumes(h) ==
    /\ agent[h].state = "up" /\ agent[h].unconsumed # {}
    /\ msg' = Consumed(agent[h].unconsumed)
    /\ agent' = [agent EXCEPT ![h].unconsumed = {}]
    /\ UNCHANGED <<row, seen, host, claim, record, ghost, faults>>

(* An engine with nothing left to do is suspended (release_idle); any      *)
(* other stop, an exit or a process lost, is a fault.                      *)
AgentStops(h) ==
    /\ \/ /\ agent[h].state = "up"
          /\ agent[h].seed \cup agent[h].queue \cup agent[h].unconsumed = {}
          /\ UNCHANGED faults
       \/ agent[h].state \in {"starting", "up"} /\ Fault
    /\ agent' = [agent EXCEPT ![h].state = "closing"]
    /\ UNCHANGED <<row, msg, seen, host, claim, record, ghost>>

(* The row's last status.  A run whose first turn never came is said to    *)
(* have failed (failed_start), unless it was asked to go: its row ended.   *)
EndSaid(h) ==
    IF agent[h].seed = {} \/ row = "ended"
    THEN row' \in {Reported("idle"), Reported(EndStatus)} /\ UNCHANGED ghost
    ELSE row' = "idle" /\ ghost' = [ghost EXCEPT !.told = @ \cup agent[h].seed]

(* Mutant: what the agent still had queued is parked with what it read.    *)
AgentEndsParkingAll(h) ==
    /\ agent[h].state = "closing"
    /\ agent' = [agent EXCEPT ![h] = [NoAgent EXCEPT !.state = "done"]]
    /\ record' = [record EXCEPT !.owed = @ \cup agent[h].unconsumed \cup agent[h].queue]
    /\ EndSaid(h)
    /\ UNCHANGED <<msg, seen, host, claim, faults>>

(* The end sequence: the outbox flushes, or what the agent read and the    *)
(* server was not told of is parked on the run record; the row's last      *)
(* status; then the engine is done.                                        *)
AgentEnds(h) ==
    /\ agent[h].state = "closing"
    /\ agent' = [agent EXCEPT ![h] = [NoAgent EXCEPT !.state = "done"]]
    /\ \/ /\ msg' = Consumed(agent[h].unconsumed)
          /\ UNCHANGED record
       \/ /\ agent[h].unconsumed # {}
          /\ record' = [record EXCEPT !.owed = @ \cup agent[h].unconsumed]
          /\ UNCHANGED msg
    /\ EndSaid(h)
    /\ UNCHANGED <<seen, host, claim, faults>>

(***************************************************************************)
(* Crashes.                                                                *)
(***************************************************************************)
Crash(h) ==
    /\ host[h].up /\ Fault
    /\ host' = [host EXCEPT ![h] = [FreshHost EXCEPT !.up = FALSE]]
    /\ seen' = [seen EXCEPT ![h] = [row |-> "queued", msg |-> [m \in Messages |-> "unsent"]]]
    /\ agent' = [agent EXCEPT ![h] = NoAgent]
    /\ claim' = IF claim = h THEN "dead" ELSE claim
    /\ ghost' = [ghost EXCEPT !.crashed = TRUE]
    /\ UNCHANGED <<row, msg, record>>

Restart(h) ==
    /\ ~host[h].up
    /\ host' = [host EXCEPT ![h].up = TRUE]
    /\ seen' = [seen EXCEPT ![h] = [row |-> row, msg |-> msg]]
    /\ UNCHANGED <<row, msg, agent, claim, record, ghost, faults>>

(* 30 s without a heartbeat: the claim of a dead holder can be taken.      *)
ClaimGoesStale ==
    /\ claim = "dead"
    /\ claim' = "free"
    /\ UNCHANGED <<row, msg, seen, host, agent, record, ghost, faults>>

Attempt(h) ==
    \/ ClaimRow(h) \/ LaunchPrepared(h) \/ WakeLock(h) \/ ContinueLock(h)
    \/ WakePrepared(h) \/ Spawned(h)
Engine(h) ==
    \/ AgentOpens(h) \/ AgentBegins(h) \/ AgentReads(h)
    \/ AgentConsumes(h) \/ AgentEnds(h)
Faulty(h) ==
    \/ ClaimUnanswered(h) \/ LaunchFails(h) \/ WakeFails(h) \/ SpawnFails(h)
    \/ ConsumeGivesUp(h) \/ AgentStops(h) \/ Crash(h)

Next ==
    \/ \E m \in Messages : Send(m) \/ Withdraw(m)
    \/ EndSession \/ ClaimGoesStale
    \/ \E h \in Hosts : \/ SyncRow(h) \/ SyncMessages(h) \/ Pass(h)
                        \/ Says(h) \/ Attempt(h) \/ ConsumeLands(h) \/ Engine(h)
                        \/ Faulty(h) \/ Restart(h)

Spec == Init /\ [][Next]_vars

(* Every host syncs, passes and lets its threads run; a host that died is  *)
(* restarted (systemd); a dead claim goes stale.  Nothing is assumed of    *)
(* the sender, and no failure has to happen.                               *)
Fairness ==
    /\ WF_vars(ClaimGoesStale)
    /\ \A h \in Hosts :
        /\ WF_vars(SyncRow(h)) /\ WF_vars(SyncMessages(h))
        /\ WF_vars(Pass(h)) /\ WF_vars(Says(h)) /\ WF_vars(Attempt(h))
        /\ WF_vars(ConsumeLands(h)) /\ WF_vars(Engine(h)) /\ WF_vars(Restart(h))
FairSpec == Spec /\ Fairness

(***************************************************************************)
(* Properties.                                                             *)
(***************************************************************************)
(* A live row has one engine: two hosts over lagging copies of it, wakes,  *)
(* launches, crashes and ends never run the session twice (ClaimLock).     *)
Running(h) == agent[h].state \in {"starting", "up", "closing"}
OneAgent ==
    row # "ended" => \A g, h \in Hosts : Running(g) /\ Running(h) => g = h

(* An engine is handed a message once, however far its host's copy of the  *)
(* messages lags behind what was consumed (handed, settle_handed).         *)
FedOnce == \A h \in Hosts : agent[h].twice = {}

(* Nobody's message is consumed behind their back: an agent read it, its   *)
(* failure was replied, or the first start took it as the Request.         *)
Known == ghost.heard \cup ghost.told
ConsumedWasHeard ==
    \A m \in Messages : msg[m] = "consumed" => m \in Known \cup ghost.given

(* Without a crash, a Request the server consumed at the claim and no      *)
(* agent read yet is carried: a host will launch again, or has it in the   *)
(* prompt of an attempt or of an engine ("so a row never sits running with *)
(* nothing behind it").                                                    *)
Carries(h, m) ==
    host[h].unsettled > 0 \/ m \in host[h].attempt.seed \cup agent[h].seed
StartIsCarried ==
    (~ghost.crashed /\ row # "ended")
        => \A m \in ghost.given \ Known : \E h \in Hosts : Carries(h, m)

(* What the first start took gets an agent session in the end, or the      *)
(* sender is told: "so the sender learns it never ran" (reclaim_step).     *)
(* The code breaks it when a host dies after its claim and is back before  *)
(* the dead claim goes stale.                                              *)
StartHeard ==
    \A m \in Messages :
        m \in ghost.given ~> (m \in Known \/ record.started \/ row = "ended")
=============================================================================
