# TLA+ models of Exponential

Exponential is an issue tracker whose agents work on people's machines. The
repository holds the web server (`apps/web`), the desktop app and its Rust
crates (`apps/desktop/crates`), the mobile apps and the shared packages. This
directory models the parts where several actors change the same state, checks
the models with TLC on small instances and proves what matters most for all
instances with TLAPS.

## 1. Inventory

| Part | State it keeps | Operations | Hard behaviour | What makes it correct |
|---|---|---|---|---|
| **Agent hub** (`eagent-hub-core`: `model.rs`, `reduce.rs`; the same rules in `packages/eagent` and in the server) | session rows (tree, status, flags, watches), messages, devices, agents | `send.*`, `session.*`, `device.*`, `watchdog.tick`, `trigger.*`: one pure reducer of events | events of people, agents, devices and timers in any order; late replies; devices that vanish; rows that end, revive and continue | trees keep their shape and end whole; every end is reported once and wakes whoever waits; private and sealed content stays with its readers; held rows are on a person; nothing stays interrupted or queued unnoticed; wake-ups do not stack |
| **Engine outbox** (`engine/src/outbox.rs`) | two queues, the open-card map, resolved questions, unconsumed ids | post, consume, resolve, close; two worker threads | threads, retries with a backoff, a close that cuts waits and a bounded grace | replies in order, an answered card is not open, nothing handed to the agent is forgotten |
| **Shape sync** (`sync/src/{client,protocol,store,manager}.rs`) | per shape: table, handle, offset, refetch marker, live flag | poll, apply, refetch, inline must-refetch, pipeline start and stop | rotations and refusals at any moment, a thread in flight when its pipeline is stopped, a crash between two commits | only what the cursor was moved past is lost, and until the next refetch at most; live means the whole snapshot, a refetch swaps the whole table, a running pipeline converges |
| **Steer** (`steer/src/{control_channel,journal,publisher,viewer}.rs`) | connection state, journal of a run, viewers' cursors | connect, publish, acknowledge, replay | reconnects, duplicated and lost frames | viewers see each event once and in order |
| **Session pickup** (`coding/src/{pickup,launcher,run_registry}.rs`, `cli/src/commands/daemon.rs`) | a host's live registry, attempts and handed messages; the claim lock and the run record on disk | plan, launch, wake, feed, kill, reclaim, end | two hosts of a device over lagging copies, crashes and restarts, calls that fail half way, an engine that ends with messages unread | one engine per session, a message handed over once and never consumed unheard, a start that was taken is carried |
| **Lock file** (`eagent/src/lockfile.rs`) | a directory and its mtime; a guard and its heartbeat | mkdir, stat, rmdir, stamp, heartbeat, release | holders that die or sleep, two reclaimers, a heartbeat that writes late | one holder |
| **Token refresh** (`coding/src/claude_oauth.rs`) | the credential store, a single-use grant | read, lock, re-read, canary, POST, compare-and-swap | other processes refreshing, the person signing in and out, lost answers, refused writes | a grant is POSTed once; the person's last sign-in or sign-out stands |
| **Account rotation** (`coding/src/account_rotation.rs`) | logins and their walls | rotate past a wall | a rotation under running turns | a wall switches an account once |
| **Local runs** (`elocal/src/{runs,executor}.rs`) | a hub state on disk, running processes | apply an event, execute its effects | a crash between state and effect | effects follow the state that was saved |
| **Extensions** (`eengine/src/{outbox,consent,broker}.rs`), **MCP** (`emcp/src/*.rs`) | grants, pending writes, connections | ask, grant, call, revoke | consent revoked while a call waits | no call without a standing grant |
| **Device network** (`enet-core`) | keys, tickets | sealed calls | cryptography, transport | only who holds the key reads |
| **Web server** (`apps/web/src/lib`) | Postgres | tRPC procedures, webhooks, merge train | transactions, webhooks out of order | as each table's rules say |
| UI, mobile apps, relays, voice, updater, generated and vendored code | view state | rendering, I/O | - | - |

The hub is the centre: the server, the desktop app and local runs all apply its
rules, a device's outbox feeds it replies and consumes, its effects start and
kill runs, and every screen shows its rows. So it is modelled first.

## 2. Plan

| Module | Models | State |
|---|---|---|
| `HubState`, `HubSend`, `HubDevice`, `HubWatchdog`, `HubWakeups`, `AgentHub` | the hub's reducer, composed into one machine | done |
| `MCAgentHub` | its instances | done |
| `HubRowProofs`, `HubTypeProofs` | rows, types and tree shape for all constants | done |
| `HubLifeProofs`, `HubBusProofs` | the sessions' lives, then their messages, for all constants | done |
| `EngineOutbox`, `OutboxPromise` | the outbox's threads, and the abstract promise they implement | done |
| `MCEngineOutbox` | its instances | done |
| `EngineOutboxProofs` | types, order, the debt at the end, the open-card map; the refinement | done |
| `SessionPickup`, `MCSessionPickup` | the hosts of a device around one session: passes over lagging copies, claim lock, run record, engines, crashes | done |
| `PickupProofs` | its types, one engine per session, fed once, nothing consumed unheard, a start is carried | done |
| `ShapeSync`, `MCShapeSync`, `ShapeSyncProofs` | one shape: log, table, marker, polling threads of stopped and running pipelines; nothing lost but what was skipped, whole refetches | done |
| `LockFile`, `TokenRefresh`, `MCTokenRefresh`, `TokenRefreshProofs` | the lock directory call by call, and the refresh of a login under it | done |
| `HubPromise` | abstract specification of one session as a person sees it (queued, working, waiting on a person, ended), which `AgentHub` implements through a mapping of its rows | planned |
| `SteerJournal` | publisher, relay and viewers with lost and duplicated frames | planned |
| `LocalRuns` | the executor of effects with crashes between save and effect | planned |

## 3. The hub's model

`reduce(state, event)` is a pure function that either handles an event whole or
refuses it and leaves the state alone. So every action of `AgentHub` is one
event's whole handler, a refusal is a guard, and the interleaving of actors is the
order of events. `at` is the variable `clock`.

| Code | Model |
|---|---|
| `HubSession` (`model.rs`) | `node` (tree place, fixed at insertion), `run` (status and flags), `wakeOn`, `scope`: split by who may write them |
| `HubMessage`, `Vec` order | `msgs`, a set; the messages of one event share its number `n`, and no rule depends on their order within an event |
| `HubDevice`, `HubAgent.fired_at` | `devices`, `fired`; an agent's configuration is the constant `Profile` |
| shared rules, the bus | `HubState` |
| `send.*`, `session.end`, `session.pr_opened` | `HubSend` |
| `device.*` | `HubDevice` |
| `watchdog.tick` | `HubWatchdog` |
| `trigger.*` | `HubWakeups` |
| `step`, `reduce` | the actions and `Next` of `AgentHub` |

What is abstracted, and how:

* Texts are `plain`, `sealed` or `none`; a body is one of a few kinds that tell
  privacy apart (a turn, an ask, a report, a pull request, a neutral line). What a report
  quotes (a given summary or the last plain turn) is one kind. Blank sealed texts
  are left out.
* `Blocked.resume` is TRUE exactly on interruptions (`interruption` is always called with
  TRUE and nothing else sets it; the server's schema takes no such field from a
  device), so it is not a field. A device's walls are `rate_limit` and
  `start_failed`.
* A question card stands for a plan card too. Answers are written by the server outside the
  reducer, so no action answers a card; an end closes the ask mirrors.
* Effects (post, edit, brief, kill, nudge) are outputs. The watchdog's nudge phase has no
  other effect and is left out.
* The watchdog's phases walk the rows one by one. A row is due in at most one
  phase before the reset of walls: that rests on `InterruptedIsIdle`, which is
  checked and proved, so each phase is the set of rows due.
* Cron matching and event names are the host's: `trigger.schedule` takes the set
  of due triggers, `trigger.event` the set of triggers that take it.
* `hydrate` fills fixtures; `Init` is the empty hub with its agents' conversations.

Bounds, all named: `Sessions`, `MaxClock`, `MaxSeq` (events that post), `MaxTalk`
(past that many, only the watchdog and the triggers post, so that a promise of the watchdog is not
cut short because people and devices used the postings up; elsewhere it is `MaxSeq`),
`IdsInOrder` (fresh ids are taken in ascending order; ids only break ties of
`createdAt`), `Events` (the kinds of events a run interleaves). `ScaledRules` and
`StaleRules` scale the thresholds of `rules.json` to clock units and keep their
order (an offline wait is longer than a resume wait; background work counts as alive longer
than a turn); the caps are scaled to depth 2 and 3 live sessions. `PromptRules` makes the two
waits equal, so that a clock of 2 reaches both.

Deadlock is not checked in the hub's runs: the clock, the ids and the postings
are bounded, so a run stops at its bounds.

### Runs

| Run | Bounds | Shows |
|---|---|---|
| `hub_trees` | 4 sessions, 6 postings, starts, messages, ends, reports | `TreeShape`, `ContinuesEnded`, `ReportedOnce`, `RootEndsItsTree`. Four sessions are the smallest set in which a tree at its cap revives, continues a child and nests to the depth cap |
| `hub_bus` | an agent and 2 threads, 2 accounts, 3 postings | `TypeOK`, `AgentNeverEnds`, `WakeOnLive`, `WatchersMaySee`, `NoPrivateLeak`, `SealedTurnStaysSealed`, `KeyedTakesSealed`, `EndWakesListeners`. A second account in the team and both private and sealed threads give every combination of reader and origin |
| `hub_watchdog` | 1 session, clock to 2, 2 postings of people and devices, every device event and tick, fairness | `BlockedOnPerson`, `InterruptedIsIdle`, `EndedIsQuiet`, `InterruptedSettles`, `QueuedSettles`: one row is enough, the watchdog and the devices write rows independently. Two ticks of the clock let a device that was never seen, or whose process died, be interrupted, come back, leave again and be given up. The clock waits for the watchdog here; that the three invariants do not need this is what `HubRowProofs` shows, for `Spec` |
| `hub_wakeups` | a team agent and an Assistant with a schedule each, one event trigger, 3 postings | `TicksNeverStack` |
| `hub_treecap` | as `hub_trees` | expected violation of `TreeCap`, see Findings |

**Fairness.** `FairSpec` of `AgentHub` assumes that the host runs the watchdog every minute
(`rules.json`: "The server watchdog (every minute)"): time does not pass over rows
that are due, and both time and the watchdog make progress. No fairness is assumed
of devices or people: a device may stay away for ever. The properties speak of
sessions interrupted or created early enough for the bounded clock to reach
the thresholds, for a bounded clock stops.

## 4. The outbox's model

| Code (`engine/src/outbox.rs`) | Model |
|---|---|
| `Shared` | `closing`, `openCards`, `resolved`, `unconsumed` |
| the two flume queues | `replies`, `consumes` |
| the reply worker | `speaker` and `SpeakerStep`: take, call, wait, the two locks after a question card's post |
| the consume worker, `consume_batch` | `taker` and `TakerStep`: the whole batch in one call, or id by id once it was refused |
| `with_retry`, `sleep_unless_closing` | `AfterReplyFailure`, `AfterConsumeFailure`, the `wait` places, `tries` against `Ladder` |
| `post`, `consume`, `resolve_question`, `close` | `Post`, `ConsumeOwes`/`ConsumeSends`, `ResolveCloses`/`ResolveRemembers`, `Close` |
| the end sequence of `lifecycle.rs` | `End`: reads `unconsumed` and parks it |
| `sessions.reply`, `sessions.consume` | `conversation`, `consumed`, `refused`; each call and its answer is one step |

An action is what one thread does under one lock, or one call with its answer. A
transient failure may hide a call that landed, so a reply may land twice and a batch
may land in part (whole chunks of `CONSUME_CHUNK`). A thread that could not be spawned is
`absent`: what is sent to it goes nowhere. The engine's calls come one after the other and end
before `close`, as `session.rs` ends its backend after the run returned; calls on
different maps touch nothing in common, so their order among themselves does not matter.

Abstracted: a reply is its number and the question its card asks; sealing, listener
copies and mentions are left out, they change what a row says and not when it is posted. The
waits have no length and the grace of `close` may be over at any moment. An id is handed
over once (`host.rs` forgets an id as it reports it), so `dedup` is the identity. Taking the
first id and draining the queue is one step: what is sent in between is either in this
batch or in the next.

`OutboxPromise` says the same without threads: rows in order, an id owed until the
server took it or refused it, the end parks the debt. `KeepsPromise` is the refinement: `said` is the
rows' numbers, `owes` is `unconsumed`.

### Runs

| Run | Bounds | Shows |
|---|---|---|
| `outbox` | something said and a question, 2 ids in chunks of 1, a ladder of one wait, fairness | `TypeOK`, `InOrder`, `EndOwesTheRest`, `ResolvedFirstStaysShut`, `UnansweredReadsOpen`, `KeepsPromise`, `RepliesDrain`, `CloseEnds`, `ConsumesLand`. Two ids in chunks of one make every partial batch; a second reply behind a failing one is what could overtake |
| `outbox_race` | a question, 1 id | expected violation of `AnsweredCardsClose`, see Findings |

Deadlock is not checked: a run whose workers are done stops.

**Fairness.** `FairSpec` of `EngineOutbox` assumes that both workers run and that the engine's thread
finishes a call it is in: operating-system threads do, and no lock is held across a
call. A call ends, for the client has timeouts. Nothing is assumed of the server, of the
engine calling, or of the close. `ConsumesLand` alone has a premise, `Recovery`: a consume that is
tried again and again lands in the end.

## 5. The pickup's model

Several processes of one device (the daemon, the desktop app, a second app) run
the same pickup over the same data directory. The subject of `SessionPickup` is one thread
session between them.

| Code | Model |
|---|---|
| the server's row and input messages | `row`, `msg` |
| the synced shapes a pass reads | `seen`: the row and the messages lag independently, as two shapes do |
| `LiveRegistry`, the attempt's thread, the memory of the process | `host` |
| the engine a host runs, and what it read and still owes | `agent` |
| `ClaimLock` (a lock file with 30 s staleness) | `claim`: free, its holder, or dead |
| the run record (`run_registry.rs`) | `record`, on disk: survives a crash |
| `plan` and its branches (kill, resume, launch, feed) | `Kill`, `BeginWake`, `BeginLaunch`, `Feed`, `Quiet` |
| `launch_queued`: claim, brief and prepare, spawn | `ClaimRow`/`ClaimUnanswered`, `LaunchPrepared`/`LaunchFails`, `Spawned`/`SpawnFails` |
| `deliver`: claim lock, prepare, spawn | `WakeLock`, `WakePrepared`/`WakeFails`, `Spawned`/`SpawnFails` |
| `reconcile_rows`, `reclaim_step` | `Reclaim`, then `ContinueLock` on the continuation's thread or `Says` on the reporting one |
| consumes off the pass's thread | `ConsumeLands`, `ConsumeGivesUp` |
| the agent session, the first turn, later turns (`host.rs`) | `AgentOpens`, `AgentBegins`, `AgentReads`, `AgentConsumes` |
| the engine's end (`lifecycle.rs`) | `AgentStops`, `AgentEnds` with `EndSaid` |
| process death and restart | `Crash`, `Restart`, `ClaimGoesStale` |

A pass plans and enters its attempt in one step. `prepare` writes the run record before there is an
engine (`record.exists`); the ids of the agent session come onto it when `session/new` answers
(`record.started`, what `run_started` asks), and the first turn is sent after that. So a host may die
with the record written and no session, or with a session and no turn. What the
prompt carries is `seed`: a launch, and a wake whose record names no agent session (`prepare_resume` finds
no native conversation and puts brief and message into the prompt), lead with the brief's Request; a native resume and
a continuation do not. The message that comes in the prompt behind the Request is the first of the engine's queue, so it is
read one step later. A reply or a report of a failure lands. The engine reports running as it spawns.

The startup reconcile asks for the claim lock and lets go of it, then picks what to do with the row: an
unstarted run is said and idled, a running one between turns is idled, a turn cut off is continued. `row.busy`
is not kept, so a row with a recorded session may be either of the latter two, and an idle row may read
busy. The continuation takes the lock on its own thread and idles the row if it cannot; the reports are
sent by a thread that holds nothing, as late as it likes.

Ghost variables record which messages an agent read, which were answered for, and which the claim
consumed.

| Run | Bounds | Shows |
|---|---|---|
| `pickup` | two hosts (symmetric), two messages, two attempts, one fault | `TypeOK`, `OneAgent`, `FedOnce`, `ConsumedWasHeard`, `StartIsCarried`. Two hosts make every race of two plans; a second message is what arrives while the first is under way; one fault of each kind at any point. Deadlock is checked |
| `pickup_stranded` | one host, one message, fairness | expected violation of `StartHeard`, see Findings |

**Fairness.** Each host's copies are synced in the end, passes run while the process is up
(the daemon's loop), an attempt under way and an engine go on, a consume is answered, a dead
claim goes stale, a dead daemon is restarted (it is a service). Nothing is assumed
of people, of messages or of faults.

## 6. The sync client's model

| Code | Model |
|---|---|
| the server's shape log (external) | `log`: per handle the tables after its operations, and how many of them are the snapshot |
| the shape's table, its row of `electric_offsets` | `table`, `saved` |
| `ShapeClient::run` with its `poll_once`, one per pipeline | `thread` with `Poll`, `Receive`, `Discard`, `ApplyRows`, `ApplyRefused`, `ApplyInline`, `MarkInline`, `Fail` |
| `start_account`, `stop_pipeline` with its grace | `StartPipeline`, `StopPipeline`: a stopped thread may still be in flight |
| commits of the store | one step each: rows with their cursor, then, for an inline must-refetch, the marker |

A position in a log is the table after that many operations, so "upsert and delete by key"
is applying the operations between two positions. An answer is one of the kinds `poll_once`
tells apart: rows, rows with a must-refetch in them, a refusal (409 or 400), a body
with no message. The server may answer any cut of its log, rotate at any moment, and
(as a fault) leave out headers, refuse a live handle, or have a body lost while its headers, with any later offset, arrive:
`poll_once` notices that on a refetch only, and elsewhere moves its cursor past rows that never came.

A thread reads its stop flag when the response is there (`Receive`, `Discard`) and not again, so a thread of a
stopped pipeline that is past it commits beside the next one (`ApplyRows`, `ApplyInline`, `ApplyRefused`, `MarkInline` in
the place `applying` or `marking` with `stop`).

The ghost `stale` names the rows that may be wrong for it: those which operations between the old
cursor and the batch, or between the batch and the new cursor, write (`Passed`). A later operation on the row takes it
out, and so does the next refetch. Everything else must be right: `CatchUpReaches` and `Converges`
speak of each row on its own. What the code's comment promises without that exception is `AtLeastOnce`,
which it does not keep.

| Run | Bounds | Shows |
|---|---|---|
| `sync` | 2 keys, 1 value, 2 threads, 2 handles, logs of 2, one fault, fairness | `TypeOK`, `CatchUpReaches`, `LiveIsWhole`, `RefetchSwapsWhole`, `Converges`. Two keys make a snapshot of two chunks and a partial patch; two threads are a straggler and its successor; two handles a rotation. Deadlock is not checked: the log ends at its bound |
| `sync_lostbody` | 2 keys, 1 thread, 1 handle, logs of 2, one fault | expected violation of `AtLeastOnce`, see Findings |

**Fairness.** A running thread polls, is answered and applies (`WF` of its step): the
loop runs while the account has a token, and a request ends by its timeout. `Converges` has the
premise that a pipeline goes on running.

## 7. The lock file's and the refresh's model

`LockFile` has one action per call on the file system, for that is where the
processes interleave; `TokenRefresh` extends it with one login, refreshed by every process that
shares its store (the app, the daemon, and the claude CLI, whose protocol the code mirrors).

| Code | Model |
|---|---|
| the lock directory and its mtime | `dir`: whether it is there and its age in heartbeat periods, cut off past `Stale` |
| `acquire`, `try_acquire`, `stamp_fresh`, `spawn_guard` | `Acquire`, `Contended`, `MakeDir`, `StatDir`, `RemoveStale`, `MakeDirAgain`, `StampFresh`, `UnmakeDir` |
| `heartbeat`: a stat, then a write | `HeartbeatLooks`, `HeartbeatWrites` |
| `LockGuard::shutdown`, `Drop` | `Release` |
| `refresh_locked`, step by step | `Look`, `Queue`, `ReRead`, `Canary`, `Post`/`InvalidGrant`/`PostFails`, `Compare`, `Write`/`WriteRefused`/`WriteFails`, `Leave` |
| `.storage-write.lock` | `StorageFree`: whoever is between the comparison and the write holds it |
| the token endpoint (external) | `issued`, `spent`: a grant is rotated once, or kept when the answer brings none |
| `write_profile_credential`, `delete_store` | `SignIn`, under the storage lock; `SignOut`, under no lock, so at any moment |
| process death; a machine that sleeps | `Crash`, `MachineSleeps` |

Time: `InTime` is an assumption about the machine, not something the code ensures: awake, it runs its
threads, so no period ends over a heartbeat that is due, a write that is under way, or a directory that is
not stamped; a machine asleep passes all of them at once (`Sleep`). Mtimes are whole seconds in the code;
stamps of one age are not told apart in the model either, and an age past `Stale` reads the same however
large it is (`Older`, a bound of the model).
A stamp fails only because its directory is gone (`ENOENT`); `stamp_fresh` then removes what is there by then
(`UnmakeDir`).

A pair's number stands for its access token; its refresh grant is named by the first pair that came with it
(`Grant`), 0 for a credential without one. The write-back compares in one step and writes in another, or is
refused and compares again; both hold the storage lock, which keeps out sign-ins, canaries and other
write-backs, but not a sign-out. The storage lock's own steps are not modelled, the
legacy lock is a way for `ReRead` to leave.

| Run | Bounds | Shows |
|---|---|---|
| `refresh` | two symmetric processes, `Update` 1, `Stale` 2, two attempts, a keychain, 3 pairs, 2 sign-ins or sign-outs, one fault | `TypeOK`, `GrantSpentOnce`, `LoginStands`. Two processes are a holder and a reclaimer, three pairs a login, its rotation and a new login; one fault is a death, a sleep, a lost answer or a refused write. Deadlock is not checked: pairs run out |

`GrantSpentOnce` and `LoginStands` name what breaks them, because the code does meet it (ghosts `ripped`, `slept`, `lost`,
`wiped`): so they say nothing of those cases, which Observations tell. `wiped` lasts until the person's next
sign-in or sign-out.

## 8. Proofs

`HubRowProofs` proves, for all constants that satisfy the named assumptions
(`HubAssumption`, `SendAssumption`, `DeviceAssumption`, `EventAssumption`):

* `HeldIsOnPerson`: `Spec => []BlockedOnPerson`
* `CutReadsIdle`: `Spec => []InterruptedIsIdle`
* `EndedStaysQuiet`: `Spec => []EndedIsQuiet`

None of them is inductive. A reconnect rewrites an interrupted row to running
and keeps `ended`, so it relies on the row being live; clearing a flag derives
`needsInput` anew, so a row must carry one flag at most; a lost report parks a row only
over the flags it may replace. `SoundRow` is their conjunction with the row's
type, for one row; each rewriting of a row (a claim, a lost report, a report, a
reply, the three stages of a heartbeat, the phases of a tick, an end, a revival) has a lemma
that it keeps `SoundRow`, and `RowsSoundStep` joins them over the actions.

`HubTypeProofs` proves `TypesHold` (`Spec => []TypeOK`) and `TreesKeepShape`
(`Spec => []TreeShape`). The two are one induction, `TypeInv`: a child's row is made
of its parent's and its root's, so its type rests on the shape of the tree; and the depth cap
of a continuation rests on the continued child's own place (`Placed`,
`ShapeExtends`). `TypeInv` includes `RowsSound`, for heartbeats and ticks read the clock.

`HubLifeProofs` stands on `TypeInv`. All branches of the handlers come down to five kinds of step
(`StepKinds`): one inserts a session, ends some, revives a root, adds to a list of
watched sessions, or leaves trees, lives and lists as they stand; what follows looks at the five.

* `AgentsStay`, `ContinuedStaysEnded`, `NobodyWatchesTheEnded`, `WatchersSee`
  (`AgentNeverEnds`, `ContinuesEnded`, `WakeOnLive`, `WatchersMaySee`) are one induction, `LifeInv`. It
  adds that an agent's conversation is a root (else the end of a tree above it would
  end it) and that a continued session has a parent (else a message could revive it in place,
  as `send_message` does roots).
* `RootTakesItsTree`: `Spec => RootEndsItsTree`. A root that finished a turn outlives its process,
  so it ends only with `LiveSubtree`, and that is all of its tree. The
  latter (`RootReachesAll`) is an argument over the depth: a set of depths has a least member, and
  a row that the root does not reach, of least depth, would have a parent that it does reach.

`HubBusProofs` reads a step as an edit of the messages there are, which
changes only whether they are pending and answered, and a batch the step posts
(`StepPosts`, with one lemma per handler). What the batch may be is said once, in `Honest`
and `Notice`: addressed between rows, no content past a reader who may not see its origin, a
relayed turn beside its own, sealed if the tree is keyed.

* `NothingPrivateLeaks`, `SealedIsRelayedSealed`, `KeyedTreesTakeSealed` (`NoPrivateLeak`,
  `SealedTurnStaysSealed`, `KeyedTakesSealed`) are one induction, `BusInv`, with every
  message between rows that exist and numbered below `seq`: a copy then finds the turn of
  its own event, and a new row changes nothing for an old message.
* `EndsAreHeard` (`EndWakesListeners`): the batch of an end holds a report for each hearer
  (`EndBatch`), and its number is new, so it is none of the messages there were.
* `EndsAreReportedOnce` (`ReportedOnce`). `ReportInv` says it without counting: the set of a child's
  reports in its parent's conversation is empty while it lives, and a singleton after. It needs
  that no report is about a row to come (`ReportsStand`), that children are never revived
  (`StepKinds`), and that the batch of an end reports each session it ends once to its parent,
  children that end together with their parents included.
* `TicksAreOne` (`TicksNeverStack`). `TickInv` compares any two ticks of a conversation: those of
  one number are one message, and an unread one has the highest number. A firing arms the newest
  tick again if that one is unread or unanswered; otherwise no tick is unread, and it posts one
  numbered above all.

`EngineOutboxProofs`, from `OutboxAssumption`:

* `OutboxTyped`: `Spec => []TypeOK`, with `Hands`: what each worker holds in each place.
* `RepliesInOrder`: `Spec => []InOrder`. Order of the rows alone is not inductive;
  `OrderInv` adds that what is queued is behind what is in hand, and that no row said is
  behind either.
* `NothingForgotten`: `Spec => []EndOwesTheRest`. The end may read the debt between a call
  and its booking, so `DebtInv` says at every moment that what was handed over is owed, consumed or
  refused, and that what the worker has booked is the server's already.

It also proves `OutboxKeepsPromise` (`Spec => KeepsPromise`), with the
invariant `FlightInv`: an id on its way (being sent, queued, in the batch or booked) is owed, and what
is booked is not queued. Otherwise taking off the debt what is settled could take off an id that is
still to be sent, and the server could answer for an id nobody owes.

The last part of `EngineOutboxProofs` proves `ResolvedFirst` and `Unanswered`
(`ResolvedFirstStaysShut`, `UnansweredReadsOpen`), the two halves that the locks do
keep. `CardInv` says that a question answered before its card's row is remembered until
the card asks, that a card which is open or opens has its row, and that what is
remembered is answered. The third half, `AnsweredCardsClose`, is false.

`PickupProofs`, from the named assumptions on hosts, messages and bounds:

* `PickupTyped`: `Spec => []TypeOK`.
* `OneAgentPerSession`: `Spec => []OneAgent`. `OwnerInv` says that an entry, and an attempt past
  its lock, hold the claim; that a host has one or the other; that an engine without an entry was
  killed for an ended row; and that what a host saw ended is ended. Two engines of a live row would
  be two owners of one claim.
* `FedAtMostOnce`: `Spec => []FedOnce`. `Settled` says of each host that what its engine was
  fed is among the handed ids, or the host saw it consumed or withdrawn; by the lemma `GoneStays`
  what a host saw so stays so.
* `NothingConsumedUnheard`: `Spec => []ConsumedWasHeard`. `HeardInv` says that whatever may still
  be consumed (parked in the record, read by an engine, in a consume job) is known to an agent.
* `StartsAreCarried`: `Spec => []StartIsCarried`. Alone it is far from inductive: a host gives a
  row up when it sees it idle, when a prompt is ready, when a failure was replied, and the
  message the first claim took must still be the brief's Request then. So `CarriedInv` says that what
  was taken is ahead of everything that was not withdrawn (`GivenIsFirst`, by the order in which
  messages are sent), what the server and the disk know of each attempt and engine (`SoundInv`: the Request
  is in the prompt of a prepared attempt or a running engine only, these have a record, and whoever is past a claim comes after the
  first one, which is counted), and that an idle row, on the server or in a lagging copy, comes after the
  answer, while with a record and no answer the Request is in a prompt (`Answers`). `ServerStep` and
  `HostStep` say what each action does to the two sides; the induction joins them.

`ShapeSyncProofs`, from `RowsAssumption` and `BoundsAssumption`:

* `SyncTyped` and `LiveMeansWhole`. `SyncInv` says that every cursor, in the store, in a
  request and in a thread's hand, is a position of its handle's log.
* `OnlySkippedLost`: `Spec => []CatchUpReaches`. `TableFits` adds to `SyncInv` that, unless the shape
  awaits a refetch, every row that is not stale and that no later operation writes is as the cursor's position
  has it (`RowFits`, row by row): applying a batch twice, or from behind, leaves no other difference, and
  a commit that jumps makes exactly the rows in the gap stale.
* `RefetchIsWhole`: `Spec => RefetchSwapsWhole`.

`TokenRefreshProofs`, from `LockAssumption` and `RefreshAssumption`:

* `RefreshTyped`: `Spec => []TypeOK`.
* `LastWordStands`: `Spec => []LoginStands`. It says nothing of the refresh lock. `GrantsSound` says that
  pairs of one grant are of one sign-in; `HandSound` follows a pair in hand (of the sign-in of the pair that was read,
  and, if it is the one copy of its grant, unspent and in nobody else's hand); `Compared` says that from the
  comparison to the write one process holds the storage lock and the store holds a document of the compared
  grant, none at all, or one without a grant. The write then replaces its own sign-in's pair, or sets `wiped`.
* `GrantPostedOnce`: `Spec => []GrantSpentOnce`. `LockInv` is the lock's own invariant: while
  no fresh directory was removed and the machine did not sleep, there is one holder, the directory is
  the holder's and as old as its last stamp, and a late heartbeat finds a new directory.
  `GrantInv` puts the refresh on top of it: who read the store under the lock has an unspent grant.

Beyond the prover and left to TLC: `RepliesDrain`, `CloseEnds`, `ConsumesLand`,
`InterruptedSettles`, `QueuedSettles`, `Converges` (liveness); `StartHeard` is liveness too, and
false, as the three other properties of the runs that expect a violation are. No module uses a RECURSIVE operator, and no proof rests on induction over
data: the one argument over depths takes a least member of a set of naturals
(`NatLessThanWellFounded`, `WFMin`).

Every other property of a passing run, invariant, action property or refinement, is
proved: what is only model-checked is the liveness above.

## 9. Findings

`hub_treecap`: `rules.json` says "A tree holds at most treeMaxSessions LIVE
sessions (status != ended, the root included): an ended branch frees its slot."
An ended root keeps its place as a parent: `start_child` and the continuation of a
child ask for room below it, where it does not count, and `send_message` revives the root
without asking (`reduce.rs:734`). So three children under an ended root and then its
revival make four live sessions under a cap of three.

`outbox_race`: after a question card's post the worker asks `resolved` under one lock and
inserts into `open_cards` under another; `resolve_question` looks at
`open_cards` and then remembers in `resolved`, two locks as well. Answered in between, the card
is inserted after the resolver looked, and stays open
though "The engine resolved `question_id` (answered anywhere, or dismissed): its card is no
longer open" (`outbox.rs:426`).

`pickup_stranded`: a daemon claims a row, dies before the engine spawns and is back within the
30 s in which its dead claim still counts. Its one reconcile finds the claim held, keeps the row
for later, and nothing calls it again, though "every row on this device reading `running` (or
`busy`) with no engine behind it (a crash, a kill -9, a reboot) is taken back"
(`daemon.rs:3225`). The desktop app's twin retries.

`sync_lostbody`: a 200 whose body decodes to no message is refused for a refetch only
(`client.rs:640-656`). On any other poll the headers' handle and offset are committed without rows
(`client.rs:660-670`), against "The cursor is persisted in the SAME transaction as the rows it
describes ... (at-least-once delivery + idempotent upserts)" (`store.rs:10-12`). The rows in between are wrong until they are written again or the
shape is refetched.

### Observations without a run

These the models do, in a few steps; no run checks a property that speaks of them without an exemption.

* `session/new` answers, its ids go onto the run record, and the host dies before the first turn is
  sent. The next start finds a running row that is not busy and whose record names an agent session,
  takes it for a run "between turns" and idles it without a word, though the claim consumed its
  first message and no turn ran, which "is [`ReclaimStep::Unstarted`] — said and idled — never a
  silent idle" (`pickup.rs:2720`).
* The stop flag is read once, when the response is there (`client.rs:539-546`). A thread that is
  past that and outlives `STOP_GRACE` commits its rows and its cursor, or its refetch marker, beside
  the next pipeline, though "Detached stragglers discard their in-flight results by design (`stop`
  is re-checked before apply)" (`manager.rs:234-236`). `stale` names the rows it leaves wrong.
* `cas_write` reads and compares at line 1054 and writes at 1077 of `claude_oauth.rs`;
  `delete_store` takes no lock. A sign-out in between is undone by the write, though "a store that
  VANISHED in between (a `claude logout` during the POST) stays gone" (lines 53-56). `wiped` records it.
* Two waiters find the directory of a dead holder stale. The first removes it and makes its own; the
  second removes that, for it removes by path (`lockfile.rs:306`), and makes a third. Both hold the
  lock, though "That single non-stale retry is what makes two reclaimers safe"
  (`lockfile.rs:21-24`). `ripped` records it. The window, between a stat and a rmdir, is small and
  needs a dead holder.
* The canary (`claude_oauth.rs:1316`, a keychain store) writes the document read before it
  waited for the storage lock, and does not compare. A sign-in or sign-out that landed after the
  re-read is overwritten or undone, and the write-back's comparison then passes. Without the ghost
  `wiped` in `LoginStands`, TLC shows it in a few steps.
* A write-back over a document without a refresh token is let through (`cas_document`, as its doc says), so a
  sign-in that brought none is replaced by the former login's rotated pair; `wiped` records that too.
* A report of the reclaim's thread may come after the row was woken (`Says`): the row then reads idle
  while its engine runs, until that reports.
* A lock that was lost and not noticed yet is released by removing the new owner's directory, and a
  failed stamp removes whatever directory is there by then (`lockfile.rs:331`).
  A heartbeat thread that fails to start leaves a guard that goes stale while it is held.
* `ClaimLock::is_compromised` (`pickup.rs:1347`) has no caller: a host that lost its claim runs on.
  `SessionPickup` takes the claim's exclusion for granted, within what `LockFile` shows.
* `consume_batch` settles an id on every failure that is not retryable, an expired login or a forced
  upgrade too (`outbox.rs:112-118`, `535`, `552-556`), where its doc says "consumed, or
  refused as no longer known" (`outbox.rs:521`). `EndOwesTheRest` therefore counts refused ids as
  settled.
* `heal_missing_columns` adds the column and marks the refetch in two commits, where its doc says "in
  the same breath" (`store.rs:495`). A first batch without the handle and offset headers is stored and
  then polled for anew (`client.rs:663`).

## 10. Not modelled

* Pickup: persistent agents (revive, continue, `/new`, a message that finds the engine mid-turn), account
  switches, moves of a session between devices and its release, answered cards, options, account wakes, the
  memo of refused claims (`claim_refused`), a message that revives an ended row, `row.busy`, run records that the retention
  prune dropped, the cap on continuations (`continue_attempts`; a refused one idles the row as a held lock does), backoff times.
* Sync: the other shapes and the once-per-account reports of a 401 or a 426, pauses, backoff and
  timeouts, parking without a token, deltas, schema healing, the merging of a partial update's
  columns, the wake watchdog.
* Refresh: account rotation, codex's credentials, the legacy and the storage lock's own steps,
  backoffs, errors other than a missing directory, the fallback file of a keychain that refuses.
* Outbox: sealing, listener copies and mentions of a reply.
* The TypeScript twin of the reducer and the server's own implementation
  over Postgres (the same rules; transactions would be a model of their own), text
  templates, network transport and cryptography (only sealed or plain reaches
  the models), rendering, mobile clients, voice, self-update, generated and vendored code.

`PROJECT.json` lists every part with its reason.
