------------------------------- MODULE HubDevice -------------------------------
(***************************************************************************)
(* What a session's device says to the hub (reduce.rs: device.claim,       *)
(* device.report, device.reply, device.consume, device.heartbeat). Only    *)
(* the device that hosts a session is heard: the code refuses another's    *)
(* claim and ignores another's report.                                     *)
(***************************************************************************)
EXTENDS HubSend

CONSTANTS ReportInputs, ReplyInputs

\* A field a report may leave out.
Maybe == {{}, {TRUE}, {FALSE}}
Given(field, default) == IF field = {} THEN default ELSE TRUE \in field

\* `wall` is the report's `blocked`: missing, null, or the wall's kind.
ReportData ==
  [lost : BOOLEAN, midTurn : Maybe, status : {"none", "running", "idle", "ended"},
   busy : Maybe, background : Maybe, needsInput : Maybe,
   wall : {"missing", "null", "rate_limit", "start_failed"}, resetsIn : Time, handled : BOOLEAN]

\* `copies`: the trees a sealed reply brings its text re-sealed for.
ReplyData == [card : BOOLEAN, sealed : BOOLEAN, copies : SUBSET Sessions]

ASSUME DeviceAssumption ==
  /\ ReportInputs \subseteq ReportData
  /\ ReplyInputs \subseteq ReplyData

-----------------------------------------------------------------------------
\* device.claim: the brief carries the first input, so its row is no longer pending. The
\* hub says session_claimed only of a queued row; an unclaimed flag goes.

FirstInput(s) ==
  {m \in Conversation(s) :
     /\ m.card = NoCard /\ IsPendingInput(m)
     /\ \A o \in Conversation(s) : o.card = NoCard /\ IsPendingInput(o) => m.n <= o.n}

Delivered(ms) == {IF m \in ms THEN [m EXCEPT !.pending = FALSE] ELSE m : m \in msgs}

\* Mutant: a claim takes any session off the person.
ClaimedOffPerson(r) ==
  [r EXCEPT !.status = IF @ = "queued" THEN "running" ELSE @,
            !.started = TRUE, !.needsInput = FALSE, !.updated = clock]

ClaimedRow(r) ==
  LET flagged == r.blocked.kind = "unclaimed"
  IN  [r EXCEPT !.status = IF @ = "queued" THEN "running" ELSE @,
                !.started = TRUE,
                !.blocked = IF flagged THEN NotBlocked ELSE @,
                !.needsInput = @ /\ ~flagged,
                !.updated = clock]

Claim(s) ==
  LET queued == run[s].status = "queued"
      first  == queued /\ ~run[s].started
  IN  /\ IsLive(s)
      /\ run' = [run EXCEPT ![s] = ClaimedRow(@)]
      /\ Post(IF first THEN Delivered(FirstInput(s)) ELSE msgs,
              IF queued THEN BusLine(s, "session_claimed") ELSE {})
      /\ UNCHANGED <<node, wakeOn, scope>>

-----------------------------------------------------------------------------
\* device.report

\* The process went away without the agent finishing: idle, never ended; mid-turn it is an
\* interruption its device continues by itself. A stuck flag goes first.
LostRow(s, r, d) ==
  LET midTurn   == Given(d.midTurn, r.busy \/ r.status = "running")
      flaggable == r.blocked.kind \in Interruptions \cup {"stuck", "none"}
      calm      == IF r.blocked.kind = "stuck" THEN ClearBlocked(s, r) ELSE r
      parked    == Parked(calm, "restarted", clock)
  IN  [parked EXCEPT !.blocked = IF midTurn /\ flaggable THEN @ ELSE calm.blocked,
                     !.lastActivity = clock]

ReportLost(s, d) ==
  /\ IsLive(s) /\ d.lost
  /\ run' = [run EXCEPT ![s] = LostRow(s, @, d)]
  /\ UNCHANGED <<node, wakeOn, scope, msgs, seq>>

\* Mutant: only an agent's conversation survives its process.
SurvivesAsAgent(s) == node[s].agent # None

\* A root that finished a turn, and an agent's conversation, survive their process.
Survives(s) == node[s].agent # None \/ (node[s].parent = None /\ run[s].lastTurn # Never)

ReportEnded(s, d) ==
  /\ IsLive(s) /\ ~d.lost
  /\ d.status = "ended" /\ ~Survives(s)
  /\ EndRows({s})

NextBlocked(r, d) ==
  CASE d.wall = "missing" ->
         IF r.blocked.kind \in Interruptions \cup {"stuck", "start_failed"} THEN NotBlocked ELSE r.blocked
    [] d.wall = "null" -> NotBlocked
    [] OTHER -> Flag(d.wall, clock, Never, IF d.resetsIn = Never THEN Never ELSE clock + d.resetsIn)

ReportedRow(s, r, d) ==
  LET status  == IF d.status = "ended" THEN "idle" ELSE d.status
      blocked == NextBlocked(r, d)
      idled   == status = "idle"
      turned  == (d.busy = {FALSE} /\ r.busy) \/ idled
  IN  [r EXCEPT
        !.status       = IF status = "none" THEN @ ELSE status,
        !.busy         = Given(d.busy, @ /\ ~idled),
        !.background   = IF d.busy = {FALSE} \/ (d.busy = {} /\ idled) THEN FALSE
                         ELSE Given(d.background, @),
        !.needsInput   = IF blocked.kind # "none" THEN TRUE
                         ELSE IF r.blocked.kind # "none" THEN OpenCards(s)
                         ELSE Given(d.needsInput, @),
        !.blocked      = blocked,
        !.lastTurn     = IF turned THEN clock ELSE @,
        !.lastActivity = clock,
        !.updated      = clock]

\* A wall is said once, when the row had none; a failed start and one the device rotates
\* past by itself are not said.
SaysWall(r, d) == d.wall = "rate_limit" /\ r.blocked.kind = "none" /\ ~d.handled

ReportState(s, d) ==
  /\ IsLive(s) /\ ~d.lost
  /\ d.status = "ended" => Survives(s)
  /\ run' = [run EXCEPT ![s] = ReportedRow(s, @, d)]
  /\ Post(msgs, IF SaysWall(run[s], d) THEN BusLine(s, "session_blocked") ELSE {})
  /\ UNCHANGED <<node, wakeOn, scope>>

-----------------------------------------------------------------------------
\* device.reply: an ended row takes it too (its outbox drains late).

RepliedRow(r, d) ==
  [r EXCEPT !.lastActivity = clock, !.needsInput = @ \/ d.card,
            !.updated = IF d.card THEN clock ELSE @]

Reply(s, d) ==
  LET own == Message(s, None, "agent", "reply", IF d.card THEN Card("question", s) ELSE NoCard,
                     d.sealed, FALSE)
  IN  /\ run' = [run EXCEPT ![s] = RepliedRow(@, d)]
      /\ Post(msgs, {own} \cup IF d.card THEN BusAsk(s) ELSE BusRelayTurn(s, d.sealed, d.copies))
      /\ UNCHANGED <<node, wakeOn, scope>>

\* device.consume
Consume(s, ms) ==
  /\ msgs' = Delivered(ms)
  /\ UNCHANGED <<node, run, wakeOn, scope, seq>>

-----------------------------------------------------------------------------
\* device.heartbeat. `says` is FALSE for an older device that lists nothing; `active` is
\* the sessions it saw act, at `at` (never later than now).

\* An offline-parked session: a listed one survived and is busy again, an unlisted one waits
\* for its device from now on; a device that lists nothing just has it live again.
Reconnected(s, r, beat) ==
  IF r.blocked.kind # "device_offline" THEN r
  ELSE IF beat.says /\ s \notin beat.live
  THEN IF r.blocked.resumeSince # Never THEN r
       ELSE [r EXCEPT !.blocked.resumeSince = clock, !.updated = clock]
  ELSE IF beat.says
  THEN ClearBlocked(s, [r EXCEPT !.status = "running", !.busy = TRUE, !.background = FALSE])
  ELSE ClearBlocked(s, r)

Acted(s, r, active, at) ==
  IF s \in active /\ r.status \in {"running", "idle"} /\ r.lastActivity < at
  THEN [r EXCEPT !.lastActivity = at] ELSE r

\* A busy session the host no longer runs: its process died under a living device. A stuck
\* one the host lists lives.
Accounted(s, r, beat) ==
  IF beat.says /\ r.status = "running" /\ r.busy /\ s \notin beat.live
  THEN Parked(r, "restarted", clock)
  ELSE IF s \in beat.live /\ r.status \in {"running", "idle"} /\ r.blocked.kind = "stuck"
  THEN ClearBlocked(s, r) ELSE r

Heartbeat(dev, beat, active, at) ==
  /\ devices' = [devices EXCEPT ![dev] = beat]
  /\ run' = [s \in DOMAIN run |->
       IF node[s].device = dev
       THEN Accounted(s, Acted(s, Reconnected(s, run[s], beat), active, at), beat)
       ELSE run[s]]
  /\ UNCHANGED <<node, wakeOn, scope, msgs, seq>>

\* A heartbeat seen now that lists `live`, or lists nothing.
Beats(live) == {[seen |-> clock, says |-> TRUE, live |-> live], [seen |-> clock, says |-> FALSE, live |-> {}]}

=============================================================================
