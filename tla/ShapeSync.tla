------------------------------ MODULE ShapeSync ------------------------------
(***************************************************************************)
(* The shape sync client: src/apps/desktop/crates/sync/src.  The subject   *)
(* is ONE shape of one account: its table and its cursor in SQLite, the    *)
(* polling thread of each pipeline the manager starts and stops (a stopped *)
(* thread may still be in flight when the next one runs), and the server,  *)
(* which keeps a log per shape handle, answers in chunks, and may rotate   *)
(* the handle at any moment.  Position n of a log is the table after its   *)
(* first n operations, position 0 the empty one the snapshot starts from.  *)
(***************************************************************************)
EXTENDS Naturals, Sequences, FiniteSets

CONSTANTS
    Keys,           \* the primary keys of the table
    Values,         \* what a row may hold
    Absent,         \* in place of a value: no such row
    Threads,        \* slots for polling threads, one per pipeline alive
    MaxShapes,      \* bound: handles the shape goes through
    MaxLog,         \* bound: operations of one handle's log, its snapshot included
    MaxFaults       \* bound: failures, odd answers, stops and crashes

ASSUME RowsAssumption == Absent \notin Values /\ IsFiniteSet(Keys)
ASSUME BoundsAssumption == MaxShapes \in Nat \ {0} /\ MaxLog \in Nat /\ MaxFaults \in Nat

VARIABLES
    log,        \* the server: per handle, its tables and the length of its snapshot
    table,      \* the shape's table in SQLite
    saved,      \* its row of electric_offsets
    thread,     \* the polling threads
    stale,      \* ghost: the keys of operations the saved cursor was moved past without their
                \* rows, until they are written again or a refetch replaces the table
    faults      \* faults so far

vars == <<log, table, saved, thread, stale, faults>>

Table == [Keys -> Values \cup {Absent}]
Blank == [k \in Keys |-> Absent]

\* ShapeState. A handle is its place among the shape's handles, 0 is none or "".
SavedState == [handle : 0..MaxShapes, offset : 0..MaxLog, refetch : BOOLEAN, live : BOOLEAN]
NoState == [handle |-> 0, offset |-> 0, refetch |-> FALSE, live |-> FALSE]

\* A response as poll_once tells them apart: "rows", "inline" (rows and a must-refetch),
\* "refused" (409 or 400), "empty" (a 200 with no message in it).
ReplyState == [kind : {"none", "rows", "inline", "refused", "empty"}, handle : 0..MaxShapes,
               from : 0..MaxLog, to : 0..MaxLog, upToDate : BOOLEAN, headers : BOOLEAN]
NoReply == [kind |-> "none", handle |-> 0, from |-> 0, to |-> 0, upToDate |-> FALSE, headers |-> FALSE]

\* Between polls, waiting for a response, past the stop check with the response in hand,
\* between the two commits of an inline must-refetch.
ThreadState == [pc : {"off", "top", "sent", "applying", "marking"}, stop : BOOLEAN,
                first : BOOLEAN, saved : SavedState, reply : ReplyState]
NoThread == [pc |-> "off", stop |-> TRUE, first |-> TRUE, saved |-> NoState, reply |-> NoReply]

\* A handle's log: the tables after its operations, the first of which are the snapshot.
ShapeLog == [tables : Seq(Table), snapshot : 0..MaxLog]

-----------------------------------------------------------------------------
\* The server (external).

Current == Len(log)
Length(h) == Len(log[h].tables)
At(h, n) == IF n = 0 THEN Blank ELSE log[h].tables[n]

\* The rows the operations after position m, up to n, write.
Touched(h, m, n) == {k \in Keys : \E i \in m..n : At(h, i)[k] # At(h, m)[k]}

\* The table after operations m + 1..n are applied to `base`: upserts and deletes, by key.
Patched(base, h, m, n) ==
    [k \in Keys |-> IF k \in Touched(h, m, n) THEN At(h, n)[k] ELSE base[k]]

\* A snapshot inserts its rows one by one.
Snapshots ==
    {s \in UNION {[1..n -> Table] : n \in 0..Cardinality(Keys)} :
        \A i \in DOMAIN s : \E k \in Keys : \E v \in Values :
            LET before == IF i = 1 THEN Blank ELSE s[i - 1]
            IN  before[k] = Absent /\ s[i] = [before EXCEPT ![k] = v]}

NewShape(s) == [tables |-> s, snapshot |-> Len(s)]

\* A row the shape holds is written or deleted.
Change ==
    /\ Length(Current) < MaxLog
    /\ \E k \in Keys : \E v \in (Values \cup {Absent}) \ {At(Current, Length(Current))[k]} :
         log' = [log EXCEPT ![Current].tables = Append(@, [At(Current, Length(Current)) EXCEPT ![k] = v])]
    /\ UNCHANGED <<table, saved, thread, stale, faults>>

\* The shape's identity rotates (a membership change, a redeploy): a new log from a new snapshot.
Rotate ==
    /\ Current < MaxShapes
    /\ \E s \in Snapshots : Len(s) <= MaxLog /\ log' = Append(log, NewShape(s))
    /\ UNCHANGED <<table, saved, thread, stale, faults>>

\* request_params: where the saved state asks the server to go on from.
From(s) == IF s.refetch THEN 0 ELSE s.offset

Reply(kind, h, m, n, upToDate, headers) ==
    [kind |-> kind, handle |-> h, from |-> m, to |-> n, upToDate |-> upToDate, headers |-> headers]

\* What follows position `from` of the current shape, as far as the server cares to send: up-to-date
\* only at the head; the answer to offset=-1 is the snapshot, its end marked, be it empty.
Chunks(s, headers) ==
    {Reply("rows", Current, From(s), n, u, headers) : n \in From(s)..Length(Current), u \in BOOLEAN}
Sent(s, r) ==
    IF s.refetch \/ s = NoState
    THEN r.to <= log[Current].snapshot /\ ~r.upToDate /\ (r.from = r.to => log[Current].snapshot = 0)
    ELSE r.upToDate = (r.to = Length(Current)) /\ (r.from = r.to => r.upToDate)

\* The request names no handle or the current one: it is answered.
Answered(s) == s.handle \in {0, Current}
Good(s) ==
    IF Answered(s)
    THEN {r \in Chunks(s, TRUE) : Sent(s, r)}
    \* A dead handle: refused, with the replacement or without, or told inline behind what was
    \* left to send.
    ELSE {Reply("refused", h, 0, 0, FALSE, FALSE) : h \in {0, Current}} \cup
         (IF s.refetch THEN {}
          ELSE {Reply("inline", s.handle, s.offset, n, FALSE, FALSE) : n \in s.offset..Length(s.handle)})

\* A live handle refused, a body that got lost, headers that got lost.
Odd(s) ==
    IF Answered(s)
    THEN {Reply("refused", 0, 0, 0, FALSE, FALSE)}
         \cup {Reply("empty", Current, From(s), n, FALSE, TRUE) : n \in From(s)..Length(Current)}
         \cup {r \in Chunks(s, FALSE) : Sent(s, r)}
    ELSE {}

-----------------------------------------------------------------------------
\* The polling thread (ShapeClient::run, poll_once).

Fault == faults < MaxFaults /\ faults' = faults + 1

\* The loop's next round: on to the next poll, or out of it when the pipeline was stopped.
Loop(t, first) ==
    IF thread[t].stop THEN NoThread ELSE [NoThread EXCEPT !.pc = "top", !.stop = FALSE, !.first = first]

\* A poll that did not fail: the next one is no catch-up.
Polled(t) == thread' = [thread EXCEPT ![t] = Loop(t, FALSE)]

\* The persisted state drives the request; the first poll of a thread is never live.
Poll(t) ==
    /\ thread[t].pc = "top"
    /\ thread' = [thread EXCEPT ![t].pc = "sent",
                                ![t].saved = [saved EXCEPT !.live = @ /\ ~thread[t].first]]
    /\ UNCHANGED <<log, table, saved, stale, faults>>

\* The stop flag is read again when the response is there.
GoesOn(t) == ~thread[t].stop

\* The response is there and the pipeline was not stopped meanwhile.
Receive(t) ==
    /\ thread[t].pc = "sent" /\ GoesOn(t)
    /\ \/ /\ \E r \in Good(thread[t].saved) :
               thread' = [thread EXCEPT ![t].pc = "applying", ![t].reply = r]
          /\ UNCHANGED faults
       \/ /\ \E r \in Odd(thread[t].saved) :
               thread' = [thread EXCEPT ![t].pc = "applying", ![t].reply = r]
          /\ Fault
    /\ UNCHANGED <<log, table, saved, stale>>

\* A stopped thread discards what it was waiting for.
Discard(t) ==
    /\ thread[t].pc = "sent" /\ ~GoesOn(t)
    /\ thread' = [thread EXCEPT ![t] = NoThread]
    /\ UNCHANGED <<log, table, saved, stale, faults>>

\* The transport, a 5xx, a 401 within its grace, or the store, whose transaction rolls back.
Fail(t) ==
    /\ thread[t].pc \in {"applying", "marking"} \/ (thread[t].pc = "sent" /\ GoesOn(t))
    /\ thread' = [thread EXCEPT ![t] = Loop(t, thread[t].first)]
    /\ Fault
    /\ UNCHANGED <<log, table, saved, stale>>

\* refetch_marker: persisted, and the rows stay.
RefetchMarker(h) == [handle |-> h, offset |-> 0, refetch |-> TRUE, live |-> FALSE]

\* mark_needs_refetch after a 409 or a 400, with the replacement handle, if any.
Refused(t) == saved' = RefetchMarker(thread[t].reply.handle)

ApplyRefused(t) ==
    /\ thread[t].pc = "applying" /\ thread[t].reply.kind = "refused"
    /\ Refused(t)
    /\ Polled(t)
    /\ UNCHANGED <<log, table, stale, faults>>

\* How far the rows of a response reach.
End(r) == IF r.kind = "empty" THEN r.from ELSE r.to

\* The stale keys after a commit of r that leaves the cursor at `next`: what lies between the cursor
\* before and the batch is passed over (a thread of a stopped pipeline, past its stop check when
\* STOP_GRACE ran out, commits after the next one did, or the other way round), and so is what lies
\* between the batch and the cursor after. Beside another shape's cursor any row may be stale, and
\* rows of a first batch without headers are taken for nothing by the next poll.
Passed(r, next) ==
    IF saved.refetch \/ saved.handle \notin {0, r.handle} THEN Keys
    ELSE IF next.handle = 0 THEN stale \cup Touched(r.handle, 0, End(r))
    ELSE ((stale \cup Touched(r.handle, saved.offset, r.from)) \ Touched(r.handle, r.from, End(r)))
         \cup Touched(r.handle, End(r), next.offset)

\* What rode beside an inline must-refetch is applied in a commit of its own; the cursor stays.
ApplyInline(t) ==
    LET r == thread[t].reply
    IN  /\ thread[t].pc = "applying" /\ r.kind = "inline"
        /\ table' = Patched(table, r.handle, r.from, r.to)
        /\ thread' = [thread EXCEPT ![t].pc = "marking"]
        /\ stale' = Passed(r, saved)
        /\ UNCHANGED <<log, saved, faults>>

\* Then the refetch is marked, with no replacement handle.
MarkInline(t) ==
    /\ thread[t].pc = "marking"
    /\ saved' = RefetchMarker(0)
    /\ Polled(t)
    /\ UNCHANGED <<log, table, stale, faults>>

\* No message in the batch, and none expected.
NoMessages(r) == r.kind = "empty" \/ (r.from = r.to /\ ~r.upToDate)
SnapshotEnd(r) == r.kind = "rows" /\ r.from <= log[r.handle].snapshot /\ r.to >= log[r.handle].snapshot

\* Mutant: any response to a refetch completes it.
KeepsMarkerNever(t) == FALSE

\* A refetch that brought nothing, not even the end of an empty snapshot, keeps marker and rows.
KeepsMarker(t) ==
    LET r == thread[t].reply IN thread[t].saved.refetch /\ NoMessages(r) /\ ~SnapshotEnd(r)

\* Mutant: the new offset is saved beside the handle the request named.
AfterApplyOldHandle(s, r) ==
    [handle |-> s.handle, offset |-> r.to, refetch |-> FALSE,
     live |-> r.upToDate \/ (s.live /\ ~s.refetch)]

\* Mutant: every batch of a shape goes live.
AfterApplyLive(s, r) == [handle |-> r.handle, offset |-> r.to, refetch |-> FALSE, live |-> TRUE]

\* Mutant: up-to-date is not looked at.
AfterApplyNotLive(s, r) ==
    [handle |-> r.handle, offset |-> r.to, refetch |-> FALSE, live |-> s.live /\ ~s.refetch]

\* after_apply
AfterApply(s, r) ==
    [handle |-> r.handle, offset |-> r.to, refetch |-> FALSE,
     live |-> r.upToDate \/ (s.live /\ ~s.refetch)]

\* The rows of a response that has any.
Batch(base, r) == IF r.kind = "empty" THEN base ELSE Patched(base, r.handle, r.from, r.to)

\* Mutant: a refetch adds to the rows there are.
BaseKept(t) == table

\* A refetch's batch is headed by the synthetic must-refetch: it deletes every row first.
Base(t) == IF thread[t].saved.refetch THEN Blank ELSE table

\* Rows and cursor in one transaction; without the headers the cursor stays.
ApplyRows(t) ==
    LET r == thread[t].reply
        s == thread[t].saved
    IN  /\ thread[t].pc = "applying" /\ r.kind \in {"rows", "empty"}
        /\ IF KeepsMarker(t)
           THEN UNCHANGED <<table, saved, stale>>
           ELSE /\ table' = Batch(Base(t), r)
                /\ saved' = IF r.headers THEN AfterApply(s, r) ELSE saved
                /\ stale' = IF s.refetch /\ r.headers THEN {} ELSE Passed(r, saved')
        /\ Polled(t)
        /\ UNCHANGED <<log, faults>>

-----------------------------------------------------------------------------
\* The manager and the process.

Runs(t) == thread[t].pc # "off" /\ ~thread[t].stop

\* stop_pipeline: signed out, restarted, or torn down by a hard 401 or a 426 of this or any
\* other shape of the account.
StopPipeline(t) ==
    /\ Runs(t)
    /\ thread' = [thread EXCEPT ![t] = IF @.pc = "top" THEN NoThread ELSE [@ EXCEPT !.stop = TRUE]]
    /\ Fault
    /\ UNCHANGED <<log, table, saved, stale>>

\* start_account, when no pipeline is live. The threads of the last one were joined for
\* STOP_GRACE and what is left of them is detached, wherever it is.
StartPipeline(t) ==
    /\ thread[t].pc = "off"
    /\ \A o \in Threads : ~Runs(o)
    /\ thread' = [thread EXCEPT ![t] = [NoThread EXCEPT !.pc = "top", !.stop = FALSE]]
    /\ UNCHANGED <<log, table, saved, stale, faults>>

\* The process ends at any point; SQLite keeps what was committed.
Crash ==
    /\ \E t \in Threads : thread[t].pc # "off"
    /\ thread' = [t \in Threads |-> NoThread]
    /\ Fault
    /\ UNCHANGED <<log, table, saved, stale>>

Step(t) == Poll(t) \/ Receive(t) \/ Discard(t) \/ ApplyRefused(t) \/ ApplyInline(t) \/ MarkInline(t) \/ ApplyRows(t)

Init ==
    /\ \E s \in Snapshots : Len(s) <= MaxLog /\ log = <<NewShape(s)>>
    /\ table = Blank
    /\ saved = NoState
    /\ thread = [t \in Threads |-> NoThread]
    /\ stale = {}
    /\ faults = 0

Next ==
    \/ Change \/ Rotate \/ Crash
    \/ \E t \in Threads : Step(t) \/ Fail(t) \/ StopPipeline(t) \/ StartPipeline(t)

Spec == Init /\ [][Next]_vars

\* A running thread keeps polling and every request is answered or times out.
Fairness == \A t \in Threads : WF_vars(Step(t))
FairSpec == Spec /\ Fairness

-----------------------------------------------------------------------------
\* The store only ever holds what its types say, and a cursor names a position of a log.
TypeOK ==
    /\ log \in Seq(ShapeLog)
    /\ Current \in 1..MaxShapes
    /\ \A h \in 1..Current : log[h].snapshot <= Length(h) /\ Length(h) <= MaxLog
    /\ table \in Table
    /\ saved \in SavedState
    /\ saved.handle <= Current
    /\ saved.offset <= IF saved.handle = 0 THEN 0 ELSE Length(saved.handle)
    /\ thread \in [Threads -> ThreadState]
    /\ stale \subseteq Keys
    /\ faults \in 0..MaxFaults

\* Catching up loses no update but those the cursor was moved past: whatever was applied twice, cut
\* short by a crash, refused, rotated or answered to a pipeline that is gone, the operations that
\* follow the saved cursor turn every row of the local table into the server's, except the rows of
\* the very operations a lost body or a straggler's commit skipped, and those only until they are
\* written again or refetched: no damage spreads to another row or outlives a refetch.
CatchUpReaches ==
    saved.handle = Current /\ ~saved.refetch =>
        \A k \in Keys \ stale :
            Patched(table, Current, saved.offset, Length(Current))[k] = At(Current, Length(Current))[k]

\* What wait_for_first_sync waits for: a shape is live only when its whole snapshot was applied.
LiveIsWhole == saved.live => saved.handle # 0 /\ saved.offset >= log[saved.handle].snapshot

\* From a refused handle to the refetch's commit the reader sees the old rows, then rows of the
\* one new shape: never both, never none unless the shape's snapshot has none. The one exception is an
\* answer asked for before the marker: a straggler's, or its successor's when the straggler marked.
RefetchSwapsWhole ==
    [][saved.refetch /\ table' # table =>
         \/ \E h \in 1..Current : \E n \in 0..Length(h) :
              table' = At(h, n) /\ (n = 0 => log[h].snapshot = 0)
         \/ \E t \in Threads : ~thread[t].saved.refetch /\ (ApplyInline(t) \/ ApplyRows(t))]_vars

\* A pipeline that goes on running ends live at the server's head, once the server is quiet, and
\* with the server's table but for the rows of what was skipped.
InSync ==
    /\ saved.handle = Current /\ ~saved.refetch /\ saved.live /\ saved.offset = Length(Current)
    /\ \A k \in Keys \ stale : table[k] = At(Current, Length(Current))[k]
Converges == <>[](\E t \in Threads : Runs(t)) => <>[]InSync

\* The cursor is persisted in the same transaction as the rows it describes: "a rolled-back batch
\* never advances the offset (at-least-once delivery + idempotent upserts)", store.rs:10-12.
AtLeastOnce ==
    saved.handle = Current /\ ~saved.refetch =>
        Patched(table, Current, saved.offset, Length(Current)) = At(Current, Length(Current))
=============================================================================
