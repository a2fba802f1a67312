------------------------------ MODULE HubWatchdog ------------------------------
(***************************************************************************)
(* The watchdog's tick (reduce.rs: watchdog.tick), run every minute. Its   *)
(* phases walk the rows one by one; a row is due in at most one of them    *)
(* (but for a wall's reset), so each phase is the set of the rows due.     *)
(***************************************************************************)
EXTENDS HubState

\* A device not seen for the online window is offline.
Online(dev) == devices[dev].seen # Never /\ devices[dev].seen >= clock - Rules.online

LastAlive(r) == IF r.lastActivity > r.updated THEN r.lastActivity ELSE r.updated

\* Mutant: flagged one unit late.
UnclaimedLate ==
  {s \in Rows : /\ run[s].status = "queued" /\ ~run[s].started
                /\ run[s].blocked.kind = "none"
                /\ node[s].created < clock - Rules.unclaimed - 1}

\* Queued past unclaimedMinutes, flagged once.
Unclaimed ==
  {s \in Rows : /\ run[s].status = "queued" /\ ~run[s].started
                /\ run[s].blocked.kind = "none"
                /\ node[s].created < clock - Rules.unclaimed}

\* Busy with no flag: the rows the next two phases look at.
Busy == {s \in Rows : IsWorking(s) /\ run[s].busy /\ run[s].blocked.kind = "none"}

\* Busy with no sign of life, unless its online host lists it live. One that is busy only
\* with background tasks is alive for longer.
Stuck ==
  {s \in Busy :
     /\ LastAlive(run[s]) < clock - Rules.stuck
     /\ run[s].background => LastAlive(run[s]) < clock - Rules.backgroundStuck
     /\ ~(Online(node[s].device) /\ s \in devices[node[s].device].live)}

\* Its host is offline: a busy run is interrupted, silently; one between turns reads idle.
Cut == {s \in Busy \ Stuck : ~Online(node[s].device)}
Settled == {s \in Rows : run[s].status = "running" /\ ~run[s].busy /\ ~Online(node[s].device)}

\* Mutant: a device that stays away is waited for.
OverdueOnDevice ==
  {s \in Rows :
     LET b == run[s].blocked IN
       /\ IsWorking(s) /\ ~run[s].needsInput /\ b.kind \in Interruptions
       /\ b.resumeSince # Never /\ b.resumeSince < clock - Rules.resume}

\* An interruption its device could have continued and did not, or whose device stays away:
\* on a person, said once.
Overdue ==
  {s \in Rows :
     LET b == run[s].blocked IN
       /\ IsWorking(s) /\ ~run[s].needsInput
       /\ b.kind \in Interruptions
       /\ \/ b.resumeSince # Never /\ b.resumeSince < clock - Rules.resume
          \/ /\ b.resumeSince = Never /\ b.kind = "device_offline"
             /\ b.since < clock - Rules.offline}

\* A usage wall whose reset passed.
WallsReset ==
  {s \in Rows : /\ IsWorking(s) /\ run[s].blocked.kind = "rate_limit"
                /\ run[s].blocked.resetsAt # Never /\ run[s].blocked.resetsAt <= clock}

\* The row after the phases up to the walls' reset.
Flagged(s, r) ==
  IF s \in Unclaimed THEN
    [r EXCEPT !.blocked = Flag("unclaimed", clock, Never, Never), !.needsInput = TRUE, !.updated = clock]
  ELSE IF s \in Stuck THEN
    [r EXCEPT !.blocked = Flag("stuck", clock, Never, Never), !.needsInput = TRUE, !.updated = clock]
  ELSE IF s \in Cut THEN Parked(r, "device_offline", Never)
  ELSE IF s \in Settled THEN [r EXCEPT !.status = "idle", !.updated = clock]
  ELSE IF s \in Overdue THEN [r EXCEPT !.needsInput = TRUE, !.updated = clock]
  ELSE r

Tick ==
  /\ run' = [s \in DOMAIN run |->
       IF s \in WallsReset THEN ClearBlocked(s, Flagged(s, run[s])) ELSE Flagged(s, run[s])]
  /\ Post(msgs, (UNION {BusLine(s, "session_unclaimed") : s \in Unclaimed})
           \cup (UNION {BusLine(s, "session_stuck") : s \in Stuck})
           \cup (UNION {BusLine(s, "session_interrupted") : s \in Overdue}))
  /\ UNCHANGED <<node, wakeOn, scope, devices, fired, clock>>

=============================================================================
