------------------------------ MODULE HubRowProofs ------------------------------
(***************************************************************************)
(* What every handler keeps of a single row of AgentHub, for all constants: *)
(* a held row is on a person, an interrupted one reads idle, an ended one   *)
(* is quiet. None of the three is inductive alone (a heartbeat that revives *)
(* an interrupted row relies on its being live, an end on its stamp), so    *)
(* they are proved together, as SoundRow of each row.                       *)
(***************************************************************************)
EXTENDS AgentHub, TLAPS

SoundRow(r) ==
  /\ r \in RunType
  /\ r.blocked.kind \in OnPersonKinds => r.needsInput
  /\ r.blocked.kind \in Interruptions => r.status = "idle" /\ ~r.busy /\ ~r.background
  /\ r.status # "ended" => r.ended = Never
  /\ r.status = "ended" => /\ ~r.busy /\ ~r.background
                           /\ r.blocked.kind = "none" /\ r.ended # Never

RowsSound ==
  /\ clock \in Nat
  /\ run \in [Rows -> RunType]
  /\ \A s \in Rows : SoundRow(run[s])

-----------------------------------------------------------------------------
\* Flags and times.

LEMMA NotBlockedType == NotBlocked \in BlockedType /\ NotBlocked.kind = "none"
  BY DEF NotBlocked, BlockedType, Flag, Time, Never

LEMMA FlagType ==
  ASSUME NEW kind \in BlockedKinds, NEW a \in Time, NEW b \in Time, NEW c \in Time
  PROVE  /\ Flag(kind, a, b, c) \in BlockedType
         /\ Flag(kind, a, b, c).kind = kind
  BY DEF BlockedType, Flag

LEMMA Kinds ==
  /\ "none" \notin OnPersonKinds \cup Interruptions
  /\ OnPersonKinds \cap Interruptions = {}
  /\ OnPersonKinds \cup Interruptions = BlockedKinds
  BY DEF OnPersonKinds, Interruptions, BlockedKinds

LEMMA ClockTime == clock \in Nat => clock \in Time /\ clock # Never /\ Never \in Time
  BY DEF Time, Never

-----------------------------------------------------------------------------
\* One lemma per rewriting of a row.

\* A session starts as a sound row.
LEMMA NewRunSound == clock \in Nat => SoundRow(NewRun)
<1> SUFFICES ASSUME clock \in Nat PROVE SoundRow(NewRun)
  OBVIOUS
<1>1. NewRun \in RunType
  BY NotBlockedType, ClockTime DEF NewRun, RunType, Statuses
<1>2. NewRun.status = "queued" /\ NewRun.ended = Never /\ NewRun.blocked = NotBlocked
  BY DEF NewRun
<1> QED BY <1>1, <1>2, NotBlockedType, Kinds DEF SoundRow

\* Lifting a flag makes a row sound whose end and stamp agree, whatever the flag was.
LEMMA ClearBlockedQuiet ==
  ASSUME NEW s, NEW r \in RunType, clock \in Nat,
         r.status # "ended" => r.ended = Never,
         r.status = "ended" => ~r.busy /\ ~r.background /\ r.ended # Never
  PROVE  /\ SoundRow(ClearBlocked(s, r))
         /\ ClearBlocked(s, r).status = r.status
         /\ ClearBlocked(s, r).blocked = NotBlocked
<1> DEFINE c == ClearBlocked(s, r)
<1>2. OpenCards(s) \in BOOLEAN
  BY DEF OpenCards
<1>3. c \in RunType
  BY <1>2, NotBlockedType DEF ClearBlocked, RunType
<1>4. /\ c.status = r.status /\ c.busy = r.busy /\ c.background = r.background
      /\ c.ended = r.ended /\ c.blocked = NotBlocked
  BY DEF ClearBlocked, RunType
<1> QED BY <1>3, <1>4, NotBlockedType, Kinds DEF SoundRow

LEMMA ClearBlockedSound ==
  ASSUME NEW s, NEW r, SoundRow(r), clock \in Nat
  PROVE  SoundRow(ClearBlocked(s, r)) /\ ClearBlocked(s, r).status = r.status
  BY ClearBlockedQuiet DEF SoundRow

\* An interruption parks a live row as an idle one.
LEMMA ParkedSound ==
  ASSUME NEW r, SoundRow(r), r.status # "ended", clock \in Nat,
         NEW kind \in Interruptions, NEW since \in Time
  PROVE  SoundRow(Parked(r, kind, since))
<1> DEFINE p == Parked(r, kind, since)
<1>1. r \in RunType
  BY DEF SoundRow
<1>2. Flag(kind, clock, since, Never) \in BlockedType
      /\ Flag(kind, clock, since, Never).kind = kind
  BY FlagType, ClockTime, Kinds
<1>3. p \in RunType
  BY <1>1, <1>2 DEF Parked, RunType, Statuses
<1>4. /\ p.status = "idle" /\ p.busy = FALSE /\ p.background = FALSE
      /\ p.ended = r.ended /\ p.blocked = Flag(kind, clock, since, Never)
  BY <1>1 DEF Parked, RunType
<1> QED BY <1>2, <1>3, <1>4, Kinds DEF SoundRow

\* An end leaves a quiet, stamped row.
LEMMA EndedSound ==
  ASSUME NEW r, SoundRow(r), clock \in Nat
  PROVE  SoundRow(Ended(r))
<1>1. r \in RunType
  BY DEF SoundRow
<1>2. Ended(r) \in RunType
  BY <1>1, NotBlockedType, ClockTime DEF Ended, RunType, Statuses
<1>3. /\ Ended(r).status = "ended" /\ Ended(r).ended = clock
      /\ Ended(r).busy = FALSE /\ Ended(r).background = FALSE
      /\ Ended(r).blocked = NotBlocked
  BY <1>1 DEF Ended, RunType
<1> QED BY <1>2, <1>3, NotBlockedType, Kinds, ClockTime DEF SoundRow

\* A revival takes the end's stamp back.
LEMMA RevivedSound ==
  ASSUME NEW r, SoundRow(r), clock \in Nat
  PROVE  SoundRow(Revived(r))
<1>1. r \in RunType
  BY DEF SoundRow
<1>2. Revived(r) \in RunType
  BY <1>1, NotBlockedType, ClockTime DEF Revived, RunType, Statuses
<1>3. /\ Revived(r).status = "idle" /\ Revived(r).ended = Never
      /\ Revived(r).blocked = NotBlocked
  BY <1>1 DEF Revived, RunType
<1> QED BY <1>2, <1>3, NotBlockedType, Kinds DEF SoundRow

\* A claim drops the unclaimed flag and the person together, and no other flag.
LEMMA ClaimedSound ==
  ASSUME NEW r, SoundRow(r), r.status # "ended", clock \in Nat
  PROVE  SoundRow(ClaimedRow(r))
<1> DEFINE c == ClaimedRow(r)
<1>1. r \in RunType
  BY DEF SoundRow
<1>2. c \in RunType
  BY <1>1, NotBlockedType DEF ClaimedRow, RunType, Statuses
<1>3. /\ c.status = IF r.status = "queued" THEN "running" ELSE r.status
      /\ c.busy = r.busy /\ c.background = r.background /\ c.ended = r.ended
      /\ c.blocked = IF r.blocked.kind = "unclaimed" THEN NotBlocked ELSE r.blocked
      /\ c.needsInput = (r.needsInput /\ r.blocked.kind # "unclaimed")
  BY <1>1 DEF ClaimedRow, RunType
<1> QED BY <1>2, <1>3, NotBlockedType, Kinds DEF SoundRow

\* A lost process: the row idles; only a mid-turn one that no wall holds is interrupted.
LEMMA LostSound ==
  ASSUME NEW s, NEW r, SoundRow(r), r.status # "ended", clock \in Nat, NEW d
  PROVE  SoundRow(LostRow(s, r, d))
<1> DEFINE calm   == IF r.blocked.kind = "stuck" THEN ClearBlocked(s, r) ELSE r
           parked == Parked(calm, "restarted", clock)
           l      == LostRow(s, r, d)
<1>1. SoundRow(calm) /\ calm.status # "ended"
  BY ClearBlockedSound
<1>2. SoundRow(parked)
  BY <1>1, ParkedSound, ClockTime DEF Interruptions
<1>3. calm \in RunType /\ parked \in RunType
  BY <1>1, <1>2 DEF SoundRow
<1>4. /\ parked.status = "idle" /\ parked.busy = FALSE /\ parked.background = FALSE
      /\ parked.ended = calm.ended /\ parked.needsInput = calm.needsInput
  BY <1>3 DEF Parked, RunType
<1> HIDE DEF calm, parked
<1>5. PICK b \in {parked.blocked, calm.blocked} :
        l = [parked EXCEPT !.blocked = b, !.lastActivity = clock]
<2>1. CASE l = [parked EXCEPT !.blocked = parked.blocked, !.lastActivity = clock]
  BY <2>1
<2>2. CASE l = [parked EXCEPT !.blocked = calm.blocked, !.lastActivity = clock]
  BY <2>2
<2>3. l = [parked EXCEPT !.blocked = parked.blocked, !.lastActivity = clock]
      \/ l = [parked EXCEPT !.blocked = calm.blocked, !.lastActivity = clock]
  BY DEF LostRow, calm, parked
<2> QED BY <2>1, <2>2, <2>3
<1>6. parked.blocked \in BlockedType /\ calm.blocked \in BlockedType
  BY <1>3 DEF RunType
<1>7. l \in RunType
  BY <1>3, <1>5, <1>6, ClockTime DEF RunType
<1>8. /\ l.status = "idle" /\ l.busy = FALSE /\ l.background = FALSE
      /\ l.ended = parked.ended /\ l.needsInput = parked.needsInput /\ l.blocked = b
  BY <1>3, <1>4, <1>5 DEF RunType
<1> QED BY <1>1, <1>2, <1>4, <1>5, <1>7, <1>8 DEF SoundRow

\* The flag a report leaves: a wall of its own, one it leaves alone, or none.
LEMMA NextBlockedType ==
  ASSUME NEW r \in RunType, NEW d \in ReportData, clock \in Nat
  PROVE  /\ NextBlocked(r, d) \in BlockedType
         /\ NextBlocked(r, d).kind \notin Interruptions
<1>1. r.blocked \in BlockedType
  BY DEF RunType
<1>2. r.blocked.kind \in BlockedKinds \cup {"none"}
  BY <1>1 DEF BlockedType
<1>3. CASE d.wall = "missing"
  BY <1>1, <1>3, NotBlockedType, Kinds DEF NextBlocked
<1>4. CASE d.wall = "null"
  BY <1>4, NotBlockedType, Kinds DEF NextBlocked
<1>5. CASE d.wall \notin {"missing", "null"}
  <2> DEFINE at == IF d.resetsIn = Never THEN Never ELSE clock + d.resetsIn
  <2>1. d.wall \in {"rate_limit", "start_failed"} /\ d.resetsIn \in Time
    BY <1>5 DEF ReportData
  <2>2. d.wall \in BlockedKinds /\ d.wall \notin Interruptions
    BY <2>1 DEF OnPersonKinds, Interruptions, BlockedKinds
  <2>3. at \in Time
    BY <2>1 DEF Time, Never
  <2>4. NextBlocked(r, d) = Flag(d.wall, clock, Never, at)
    BY <1>5 DEF NextBlocked
  <2> QED BY <2>2, <2>3, <2>4, FlagType, ClockTime
<1> QED BY <1>3, <1>4, <1>5

LEMMA GivenBoolean ==
  ASSUME NEW f \in BOOLEAN, NEW m
  PROVE  Given(m, f) \in BOOLEAN
<1>1. CASE m = {}
  <2>1. Given(m, f) = f
    BY <1>1, Zenon DEF Given
  <2> QED BY <2>1, Zenon
<1>2. CASE m # {}
  <2>1. Given(m, f) = (TRUE \in m)
    BY <1>2, Zenon DEF Given
  <2>2. (TRUE \in m) \in BOOLEAN
    OBVIOUS
  <2> QED BY <2>1, <2>2, Zenon
<1> QED BY <1>1, <1>2

LEMMA ReportedSound ==
  ASSUME NEW s, NEW r, SoundRow(r), r.status # "ended", clock \in Nat, NEW d \in ReportData
  PROVE  SoundRow(ReportedRow(s, r, d))
<1> DEFINE blocked == NextBlocked(r, d)
           p == ReportedRow(s, r, d)
<1>1. r \in RunType /\ r.ended = Never
  BY DEF SoundRow
<1>2. blocked \in BlockedType /\ blocked.kind \notin Interruptions
  BY <1>1, NextBlockedType
<1>3. OpenCards(s) \in BOOLEAN
  BY DEF OpenCards
<1>4. /\ d.status \in {"none", "running", "idle", "ended"}
  BY DEF ReportData
<1>5. /\ p.status = IF d.status = "none" THEN r.status
                    ELSE IF d.status = "ended" THEN "idle" ELSE d.status
      /\ p.ended = r.ended /\ p.blocked = blocked
      /\ blocked.kind # "none" => p.needsInput = TRUE
  BY <1>1 DEF ReportedRow, RunType
<1>6. p.status \in Statuses /\ p.status # "ended"
  BY <1>1, <1>4, <1>5 DEF RunType, Statuses
<1>7. p \in RunType
  <2> DEFINE idled == (IF d.status = "ended" THEN "idle" ELSE d.status) = "idle"
             st == p.status
             bu == Given(d.busy, r.busy /\ ~idled)
             bg == IF d.busy = {FALSE} \/ (d.busy = {} /\ idled) THEN FALSE
                   ELSE Given(d.background, r.background)
             ni == IF blocked.kind # "none" THEN TRUE
                   ELSE IF r.blocked.kind # "none" THEN OpenCards(s)
                   ELSE Given(d.needsInput, r.needsInput)
             lt == p.lastTurn
  <2>1. bu \in BOOLEAN /\ bg \in BOOLEAN /\ ni \in BOOLEAN
    <3>1. r.busy \in BOOLEAN /\ r.background \in BOOLEAN /\ r.needsInput \in BOOLEAN
      BY <1>1 DEF RunType
    <3>2. (r.busy /\ ~idled) \in BOOLEAN
      OBVIOUS
    <3> QED BY <1>3, <3>1, <3>2, GivenBoolean
  <2>2. st \in Statuses /\ lt \in Time
    BY <1>1, <1>6, ClockTime DEF ReportedRow, RunType
  <2>3. p = [r EXCEPT !.status = st, !.busy = bu, !.background = bg, !.needsInput = ni,
                      !.blocked = blocked, !.lastTurn = lt, !.lastActivity = clock,
                      !.updated = clock]
    BY <1>1 DEF ReportedRow, RunType
  <2> HIDE DEF st, bu, bg, ni, lt, blocked, p
  <2> QED BY <1>1, <1>2, <2>1, <2>2, <2>3, ClockTime DEF RunType
<1> QED BY <1>1, <1>2, <1>5, <1>6, <1>7, Kinds DEF SoundRow

\* A reply: an open card puts a row on a person, and nothing takes one off.
LEMMA RepliedSound ==
  ASSUME NEW r, SoundRow(r), clock \in Nat, NEW d \in ReplyData
  PROVE  SoundRow(RepliedRow(r, d))
<1> DEFINE p == RepliedRow(r, d)
<1>1. r \in RunType /\ d.card \in BOOLEAN
  BY DEF SoundRow, ReplyData
<1>2. p \in RunType
  BY <1>1, ClockTime DEF RepliedRow, RunType
<1>3. /\ p.status = r.status /\ p.busy = r.busy /\ p.background = r.background
      /\ p.ended = r.ended /\ p.blocked = r.blocked
      /\ r.needsInput => p.needsInput
  BY <1>1 DEF RepliedRow, RunType
<1> QED BY <1>2, <1>3 DEF SoundRow

\* A heartbeat: a parked row that is listed is busy again, an unlisted one stays parked.
LEMMA ReconnectedSound ==
  ASSUME NEW s, NEW r, SoundRow(r), clock \in Nat, NEW beat
  PROVE  SoundRow(Reconnected(s, r, beat))
<1>1. r \in RunType /\ r.blocked \in BlockedType
  BY DEF SoundRow, RunType
<1>2. CASE r.blocked.kind # "device_offline"
  BY <1>2 DEF Reconnected
<1>3. CASE r.blocked.kind = "device_offline"
  <2> DEFINE waits == [r EXCEPT !.blocked.resumeSince = clock, !.updated = clock]
             busy  == [r EXCEPT !.status = "running", !.busy = TRUE, !.background = FALSE]
  <2>1. r.status = "idle" /\ r.ended = Never
    BY <1>3 DEF SoundRow, Interruptions
  <2>2. SoundRow(waits)
    <3>1. [r.blocked EXCEPT !.resumeSince = clock] \in BlockedType
      BY <1>1, ClockTime DEF BlockedType
    <3>2. waits = [r EXCEPT !.blocked = [r.blocked EXCEPT !.resumeSince = clock], !.updated = clock]
      BY <1>1 DEF RunType
    <3>3. waits \in RunType
      BY <1>1, <3>1, <3>2 DEF RunType
    <3>4. /\ waits.status = r.status /\ waits.busy = r.busy /\ waits.background = r.background
          /\ waits.ended = r.ended /\ waits.needsInput = r.needsInput
          /\ waits.blocked.kind = r.blocked.kind
      BY <1>1, <3>2 DEF RunType, BlockedType
    <3> QED BY <3>3, <3>4 DEF SoundRow
  <2>3. SoundRow(ClearBlocked(s, busy))
    <3>1. busy \in RunType
      BY <1>1 DEF RunType, Statuses
    <3>2. busy.status = "running" /\ busy.ended = Never
      BY <1>1, <2>1 DEF RunType
    <3> QED BY <3>1, <3>2, ClearBlockedQuiet
  <2>4. SoundRow(ClearBlocked(s, r))
    BY ClearBlockedSound
  <2>5. Reconnected(s, r, beat) \in {r, waits, ClearBlocked(s, busy), ClearBlocked(s, r)}
    BY DEF Reconnected
  <2> QED BY <2>2, <2>3, <2>4, <2>5
<1> QED BY <1>2, <1>3

LEMMA ActedSound ==
  ASSUME NEW s, NEW r, SoundRow(r), NEW active, NEW at \in Nat
  PROVE  SoundRow(Acted(s, r, active, at))
<1> DEFINE a == [r EXCEPT !.lastActivity = at]
<1>1. r \in RunType
  BY DEF SoundRow
<1>2. a \in RunType
  BY <1>1 DEF RunType, Time
<1>3. /\ a.status = r.status /\ a.busy = r.busy /\ a.background = r.background
      /\ a.ended = r.ended /\ a.needsInput = r.needsInput /\ a.blocked = r.blocked
  BY <1>1 DEF RunType
<1>4. SoundRow(a)
  BY <1>2, <1>3 DEF SoundRow
<1>5. Acted(s, r, active, at) \in {r, a}
  BY DEF Acted
<1> QED BY <1>4, <1>5

LEMMA AccountedSound ==
  ASSUME NEW s, NEW r, SoundRow(r), clock \in Nat, NEW beat
  PROVE  SoundRow(Accounted(s, r, beat))
<1>1. r.status # "ended" => SoundRow(Parked(r, "restarted", clock))
  BY ParkedSound, ClockTime DEF Interruptions
<1>2. SoundRow(ClearBlocked(s, r))
  BY ClearBlockedSound
<1> QED BY <1>1, <1>2 DEF Accounted

\* A tick of the watchdog, whichever of its phases the row is due in.
LEMMA HeldSound ==
  ASSUME NEW r, SoundRow(r), r.status # "ended", clock \in Nat, NEW kind \in OnPersonKinds
  PROVE  SoundRow([r EXCEPT !.blocked = Flag(kind, clock, Never, Never), !.needsInput = TRUE,
                            !.updated = clock])
<1> DEFINE h == [r EXCEPT !.blocked = Flag(kind, clock, Never, Never), !.needsInput = TRUE,
                          !.updated = clock]
<1>1. r \in RunType
  BY DEF SoundRow
<1>2. /\ Flag(kind, clock, Never, Never) \in BlockedType
      /\ Flag(kind, clock, Never, Never).kind = kind
  BY FlagType, ClockTime, Kinds
<1>3. h \in RunType
  BY <1>1, <1>2 DEF RunType
<1>4. /\ h.status = r.status /\ h.ended = r.ended /\ h.needsInput = TRUE
      /\ h.blocked = Flag(kind, clock, Never, Never)
  BY <1>1 DEF RunType
<1> QED BY <1>2, <1>3, <1>4, Kinds DEF SoundRow

LEMMA FlaggedSound ==
  ASSUME NEW s, SoundRow(run[s]), clock \in Nat
  PROVE  SoundRow(Flagged(s, run[s]))
<1> DEFINE r == run[s]
           settled == [r EXCEPT !.status = "idle", !.updated = clock]
           onPerson == [r EXCEPT !.needsInput = TRUE, !.updated = clock]
<1>1. r \in RunType
  BY DEF SoundRow
<1>2. CASE s \in Unclaimed
  <2>1. r.status # "ended" /\ "unclaimed" \in OnPersonKinds
    BY <1>2 DEF Unclaimed, OnPersonKinds
  <2>2. SoundRow([r EXCEPT !.blocked = Flag("unclaimed", clock, Never, Never),
                           !.needsInput = TRUE, !.updated = clock])
    BY <2>1, HeldSound
  <2> QED BY <1>2, <2>2 DEF Flagged
<1>3. CASE s \notin Unclaimed /\ s \in Stuck
  <2>1. r.status # "ended" /\ "stuck" \in OnPersonKinds
    BY <1>3 DEF Stuck, Busy, IsWorking, OnPersonKinds
  <2>2. SoundRow([r EXCEPT !.blocked = Flag("stuck", clock, Never, Never),
                           !.needsInput = TRUE, !.updated = clock])
    BY <2>1, HeldSound
  <2> QED BY <1>3, <2>2 DEF Flagged
<1>4. CASE s \notin Unclaimed \cup Stuck /\ s \in Cut
  <2>1. r.status # "ended" /\ "device_offline" \in Interruptions
    BY <1>4 DEF Cut, Busy, IsWorking, Interruptions
  <2>2. SoundRow(Parked(r, "device_offline", Never))
    BY <2>1, ParkedSound, ClockTime
  <2> QED BY <1>4, <2>2 DEF Flagged
<1>5. CASE s \notin Unclaimed \cup Stuck \cup Cut /\ s \in Settled
  <2>1. r.status = "running"
    BY <1>5 DEF Settled
  <2>2. settled \in RunType
    BY <1>1 DEF RunType, Statuses
  <2>3. /\ settled.status = "idle" /\ settled.busy = r.busy /\ settled.background = r.background
        /\ settled.ended = r.ended /\ settled.needsInput = r.needsInput
        /\ settled.blocked = r.blocked
    BY <1>1 DEF RunType
  <2>4. SoundRow(settled)
    BY <2>1, <2>2, <2>3 DEF SoundRow
  <2> QED BY <1>5, <2>4 DEF Flagged
<1>6. CASE s \notin Unclaimed \cup Stuck \cup Cut \cup Settled
  <2>1. onPerson \in RunType
    BY <1>1 DEF RunType
  <2>2. /\ onPerson.status = r.status /\ onPerson.busy = r.busy
        /\ onPerson.background = r.background /\ onPerson.ended = r.ended
        /\ onPerson.needsInput = TRUE /\ onPerson.blocked = r.blocked
    BY <1>1 DEF RunType
  <2>3. SoundRow(onPerson)
    BY <2>1, <2>2 DEF SoundRow
  <2>4. Flagged(s, r) \in {r, onPerson}
    BY <1>6 DEF Flagged
  <2> QED BY <2>3, <2>4
<1> QED BY <1>2, <1>3, <1>4, <1>5, <1>6

-----------------------------------------------------------------------------
\* The steps. First the two writings of many rows: a session inserted, a subtree ended.

LEMMA InsertStep ==
  ASSUME RowsSound, clock' = clock, NEW s, NEW place, NEW watchers,
         InsertSession(s, place, watchers)
  PROVE  RowsSound'
<1>1. Rows' = Rows \cup {s}
  BY DEF InsertSession, Insert, Rows
<1>2. run' = [x \in Rows \cup {s} |-> IF x = s THEN NewRun ELSE run[x]]
  BY DEF InsertSession, Insert, Rows, RowsSound
<1>3. SoundRow(NewRun) /\ clock \in Nat
  BY NewRunSound DEF RowsSound
<1>4. \A x \in Rows' : SoundRow(run'[x])
  BY <1>1, <1>2, <1>3 DEF RowsSound
<1> QED BY <1>1, <1>2, <1>3, <1>4 DEF RowsSound, SoundRow

LEMMA EndRowsStep ==
  ASSUME RowsSound, clock' = clock, NEW rows, EndRows(rows)
  PROVE  RowsSound'
<1>1. Rows' = Rows
  BY DEF EndRows, Rows
<1>2. run' = [x \in Rows |-> IF x \in Endable(rows) THEN Ended(run[x]) ELSE run[x]]
  BY DEF EndRows, RowsSound, Rows
<1>3. \A x \in Rows : SoundRow(run'[x])
  BY <1>2, EndedSound DEF RowsSound
<1> QED BY <1>1, <1>2, <1>3 DEF RowsSound, SoundRow

\* One row rewritten.
LEMMA OneRowStep ==
  ASSUME RowsSound, clock' = clock, node' = node, NEW s \in Rows, NEW r, SoundRow(r),
         run' = [run EXCEPT ![s] = r]
  PROVE  RowsSound'
<1>1. Rows' = Rows
  BY DEF Rows
<1>2. run' \in [Rows -> RunType] /\ \A x \in Rows : SoundRow(run'[x])
  BY DEF RowsSound, SoundRow
<1> QED BY <1>1, <1>2 DEF RowsSound

LEMMA SameRowsStep ==
  ASSUME RowsSound, clock' = clock, node' = node, run' = run
  PROVE  RowsSound'
  BY DEF RowsSound, Rows

LEMMA StartRootInserts ==
  ASSUME NEW s, NEW d, NEW caller, StartRoot(s, d, caller)
  PROVE  \E place, watchers : InsertSession(s, place, watchers)
  BY DEF StartRoot

LEMMA StartChildInserts ==
  ASSUME NEW s, NEW p, NEW d, NEW caller, StartChild(s, p, d, caller)
  PROVE  \E place, watchers : InsertSession(s, place, watchers)
  BY DEF StartChild

LEMMA ContinueChildInserts ==
  ASSUME NEW s, NEW t, NEW d, NEW caller, ContinueChild(s, t, d, caller)
  PROVE  \E place, watchers : InsertSession(s, place, watchers)
  BY DEF ContinueChild

LEMMA TouchedStep ==
  ASSUME RowsSound, clock' = clock, node' = node, NEW t \in Rows, NEW d, run' = Touched(t, d)
  PROVE  RowsSound'
<1> DEFINE r == [run[t] EXCEPT !.updated = clock]
<1>1. run[t] \in RunType /\ SoundRow(run[t]) /\ clock \in Nat
  BY DEF RowsSound
<1>2. r \in RunType
  BY <1>1 DEF RunType
<1>3. /\ r.status = run[t].status /\ r.busy = run[t].busy /\ r.background = run[t].background
      /\ r.ended = run[t].ended /\ r.needsInput = run[t].needsInput
      /\ r.blocked = run[t].blocked
  BY <1>1 DEF RunType
<1>4. SoundRow(r)
  BY <1>1, <1>2, <1>3 DEF SoundRow
<1>5. run' = run \/ run' = [run EXCEPT ![t] = r]
  BY DEF Touched, RowsSound
<1> QED BY <1>4, <1>5, OneRowStep, SameRowsStep

LEMMA SendMessageStep ==
  ASSUME RowsSound, SendMessage
  PROVE  RowsSound'
<1>1. clock' = clock
  BY DEF SendMessage, Host
<1>2. PICK d \in SendInputs, t \in Rows : \E caller \in Callers(d) :
        \/ \E s \in FreshIds : ForkThread(s, t, d, caller) \/ ContinueChild(s, t, d, caller)
        \/ MessageLive(t, d, caller)
        \/ ReviveRoot(t, d, caller)
  BY DEF SendMessage
<1>3. PICK caller \in Callers(d) :
        \/ \E s \in FreshIds : ForkThread(s, t, d, caller) \/ ContinueChild(s, t, d, caller)
        \/ MessageLive(t, d, caller)
        \/ ReviveRoot(t, d, caller)
  BY <1>2
<1>4. CASE \E s \in FreshIds : ForkThread(s, t, d, caller)
  BY <1>1, <1>4, StartRootInserts, InsertStep DEF ForkThread
<1>5. CASE \E s \in FreshIds : ContinueChild(s, t, d, caller)
  BY <1>1, <1>5, ContinueChildInserts, InsertStep
<1>6. CASE MessageLive(t, d, caller)
  BY <1>1, <1>6, TouchedStep DEF MessageLive
<1>7. CASE ReviveRoot(t, d, caller)
  <2>1. SoundRow(Revived(run[t]))
    BY RevivedSound DEF RowsSound
  <2>2. run' = [run EXCEPT ![t] = Revived(run[t])] /\ node' = node
    BY <1>7 DEF ReviveRoot
  <2> QED BY <1>1, <2>1, <2>2, OneRowStep
<1> QED BY <1>3, <1>4, <1>5, <1>6, <1>7

LEMMA DeviceReportStep ==
  ASSUME RowsSound, DeviceReport
  PROVE  RowsSound'
<1>1. clock' = clock
  BY DEF DeviceReport, Host
<1>2. PICK s \in Rows, d \in ReportInputs :
        ReportLost(s, d) \/ ReportEnded(s, d) \/ ReportState(s, d)
  BY DEF DeviceReport
<1>3. d \in ReportData /\ SoundRow(run[s]) /\ clock \in Nat
  BY DeviceAssumption DEF DeviceAssumption, RowsSound
<1>4. CASE ReportLost(s, d)
  <2>1. SoundRow(LostRow(s, run[s], d))
    BY <1>3, <1>4, LostSound DEF ReportLost, IsLive
  <2>2. run' = [run EXCEPT ![s] = LostRow(s, run[s], d)] /\ node' = node
    BY <1>4 DEF ReportLost
  <2> QED BY <1>1, <2>1, <2>2, OneRowStep
<1>5. CASE ReportEnded(s, d)
  BY <1>1, <1>5, EndRowsStep DEF ReportEnded
<1>6. CASE ReportState(s, d)
  <2>1. SoundRow(ReportedRow(s, run[s], d))
    BY <1>3, <1>6, ReportedSound DEF ReportState, IsLive
  <2>2. run' = [run EXCEPT ![s] = ReportedRow(s, run[s], d)] /\ node' = node
    BY <1>6 DEF ReportState
  <2> QED BY <1>1, <2>1, <2>2, OneRowStep
<1> QED BY <1>2, <1>4, <1>5, <1>6

LEMMA DeviceReplyStep ==
  ASSUME RowsSound, DeviceReply
  PROVE  RowsSound'
<1>1. clock' = clock
  BY DEF DeviceReply, Host
<1>2. PICK s \in Rows, d \in ReplyInputs : Reply(s, d)
  BY DEF DeviceReply
<1>3. d \in ReplyData /\ SoundRow(run[s]) /\ clock \in Nat
  BY DeviceAssumption DEF DeviceAssumption, RowsSound
<1>4. SoundRow(RepliedRow(run[s], d))
  BY <1>3, RepliedSound
<1>5. run' = [run EXCEPT ![s] = RepliedRow(run[s], d)] /\ node' = node
  BY <1>2 DEF Reply
<1> QED BY <1>1, <1>2, <1>4, <1>5, OneRowStep

LEMMA DeviceHeartbeatStep ==
  ASSUME RowsSound, DeviceHeartbeat
  PROVE  RowsSound'
<1>1. clock' = clock /\ clock \in Nat /\ node' = node /\ Rows' = Rows
  BY DEF DeviceHeartbeat, Heartbeat, Rows, RowsSound
<1>2. PICK dev \in Devices, age \in ActivityAges :
        LET hosted == {s \in Rows : node[s].device = dev} IN
          \E live, active \in SUBSET hosted : \E beat \in Beats(live) :
            Heartbeat(dev, beat, active, IF age <= clock THEN clock - age ELSE 0)
  BY DEF DeviceHeartbeat
<1> DEFINE at == IF age <= clock THEN clock - age ELSE 0
<1>3. PICK active, beat : Heartbeat(dev, beat, active, at)
  BY <1>2
<1>4. at \in Nat
  BY <1>1, EventAssumption DEF EventAssumption
<1> HIDE DEF at
<1>5. run' = [s \in Rows |->
        IF node[s].device = dev
        THEN Accounted(s, Acted(s, Reconnected(s, run[s], beat), active, at), beat)
        ELSE run[s]]
  BY <1>3 DEF Heartbeat, RowsSound
<1>6. ASSUME NEW s \in Rows PROVE SoundRow(run'[s])
  <2>1. SoundRow(run[s])
    BY DEF RowsSound
  <2>2. SoundRow(Reconnected(s, run[s], beat))
    BY <1>1, <2>1, ReconnectedSound
  <2>3. SoundRow(Acted(s, Reconnected(s, run[s], beat), active, at))
    BY <1>4, <2>2, ActedSound
  <2>4. SoundRow(Accounted(s, Acted(s, Reconnected(s, run[s], beat), active, at), beat))
    BY <1>1, <2>3, AccountedSound
  <2> QED BY <1>5, <2>1, <2>4
<1> QED BY <1>1, <1>5, <1>6 DEF RowsSound, SoundRow

LEMMA WatchdogTickStep ==
  ASSUME RowsSound, WatchdogTick
  PROVE  RowsSound'
<1>1. clock' = clock /\ clock \in Nat /\ Rows' = Rows
  BY DEF WatchdogTick, Tick, Rows, RowsSound
<1>2. run' = [s \in Rows |-> IF s \in WallsReset THEN ClearBlocked(s, Flagged(s, run[s]))
                            ELSE Flagged(s, run[s])]
  BY DEF WatchdogTick, Tick, RowsSound
<1>3. ASSUME NEW s \in Rows PROVE SoundRow(run'[s])
  <2>1. SoundRow(Flagged(s, run[s]))
    BY <1>1, FlaggedSound DEF RowsSound
  <2>2. SoundRow(ClearBlocked(s, Flagged(s, run[s])))
    BY <1>1, <2>1, ClearBlockedSound
  <2> QED BY <1>2, <2>1, <2>2
<1> QED BY <1>1, <1>2, <1>3 DEF RowsSound, SoundRow

-----------------------------------------------------------------------------

LEMMA RowsSoundInit == Init => RowsSound
<1> SUFFICES ASSUME Init PROVE RowsSound
  OBVIOUS
<1> DEFINE r == [status |-> "idle", busy |-> FALSE, background |-> FALSE, needsInput |-> FALSE,
                 blocked |-> NotBlocked, started |-> TRUE, ended |-> Never, lastTurn |-> Never,
                 lastActivity |-> Never, updated |-> 0]
<1>1. r \in RunType /\ r.status = "idle" /\ r.ended = Never /\ r.blocked = NotBlocked
  BY NotBlockedType DEF RunType, Statuses, Time
<1>2. SoundRow(r)
  BY <1>1, NotBlockedType, Kinds DEF SoundRow
<1>3. Rows = Conversations /\ run = [s \in Conversations |-> r] /\ clock = 0
  BY DEF Init, Rows
<1> QED BY <1>1, <1>2, <1>3 DEF RowsSound

LEMMA RowsSoundStep == RowsSound /\ [Next]_vars => RowsSound'
<1> SUFFICES ASSUME RowsSound, [Next]_vars PROVE RowsSound'
  OBVIOUS
<1>1. CASE SendStart
  <2>1. clock' = clock
    BY <1>1 DEF SendStart, Host
  <2> QED BY <1>1, <2>1, StartRootInserts, StartChildInserts, InsertStep DEF SendStart
<1>2. CASE SendMessage
  BY <1>2, SendMessageStep
<1>3. CASE SendWatch
  BY <1>3, SameRowsStep DEF SendWatch, Watch, Host
<1>4. CASE SessionEnd
  BY <1>4, EndRowsStep DEF SessionEnd, EndSession, Host
<1>5. CASE SessionPrOpened
  BY <1>5, SameRowsStep DEF SessionPrOpened, PrOpened, Host
<1>6. CASE DeviceClaim
  <2>1. PICK s \in Rows : Claim(s)
    BY <1>6 DEF DeviceClaim
  <2>2. SoundRow(ClaimedRow(run[s]))
    BY <2>1, ClaimedSound DEF Claim, IsLive, RowsSound
  <2>3. run' = [run EXCEPT ![s] = ClaimedRow(run[s])] /\ node' = node
    BY <2>1 DEF Claim
  <2> QED BY <1>6, <2>2, <2>3, OneRowStep DEF DeviceClaim, Host
<1>7. CASE DeviceReport
  BY <1>7, DeviceReportStep
<1>8. CASE DeviceReply
  BY <1>8, DeviceReplyStep
<1>9. CASE DeviceConsume
  BY <1>9, SameRowsStep DEF DeviceConsume, Consume, Host
<1>10. CASE DeviceHeartbeat
  BY <1>10, DeviceHeartbeatStep
<1>11. CASE WatchdogTick
  BY <1>11, WatchdogTickStep
<1>12. CASE TriggerSchedule
  BY <1>12, SameRowsStep DEF TriggerSchedule, Schedule
<1>13. CASE TriggerEvent
  BY <1>13, SameRowsStep DEF TriggerEvent, Emitted
<1>14. CASE Advance
  BY <1>14 DEF Advance, RowsSound, Rows
<1>15. CASE UNCHANGED vars
  BY <1>15, SameRowsStep DEF vars
<1> QED BY <1>1, <1>2, <1>3, <1>4, <1>5, <1>6, <1>7, <1>8, <1>9, <1>10, <1>11, <1>12, <1>13,
           <1>14, <1>15 DEF Next, HostEvent

\* Every row of every reachable state is sound.
THEOREM RowsAreSound == Spec => []RowsSound
  BY RowsSoundInit, RowsSoundStep, PTL DEF Spec

\* A session held by a wall, a failed start, or an unclaimed or stuck flag is on a person.
THEOREM HeldIsOnPerson == Spec => []BlockedOnPerson
<1>1. RowsSound => BlockedOnPerson
  BY DEF RowsSound, SoundRow, BlockedOnPerson
<1> QED BY <1>1, RowsAreSound, PTL

\* An interrupted session reads idle until its device continues it.
THEOREM CutReadsIdle == Spec => []InterruptedIsIdle
<1>1. RowsSound => InterruptedIsIdle
  BY DEF RowsSound, SoundRow, InterruptedIsIdle
<1> QED BY <1>1, RowsAreSound, PTL

\* What ended is quiet and stamped, and a live row carries no end.
THEOREM EndedStaysQuiet == Spec => []EndedIsQuiet
<1>1. RowsSound => EndedIsQuiet
  BY DEF RowsSound, SoundRow, EndedIsQuiet, IsLive
<1> QED BY <1>1, RowsAreSound, PTL

=============================================================================
