------------------------------ MODULE HubLifeProofs ------------------------------
(***************************************************************************)
(* The lives of the sessions of AgentHub, for all constants: who may end   *)
(* and who revives, what a continuation leaves ended, whom a session may   *)
(* watch, and that a root takes its tree with it. A step does one of five  *)
(* things to the rows (StepKinds): it inserts one, ends some, revives one, *)
(* adds to a list of watched sessions, or leaves all of that as it stands. *)
(***************************************************************************)
EXTENDS HubTypeProofs, WellFoundedInduction

Inserting ==
  \E s \in FreshIds, d \in SendData, caller \in Rows \cup {None} :
    \/ StartRoot(s, d, caller)
    \/ \E p \in Rows : StartChild(s, p, d, caller)
    \/ \E t \in Rows : ContinueChild(s, t, d, caller)

Ending ==
  \/ \E t \in Rows : EndRows(LiveSubtree(t))
  \/ \E s \in Rows : ~Survives(s) /\ EndRows({s})

Reviving ==
  \E t \in Rows, d \in SendData, caller \in Rows \cup {None} : ReviveRoot(t, d, caller)

Watching == \E w \in Rows, ids \in SUBSET Rows : Watch(w, ids)

Standing ==
  /\ node' = node /\ wakeOn' = wakeOn
  /\ \A s \in Rows : IsLive(s)' <=> IsLive(s)

-----------------------------------------------------------------------------
\* No rewriting of a row but an end and a revival touches its stamp, and the stamp of a
\* sound row says whether it lives.

LEMMA LiveByStamp ==
  ASSUME NEW r, SoundRow(r)
  PROVE  r.status # "ended" <=> r.ended = Never
  BY DEF SoundRow

LEMMA SameStampsStand ==
  ASSUME RowsSound, RowsSound', node' = node, wakeOn' = wakeOn,
         \A s \in Rows : run'[s].ended = run[s].ended
  PROVE  Standing
<1>1. Rows' = Rows
  BY DEF Rows
<1>2. ASSUME NEW s \in Rows PROVE IsLive(s)' <=> IsLive(s)
  <2>1. SoundRow(run[s]) /\ SoundRow(run'[s])
    BY <1>1 DEF RowsSound
  <2> QED BY <2>1, LiveByStamp DEF IsLive
<1> QED BY <1>2 DEF Standing

LEMMA ClearedStamp ==
  ASSUME NEW s, NEW r \in RunType
  PROVE  ClearBlocked(s, r).ended = r.ended
  BY DEF ClearBlocked, RunType

LEMMA ParkedStamp ==
  ASSUME NEW r \in RunType, NEW kind, NEW since
  PROVE  Parked(r, kind, since).ended = r.ended
  BY DEF Parked, RunType

LEMMA LostStamp ==
  ASSUME NEW s, NEW r, SoundRow(r), r.status # "ended", clock \in Nat, NEW d
  PROVE  LostRow(s, r, d).ended = r.ended
<1> DEFINE l == LostRow(s, r, d)
           calm == IF r.blocked.kind = "stuck" THEN ClearBlocked(s, r) ELSE r
           parked == Parked(calm, "restarted", clock)
<1>1. SoundRow(calm) /\ calm.status # "ended"
  BY ClearBlockedSound
<1>2. calm \in RunType /\ r \in RunType
  BY <1>1 DEF SoundRow
<1>3. parked.ended = calm.ended /\ calm.ended = r.ended
  BY <1>2, ParkedStamp, ClearedStamp
<1>4. parked \in [status : Statuses, busy : BOOLEAN, background : BOOLEAN, needsInput : BOOLEAN,
                  blocked : BlockedType, started : BOOLEAN, ended : Time, lastTurn : Time,
                  lastActivity : Time, updated : Nat]
  BY <1>1, ParkedSound, ClockTime DEF Interruptions, SoundRow, RunType
<1> HIDE DEF calm, parked
<1>5. l.ended = parked.ended
  BY <1>4 DEF LostRow, calm, parked
<1> QED BY <1>3, <1>5

LEMMA HeardStamp ==
  ASSUME NEW s, NEW r, SoundRow(r), clock \in Nat, NEW beat, NEW active, NEW at \in Nat
  PROVE  Accounted(s, Acted(s, Reconnected(s, r, beat), active, at), beat).ended = r.ended
<1> DEFINE back  == Reconnected(s, r, beat)
           acted == Acted(s, back, active, at)
<1>1. SoundRow(back) /\ SoundRow(acted)
  BY ReconnectedSound, ActedSound
<1>2. r \in RunType /\ back \in RunType /\ acted \in RunType
  BY <1>1 DEF SoundRow
<1>3. back.ended = r.ended
  <2> DEFINE busy  == [r EXCEPT !.status = "running", !.busy = TRUE, !.background = FALSE]
             waits == [r EXCEPT !.blocked.resumeSince = clock, !.updated = clock]
  <2>1. busy \in RunType /\ busy.ended = r.ended /\ waits.ended = r.ended
    BY <1>2 DEF RunType, Statuses
  <2>2. back \in {r, waits, ClearBlocked(s, busy), ClearBlocked(s, r)}
    BY DEF Reconnected
  <2> HIDE DEF busy, waits, back
  <2> QED BY <1>2, <2>1, <2>2, ClearedStamp
<1> HIDE DEF back
<1>4. acted.ended = back.ended
  BY <1>2 DEF Acted, RunType
<1> HIDE DEF acted
<1>5. Accounted(s, acted, beat).ended = acted.ended
  BY <1>2, ParkedStamp, ClearedStamp DEF Accounted
<1> QED BY <1>3, <1>4, <1>5 DEF acted, back

LEMMA FlaggedStamp ==
  ASSUME NEW s, NEW r \in RunType
  PROVE  Flagged(s, r).ended = r.ended
  BY ParkedStamp DEF Flagged, RunType

-----------------------------------------------------------------------------
\* Every step is one of the five.

LEMMA SendStartKind == SendStart => Inserting
<1> SUFFICES ASSUME SendStart PROVE Inserting
  OBVIOUS
<1>1. PICK d \in SendInputs, s \in FreshIds : \E caller \in Callers(d) :
        StartRoot(s, d, caller) \/ \E p \in Rows : StartChild(s, p, d, caller)
  BY DEF SendStart
<1>2. d \in SendData /\ Callers(d) \subseteq Rows \cup {None}
  BY SendAssumption DEF SendAssumption, Callers
<1> QED BY <1>1, <1>2 DEF Inserting

LEMMA MessageLiveStands ==
  ASSUME RowsSound, NEW t \in Rows, NEW d, NEW caller, MessageLive(t, d, caller)
  PROVE  Standing
<1>1. node' = node /\ wakeOn' = wakeOn /\ run' = Touched(t, d)
  BY DEF MessageLive
<1>2. run' = run \/ run' = [run EXCEPT ![t] = [run[t] EXCEPT !.updated = clock]]
  BY <1>1 DEF Touched, RowsSound
<1>3. run[t] \in RunType
  BY DEF RowsSound
<1>4. [run[t] EXCEPT !.updated = clock].status = run[t].status
  BY <1>3 DEF RunType
<1>5. \A s \in Rows : run'[s].status = run[s].status
  BY <1>2, <1>4 DEF RowsSound
<1> QED BY <1>1, <1>5 DEF Standing, IsLive

LEMMA SendMessageKind ==
  ASSUME Inv, SendMessage
  PROVE  Inserting \/ Reviving \/ Standing
<1>1. PICK d \in SendInputs, t \in Rows : \E caller \in Callers(d) :
        \/ \E s \in FreshIds : ForkThread(s, t, d, caller) \/ ContinueChild(s, t, d, caller)
        \/ MessageLive(t, d, caller)
        \/ ReviveRoot(t, d, caller)
  BY DEF SendMessage
<1>2. PICK caller \in Callers(d) :
        \/ \E s \in FreshIds : ForkThread(s, t, d, caller) \/ ContinueChild(s, t, d, caller)
        \/ MessageLive(t, d, caller)
        \/ ReviveRoot(t, d, caller)
  BY <1>1
<1>3. d \in SendData /\ caller \in Rows \cup {None}
  BY SendAssumption DEF SendAssumption, Callers
<1>4. ASSUME NEW s \in FreshIds, ForkThread(s, t, d, caller) PROVE Inserting
  <2> DEFINE e == [d EXCEPT !.device = Or(@, node[t].device)]
  <2>1. StartRoot(s, e, caller)
    BY <1>4 DEF ForkThread
  <2>2. node[t].device \in Devices
    BY RowTyped DEF Inv, NodeType
  <2>3. e \in SendData
    BY <1>3, <2>2 DEF SendData, Or
  <2> HIDE DEF e
  <2> QED BY <1>3, <2>1, <2>3 DEF Inserting
<1>5. ASSUME NEW s \in FreshIds, ContinueChild(s, t, d, caller) PROVE Inserting
  BY <1>3, <1>5 DEF Inserting
<1>6. CASE ReviveRoot(t, d, caller)
  BY <1>3, <1>6 DEF Reviving
<1>7. CASE MessageLive(t, d, caller)
  BY <1>7, MessageLiveStands DEF Inv
<1> QED BY <1>2, <1>4, <1>5, <1>6, <1>7

LEMMA DeviceReportKind ==
  ASSUME RowsSound, RowsSound', DeviceReport
  PROVE  Ending \/ Standing
<1>1. PICK s \in Rows, d \in ReportInputs :
        ReportLost(s, d) \/ ReportEnded(s, d) \/ ReportState(s, d)
  BY DEF DeviceReport
<1>2. run[s] \in RunType /\ SoundRow(run[s]) /\ clock \in Nat
  BY DEF RowsSound
<1>3. CASE ReportLost(s, d)
  <2>1. node' = node /\ wakeOn' = wakeOn /\ run' = [run EXCEPT ![s] = LostRow(s, run[s], d)]
    BY <1>3 DEF ReportLost
  <2>2. LostRow(s, run[s], d).ended = run[s].ended
    BY <1>2, <1>3, LostStamp DEF ReportLost, IsLive
  <2>3. \A x \in Rows : run'[x].ended = run[x].ended
    BY <2>1, <2>2 DEF RowsSound
  <2> QED BY <2>1, <2>3, SameStampsStand
<1>4. CASE ReportEnded(s, d)
  BY <1>4 DEF ReportEnded, Ending
<1>5. CASE ReportState(s, d)
  <2>1. /\ node' = node /\ wakeOn' = wakeOn
        /\ run' = [run EXCEPT ![s] = ReportedRow(s, run[s], d)]
    BY <1>5 DEF ReportState
  <2>2. ReportedRow(s, run[s], d).ended = run[s].ended
    BY <1>2 DEF ReportedRow, RunType
  <2>3. \A x \in Rows : run'[x].ended = run[x].ended
    BY <2>1, <2>2 DEF RowsSound
  <2> QED BY <2>1, <2>3, SameStampsStand
<1> QED BY <1>1, <1>3, <1>4, <1>5

LEMMA DeviceClaimKind ==
  ASSUME RowsSound, RowsSound', DeviceClaim
  PROVE  Standing
<1>1. PICK s \in Rows : Claim(s)
  BY DEF DeviceClaim
<1>2. node' = node /\ wakeOn' = wakeOn /\ run' = [run EXCEPT ![s] = ClaimedRow(run[s])]
  BY <1>1 DEF Claim
<1>3. ClaimedRow(run[s]).ended = run[s].ended
  BY DEF ClaimedRow, RowsSound, RunType
<1>4. \A x \in Rows : run'[x].ended = run[x].ended
  BY <1>2, <1>3 DEF RowsSound
<1> QED BY <1>2, <1>4, SameStampsStand

LEMMA DeviceReplyKind ==
  ASSUME RowsSound, RowsSound', DeviceReply
  PROVE  Standing
<1>1. PICK s \in Rows, d \in ReplyInputs : Reply(s, d)
  BY DEF DeviceReply
<1>2. node' = node /\ wakeOn' = wakeOn /\ run' = [run EXCEPT ![s] = RepliedRow(run[s], d)]
  BY <1>1 DEF Reply
<1>3. RepliedRow(run[s], d).ended = run[s].ended
  BY DEF RepliedRow, RowsSound, RunType
<1>4. \A x \in Rows : run'[x].ended = run[x].ended
  BY <1>2, <1>3 DEF RowsSound
<1> QED BY <1>2, <1>4, SameStampsStand

LEMMA DeviceHeartbeatKind ==
  ASSUME RowsSound, RowsSound', DeviceHeartbeat
  PROVE  Standing
<1>1. PICK dev \in Devices, age \in ActivityAges :
        LET hosted == {s \in Rows : node[s].device = dev} IN
          \E live, active \in SUBSET hosted : \E beat \in Beats(live) :
            Heartbeat(dev, beat, active, IF age <= clock THEN clock - age ELSE 0)
  BY DEF DeviceHeartbeat
<1> DEFINE at == IF age <= clock THEN clock - age ELSE 0
<1>2. PICK active, beat : Heartbeat(dev, beat, active, at)
  BY <1>1
<1>3. at \in Nat /\ clock \in Nat
  BY EventAssumption DEF EventAssumption, RowsSound
<1> HIDE DEF at
<1>4. /\ node' = node /\ wakeOn' = wakeOn
      /\ run' = [s \in Rows |->
           IF node[s].device = dev
           THEN Accounted(s, Acted(s, Reconnected(s, run[s], beat), active, at), beat)
           ELSE run[s]]
  BY <1>2 DEF Heartbeat, RowsSound
<1>5. ASSUME NEW s \in Rows PROVE run'[s].ended = run[s].ended
  <2>1. SoundRow(run[s])
    BY DEF RowsSound
  <2>2. Accounted(s, Acted(s, Reconnected(s, run[s], beat), active, at), beat).ended = run[s].ended
    BY <1>3, <2>1, HeardStamp
  <2> QED BY <1>4, <2>2
<1> QED BY <1>4, <1>5, SameStampsStand

LEMMA WatchdogTickKind ==
  ASSUME RowsSound, RowsSound', WatchdogTick
  PROVE  Standing
<1>1. /\ node' = node /\ wakeOn' = wakeOn
      /\ run' = [s \in Rows |-> IF s \in WallsReset THEN ClearBlocked(s, Flagged(s, run[s]))
                                 ELSE Flagged(s, run[s])]
  BY DEF WatchdogTick, Tick, RowsSound
<1>2. ASSUME NEW s \in Rows PROVE run'[s].ended = run[s].ended
  <2>1. run[s] \in RunType /\ SoundRow(Flagged(s, run[s]))
    BY FlaggedSound DEF RowsSound
  <2>2. Flagged(s, run[s]).ended = run[s].ended
    BY <2>1, FlaggedStamp
  <2>3. ClearBlocked(s, Flagged(s, run[s])).ended = Flagged(s, run[s]).ended
    BY <2>1, ClearedStamp DEF SoundRow
  <2> QED BY <1>1, <2>2, <2>3
<1> QED BY <1>1, <1>2, SameStampsStand

LEMMA SameRunStands ==
  ASSUME node' = node, wakeOn' = wakeOn, run' = run
  PROVE  Standing
  BY DEF Standing, IsLive

LEMMA StepKinds ==
  ASSUME TypeInv, [Next]_vars
  PROVE  Inserting \/ Ending \/ Reviving \/ Watching \/ Standing
<1>1. Inv /\ RowsSound /\ RowsSound'
  BY RowsSoundStep DEF TypeInv, Inv
<1>2. CASE SendStart
  BY <1>2, SendStartKind
<1>3. CASE SendMessage
  BY <1>1, <1>3, SendMessageKind
<1>4. CASE SendWatch
  BY <1>4 DEF SendWatch, Watching
<1>5. CASE SessionEnd
  BY <1>5 DEF SessionEnd, EndSession, Ending
<1>6. CASE SessionPrOpened
  BY <1>6, SameRunStands DEF SessionPrOpened, PrOpened
<1>7. CASE DeviceClaim
  BY <1>1, <1>7, DeviceClaimKind
<1>8. CASE DeviceReport
  BY <1>1, <1>8, DeviceReportKind
<1>9. CASE DeviceReply
  BY <1>1, <1>9, DeviceReplyKind
<1>10. CASE DeviceConsume
  BY <1>10, SameRunStands DEF DeviceConsume, Consume
<1>11. CASE DeviceHeartbeat
  BY <1>1, <1>11, DeviceHeartbeatKind
<1>12. CASE WatchdogTick
  BY <1>1, <1>12, WatchdogTickKind
<1>13. CASE TriggerSchedule
  BY <1>13, SameRunStands DEF TriggerSchedule, Schedule
<1>14. CASE TriggerEvent
  BY <1>14, SameRunStands DEF TriggerEvent, Emitted
<1>15. CASE Advance
  BY <1>15, SameRunStands DEF Advance
<1>16. CASE UNCHANGED vars
  BY <1>16, SameRunStands DEF vars
<1> QED BY <1>2, <1>3, <1>4, <1>5, <1>6, <1>7, <1>8, <1>9, <1>10, <1>11, <1>12, <1>13, <1>14,
           <1>15, <1>16 DEF Next, HostEvent

-----------------------------------------------------------------------------
\* What each kind of step does to lives and to watches.

LEMMA InsertFacts ==
  ASSUME Inv, NEW s, NEW place, NEW watchers, InsertSession(s, place, watchers)
  PROVE  /\ s \in Sessions /\ s \notin Rows /\ Rows' = Rows \cup {s}
         /\ node'[s] = place /\ IsLive(s)' /\ wakeOn'[s] = {}
         /\ \A x \in Rows : /\ node'[x] = node[x]
                            /\ IsLive(x)' <=> IsLive(x)
                            /\ wakeOn'[x] = IF x \in watchers THEN wakeOn[x] \cup {s} ELSE wakeOn[x]
<1>1. s \in Sessions /\ s \notin Rows
  BY DEF InsertSession, FreshIds
<1>2. DOMAIN node = Rows /\ DOMAIN run = Rows /\ DOMAIN wakeOn = Rows
  BY DEF Inv, TreesTyped, RowsSound
<1>3. node' = [x \in Rows \cup {s} |-> IF x = s THEN place ELSE node[x]]
  BY <1>2 DEF InsertSession, Insert
<1>4. run' = [x \in Rows \cup {s} |-> IF x = s THEN NewRun ELSE run[x]]
  BY <1>2 DEF InsertSession, Insert
<1>5. Rows' = Rows \cup {s}
  BY <1>3 DEF Rows
<1>6. NewRun.status # "ended"
  BY DEF NewRun
<1>7. IsLive(s)' /\ \A x \in Rows : IsLive(x)' <=> IsLive(x)
  BY <1>1, <1>4, <1>6 DEF IsLive
<1>8. /\ wakeOn'[s] = {}
      /\ \A x \in Rows : wakeOn'[x] = IF x \in watchers THEN wakeOn[x] \cup {s} ELSE wakeOn[x]
  <2> DEFINE wakes == Watched(wakeOn, watchers, s)
  <2>1. wakes = [x \in Rows |-> IF x \in watchers THEN wakeOn[x] \cup {s} ELSE wakeOn[x]]
    BY <1>2 DEF Watched
  <2>2. wakeOn' = Insert(wakes, s, {})
    BY DEF InsertSession
  <2> HIDE DEF wakes
  <2>3. wakeOn' = [x \in Rows \cup {s} |-> IF x = s THEN {} ELSE wakes[x]]
    BY <2>1, <2>2 DEF Insert
  <2> QED BY <1>1, <2>1, <2>3
<1> QED BY <1>1, <1>3, <1>5, <1>7, <1>8

LEMMA EndingEnds ==
  ASSUME Ending
  PROVE  \E rows \in SUBSET Rows : EndRows(rows)
<1>1. \A t \in Rows : LiveSubtree(t) \in SUBSET Rows /\ {t} \in SUBSET Rows
  BY DEF LiveSubtree
<1> QED BY <1>1 DEF Ending

LEMMA EndFacts ==
  ASSUME Inv, NEW rows, EndRows(rows)
  PROVE  /\ node' = node /\ Rows' = Rows
         /\ \A x \in Rows : /\ IsLive(x)' <=> IsLive(x) /\ x \notin Endable(rows)
                            /\ wakeOn'[x] = wakeOn[x] \ Endable(rows)
<1>1. node' = node /\ Rows' = Rows
  BY DEF EndRows, Rows
<1>2. DOMAIN run = Rows /\ DOMAIN wakeOn = Rows
  BY DEF Inv, TreesTyped, RowsSound
<1>3. run' = [x \in Rows |-> IF x \in Endable(rows) THEN Ended(run[x]) ELSE run[x]]
  BY <1>2 DEF EndRows
<1>4. wakeOn' = [x \in Rows |-> wakeOn[x] \ Endable(rows)]
  BY <1>2 DEF EndRows
<1>5. \A x \in Rows : Ended(run[x]).status = "ended"
  BY DEF Ended, Inv, RowsSound, RunType
<1>6. \A x \in Rows : IsLive(x)' <=> IsLive(x) /\ x \notin Endable(rows)
  BY <1>3, <1>5 DEF IsLive, Endable
<1> QED BY <1>1, <1>4, <1>6

LEMMA ReviveFacts ==
  ASSUME Inv, NEW t \in Rows, NEW d, NEW caller, ReviveRoot(t, d, caller)
  PROVE  /\ node' = node /\ Rows' = Rows /\ Revivable(t) /\ Root(t) = t
         /\ \A x \in Rows : /\ IsLive(x)' <=> IsLive(x) \/ x = t
                            /\ wakeOn'[x] = IF x \in Rewatchers(t, caller) THEN wakeOn[x] \cup {t}
                                            ELSE wakeOn[x]
<1>1. node' = node /\ Rows' = Rows /\ Revivable(t)
  BY DEF ReviveRoot, Rows
<1>2. Root(t) = t
  BY <1>1 DEF Revivable, Inv, TreesTyped, TreeShape
<1>3. run' = [run EXCEPT ![t] = Revived(run[t])] /\ DOMAIN run = Rows /\ DOMAIN wakeOn = Rows
  BY DEF ReviveRoot, Inv, TreesTyped, RowsSound
<1>4. Revived(run[t]).status # "ended"
  BY DEF Revived, Inv, RowsSound, RunType
<1>5. \A x \in Rows : IsLive(x)' <=> IsLive(x) \/ x = t
  BY <1>3, <1>4 DEF IsLive
<1>6. wakeOn' = [x \in Rows |-> IF x \in Rewatchers(t, caller) THEN wakeOn[x] \cup {t} ELSE wakeOn[x]]
  BY <1>3 DEF ReviveRoot, Watched
<1> QED BY <1>1, <1>2, <1>5, <1>6

\* A session's place is written once: no step moves a row or takes one away.
PlacesStand == Rows \subseteq Rows' /\ \A x \in Rows : node'[x] = node[x]

LEMMA InsertingFacts ==
  ASSUME Inv, Inserting
  PROVE  \E s, place, watchers :
           /\ InsertSession(s, place, watchers)
           /\ place.agent = None
           /\ \A w \in watchers : /\ w \in Rows
                                  /\ place.shared \/ place.user = node[w].user
           /\ place.cont # None =>
                /\ place.cont \in Rows /\ ~IsLive(place.cont)
                /\ place.parent = node[place.cont].parent /\ place.parent # None
                /\ place.depth = node[place.cont].depth
<1>1. PICK s \in FreshIds, d \in SendData, caller \in Rows \cup {None} :
        \/ StartRoot(s, d, caller)
        \/ \E p \in Rows : StartChild(s, p, d, caller)
        \/ \E t \in Rows : ContinueChild(s, t, d, caller)
  BY DEF Inserting
<1>2. CASE StartRoot(s, d, caller)
  <2> DEFINE agent  == IF caller = None THEN None ELSE TreeAgent(caller)
             device == Or(d.device, IF agent = None THEN None ELSE node[Root(caller)].device)
             team   == IF caller = None THEN d.team ELSE Or(d.team, node[caller].team)
             user   == IF caller = None THEN d.user ELSE Or(d.user, node[caller].user)
             place  == [parent |-> None, root |-> s, depth |-> 0, team |-> team, user |-> user,
                        shared |-> d.shared, agent |-> None, startedBy |-> agent, cont |-> None,
                        device |-> device, keyed |-> d.text = "sealed", created |-> clock]
             watch  == IF caller = None THEN {}
                       ELSE {w \in {caller} : MayWatch(w, team, d.shared, user)}
  <2>1. InsertSession(s, place, watch)
    BY <1>2 DEF StartRoot
  <2>2. /\ place.agent = None /\ place.cont = None
        /\ place.shared = d.shared /\ place.user = user
    OBVIOUS
  <2>3. \A w \in watch : w \in Rows /\ (d.shared \/ user = node[w].user)
    BY DEF MayWatch
  <2> HIDE DEF place, watch, user
  <2> QED BY <2>1, <2>2, <2>3
<1>3. ASSUME NEW p \in Rows, StartChild(s, p, d, caller)
      PROVE  \E place : InsertSession(s, place, {}) /\ place.agent = None /\ place.cont = None
  BY <1>3 DEF StartChild, ChildPlace
<1>4. ASSUME NEW t \in Rows, ContinueChild(s, t, d, caller)
      PROVE  \E place : /\ InsertSession(s, place, {}) /\ place.agent = None
                        /\ place.cont = t /\ ~IsLive(t)
                        /\ place.parent = node[t].parent /\ place.parent # None
                        /\ place.depth = node[t].depth
  BY <1>4 DEF ContinueChild, ChildPlace
<1> QED
  <2>1. CASE \E p \in Rows : StartChild(s, p, d, caller)
    <3>1. PICK place : InsertSession(s, place, {}) /\ place.agent = None /\ place.cont = None
      BY <1>3, <2>1
    <3> QED BY <3>1
  <2>2. CASE \E t \in Rows : ContinueChild(s, t, d, caller)
    <3>1. PICK t \in Rows : ContinueChild(s, t, d, caller)
      BY <2>2
    <3>2. PICK place : /\ InsertSession(s, place, {}) /\ place.agent = None
                       /\ place.cont = t /\ ~IsLive(t)
                       /\ place.parent = node[t].parent /\ place.parent # None
                       /\ place.depth = node[t].depth
      BY <1>4, <3>1
    <3> QED BY <3>2
  <2> QED BY <1>1, <1>2, <2>1, <2>2

LEMMA StandingPlaces ==
  ASSUME node' = node
  PROVE  PlacesStand /\ Rows' = Rows
  BY DEF PlacesStand, Rows

LEMMA PlacesStandStep ==
  ASSUME TypeInv, [Next]_vars
  PROVE  PlacesStand
<1>1. Inv
  BY DEF TypeInv, Inv
<1>2. CASE Inserting
  BY <1>1, <1>2, InsertingFacts, InsertFacts DEF PlacesStand
<1>3. node' = node => PlacesStand
  BY StandingPlaces
<1>4. CASE Ending
  BY <1>1, <1>3, <1>4, EndingEnds, EndFacts
<1>5. CASE Reviving
  BY <1>1, <1>3, <1>5, ReviveFacts DEF Reviving
<1> QED BY <1>2, <1>3, <1>4, <1>5, StepKinds DEF Watching, Watch, Standing

\* Only an end ends, a child never comes back, and a new row lives.
LEMMA LivesMove ==
  ASSUME TypeInv, [Next]_vars, NEW s \in Rows'
  PROVE  /\ s \notin Rows => IsLive(s)'
         /\ s \in Rows /\ ~Ending => (IsLive(s) => IsLive(s)')
         /\ s \in Rows /\ node[s].parent # None => (IsLive(s)' => IsLive(s))
<1>1. Inv
  BY DEF TypeInv, Inv
<1>2. CASE Inserting
  BY <1>1, <1>2, InsertingFacts, InsertFacts
<1>3. CASE Ending
  BY <1>1, <1>3, EndingEnds, EndFacts
<1>4. CASE Reviving
  BY <1>1, <1>4, ReviveFacts DEF Reviving, Revivable
<1>5. CASE Watching \/ Standing
  BY <1>5 DEF Watching, Watch, Standing, IsLive, Rows
<1> QED BY <1>2, <1>3, <1>4, <1>5, StepKinds

-----------------------------------------------------------------------------
\* The invariant of the lives.

\* Only a root is an agent's conversation.
AgentsAreRoots == \A s \in Rows : node[s].agent # None => node[s].parent = None

\* ContinuesEnded with what keeps it: the continued session is a child, which no message
\* revives in place.
ContinuesChild ==
  \A s \in Rows : LET c == node[s].cont IN
    c # None => /\ c \in Rows /\ ~IsLive(c)
                /\ node[c].parent = node[s].parent /\ node[c].parent # None
                /\ node[c].depth = node[s].depth

LifeInv == AgentsAreRoots /\ AgentNeverEnds /\ ContinuesChild /\ WakeOnLive /\ WatchersMaySee

LEMMA LifeInvInit == Init => LifeInv
<1> SUFFICES ASSUME Init PROVE LifeInv
  OBVIOUS
<1>1. Rows = Conversations
  BY DEF Init, Rows
<1>2. \A s \in Rows : node[s].parent = None /\ node[s].cont = None /\ IsLive(s) /\ wakeOn[s] = {}
  BY <1>1 DEF Init, IsLive
<1> QED BY <1>2 DEF LifeInv, AgentsAreRoots, AgentNeverEnds, ContinuesChild, WakeOnLive, WatchersMaySee

LEMMA InsertingLives ==
  ASSUME Inv, LifeInv, Inserting
  PROVE  LifeInv'
<1>1. PICK s, place, watchers :
        /\ InsertSession(s, place, watchers)
        /\ place.agent = None
        /\ \A w \in watchers : /\ w \in Rows
                               /\ place.shared \/ place.user = node[w].user
        /\ place.cont # None =>
             /\ place.cont \in Rows /\ ~IsLive(place.cont)
             /\ place.parent = node[place.cont].parent /\ place.parent # None
             /\ place.depth = node[place.cont].depth
  BY InsertingFacts
<1>2. /\ s \in Sessions /\ s \notin Rows /\ Rows' = Rows \cup {s}
      /\ node'[s] = place /\ IsLive(s)' /\ wakeOn'[s] = {}
      /\ \A x \in Rows : /\ node'[x] = node[x]
                         /\ IsLive(x)' <=> IsLive(x)
                         /\ wakeOn'[x] = IF x \in watchers THEN wakeOn[x] \cup {s} ELSE wakeOn[x]
  BY <1>1, InsertFacts
<1>3. \A x \in Rows : wakeOn[x] \subseteq Rows
  BY DEF Inv, TreesTyped
<1>4. AgentsAreRoots' /\ AgentNeverEnds'
  BY <1>1, <1>2 DEF LifeInv, AgentsAreRoots, AgentNeverEnds
<1>5. ContinuesChild'
  <2> DEFINE Continues(n, c) == /\ c \in Rows /\ ~IsLive(c)
                                /\ node[c].parent = n.parent /\ node[c].parent # None
                                /\ node[c].depth = n.depth
  <2>1. \A x \in Rows : node[x].cont # None => Continues(node[x], node[x].cont)
    BY DEF LifeInv, ContinuesChild
  <2>2. place.cont # None => Continues(place, place.cont)
    BY <1>1
  <2>3. \A x \in Rows' : node'[x].cont # None => Continues(node'[x], node'[x].cont)
    <3> HIDE DEF Continues
    <3> QED BY <1>2, <2>1, <2>2
  <2>4. \A c \in Rows : node'[c] = node[c] /\ (~IsLive(c) => ~IsLive(c)') /\ c \in Rows'
    BY <1>2
  <2> QED BY <2>3, <2>4 DEF ContinuesChild
<1>6. ASSUME NEW w \in Rows', NEW x \in wakeOn'[w]
      PROVE  x # w /\ IsLive(x)' /\ (node'[x].shared \/ node'[x].user = node'[w].user)
  <2>1. w \in Rows
    BY <1>2, <1>6
  <2>2. CASE x \in wakeOn[w]
    <3>1. x \in Rows /\ x # w /\ IsLive(x) /\ (node[x].shared \/ node[x].user = node[w].user)
      BY <1>3, <2>1, <2>2 DEF LifeInv, WakeOnLive, WatchersMaySee
    <3> QED BY <1>2, <2>1, <3>1
  <2>3. CASE x \notin wakeOn[w]
    <3>1. w \in watchers /\ x = s
      BY <1>2, <1>6, <2>1, <2>3
    <3> QED BY <1>1, <1>2, <2>1, <3>1
  <2> QED BY <2>2, <2>3
<1>7. WakeOnLive' /\ WatchersMaySee'
  BY <1>6 DEF WakeOnLive, WatchersMaySee
<1> QED BY <1>4, <1>5, <1>7 DEF LifeInv

LEMMA EndingLives ==
  ASSUME Inv, LifeInv, Ending
  PROVE  LifeInv'
<1>1. PICK rows \in SUBSET Rows : EndRows(rows)
  BY EndingEnds
<1> DEFINE E == Endable(rows)
<1>2. /\ node' = node /\ Rows' = Rows
      /\ \A x \in Rows : /\ IsLive(x)' <=> IsLive(x) /\ x \notin E
                         /\ wakeOn'[x] = wakeOn[x] \ E
  BY <1>1, EndFacts
<1>3. \A x \in E : node[x].agent = None
  BY DEF Endable
<1>4. \A x \in Rows : wakeOn[x] \subseteq Rows
  BY DEF Inv, TreesTyped
<1> HIDE DEF E
<1>5. AgentsAreRoots' /\ AgentNeverEnds'
  BY <1>2, <1>3 DEF LifeInv, AgentsAreRoots, AgentNeverEnds
<1>6. ContinuesChild'
  BY <1>2 DEF LifeInv, ContinuesChild
<1>7. WakeOnLive' /\ WatchersMaySee'
  BY <1>2, <1>4 DEF LifeInv, WakeOnLive, WatchersMaySee
<1> QED BY <1>5, <1>6, <1>7 DEF LifeInv

LEMMA RevivingLives ==
  ASSUME Inv, LifeInv, Reviving
  PROVE  LifeInv'
<1>1. PICK t \in Rows, d \in SendData, caller \in Rows \cup {None} : ReviveRoot(t, d, caller)
  BY DEF Reviving
<1>2. /\ node' = node /\ Rows' = Rows /\ Revivable(t) /\ Root(t) = t
      /\ \A x \in Rows : /\ IsLive(x)' <=> IsLive(x) \/ x = t
                         /\ wakeOn'[x] = IF x \in Rewatchers(t, caller) THEN wakeOn[x] \cup {t}
                                         ELSE wakeOn[x]
  BY <1>1, ReviveFacts
<1>3. \A w \in Rewatchers(t, caller) : w # t /\ (node[t].shared \/ node[t].user = node[w].user)
  BY <1>2 DEF Rewatchers, MayWatch
<1>4. \A x \in Rows : wakeOn[x] \subseteq Rows
  BY DEF Inv, TreesTyped
<1>5. AgentsAreRoots' /\ AgentNeverEnds'
  BY <1>2 DEF LifeInv, AgentsAreRoots, AgentNeverEnds
<1>6. ContinuesChild'
  BY <1>2 DEF LifeInv, ContinuesChild, Revivable
<1>7. WakeOnLive'
  BY <1>2, <1>3, <1>4 DEF LifeInv, WakeOnLive
<1>8. ASSUME NEW w \in Rows, NEW x \in wakeOn'[w]
      PROVE  node[x].shared \/ node[x].user = node[w].user
  <2>1. CASE w \in Rewatchers(t, caller)
    <3>1. wakeOn'[w] = wakeOn[w] \cup {t}
      BY <1>2, <2>1
    <3> QED BY <1>3, <2>1, <3>1 DEF LifeInv, WatchersMaySee
  <2>2. CASE w \notin Rewatchers(t, caller)
    <3>1. wakeOn'[w] = wakeOn[w]
      BY <1>2, <2>2
    <3> QED BY <3>1 DEF LifeInv, WatchersMaySee
  <2> QED BY <2>1, <2>2
<1>9. WatchersMaySee'
  BY <1>2, <1>8 DEF WatchersMaySee
<1> QED BY <1>5, <1>6, <1>7, <1>9 DEF LifeInv

LEMMA WatchingLives ==
  ASSUME Inv, LifeInv, Watching
  PROVE  LifeInv'
<1>1. PICK w \in Rows, ids \in SUBSET Rows : Watch(w, ids)
  BY DEF Watching
<1>2. /\ node' = node /\ run' = run /\ Rows' = Rows
      /\ wakeOn' = [wakeOn EXCEPT ![w] = @ \cup Watchable(w, ids)] /\ DOMAIN wakeOn = Rows
  BY <1>1 DEF Watch, Rows, Inv, TreesTyped
<1>3. \A s \in Watchable(w, ids) : s # w /\ IsLive(s) /\ (node[s].shared \/ node[s].user = node[w].user)
  BY DEF Watchable, MayWatch
<1>4. \A x \in Rows : wakeOn'[x] = IF x = w THEN wakeOn[x] \cup Watchable(w, ids) ELSE wakeOn[x]
  BY <1>2
<1>5. AgentsAreRoots' /\ AgentNeverEnds' /\ ContinuesChild'
  BY <1>2 DEF LifeInv, AgentsAreRoots, AgentNeverEnds, ContinuesChild, IsLive
<1>6. WakeOnLive' /\ WatchersMaySee'
  BY <1>2, <1>3, <1>4 DEF LifeInv, WakeOnLive, WatchersMaySee, IsLive
<1> QED BY <1>5, <1>6 DEF LifeInv

LEMMA StandingLives ==
  ASSUME Inv, LifeInv, Standing
  PROVE  LifeInv'
<1>1. node' = node /\ wakeOn' = wakeOn /\ Rows' = Rows /\ \A s \in Rows : IsLive(s)' <=> IsLive(s)
  BY DEF Standing, Rows
<1>2. \A x \in Rows : wakeOn[x] \subseteq Rows
  BY DEF Inv, TreesTyped
<1>3. AgentsAreRoots' /\ AgentNeverEnds' /\ ContinuesChild'
  BY <1>1 DEF LifeInv, AgentsAreRoots, AgentNeverEnds, ContinuesChild
<1>4. WakeOnLive' /\ WatchersMaySee'
  BY <1>1, <1>2 DEF LifeInv, WakeOnLive, WatchersMaySee
<1> QED BY <1>3, <1>4 DEF LifeInv

LEMMA LifeInvStep == TypeInv /\ LifeInv /\ [Next]_vars => LifeInv'
<1> SUFFICES ASSUME TypeInv, LifeInv, [Next]_vars PROVE LifeInv'
  OBVIOUS
<1>1. Inv
  BY DEF TypeInv, Inv
<1> QED BY <1>1, StepKinds, InsertingLives, EndingLives, RevivingLives, WatchingLives, StandingLives

LEMMA LivesHold == Spec => [](TypeInv /\ LifeInv)
<1>1. Init => TypeInv /\ LifeInv
  BY TypeInvInit, LifeInvInit
<1>2. (TypeInv /\ LifeInv) /\ [Next]_vars => (TypeInv /\ LifeInv)'
  BY TypeInvStep, LifeInvStep
<1> QED BY <1>1, <1>2, PTL DEF Spec

\* However ends, reports and revivals interleave, no step ends an agent's conversation.
THEOREM AgentsStay == Spec => []AgentNeverEnds
<1>1. LifeInv => AgentNeverEnds
  BY DEF LifeInv
<1> QED BY <1>1, LivesHold, PTL

\* A continued child stays ended, beside the sibling that continues it.
THEOREM ContinuedStaysEnded == Spec => []ContinuesEnded
<1>1. LifeInv => ContinuesEnded
  BY DEF LifeInv, ContinuesChild, ContinuesEnded
<1> QED BY <1>1, LivesHold, PTL

\* No list of watched sessions holds an ended one, whatever ends, revives or watches.
THEOREM NobodyWatchesTheEnded == Spec => []WakeOnLive
<1>1. LifeInv => WakeOnLive
  BY DEF LifeInv
<1> QED BY <1>1, LivesHold, PTL

\* A session watches only what its account may see, however it came to watch it: by starting
\* a thread, by asking, or by its revival.
THEOREM WatchersSee == Spec => []WatchersMaySee
<1>1. LifeInv => WatchersMaySee
  BY DEF LifeInv
<1> QED BY <1>1, LivesHold, PTL

-----------------------------------------------------------------------------
\* A root takes its tree with it. The subtree of a session is read off Ancestors, a function
\* that recurs on the parent: that it is one at all rests on the depths of the tree.

LEMMA LeastNatural ==
  ASSUME NEW T \in SUBSET Nat, T # {}
  PROVE  \E x \in T : \A y \in T : x <= y
<1>1. PICK x \in T : \A y \in T : ~(<<y, x>> \in OpToRel(<, Nat))
  BY NatLessThanWellFounded, WFMin
<1>2. \A y \in T : ~(y < x)
  BY <1>1 DEF OpToRel
<1> QED BY <1>2

LEMMA UpTheNaturals ==
  ASSUME NEW T, 0 \in T, \A k \in Nat : k \in T => k + 1 \in T
  PROVE  Nat \subseteq T
<1> SUFFICES ASSUME Nat \ T # {} PROVE FALSE
  OBVIOUS
<1>1. PICK x \in Nat \ T : \A y \in Nat \ T : x <= y
  BY LeastNatural
<1>2. x - 1 \in Nat /\ x - 1 \in T
  BY <1>1
<1> QED BY <1>1, <1>2

\* `above` of Ancestors, for the rows that sit at most k deep.
AboveOf(g, s) == IF node[s].parent = None THEN {} ELSE {node[s].parent} \cup g[node[s].parent]
SolvesTo(g, k) == \A s \in Rows : node[s].depth <= k => g[s] = AboveOf(g, s)

LEMMA AboveToAnyDepth ==
  ASSUME TreesTyped, NEW k \in Nat
  PROVE  \E g : SolvesTo(g, k)
<1> DEFINE T == {j \in Nat : \E g : SolvesTo(g, j)}
<1>1. \A s \in Rows : /\ node[s].depth \in Nat
                      /\ node[s].parent # None => /\ node[s].parent \in Rows
                                                  /\ node[node[s].parent].depth = node[s].depth - 1
                      /\ node[s].parent = None => node[s].depth = 0
  <2>1. \A s \in Rows : node[s].depth \in Nat
    BY DEF TreesTyped, NodeType
  <2> QED BY <2>1 DEF TreesTyped, TreeShape
<1>2. 0 \in T
  <2> DEFINE g == [s \in Rows |-> {}]
  <2>1. ASSUME NEW s \in Rows, node[s].depth <= 0 PROVE g[s] = AboveOf(g, s)
    BY <1>1, <2>1 DEF AboveOf
  <2>2. SolvesTo(g, 0)
    BY <2>1 DEF SolvesTo
  <2> QED BY <2>2
<1>3. ASSUME NEW j \in Nat, j \in T PROVE j + 1 \in T
  <2>1. PICK g : SolvesTo(g, j)
    BY <1>3
  <2> DEFINE h == [s \in Rows |-> AboveOf(g, s)]
  <2>2. ASSUME NEW s \in Rows, node[s].depth <= j + 1 PROVE h[s] = AboveOf(h, s)
    <3>1. CASE node[s].parent = None
      BY <3>1 DEF AboveOf
    <3>2. CASE node[s].parent # None
      <4>1. node[s].parent \in Rows /\ node[node[s].parent].depth <= j
        BY <1>1, <2>2, <3>2
      <4>2. h[node[s].parent] = g[node[s].parent]
        BY <2>1, <4>1 DEF SolvesTo
      <4> QED BY <4>2 DEF AboveOf
    <3> QED BY <3>1, <3>2
  <2>3. SolvesTo(h, j + 1)
    BY <2>2 DEF SolvesTo
  <2> HIDE DEF h
  <2> QED BY <2>3
<1>4. Nat \subseteq T
  <2> HIDE DEF T
  <2> QED BY <1>2, <1>3, UpTheNaturals
<1> QED BY <1>4

\* Ancestors is the function its definition reads as.
LEMMA AncestorsUnfold ==
  ASSUME TreesTyped, NEW s \in Rows
  PROVE  Ancestors[s] = AboveOf(Ancestors, s)
<1>1. PICK g : SolvesTo(g, Rules.treeMaxDepth)
  BY AboveToAnyDepth, HubAssumption DEF HubAssumption, RulesType
<1>2. \A x \in Rows : g[x] = AboveOf(g, x)
  BY <1>1 DEF SolvesTo, TreesTyped, TreeShape
<1> DEFINE h == [x \in Rows |-> AboveOf(g, x)]
<1>3. \A x \in Rows : AboveOf(g, x) = AboveOf(h, x)
  <2>1. \A x \in Rows : node[x].parent # None => node[x].parent \in Rows
    BY DEF TreesTyped, TreeShape
  <2> QED BY <1>2, <2>1 DEF AboveOf
<1>4. h = [x \in Rows |-> AboveOf(h, x)]
  BY <1>3
<1> DEFINE Is(f) == f = [x \in Rows |-> IF node[x].parent = None THEN {}
                                        ELSE {node[x].parent} \cup f[node[x].parent]]
<1>5. Is(h)
  <2> HIDE DEF h
  <2> QED BY <1>4 DEF AboveOf
<1>6. Is(CHOOSE f : Is(f))
  <2> HIDE DEF h, Is
  <2> QED BY <1>5
<1>7. Ancestors = CHOOSE f : Is(f)
  BY DEF Ancestors
<1>8. Is(Ancestors)
  <2> HIDE DEF Is
  <2> QED BY <1>6, <1>7
<1> QED BY <1>8 DEF AboveOf

\* A live row of the tree of a root that an end reaches is among the rows that end.
LEMMA RootReachesAll ==
  ASSUME Inv, LifeInv, NEW s \in Rows, node[s].parent = None, NEW t \in Rows,
         s \in LiveSubtree(t), NEW x \in Rows, Root(x) = s, IsLive(x),
         node[s].agent = None
  PROVE  x \in Endable(LiveSubtree(t))
<1>1. Root(s) = s /\ TreesTyped
  BY DEF Inv, TreesTyped, TreeShape
<1>2. node[t].parent = None /\ t = s
  <2>1. CASE node[t].parent # None
    <3>1. s = t \/ t \in Ancestors[s]
      BY <2>1 DEF LiveSubtree
    <3>2. Ancestors[s] = {}
      BY <1>1, AncestorsUnfold DEF AboveOf
    <3> QED BY <2>1, <3>1, <3>2
  <2>2. CASE node[t].parent = None
    BY <1>1, <2>2 DEF LiveSubtree
  <2> QED BY <2>1, <2>2
<1>3. x \in LiveSubtree(t)
  BY <1>2 DEF LiveSubtree
<1>4. node[x].agent = None
  <2>1. CASE node[x].parent = None
    BY <1>1, <2>1 DEF TreesTyped, TreeShape
  <2>2. CASE node[x].parent # None
    BY <2>2 DEF LifeInv, AgentsAreRoots
  <2> QED BY <2>1, <2>2
<1> QED BY <1>3, <1>4 DEF Endable

LEMMA RootEndsStep ==
  ASSUME TypeInv, LifeInv, [Next]_vars, NEW s \in Rows,
         node[s].parent = None, run[s].lastTurn # Never, IsLive(s), ~IsLive(s)'
  PROVE  LiveInTree(s)' = {}
<1>1. Inv
  BY DEF TypeInv, Inv
<1>2. Ending
  <2>1. ~Inserting
    BY <1>1, InsertingFacts, InsertFacts
  <2>2. ~Reviving
    BY <1>1, ReviveFacts DEF Reviving
  <2>3. ~Watching
    BY DEF Watching, Watch, IsLive
  <2>4. ~Standing
    BY DEF Standing
  <2> QED BY <2>1, <2>2, <2>3, <2>4, StepKinds
<1>3. CASE \E x \in Rows : ~Survives(x) /\ EndRows({x})
  <2>1. PICK x \in Rows : ~Survives(x) /\ EndRows({x})
    BY <1>3
  <2>2. s \in Endable({x})
    BY <1>1, <2>1, EndFacts
  <2> QED BY <2>1, <2>2 DEF Endable, Survives
<1>4. CASE \E t \in Rows : EndRows(LiveSubtree(t))
  <2>1. PICK t \in Rows : EndRows(LiveSubtree(t))
    BY <1>4
  <2>2. /\ node' = node /\ Rows' = Rows
        /\ \A x \in Rows : IsLive(x)' <=> IsLive(x) /\ x \notin Endable(LiveSubtree(t))
    BY <1>1, <2>1, EndFacts
  <2>3. s \in LiveSubtree(t) /\ node[s].agent = None
    BY <2>2 DEF Endable
  <2>4. ASSUME NEW x \in Rows, Root(x) = s PROVE ~IsLive(x)'
    BY <1>1, <2>2, <2>3, <2>4, RootReachesAll
  <2> QED BY <2>2, <2>4 DEF LiveInTree, Root
<1> QED BY <1>2, <1>3, <1>4 DEF Ending

\* A root that finished a turn ends with its whole tree or not at all: a report of its device
\* alone never strands its sub-sessions, and an end of a sub-session never reaches it.
THEOREM RootTakesItsTree == Spec => RootEndsItsTree
<1>1. TypeInv /\ LifeInv /\ [Next]_vars =>
        [\A s \in Rows :
           node[s].parent = None /\ run[s].lastTurn # Never /\ IsLive(s) /\ ~IsLive(s)'
             => LiveInTree(s)' = {}]_vars
  BY RootEndsStep
<1> QED BY <1>1, LivesHold, PTL DEF Spec, RootEndsItsTree

=============================================================================
