------------------------------ MODULE PickupProofs ------------------------------
(***************************************************************************)
(* SessionPickup for any set of hosts and messages: its types first, where *)
(* each rewriting of a host's record has a lemma, then the inductive       *)
(* invariants over them: one engine per session, nothing fed twice, nothing*)
(* consumed unheard.                                                       *)
(***************************************************************************)
EXTENDS SessionPickup, TLAPS

\* The oldest of a set are in it.
LEMMA OldestSubset == ASSUME NEW S PROVE Oldest(S) \subseteq S
  BY DEF Oldest

\* Consuming keeps every message in a state of a message.
LEMMA ConsumedType == ASSUME msg \in [Messages -> MessageState], NEW ms
                      PROVE Consumed(ms) \in [Messages -> MessageState]
  BY DEF Consumed, MessageState

\* The Request is a message.
LEMMA RequestType == Request \subseteq Messages
  BY OldestSubset DEF Request

\* A host that just started is a host.
LEMMA FreshHostType == FreshHost \in HostState
  BY MaxAttemptsAssumption DEF FreshHost, HostState, AttemptState, NoAttempt, Steps, Reports

\* No engine is a state of an engine.
LEMMA NoAgentType == NoAgent \in AgentState
  BY DEF NoAgent, AgentState

\* Replacing one host's record keeps the hosts typed.
LEMMA HostSet == ASSUME host \in [Hosts -> HostState], NEW h \in Hosts, NEW r \in HostState
                 PROVE [host EXCEPT ![h] = r] \in [Hosts -> HostState]
  OBVIOUS

\* Replacing one engine's record keeps the engines typed.
LEMMA AgentSet == ASSUME agent \in [Hosts -> AgentState], NEW h \in Hosts, NEW r \in AgentState
                 PROVE [agent EXCEPT ![h] = r] \in [Hosts -> AgentState]
  OBVIOUS

\* The fields of a host, by the type of its record.
LEMMA HostFields == ASSUME NEW r \in HostState
  PROVE /\ r.up \in BOOLEAN /\ r.reconciled \in BOOLEAN /\ r.attempt \in AttemptState
        /\ r.entry \in BOOLEAN /\ r.handed \in SUBSET Messages /\ r.refused \in SUBSET Messages
        /\ r.consuming \in SUBSET Messages /\ r.jobs \in SUBSET Messages
        /\ r.unsettled \in 0..MaxAttempts
        /\ r.attempt.step \in Steps /\ r.attempt.batch \in SUBSET Messages
        /\ r.attempt.seed \in SUBSET Messages
  BY DEF HostState, AttemptState

\* Setting a host's attempt keeps its type.
LEMMA SetAttempt == ASSUME NEW r \in HostState, NEW a \in AttemptState
  PROVE [r EXCEPT !.attempt = a] \in HostState
  BY DEF HostState

\* Setting a host's count of attempts keeps its type.
LEMMA SetUnsettled == ASSUME NEW r \in HostState, NEW u \in 0..MaxAttempts
  PROVE [r EXCEPT !.unsettled = u] \in HostState
  BY DEF HostState

\* Setting a host's pending consumes keeps its type.
LEMMA SetJobs == ASSUME NEW r \in HostState, NEW j \in SUBSET Messages
  PROVE [r EXCEPT !.jobs = j] \in HostState
  BY DEF HostState

\* Setting what a host handed keeps its type.
LEMMA SetHanded == ASSUME NEW r \in HostState, NEW ha \in SUBSET Messages
  PROVE [r EXCEPT !.handed = ha] \in HostState
  BY DEF HostState

\* Dropping or making a host's entry keeps its type.
LEMMA SetEntry == ASSUME NEW r \in HostState, NEW e \in BOOLEAN, NEW ha \in SUBSET Messages
  PROVE [r EXCEPT !.entry = e, !.handed = ha] \in HostState
  BY DEF HostState

\* The start of a wake keeps the type of its host.
LEMMA SetWaking == ASSUME NEW r \in HostState, NEW c \in SUBSET Messages, NEW j \in SUBSET Messages, NEW a \in AttemptState
  PROVE [r EXCEPT !.consuming = c, !.jobs = j, !.attempt = a] \in HostState
  BY DEF HostState

\* A refused wake keeps the type of its host.
LEMMA SetRefused == ASSUME NEW r \in HostState, NEW a \in AttemptState, NEW re \in SUBSET Messages, NEW j \in SUBSET Messages, NEW c \in SUBSET Messages
  PROVE [r EXCEPT !.attempt = a, !.refused = re, !.jobs = j, !.consuming = c] \in HostState
  BY DEF HostState

\* A spawned engine's entry keeps the type of its host.
LEMMA SetSpawned == ASSUME NEW r \in HostState, NEW a \in AttemptState, NEW ha \in SUBSET Messages
  PROVE [r EXCEPT !.attempt = a, !.entry = TRUE, !.handed = ha, !.refused = {}] \in HostState
  BY DEF HostState

\* A failed spawn keeps the type of its host.
LEMMA SetFailed == ASSUME NEW r \in HostState, NEW a \in AttemptState, NEW re \in SUBSET Messages
  PROVE [r EXCEPT !.attempt = a, !.refused = re] \in HostState
  BY DEF HostState

\* A prepared launch keeps the type of its host.
LEMMA SetPrepared == ASSUME NEW r \in HostState, NEW a \in AttemptState
  PROVE [r EXCEPT !.attempt = a, !.unsettled = 0] \in HostState
<1>1. 0 \in 0..MaxAttempts
  BY MaxAttemptsAssumption
<1>2. [r EXCEPT !.attempt = a, !.unsettled = 0] = [[r EXCEPT !.attempt = a] EXCEPT !.unsettled = 0]
  BY DEF HostState
<1> QED BY <1>1, <1>2, SetAttempt, SetUnsettled

\* What a host has to report keeps its type.
LEMMA SetSays == ASSUME NEW r \in HostState, NEW s \in Reports
  PROVE [r EXCEPT !.says = s] \in HostState
  BY DEF HostState

\* An attempt that goes to its next step keeps the type of its host.
LEMMA StepEdit == ASSUME NEW r \in HostState, NEW s \in Steps
  PROVE [r EXCEPT !.attempt.step = s] \in HostState
<1>1. [r.attempt EXCEPT !.step = s] \in AttemptState
  BY HostFields DEF AttemptState
<1>2. [r EXCEPT !.attempt.step = s] = [r EXCEPT !.attempt = [r.attempt EXCEPT !.step = s]]
  BY DEF HostState
<1> QED BY <1>1, <1>2, SetAttempt

\* No attempt is a state of an attempt.
LEMMA NoAttemptType == NoAttempt \in AttemptState
  BY DEF NoAttempt, AttemptState, Steps

\* The ways an engine's record is rewritten keep its type.
LEMMA AgentEdit == ASSUME NEW r \in AgentState,
    NEW s \in {"none", "starting", "up", "closing", "done"}, NEW d \in SUBSET Messages,
    NEW q \in SUBSET Messages, NEW f \in SUBSET Messages, NEW t \in SUBSET Messages, NEW n \in SUBSET Messages
  PROVE /\ [r EXCEPT !.state = s] \in AgentState
        /\ [r EXCEPT !.seed = d] \in AgentState
        /\ [r EXCEPT !.state = s, !.seed = d, !.queue = q, !.fed = f] \in AgentState
        /\ [r EXCEPT !.queue = q, !.fed = f, !.twice = t] \in AgentState
        /\ [r EXCEPT !.queue = q, !.unconsumed = n] \in AgentState
        /\ [r EXCEPT !.unconsumed = n] \in AgentState
  BY DEF AgentState

\* The fields of an engine, by the type of its record.
LEMMA AgentFields == ASSUME NEW r \in AgentState
  PROVE /\ r.state \in {"none", "starting", "up", "closing", "done"}
        /\ r.seed \in SUBSET Messages /\ r.queue \in SUBSET Messages /\ r.fed \in SUBSET Messages
        /\ r.twice \in SUBSET Messages /\ r.unconsumed \in SUBSET Messages
  BY DEF AgentState

\* What a host sees pending or consumed are messages.
LEMMA ViewSets == ASSUME NEW h PROVE PendingIn(h) \subseteq Messages /\ ConsumedIn(h) \subseteq Messages
  BY DEF PendingIn, ConsumedIn

\* The housekeeping of a pass keeps the type of its host.
LEMMA KeptType == ASSUME NEW h \in Hosts, host[h] \in HostState PROVE Housekept(h) \in HostState
<1> DEFINE r == host[h]
           e == r.entry /\ ~Pruned(h)
           ha == IF Pruned(h) THEN {} ELSE r.handed \ ConsumedIn(h)
           c == r.consuming \ ConsumedIn(h)
           u == IF seen[h].row \in {"queued", "running"} THEN r.unsettled ELSE 0
<1>1. e \in BOOLEAN
  OBVIOUS
<1>2. /\ ha \in SUBSET Messages /\ c \in SUBSET Messages
  BY HostFields
<1>3. u \in 0..MaxAttempts
  BY HostFields, MaxAttemptsAssumption
<1>4. r \in HostState
  OBVIOUS
<1>5. Housekept(h) = [r EXCEPT !.reconciled = TRUE, !.entry = e, !.handed = ha, !.consuming = c, !.unsettled = u]
  BY DEF Housekept
<1> HIDE DEF e, ha, c, u, r
<1> QED BY <1>1, <1>2, <1>3, <1>4, <1>5 DEF HostState

\* An attempt's next step keeps the hosts typed.
LEMMA GoesType == ASSUME host \in [Hosts -> HostState], NEW h \in Hosts, NEW s \in Steps
                  PROVE Goes(h, s) \in [Hosts -> HostState]
<1>1. Goes(h, s) = [host EXCEPT ![h] = [host[h] EXCEPT !.attempt.step = s]]
  BY DEF Goes
<1> QED BY <1>1, StepEdit, HostSet

\* An attempt that is dropped keeps the hosts typed, settled or not.
LEMMA DroppedType == ASSUME host \in [Hosts -> HostState], NEW h \in Hosts
  PROVE /\ Dropped(h) \in [Hosts -> HostState]
        /\ [Dropped(h) EXCEPT ![h].unsettled = 0] \in [Hosts -> HostState]
<1>1. Dropped(h) = [host EXCEPT ![h] = [host[h] EXCEPT !.attempt = NoAttempt]]
  BY DEF Dropped
<1>2. Dropped(h) \in [Hosts -> HostState]
  BY <1>1, SetAttempt, HostSet, NoAttemptType
<1>3. 0 \in 0..MaxAttempts
  BY MaxAttemptsAssumption
<1>4. [Dropped(h) EXCEPT ![h].unsettled = 0] = [Dropped(h) EXCEPT ![h] = [Dropped(h)[h] EXCEPT !.unsettled = 0]]
  OBVIOUS
<1>5. [Dropped(h)[h] EXCEPT !.unsettled = 0] \in HostState
  BY <1>2, <1>3, SetUnsettled
<1> QED BY <1>2, <1>4, <1>5

\* A report leaves a status.
LEMMA RowTypes == ASSUME row \in Status
  PROVE /\ Reported("idle") \in Status /\ Reported("running") \in Status
        /\ Reported(EndStatus) \in Status
  BY DEF Reported, EndStatus, Status

\* A fault stays within the bound.
LEMMA FaultType == ASSUME faults \in 0..MaxFaults PROVE Fault => faults' \in 0..MaxFaults
  BY MaxFaultsAssumption DEF Fault

\* Pruning leaves the claim with a host, free or dead.
LEMMA PruneClaim == ASSUME NEW h \in Hosts, claim \in Hosts \cup {"free", "dead"}
  PROVE ClaimAfterPrune(h) \in Hosts \cup {"free", "dead"}
  BY DEF ClaimAfterPrune

\* The histories only take messages.
LEMMA Told == ASSUME ghost \in GhostState, NEW ms \in SUBSET Messages
  PROVE /\ [ghost EXCEPT !.told = @ \cup ms] \in GhostState
        /\ [ghost EXCEPT !.heard = @ \cup ms] \in GhostState
        /\ [ghost EXCEPT !.given = @ \cup ms] \in GhostState
  BY DEF GhostState

\* The server's side of a claim keeps the types.
LEMMA ClaimLandsType == ASSUME TypeOK, ClaimLands
  PROVE row' \in Status /\ msg' \in [Messages -> MessageState] /\ ghost' \in GhostState
  BY ConsumedType DEF TypeOK, ClaimLands, Status, GhostState

\* Every step keeps the types.
LEMMA TypeStep == TypeOK /\ [Next]_vars => TypeOK'
<1> SUFFICES ASSUME TypeOK, [Next]_vars PROVE TypeOK'
  OBVIOUS
<1>0. /\ row \in Status /\ msg \in [Messages -> MessageState] /\ seen \in [Hosts -> View]
      /\ host \in [Hosts -> HostState] /\ agent \in [Hosts -> AgentState]
      /\ claim \in Hosts \cup {"free", "dead"} /\ record \in RecordState
      /\ ghost \in GhostState /\ faults \in 0..MaxFaults
  BY DEF TypeOK
<1>1. ASSUME NEW m \in Messages, Send(m) PROVE TypeOK'
  BY <1>1 DEF Send, MessageState, TypeOK
<1>2. ASSUME NEW m \in Messages, Withdraw(m) PROVE TypeOK'
  BY <1>2, FaultType DEF Withdraw, MessageState, TypeOK
<1>3. CASE EndSession
  BY <1>3, FaultType DEF EndSession, Status, TypeOK
<1>4. CASE ClaimGoesStale
  BY <1>4 DEF ClaimGoesStale, TypeOK
<1>5. ASSUME NEW h \in Hosts, SyncRow(h) PROVE TypeOK'
  BY <1>5 DEF SyncRow, TypeOK, View
<1>6. ASSUME NEW h \in Hosts, SyncMessages(h) PROVE TypeOK'
  BY <1>6 DEF SyncMessages, TypeOK, View
<1>7. ASSUME NEW h \in Hosts, Reclaim(h) PROVE TypeOK'
  <2> DEFINE k == Housekept(h)
  <2>1. k \in HostState
    BY <1>0, KeptType
  <2>2. /\ [k EXCEPT !.says = "unstarted"] \in HostState /\ [k EXCEPT !.says = "idle"] \in HostState
        /\ [k EXCEPT !.attempt.step = "reclaiming"] \in HostState
    BY <2>1, SetSays, StepEdit DEF Reports, Steps
  <2>3. \/ host' = [host EXCEPT ![h] = [k EXCEPT !.says = "unstarted"]]
        \/ host' = [host EXCEPT ![h] = [k EXCEPT !.says = "idle"]]
        \/ host' = [host EXCEPT ![h] = [k EXCEPT !.attempt.step = "reclaiming"]]
    BY <1>7 DEF Reclaim
  <2> HIDE DEF k
  <2>4. host' \in [Hosts -> HostState]
    BY <1>0, <2>2, <2>3, HostSet
  <2> QED BY <2>4, <1>7 DEF Reclaim, TypeOK
<1>8. ASSUME NEW h \in Hosts, Quiet(h) PROVE TypeOK'
  <2>1. host' \in [Hosts -> HostState]
    BY <1>0, <1>8, KeptType DEF Quiet
  <2> QED BY <2>1, <1>8, PruneClaim DEF Quiet, TypeOK
<1>9. ASSUME NEW h \in Hosts, BeginLaunch(h) PROVE TypeOK'
  <2> DEFINE k == Housekept(h)
             u == IF k.unsettled < MaxAttempts THEN k.unsettled + 1 ELSE k.unsettled
             r == [k EXCEPT !.attempt.step = "claiming", !.unsettled = u]
  <2>1. k \in HostState
    BY <1>0, KeptType
  <2>2. u \in 0..MaxAttempts
    BY <2>1, HostFields, MaxAttemptsAssumption
  <2>3. [k EXCEPT !.attempt.step = "claiming"] \in HostState
    BY <2>1, StepEdit DEF Steps
  <2>4. r \in HostState
    <3>1. r = [[k EXCEPT !.attempt.step = "claiming"] EXCEPT !.unsettled = u]
      BY <2>1 DEF HostState
    <3> HIDE DEF u, k, r
    <3> QED BY <2>2, <2>3, <3>1, SetUnsettled
  <2>5. \/ host' = [host EXCEPT ![h] = r] /\ claim' = h
        \/ host' = [host EXCEPT ![h] = k] /\ claim' = claim
    BY <1>9 DEF BeginLaunch
  <2> HIDE DEF u, k, r
  <2>6. host' \in [Hosts -> HostState]
    BY <1>0, <2>1, <2>4, <2>5
  <2> QED BY <2>5, <2>6, <1>9 DEF BeginLaunch, TypeOK
<1>10. ASSUME NEW h \in Hosts, BeginWake(h) PROVE TypeOK'
  <2> DEFINE k == Housekept(h)
             covered == (PendingIn(h) \cap record.owed) \ k.consuming
             left == PendingIn(h) \ (record.owed \cup k.consuming)
             a == IF left \subseteq k.refused THEN NoAttempt ELSE [step |-> "locking", batch |-> left, seed |-> {}]
             c == k.consuming \cup covered
             j == k.jobs \cup covered
  <2>1. k \in HostState
    BY <1>0, KeptType
  <2>2. covered \in SUBSET Messages /\ left \in SUBSET Messages
    BY ViewSets
  <2>3. a \in AttemptState
    BY <2>2, NoAttemptType DEF AttemptState, Steps
  <2>4. c \in SUBSET Messages /\ j \in SUBSET Messages
    BY <2>1, <2>2, HostFields
  <2>5. host' = [host EXCEPT ![h] = [k EXCEPT !.consuming = c, !.jobs = j, !.attempt = a]]
    BY <1>10 DEF BeginWake
  <2> HIDE DEF a, c, j, k
  <2>6. host' \in [Hosts -> HostState]
    BY <1>0, <2>1, <2>3, <2>4, <2>5, SetWaking, HostSet
  <2> QED BY <2>6, <1>10, PruneClaim DEF BeginWake, TypeOK
<1>11. ASSUME NEW h \in Hosts, Kill(h) PROVE TypeOK'
  <2>1. host' \in [Hosts -> HostState]
    <3>1. Housekept(h) \in HostState
      BY <1>0, KeptType
    <3>2. [Housekept(h) EXCEPT !.entry = FALSE, !.handed = {}] \in HostState
      BY <3>1, SetEntry
    <3> QED BY <3>2, <1>0, <1>11, HostSet DEF Kill
  <2>2. agent' \in [Hosts -> AgentState]
    BY <1>0, <1>11, AgentEdit, AgentSet DEF Kill
  <2> QED BY <2>1, <2>2, <1>11 DEF Kill, TypeOK
<1>12. ASSUME NEW h \in Hosts, Feed(h) PROVE TypeOK'
  <2>0. FreshFor(h) \in SUBSET Messages
    BY ViewSets DEF FreshFor
  <2>1. host' \in [Hosts -> HostState]
    <3> DEFINE ha == (Housekept(h).handed \ Revoked(h)) \cup FreshFor(h)
    <3>1. ha \in SUBSET Messages
      BY <1>0, <2>0, KeptType, HostFields
    <3>2. host' = [host EXCEPT ![h] = [Housekept(h) EXCEPT !.handed = ha]]
      BY <1>12 DEF Feed
    <3> HIDE DEF ha
    <3>3. [Housekept(h) EXCEPT !.handed = ha] \in HostState
      BY <3>1, <1>0, KeptType, SetHanded
    <3> QED BY <3>2, <3>3, <1>0, HostSet
  <2>2. agent' \in [Hosts -> AgentState]
    <3> DEFINE q == (agent[h].queue \ Revoked(h)) \cup FreshFor(h)
               f == agent[h].fed \cup FreshFor(h)
               t == agent[h].twice \cup (FreshFor(h) \cap agent[h].fed)
    <3>1. q \in SUBSET Messages /\ f \in SUBSET Messages /\ t \in SUBSET Messages
      BY <1>0, <2>0, AgentFields
    <3>2. agent' = [agent EXCEPT ![h] = [agent[h] EXCEPT !.queue = q, !.fed = f, !.twice = t]]
      BY <1>0, <1>12 DEF Feed
    <3> HIDE DEF q, f, t
    <3>3. [agent[h] EXCEPT !.queue = q, !.fed = f, !.twice = t] \in AgentState
      BY <3>1, <1>0, AgentEdit
    <3> QED BY <3>2, <3>3, <1>0, AgentSet
  <2> QED BY <2>1, <2>2, <1>12 DEF Feed, TypeOK
<1>13. ASSUME NEW h \in Hosts, ClaimRow(h) PROVE TypeOK'
  <2>1. CASE ClaimLands /\ host' = Goes(h, "briefing") /\ UNCHANGED <<claim, faults>>
    BY <1>0, <2>1, <1>13, ClaimLandsType, GoesType DEF ClaimRow, TypeOK, Steps
  <2>2. CASE ~(ClaimLands /\ host' = Goes(h, "briefing") /\ UNCHANGED <<claim, faults>>)
    <3>1. /\ host' = [Dropped(h) EXCEPT ![h].unsettled = 0]
          /\ claim' = "free"
          /\ ghost' = [ghost EXCEPT !.told = @ \cup Request]
          /\ UNCHANGED <<row, msg, faults, seen, agent, record>>
      BY <2>2, <1>13 DEF ClaimRow
    <3>2. ghost' \in GhostState
      BY <3>1, <1>0, RequestType, Told
    <3> QED BY <1>0, <3>1, <3>2, DroppedType DEF TypeOK
  <2> QED BY <2>1, <2>2
<1>14. ASSUME NEW h \in Hosts, ClaimUnanswered(h) PROVE TypeOK'
  <2>1. row' \in Status /\ msg' \in [Messages -> MessageState] /\ ghost' \in GhostState
    BY <1>0, <1>14, ClaimLandsType DEF ClaimUnanswered
  <2> QED BY <1>0, <1>14, <2>1, FaultType, DroppedType DEF ClaimUnanswered, TypeOK
<1>15. ASSUME NEW h \in Hosts, LaunchPrepared(h) PROVE TypeOK'
  <2> DEFINE a == [step |-> "starting", batch |-> {}, seed |-> Request]
  <2>1. a \in AttemptState
    BY RequestType DEF AttemptState, Steps
  <2>2. host' = [host EXCEPT ![h] = [host[h] EXCEPT !.attempt = a, !.unsettled = 0]]
    BY <1>15 DEF LaunchPrepared
  <2>3. record' \in RecordState
    BY <1>15 DEF LaunchPrepared, RecordState
  <2> HIDE DEF a
  <2>4. host' \in [Hosts -> HostState]
    BY <1>0, <2>1, <2>2, SetPrepared, HostSet
  <2> QED BY <2>3, <2>4, <1>15 DEF LaunchPrepared, TypeOK
<1>16. ASSUME NEW h \in Hosts, LaunchFails(h) PROVE TypeOK'
  <2>1. host' \in [Hosts -> HostState]
    BY <1>0, <1>16, DroppedType DEF LaunchFails
  <2>2. ghost' \in GhostState
    BY <1>0, <1>16, RequestType, Told DEF LaunchFails
  <2>3. row' \in Status
    BY <1>0, <1>16, RowTypes DEF LaunchFails
  <2> QED BY <2>1, <2>2, <2>3, <1>0, <1>16, FaultType DEF LaunchFails, TypeOK
<1>17. ASSUME NEW h \in Hosts, WakeLock(h) PROVE TypeOK'
  <2>1. host' \in [Hosts -> HostState]
    BY <1>0, <1>17, DroppedType, GoesType DEF WakeLock, Steps
  <2> QED BY <2>1, <1>17 DEF WakeLock, TypeOK
<1>18. ASSUME NEW h \in Hosts, WakePrepared(h) PROVE TypeOK'
  <2> DEFINE d == IF record.started THEN {} ELSE Request
             a == [host[h].attempt EXCEPT !.step = "resuming", !.seed = d]
  <2>0. d \in SUBSET Messages /\ host[h].attempt \in AttemptState
    BY <1>0, HostFields, RequestType
  <2>a. host' = [host EXCEPT ![h].attempt.step = "resuming", ![h].attempt.seed = d]
    BY <1>18 DEF WakePrepared
  <2> HIDE DEF d
  <2>1. a \in AttemptState
    BY <2>0 DEF AttemptState, Steps
  <2>2. host' = [host EXCEPT ![h] = [host[h] EXCEPT !.attempt = a]]
    BY <1>0, <2>a
  <2>3. record' \in RecordState
    BY <1>0, <1>18 DEF WakePrepared, RecordState
  <2> HIDE DEF a
  <2>4. host' \in [Hosts -> HostState]
    BY <1>0, <2>1, <2>2, SetAttempt, HostSet
  <2> QED BY <2>3, <2>4, <1>18 DEF WakePrepared, TypeOK
<1>19. ASSUME NEW h \in Hosts, WakeFails(h) PROVE TypeOK'
  <2> DEFINE batch == host[h].attempt.batch
  <2>0. batch \in SUBSET Messages
    BY <1>0, HostFields
  <2>1. CASE host' = Dropped(h) /\ UNCHANGED <<row, ghost>>
    BY <2>1, <1>0, <1>19, DroppedType, FaultType DEF WakeFails, TypeOK
  <2>2. CASE ~(host' = Dropped(h) /\ UNCHANGED <<row, ghost>>)
    <3>1. PICK tried \in {{}, IF record.exists THEN {} ELSE batch} :
            host' = [host EXCEPT
                    ![h].attempt = NoAttempt, ![h].refused = batch,
                    ![h].jobs = @ \cup (tried \ host[h].consuming),
                    ![h].consuming = @ \cup tried]
      BY <2>2, <1>19 DEF WakeFails
    <3> DEFINE j == host[h].jobs \cup (tried \ host[h].consuming)
               c == host[h].consuming \cup tried
    <3>2. j \in SUBSET Messages /\ c \in SUBSET Messages
      BY <1>0, <2>0, <3>1, HostFields
    <3>3. host' = [host EXCEPT ![h] = [host[h] EXCEPT
                    !.attempt = NoAttempt, !.refused = batch, !.jobs = j, !.consuming = c]]
      BY <1>0, <3>1
    <3> HIDE DEF j, c, batch
    <3>4. host' \in [Hosts -> HostState]
      BY <1>0, <2>0, <3>2, <3>3, NoAttemptType, SetRefused, HostSet
    <3>5. ghost' \in GhostState
      <4>1. (batch \cup IF record.exists THEN {} ELSE Request) \in SUBSET Messages
        BY <2>0, RequestType
      <4>2. ghost' = [ghost EXCEPT !.told = @ \cup (batch \cup IF record.exists THEN {} ELSE Request)]
        BY <2>2, <1>19 DEF WakeFails, batch
      <4> QED BY <1>0, <4>1, <4>2, Told
    <3>6. row' \in Status
      BY <1>0, <2>2, <1>19, RowTypes DEF WakeFails
    <3> QED BY <3>4, <3>5, <3>6, <1>0, <1>19, FaultType DEF WakeFails, TypeOK
  <2> QED BY <2>1, <2>2
<1>20. ASSUME NEW h \in Hosts, ConsumeLands(h) PROVE TypeOK'
  <2>1. host' \in [Hosts -> HostState]
    BY <1>0, <1>20, SetJobs, HostSet DEF ConsumeLands
  <2>2. record' \in RecordState
    BY <1>0, <1>20 DEF ConsumeLands, RecordState
  <2> QED BY <2>1, <2>2, <1>0, <1>20, ConsumedType DEF ConsumeLands, TypeOK
<1>21. ASSUME NEW h \in Hosts, ConsumeGivesUp(h) PROVE TypeOK'
  <2>1. host' \in [Hosts -> HostState]
    BY <1>0, <1>21, SetJobs, HostSet DEF ConsumeGivesUp
  <2> QED BY <2>1, <1>21 DEF ConsumeGivesUp, TypeOK
<1>22. ASSUME NEW h \in Hosts, AgentReads(h) PROVE TypeOK'
  <2>1. PICK m \in Oldest(agent[h].queue) :
           /\ agent' = [agent EXCEPT ![h].queue = @ \ {m}, ![h].unconsumed = @ \cup {m}]
           /\ ghost' = [ghost EXCEPT !.heard = @ \cup {m}]
    BY <1>22 DEF AgentReads
  <2>2. m \in Messages
    BY <1>0, AgentFields, OldestSubset
  <2>3. agent' \in [Hosts -> AgentState]
    <3> DEFINE q == agent[h].queue \ {m}
               n == agent[h].unconsumed \cup {m}
    <3>1. q \in SUBSET Messages /\ n \in SUBSET Messages
      BY <1>0, <2>2, AgentFields
    <3>2. agent' = [agent EXCEPT ![h] = [agent[h] EXCEPT !.queue = q, !.unconsumed = n]]
      BY <1>0, <2>1
    <3> HIDE DEF q, n
    <3> QED BY <3>1, <3>2, <1>0, AgentEdit, AgentSet
  <2>4. ghost' \in GhostState
    BY <1>0, <2>1, <2>2, Told
  <2> QED BY <2>3, <2>4, <1>22 DEF AgentReads, TypeOK
<1>23. ASSUME NEW h \in Hosts, AgentConsumes(h) PROVE TypeOK'
  <2>1. agent' \in [Hosts -> AgentState]
    BY <1>0, <1>23, AgentEdit, AgentSet DEF AgentConsumes
  <2> QED BY <2>1, <1>0, <1>23, ConsumedType DEF AgentConsumes, TypeOK
<1>24. ASSUME NEW h \in Hosts, AgentStops(h) PROVE TypeOK'
  <2>1. agent' \in [Hosts -> AgentState]
    BY <1>0, <1>24, AgentEdit, AgentSet DEF AgentStops
  <2> QED BY <2>1, <1>0, <1>24, FaultType DEF AgentStops, TypeOK
<1>25. ASSUME NEW h \in Hosts, AgentEnds(h) PROVE TypeOK'
  <2>1. agent' \in [Hosts -> AgentState]
    BY <1>0, <1>25, NoAgentType, AgentEdit, AgentSet DEF AgentEnds
  <2>2. record' \in RecordState
    BY <1>0, <1>25, AgentFields DEF AgentEnds, RecordState
  <2>3. msg' \in [Messages -> MessageState]
    BY <1>0, <1>25, ConsumedType DEF AgentEnds
  <2>4. row' \in Status
    BY <1>0, <1>25, RowTypes DEF AgentEnds, EndSaid, Status
  <2>5. ghost' \in GhostState
    BY <1>0, <1>25, AgentFields, Told DEF AgentEnds, EndSaid
  <2> QED BY <2>1, <2>2, <2>3, <2>4, <2>5, <1>25 DEF AgentEnds, TypeOK
<1>26. ASSUME NEW h \in Hosts, Crash(h) PROVE TypeOK'
  <2>1. host' \in [Hosts -> HostState]
    <3>1. [FreshHost EXCEPT !.up = FALSE] \in HostState
      BY FreshHostType DEF HostState
    <3> QED BY <3>1, <1>0, <1>26, HostSet DEF Crash
  <2>2. agent' \in [Hosts -> AgentState]
    BY <1>0, <1>26, NoAgentType, AgentSet DEF Crash
  <2>3. seen' \in [Hosts -> View]
    BY <1>0, <1>26 DEF Crash, View, Status, MessageState
  <2>4. ghost' \in GhostState
    BY <1>0, <1>26 DEF Crash, GhostState
  <2> QED BY <2>1, <2>2, <2>3, <2>4, <1>0, <1>26, FaultType DEF Crash, TypeOK
<1>27. ASSUME NEW h \in Hosts, Restart(h) PROVE TypeOK'
  <2>1. host' \in [Hosts -> HostState]
    <3>1. [host[h] EXCEPT !.up = TRUE] \in HostState
      BY <1>0 DEF HostState
    <3>2. host' = [host EXCEPT ![h] = [host[h] EXCEPT !.up = TRUE]]
      BY <1>27 DEF Restart
    <3> QED BY <3>1, <3>2, <1>0, HostSet
  <2>2. seen' \in [Hosts -> View]
    BY <1>0, <1>27 DEF Restart, View
  <2> QED BY <2>1, <2>2, <1>27 DEF Restart, TypeOK
<1>28. CASE UNCHANGED vars
  BY <1>28 DEF vars, TypeOK
<1>29. ASSUME NEW h \in Hosts, Says(h) PROVE TypeOK'
  <2>1. host' \in [Hosts -> HostState]
    BY <1>0, <1>29, SetSays, HostSet DEF Says, Reports
  <2>2. ghost' \in GhostState
    BY <1>0, <1>29, RequestType, Told DEF Says
  <2> QED BY <1>0, <2>1, <2>2, <1>29, RowTypes DEF Says, TypeOK
<1>30. ASSUME NEW h \in Hosts, ContinueLock(h) PROVE TypeOK'
  <2>1. host' \in [Hosts -> HostState]
    BY <1>0, <1>30, DroppedType, GoesType DEF ContinueLock, Steps
  <2> QED BY <1>0, <2>1, <1>30, RowTypes DEF ContinueLock, TypeOK
<1>31. ASSUME NEW h \in Hosts, Spawned(h) PROVE TypeOK'
  <2> DEFINE a == host[h].attempt
             r == [host[h] EXCEPT !.attempt = NoAttempt, !.entry = TRUE, !.handed = a.batch, !.refused = {}]
             e == [NoAgent EXCEPT !.state = "starting", !.seed = a.seed, !.queue = a.batch, !.fed = a.batch]
  <2>1. a.batch \in SUBSET Messages /\ a.seed \in SUBSET Messages
    BY <1>0, HostFields
  <2>2. r \in HostState /\ e \in AgentState
    BY <1>0, <2>1, NoAttemptType, SetSpawned, NoAgentType, AgentEdit
  <2>3. host' = [host EXCEPT ![h] = r] /\ agent' = [agent EXCEPT ![h] = e]
    BY <1>31 DEF Spawned
  <2> HIDE DEF r, e
  <2>4. host' \in [Hosts -> HostState] /\ agent' \in [Hosts -> AgentState]
    BY <1>0, <2>2, <2>3, HostSet, AgentSet
  <2> QED BY <1>0, <2>4, <1>31, RowTypes DEF Spawned, TypeOK
<1>32. ASSUME NEW h \in Hosts, SpawnFails(h) PROVE TypeOK'
  <2>1. host[h].attempt.batch \in SUBSET Messages /\ host[h].attempt.seed \in SUBSET Messages
    BY <1>0, HostFields
  <2>2. [host[h] EXCEPT !.attempt = NoAttempt, !.refused = host[h].attempt.batch] \in HostState
    BY <1>0, <2>1, SetFailed, NoAttemptType
  <2>3. \/ host' = Dropped(h)
        \/ host' = [host EXCEPT ![h] = [host[h] EXCEPT
                                !.attempt = NoAttempt, !.refused = host[h].attempt.batch]]
    BY <1>0, <1>32 DEF SpawnFails
  <2>4. host' \in [Hosts -> HostState]
    BY <1>0, <2>2, <2>3, DroppedType, HostSet
  <2>5. ghost' \in GhostState
    <3>1. ghost' = [ghost EXCEPT !.told = @ \cup (host[h].attempt.batch \cup host[h].attempt.seed)]
      BY <1>32 DEF SpawnFails
    <3>2. host[h].attempt.batch \cup host[h].attempt.seed \in SUBSET Messages
      BY <2>1
    <3> QED BY <1>0, <3>1, <3>2, Told
  <2>6. row' \in Status
    BY <1>0, <1>32, RowTypes DEF SpawnFails
  <2> QED BY <2>4, <2>5, <2>6, <1>0, <1>32, FaultType DEF SpawnFails, TypeOK
<1>33. ASSUME NEW h \in Hosts, AgentOpens(h) PROVE TypeOK'
  <2>1. agent' \in [Hosts -> AgentState]
    BY <1>0, <1>33, AgentEdit, AgentSet DEF AgentOpens
  <2>2. record' \in RecordState
    BY <1>0, <1>33 DEF AgentOpens, RecordState
  <2> QED BY <2>1, <2>2, <1>33 DEF AgentOpens, TypeOK
<1>34. ASSUME NEW h \in Hosts, AgentBegins(h) PROVE TypeOK'
  <2>1. agent' \in [Hosts -> AgentState]
    BY <1>0, <1>34, AgentEdit, AgentSet DEF AgentBegins
  <2>2. ghost' \in GhostState
    BY <1>0, <1>34, AgentFields, Told DEF AgentBegins
  <2> QED BY <2>1, <2>2, <1>34 DEF AgentBegins, TypeOK
<1> QED
  BY <1>1, <1>2, <1>3, <1>4, <1>5, <1>6, <1>7, <1>8, <1>9, <1>10, <1>11, <1>12, <1>13, <1>14, <1>15,
     <1>16, <1>17, <1>18, <1>19, <1>20, <1>21, <1>22, <1>23, <1>24, <1>25, <1>26, <1>27, <1>28,
     <1>29, <1>30, <1>31, <1>32, <1>33, <1>34
  DEF Next, Pass, Attempt, Engine, Faulty

\* The initial states are typed.
LEMMA TypeInit == Init => TypeOK
<1> SUFFICES ASSUME Init PROVE TypeOK
  OBVIOUS
<1>1. [FreshHost EXCEPT !.reconciled = TRUE] \in HostState
  BY FreshHostType DEF HostState
<1>2. msg \in [Messages -> MessageState]
  BY DEF Init, MessageState
<1>3. seen \in [Hosts -> View]
  BY <1>2 DEF Init, View, Status
<1>4. ghost \in GhostState /\ record \in RecordState
  BY DEF Init, GhostState, RecordState
<1> QED BY <1>1, <1>2, <1>3, <1>4, NoAgentType, MaxFaultsAssumption DEF Init, TypeOK, Status

\* The pickup's state keeps its types; a host never counts more than MAX_LAUNCH_ATTEMPTS
\* launches of a row it could not settle.
THEOREM PickupTyped == Spec => []TypeOK
<1> QED BY TypeInit, TypeStep, PTL DEF Spec
-----------------------------------------------------------------------------
\* The invariants.

\* What the housekeeping of a pass leaves of the fields the invariants read.
LEMMA Kept == ASSUME NEW h \in Hosts, host[h] \in HostState
  PROVE /\ Housekept(h) \in HostState
        /\ Housekept(h).attempt = host[h].attempt
        /\ Housekept(h).up = host[h].up
        /\ Housekept(h).jobs = host[h].jobs
        /\ Housekept(h).entry <=> (host[h].entry /\ ~Pruned(h))
        /\ Housekept(h).handed = IF Pruned(h) THEN {} ELSE host[h].handed \ ConsumedIn(h)
        /\ Housekept(h).consuming = host[h].consuming \ ConsumedIn(h)
        /\ Housekept(h).reconciled /\ Housekept(h).says = host[h].says
        /\ Housekept(h).unsettled = IF seen[h].row \in {"queued", "running"} THEN host[h].unsettled ELSE 0
<1>1. Housekept(h) \in HostState
  BY KeptType
<1> QED BY <1>1 DEF Housekept, HostState

\* What a dropped attempt leaves of every host.
LEMMA DroppedReads ==
  ASSUME host \in [Hosts -> HostState], NEW h \in Hosts, NEW g \in Hosts, NEW d,
         d = Dropped(h) \/ d = [Dropped(h) EXCEPT ![h].unsettled = 0]
  PROVE /\ d[g].entry = host[g].entry
        /\ d[g].handed = host[g].handed
        /\ d[g].jobs = host[g].jobs
        /\ d[g].attempt = IF g = h THEN NoAttempt ELSE host[g].attempt
        /\ d[g].reconciled = host[g].reconciled /\ d[g].says = host[g].says
        /\ g # h => d[g] = host[g]
<1>1. Dropped(h) \in [Hosts -> HostState]
  BY DroppedType
<1>2. /\ Dropped(h)[g].entry = host[g].entry
      /\ Dropped(h)[g].handed = host[g].handed
      /\ Dropped(h)[g].jobs = host[g].jobs
      /\ Dropped(h)[g].attempt = IF g = h THEN NoAttempt ELSE host[g].attempt
      /\ Dropped(h)[g].reconciled = host[g].reconciled /\ Dropped(h)[g].says = host[g].says
      /\ g # h => Dropped(h)[g] = host[g]
  BY DEF Dropped, HostState
<1>3. CASE d = Dropped(h)
  BY <1>2, <1>3
<1>4. CASE d = [Dropped(h) EXCEPT ![h].unsettled = 0]
  <2>1. /\ d[g].entry = Dropped(h)[g].entry
        /\ d[g].handed = Dropped(h)[g].handed
        /\ d[g].jobs = Dropped(h)[g].jobs
        /\ d[g].attempt = Dropped(h)[g].attempt
        /\ d[g].reconciled = Dropped(h)[g].reconciled /\ d[g].says = Dropped(h)[g].says
        /\ g # h => d[g] = Dropped(h)[g]
    BY <1>1, <1>4 DEF HostState
  <2> QED BY <1>2, <2>1
<1> QED BY <1>3, <1>4

\* What a reclaim changes of its host: what it has to say, or an attempt where there was none.
LEMMA ReclaimReads ==
  ASSUME TypeOK, NEW h \in Hosts, Reclaim(h)
  PROVE /\ ~host'[h].entry /\ ~Housekept(h).entry
        /\ host'[h].jobs = host[h].jobs /\ host'[h].handed = Housekept(h).handed
        /\ host'[h].unsettled = Housekept(h).unsettled
        /\ host'[h].attempt.seed = host[h].attempt.seed
        /\ \/ host'[h].attempt.step = host[h].attempt.step
           \/ host[h].attempt.step = "none" /\ host'[h].attempt.step = "reclaiming"
        /\ \A g \in Hosts : g # h => host'[g] = host[g]
        /\ UNCHANGED <<row, msg, seen, agent, claim, record, ghost, faults>>
<1>0. host \in [Hosts -> HostState]
  BY DEF TypeOK
<1> DEFINE k == Housekept(h)
<1>1. k \in HostState /\ k.jobs = host[h].jobs /\ k.attempt = host[h].attempt /\ ~k.entry
  BY <1>0, Kept DEF Reclaim, LeftBehind
<1>2. \/ host' = [host EXCEPT ![h] = [k EXCEPT !.says = "unstarted"]]
      \/ host' = [host EXCEPT ![h] = [k EXCEPT !.says = "idle"]]
      \/ /\ host[h].attempt.step = "none"
         /\ host' = [host EXCEPT ![h] = [k EXCEPT !.attempt.step = "reclaiming"]]
  BY DEF Reclaim
<1>3. UNCHANGED <<row, msg, seen, agent, claim, record, ghost, faults>>
  BY DEF Reclaim
<1> HIDE DEF k
<1> SUFFICES /\ ~host'[h].entry
             /\ host'[h].jobs = host[h].jobs /\ host'[h].handed = k.handed
             /\ host'[h].unsettled = k.unsettled
             /\ host'[h].attempt.seed = host[h].attempt.seed
             /\ \/ host'[h].attempt.step = host[h].attempt.step
                \/ host[h].attempt.step = "none" /\ host'[h].attempt.step = "reclaiming"
             /\ \A g \in Hosts : g # h => host'[g] = host[g]
  BY <1>1, <1>3 DEF k
<1>4. CASE \/ host' = [host EXCEPT ![h] = [k EXCEPT !.says = "unstarted"]]
           \/ host' = [host EXCEPT ![h] = [k EXCEPT !.says = "idle"]]
  BY <1>0, <1>1, <1>4 DEF HostState
<1>5. CASE /\ host[h].attempt.step = "none"
           /\ host' = [host EXCEPT ![h] = [k EXCEPT !.attempt.step = "reclaiming"]]
  BY <1>0, <1>1, <1>5 DEF HostState, AttemptState
<1> QED BY <1>2, <1>4, <1>5

\* What an attempt's next step leaves of every host.
LEMMA GoesReads ==
  ASSUME host \in [Hosts -> HostState], NEW h \in Hosts, NEW g \in Hosts, NEW s
  PROVE /\ Goes(h, s)[g].entry = host[g].entry
        /\ Goes(h, s)[g].handed = host[g].handed
        /\ Goes(h, s)[g].jobs = host[g].jobs
        /\ Goes(h, s)[g].attempt.step = IF g = h THEN s ELSE host[g].attempt.step
        /\ Goes(h, s)[g].attempt.seed = host[g].attempt.seed
        /\ Goes(h, s)[g].reconciled = host[g].reconciled /\ Goes(h, s)[g].says = host[g].says
        /\ Goes(h, s)[g].unsettled = host[g].unsettled
        /\ g # h => Goes(h, s)[g] = host[g]
  BY DEF Goes, HostState, AttemptState

\* A launch's or a wake's call leaves every host's entry, handed ids and consumes.
LEMMA AttemptKeeps ==
  ASSUME TypeOK, NEW h \in Hosts, NEW g \in Hosts,
         ClaimRow(h) \/ ClaimUnanswered(h) \/ LaunchFails(h) \/ WakeLock(h) \/ ContinueLock(h)
  PROVE /\ host'[g].entry = host[g].entry
        /\ host'[g].handed = host[g].handed
        /\ host'[g].jobs = host[g].jobs
        /\ UNCHANGED <<agent, seen, record>>
<1>0. host \in [Hosts -> HostState]
  BY DEF TypeOK
<1>1. UNCHANGED <<agent, seen, record>>
  BY DEF ClaimRow, ClaimUnanswered, LaunchFails, WakeLock, ContinueLock
<1>2. \/ host' = Dropped(h) \/ host' = [Dropped(h) EXCEPT ![h].unsettled = 0]
      \/ host' = Goes(h, "briefing") \/ host' = Goes(h, "waking")
  BY DEF ClaimRow, ClaimUnanswered, LaunchFails, WakeLock, ContinueLock
<1>3. CASE host' = Dropped(h) \/ host' = [Dropped(h) EXCEPT ![h].unsettled = 0]
  BY <1>0, <1>1, <1>3, DroppedReads
<1>4. CASE host' = Goes(h, "briefing")
  BY <1>0, <1>1, <1>4, GoesReads
<1>5. CASE host' = Goes(h, "waking")
  BY <1>0, <1>1, <1>5, GoesReads
<1> QED BY <1>2, <1>3, <1>4, <1>5

\* The start of a launch changes its own host only, which has no entry.
LEMMA BeginLaunchReads ==
  ASSUME TypeOK, NEW h \in Hosts, BeginLaunch(h)
  PROVE /\ ~host'[h].entry
        /\ host'[h].jobs = host[h].jobs
        /\ \A g \in Hosts : g # h => host'[g] = host[g]
        /\ UNCHANGED <<row, msg, agent, seen, record, ghost>>
<1>0. host \in [Hosts -> HostState]
  BY DEF TypeOK
<1> DEFINE k == Housekept(h)
           u == IF k.unsettled < MaxAttempts THEN k.unsettled + 1 ELSE k.unsettled
           r == [k EXCEPT !.attempt.step = "claiming", !.unsettled = u]
<1>1. k \in HostState /\ k.jobs = host[h].jobs
  BY <1>0, Kept
<1>2. host' = [host EXCEPT ![h] = r] \/ host' = [host EXCEPT ![h] = k]
  BY DEF BeginLaunch
<1>3. ~k.entry /\ UNCHANGED <<row, msg, agent, seen, record, ghost>>
  BY DEF BeginLaunch, PlansLaunch
<1>4. r.entry = k.entry /\ r.jobs = k.jobs
  BY <1>1 DEF HostState
<1> HIDE DEF u, r, k
<1> QED BY <1>0, <1>1, <1>2, <1>3, <1>4

\* What a failed wake starts to consume, it told.
LEMMA WakeFailsReads ==
  ASSUME TypeOK, NEW h \in Hosts, WakeFails(h), NEW g \in Hosts
  PROVE /\ host'[g].entry = host[g].entry
        /\ host'[g].handed = host[g].handed
        /\ g # h => host'[g].jobs = host[g].jobs
        /\ host'[h].jobs \subseteq host[h].jobs \cup ghost'.told
        /\ ghost.told \subseteq ghost'.told /\ ghost'.heard = ghost.heard /\ ghost'.given = ghost.given
        /\ UNCHANGED <<msg, seen, agent, record>>
<1>0. host \in [Hosts -> HostState] /\ ghost \in GhostState
  BY DEF TypeOK
<1>1. UNCHANGED <<msg, seen, agent, record>>
  BY DEF WakeFails
<1>2. CASE host' = Dropped(h) /\ UNCHANGED <<row, ghost>>
  <2>1. /\ host'[g].entry = host[g].entry /\ host'[g].handed = host[g].handed
        /\ host'[g].jobs = host[g].jobs /\ host'[h].jobs = host[h].jobs
    BY <1>0, <1>2, DroppedReads
  <2> QED BY <2>1, <1>1, <1>2
<1>3. CASE ~(host' = Dropped(h) /\ UNCHANGED <<row, ghost>>)
  <2> DEFINE batch == host[h].attempt.batch
  <2>1. PICK tried \in {{}, IF record.exists THEN {} ELSE batch} :
            host' = [host EXCEPT
                    ![h].attempt = NoAttempt, ![h].refused = batch,
                    ![h].jobs = @ \cup (tried \ host[h].consuming),
                    ![h].consuming = @ \cup tried]
    BY <1>3 DEF WakeFails
  <2>2. ghost' = [ghost EXCEPT !.told = @ \cup batch \cup IF record.exists THEN {} ELSE Request]
    BY <1>3 DEF WakeFails
  <2>3. tried \subseteq batch
    BY <2>1
  <2> HIDE DEF batch
  <2>4. /\ host'[g].entry = host[g].entry /\ host'[g].handed = host[g].handed
        /\ g # h => host'[g].jobs = host[g].jobs
        /\ host'[h].jobs = host[h].jobs \cup (tried \ host[h].consuming)
    BY <1>0, <2>1 DEF HostState
  <2>5. /\ batch \subseteq ghost'.told /\ ghost.told \subseteq ghost'.told
        /\ ghost'.heard = ghost.heard /\ ghost'.given = ghost.given
    BY <1>0, <2>2 DEF GhostState
  <2> QED BY <1>1, <2>3, <2>4, <2>5
<1> QED BY <1>2, <1>3

\* The steps of an attempt that hold the claim lock.
Holding == {"claiming", "briefing", "starting", "waking", "resuming"}

\* Why a session has one engine: an entry and an attempt past its lock hold the claim, a host
\* has one or the other, and an engine that runs without an entry was killed, which a host does
\* for an ended row alone; what a host saw ended is ended.
Owned(h) ==
  /\ seen[h].row = "ended" => row = "ended"
  /\ host[h].entry \/ host[h].attempt.step \in Holding => claim = h
  /\ host[h].attempt.step # "none" => ~host[h].entry
  /\ Running(h) /\ row # "ended" => host[h].entry
OwnerInv == \A h \in Hosts : Owned(h)

\* Every step keeps a host's hold on the session.
LEMMA OwnedStep == TypeOK /\ OwnerInv /\ [Next]_vars => OwnerInv'
<1> SUFFICES ASSUME TypeOK, OwnerInv, [Next]_vars PROVE OwnerInv'
  OBVIOUS
<1>0. /\ row \in Status /\ seen \in [Hosts -> View]
      /\ host \in [Hosts -> HostState] /\ agent \in [Hosts -> AgentState]
  BY DEF TypeOK
<1>a. \A h \in Hosts : Owned(h)
  BY DEF OwnerInv
<1>1. ASSUME NEW m \in Messages, Send(m) PROVE OwnerInv'
  BY <1>1, <1>a DEF Send, OwnerInv, Owned, Running
<1>2. ASSUME NEW m \in Messages, Withdraw(m) PROVE OwnerInv'
  BY <1>2, <1>a DEF Withdraw, OwnerInv, Owned, Running
<1>3. CASE EndSession
  BY <1>3, <1>a, HostsAssumption DEF EndSession, OwnerInv, Owned, Running
<1>4. CASE ClaimGoesStale
  BY <1>4, <1>a, HostsAssumption DEF ClaimGoesStale, OwnerInv, Owned, Running
<1>5. ASSUME NEW h \in Hosts, SyncRow(h) PROVE OwnerInv'
  <2> SUFFICES ASSUME NEW g \in Hosts PROVE Owned(g)'
    BY DEF OwnerInv
  <2> QED BY <1>0, <1>5, <1>a, HostsAssumption DEF SyncRow, Owned, Running, Holding, HostState, AgentState, AttemptState, View, Status
<1>6. ASSUME NEW h \in Hosts, SyncMessages(h) PROVE OwnerInv'
  <2> SUFFICES ASSUME NEW g \in Hosts PROVE Owned(g)'
    BY DEF OwnerInv
  <2> QED BY <1>0, <1>6, <1>a, HostsAssumption DEF SyncMessages, Owned, Running, Holding, HostState, AgentState, AttemptState, View, Status
<1>7. ASSUME NEW h \in Hosts, Reclaim(h) PROVE OwnerInv'
  <2> SUFFICES ASSUME NEW g \in Hosts PROVE Owned(g)'
    BY DEF OwnerInv
  <2>1. Housekept(h).entry <=> (host[h].entry /\ ~Pruned(h))
    BY <1>0, Kept
  <2>2. /\ ~host'[h].entry /\ ~Housekept(h).entry /\ UNCHANGED <<row, seen, agent, claim>>
        /\ \/ host'[h].attempt.step = host[h].attempt.step
           \/ host[h].attempt.step = "none" /\ host'[h].attempt.step = "reclaiming"
        /\ \A f \in Hosts : f # h => host'[f] = host[f]
    BY <1>7, ReclaimReads
  <2> QED BY <2>1, <2>2, <1>a DEF Pruned, Owned, Running, Holding
<1>8. ASSUME NEW h \in Hosts, Quiet(h) PROVE OwnerInv'
  <2> SUFFICES ASSUME NEW g \in Hosts PROVE Owned(g)'
    BY DEF OwnerInv
  <2>1. /\ Housekept(h) \in HostState
        /\ Housekept(h).attempt = host[h].attempt
        /\ Housekept(h).entry <=> (host[h].entry /\ ~Pruned(h))
    BY <1>0, Kept
  <2> QED BY <2>1, <1>0, <1>8, <1>a, HostsAssumption DEF Quiet, ClaimAfterPrune, Pruned, Owned, Running, Holding, HostState, AgentState, AttemptState, View, Status
<1>9. ASSUME NEW h \in Hosts, BeginLaunch(h) PROVE OwnerInv'
  <2> SUFFICES ASSUME NEW g \in Hosts PROVE Owned(g)'
    BY DEF OwnerInv
  <2>1. /\ Housekept(h) \in HostState
        /\ Housekept(h).attempt = host[h].attempt
        /\ Housekept(h).entry <=> (host[h].entry /\ ~Pruned(h))
    BY <1>0, Kept
  <2> DEFINE k == Housekept(h)
             u == IF k.unsettled < MaxAttempts THEN k.unsettled + 1 ELSE k.unsettled
             r == [k EXCEPT !.attempt.step = "claiming", !.unsettled = u]
  <2>2. \/ host' = [host EXCEPT ![h] = r] /\ claim' = h /\ ClaimAfterPrune(h) = "free"
        \/ host' = [host EXCEPT ![h] = k] /\ claim' = claim /\ ClaimAfterPrune(h) # "free"
    BY <1>9 DEF BeginLaunch
  <2>3. ~k.entry /\ host[h].attempt.step = "none" /\ UNCHANGED <<row, seen, agent>>
    BY <1>9 DEF BeginLaunch, PlansLaunch
  <2>4. ~r.entry /\ r.attempt.step = "claiming"
    BY <2>1, <2>3 DEF HostState, AttemptState
  <2>5. k.attempt.step = "none"
    BY <2>1, <2>3
  <2> HIDE DEF u, r
  <2>6. ~host'[h].entry /\ (host'[h].attempt.step \in Holding => claim' = h)
    BY <2>2, <2>3, <2>4, <2>5, <1>0 DEF Holding
  <2>7. g # h => host'[g] = host[g]
    BY <2>2, <1>0
  <2>8. claim' # claim => claim' = h /\ (claim = "free" \/ host[h].entry)
    BY <2>2 DEF ClaimAfterPrune, Pruned
  <2>9. Running(h) => (host[h].entry => Housekept(h).entry)
    BY <2>1 DEF Running, Pruned
  <2> QED BY <2>1, <2>3, <2>6, <2>7, <2>8, <2>9, <1>a, HostsAssumption DEF Owned, Running, Holding
<1>10. ASSUME NEW h \in Hosts, BeginWake(h) PROVE OwnerInv'
  <2> SUFFICES ASSUME NEW g \in Hosts PROVE Owned(g)'
    BY DEF OwnerInv
  <2>1. /\ Housekept(h) \in HostState
        /\ Housekept(h).attempt = host[h].attempt
        /\ Housekept(h).entry <=> (host[h].entry /\ ~Pruned(h))
    BY <1>0, Kept
  <2> QED BY <2>1, <1>0, <1>10, <1>a, HostsAssumption DEF BeginWake, ClaimAfterPrune, PlansResume, Pruned, NoAttempt, Owned, Running, Holding, HostState, AgentState, AttemptState, View, Status
<1>11. ASSUME NEW h \in Hosts, Kill(h) PROVE OwnerInv'
  <2> SUFFICES ASSUME NEW g \in Hosts PROVE Owned(g)'
    BY DEF OwnerInv
  <2>1. /\ Housekept(h) \in HostState
        /\ Housekept(h).attempt = host[h].attempt
        /\ Housekept(h).entry <=> (host[h].entry /\ ~Pruned(h))
    BY <1>0, Kept
  <2> QED BY <2>1, <1>0, <1>11, <1>a, HostsAssumption DEF Kill, PlansKill, Pruned, Owned, Running, Holding, HostState, AgentState, AttemptState, View, Status
<1>12. ASSUME NEW h \in Hosts, Feed(h) PROVE OwnerInv'
  <2> SUFFICES ASSUME NEW g \in Hosts PROVE Owned(g)'
    BY DEF OwnerInv
  <2>1. /\ Housekept(h) \in HostState
        /\ Housekept(h).attempt = host[h].attempt
        /\ Housekept(h).entry <=> (host[h].entry /\ ~Pruned(h))
    BY <1>0, Kept
  <2> QED BY <2>1, <1>0, <1>12, <1>a, HostsAssumption DEF Feed, PlansFeed, Pruned, Owned, Running, Holding, HostState, AgentState, AttemptState, View, Status
<1>13. ASSUME NEW h \in Hosts, ClaimRow(h) PROVE OwnerInv'
  <2> SUFFICES ASSUME NEW g \in Hosts PROVE Owned(g)'
    BY DEF OwnerInv
  <2>0. \/ host' = Goes(h, "briefing") /\ claim' = claim
        \/ host' = [Dropped(h) EXCEPT ![h].unsettled = 0]
    BY <1>13 DEF ClaimRow
  <2>1. /\ host'[g].entry = host[g].entry
        /\ g # h => host'[g].attempt.step = host[g].attempt.step
        /\ host'[h].attempt.step \in {"none", "briefing"}
        /\ host'[h].attempt.step # "none" => claim' = h
    <3>1. host[h].attempt.step = "claiming" /\ claim = h
      BY <1>13, <1>a DEF ClaimRow, At, Owned, Holding
    <3>2. CASE host' = Dropped(h)
      BY <3>1, <3>2, <1>0, DroppedReads DEF NoAttempt
    <3>3. CASE host' = [Dropped(h) EXCEPT ![h].unsettled = 0]
      BY <3>1, <3>3, <1>0, DroppedReads DEF NoAttempt
    <3>4. CASE host' = Goes(h, "briefing") /\ claim' = claim
      BY <3>1, <3>4, <1>0, GoesReads
    <3> QED BY <2>0, <3>2, <3>3, <3>4
  <2>2. /\ claim' # claim => /\ claim' \in {"free", h}
                             /\ claim = "free" \/ host[h].attempt.step \in Holding
        /\ row = "ended" => row' = "ended"
        /\ row' = "ended" \/ row' = row \/ row # "ended"
        /\ UNCHANGED <<seen, agent>>
    BY <1>13 DEF ClaimRow, At, ClaimLands, Holding
  <2>3. host[h].attempt.step # "none"
    BY <1>13 DEF ClaimRow, At, ClaimLands
  <2> QED BY <2>1, <2>2, <2>3, <1>0, <1>a, HostsAssumption DEF Owned, Running, Holding
<1>14. ASSUME NEW h \in Hosts, ClaimUnanswered(h) PROVE OwnerInv'
  <2> SUFFICES ASSUME NEW g \in Hosts PROVE Owned(g)'
    BY DEF OwnerInv
  <2> QED BY <1>0, <1>14, <1>a, HostsAssumption DEF ClaimUnanswered, At, Dropped, ClaimLands, NoAttempt, Owned, Running, Holding, HostState, AgentState, AttemptState, View, Status
<1>15. ASSUME NEW h \in Hosts, LaunchPrepared(h) PROVE OwnerInv'
  <2> SUFFICES ASSUME NEW g \in Hosts PROVE Owned(g)'
    BY DEF OwnerInv
  <2> QED BY <1>0, <1>15, <1>a DEF LaunchPrepared, At, Owned, Running, Holding, HostState, AgentState, AttemptState, View, Status
<1>16. ASSUME NEW h \in Hosts, LaunchFails(h) PROVE OwnerInv'
  <2> SUFFICES ASSUME NEW g \in Hosts PROVE Owned(g)'
    BY DEF OwnerInv
  <2>0. host' = Dropped(h) \/ host' = [Dropped(h) EXCEPT ![h].unsettled = 0]
    BY <1>16 DEF LaunchFails
  <2>1. /\ host'[g].entry = host[g].entry
        /\ g # h => host'[g].attempt.step = host[g].attempt.step
        /\ host'[h].attempt.step \in {"none", "briefing"}
        /\ host'[h].attempt.step # "none" => claim' = h
    <3>1. host[h].attempt.step = "briefing" /\ claim = h
      BY <1>16, <1>a DEF LaunchFails, At, Owned, Holding
    <3>2. CASE host' = Dropped(h)
      BY <3>1, <3>2, <1>0, DroppedReads DEF NoAttempt
    <3>3. CASE host' = [Dropped(h) EXCEPT ![h].unsettled = 0]
      BY <3>1, <3>3, <1>0, DroppedReads DEF NoAttempt
    <3>4. CASE host' = Goes(h, "briefing") /\ claim' = claim
      BY <3>1, <3>4, <1>0, GoesReads
    <3> QED BY <2>0, <3>2, <3>3, <3>4
  <2>2. /\ claim' # claim => /\ claim' \in {"free", h}
                             /\ claim = "free" \/ host[h].attempt.step \in Holding
        /\ row = "ended" => row' = "ended"
        /\ row' = "ended" \/ row' = row \/ row # "ended"
        /\ UNCHANGED <<seen, agent>>
    BY <1>16 DEF LaunchFails, At, Reported, EndStatus, Holding
  <2>3. host[h].attempt.step # "none"
    BY <1>16 DEF LaunchFails, At, Reported, EndStatus
  <2> QED BY <2>1, <2>2, <2>3, <1>0, <1>a, HostsAssumption DEF Owned, Running, Holding
<1>17. ASSUME NEW h \in Hosts, WakeLock(h) PROVE OwnerInv'
  <2> SUFFICES ASSUME NEW g \in Hosts PROVE Owned(g)'
    BY DEF OwnerInv
  <2>1. /\ host'[g].entry = host[g].entry
        /\ g # h => host'[g].attempt.step = host[g].attempt.step
        /\ host'[h].attempt.step \in {"none", "briefing", "waking"}
        /\ host'[h].attempt.step # "none" => claim' = h
    BY <1>0, <1>17, <1>a, DroppedReads, GoesReads DEF WakeLock, At, NoAttempt, Holding, Owned
  <2>2. /\ claim' # claim => /\ claim' \in {"free", h}
                             /\ claim = "free" \/ host[h].attempt.step \in Holding
        /\ row = "ended" => row' = "ended"
        /\ row' = "ended" \/ row' = row \/ row # "ended"
        /\ UNCHANGED <<seen, agent>>
    BY <1>17 DEF WakeLock, At, Holding
  <2>3. host[h].attempt.step # "none"
    BY <1>17 DEF WakeLock, At
  <2> QED BY <2>1, <2>2, <2>3, <1>0, <1>a, HostsAssumption DEF Owned, Running, Holding
<1>18. ASSUME NEW h \in Hosts, WakePrepared(h) PROVE OwnerInv'
  <2> SUFFICES ASSUME NEW g \in Hosts PROVE Owned(g)'
    BY DEF OwnerInv
  <2> QED BY <1>0, <1>18, <1>a DEF WakePrepared, At, Owned, Running, Holding, HostState, AgentState, AttemptState, View, Status
<1>19. ASSUME NEW h \in Hosts, WakeFails(h) PROVE OwnerInv'
  <2> SUFFICES ASSUME NEW g \in Hosts PROVE Owned(g)'
    BY DEF OwnerInv
  <2>1. /\ host'[g].entry = host[g].entry
        /\ g # h => host'[g].attempt.step = host[g].attempt.step
        /\ host'[h].attempt.step \in {"none", "briefing", "waking"}
        /\ host'[h].attempt.step # "none" => claim' = h
    BY <1>0, <1>19, <1>a, DroppedReads, GoesReads DEF WakeFails, At, Reported, NoAttempt, Holding, Owned, HostState, AttemptState
  <2>2. /\ claim' # claim => /\ claim' \in {"free", h}
                             /\ claim = "free" \/ host[h].attempt.step \in Holding
        /\ row = "ended" => row' = "ended"
        /\ row' = "ended" \/ row' = row \/ row # "ended"
        /\ UNCHANGED <<seen, agent>>
    BY <1>19 DEF WakeFails, At, Reported, Holding
  <2>3. host[h].attempt.step # "none"
    BY <1>19 DEF WakeFails, At, Reported
  <2> QED BY <2>1, <2>2, <2>3, <1>0, <1>a, HostsAssumption DEF Owned, Running, Holding
<1>20. ASSUME NEW h \in Hosts, ConsumeLands(h) PROVE OwnerInv'
  <2> SUFFICES ASSUME NEW g \in Hosts PROVE Owned(g)'
    BY DEF OwnerInv
  <2> QED BY <1>0, <1>20, <1>a, HostsAssumption DEF ConsumeLands, Owned, Running, Holding, HostState, AgentState, AttemptState, View, Status
<1>21. ASSUME NEW h \in Hosts, ConsumeGivesUp(h) PROVE OwnerInv'
  <2> SUFFICES ASSUME NEW g \in Hosts PROVE Owned(g)'
    BY DEF OwnerInv
  <2> QED BY <1>0, <1>21, <1>a, HostsAssumption DEF ConsumeGivesUp, Owned, Running, Holding, HostState, AgentState, AttemptState, View, Status
<1>22. ASSUME NEW h \in Hosts, AgentReads(h) PROVE OwnerInv'
  <2> SUFFICES ASSUME NEW g \in Hosts PROVE Owned(g)'
    BY DEF OwnerInv
  <2> QED BY <1>0, <1>22, <1>a, HostsAssumption DEF AgentReads, Owned, Running, Holding, HostState, AgentState, AttemptState, View, Status
<1>23. ASSUME NEW h \in Hosts, AgentConsumes(h) PROVE OwnerInv'
  <2> SUFFICES ASSUME NEW g \in Hosts PROVE Owned(g)'
    BY DEF OwnerInv
  <2> QED BY <1>0, <1>23, <1>a, HostsAssumption DEF AgentConsumes, Owned, Running, Holding, HostState, AgentState, AttemptState, View, Status
<1>24. ASSUME NEW h \in Hosts, AgentStops(h) PROVE OwnerInv'
  <2> SUFFICES ASSUME NEW g \in Hosts PROVE Owned(g)'
    BY DEF OwnerInv
  <2> QED BY <1>0, <1>24, <1>a, HostsAssumption DEF AgentStops, Owned, Running, Holding, HostState, AgentState, AttemptState, View, Status
<1>25. ASSUME NEW h \in Hosts, AgentEnds(h) PROVE OwnerInv'
  <2> SUFFICES ASSUME NEW g \in Hosts PROVE Owned(g)'
    BY DEF OwnerInv
  <2> QED BY <1>0, <1>25, <1>a, HostsAssumption DEF AgentEnds, EndSaid, NoAgent, Reported, EndStatus, Owned, Running, Holding, HostState, AgentState, AttemptState, View, Status
<1>26. ASSUME NEW h \in Hosts, Crash(h) PROVE OwnerInv'
  <2> SUFFICES ASSUME NEW g \in Hosts PROVE Owned(g)'
    BY DEF OwnerInv
  <2> QED BY <1>0, <1>26, <1>a, HostsAssumption DEF Crash, FreshHost, NoAttempt, NoAgent, Fault, Owned, Running, Holding, HostState, AgentState, AttemptState, View, Status
<1>27. ASSUME NEW h \in Hosts, Restart(h) PROVE OwnerInv'
  <2> SUFFICES ASSUME NEW g \in Hosts PROVE Owned(g)'
    BY DEF OwnerInv
  <2> QED BY <1>0, <1>27, <1>a, HostsAssumption DEF Restart, Owned, Running, Holding, HostState, AgentState, AttemptState, View, Status
<1>28. CASE UNCHANGED vars
  BY <1>28, <1>a DEF vars, OwnerInv, Owned, Running
<1>29. ASSUME NEW h \in Hosts, Says(h) PROVE OwnerInv'
  <2> SUFFICES ASSUME NEW g \in Hosts PROVE Owned(g)'
    BY DEF OwnerInv
  <2> QED BY <1>0, <1>29, <1>a DEF Says, Reported, Owned, Running, Holding, HostState, AgentState, AttemptState, View, Status
<1>30. ASSUME NEW h \in Hosts, ContinueLock(h) PROVE OwnerInv'
  <2> SUFFICES ASSUME NEW g \in Hosts PROVE Owned(g)'
    BY DEF OwnerInv
  <2>1. /\ host'[g].entry = host[g].entry
        /\ g # h => host'[g].attempt.step = host[g].attempt.step
        /\ host'[h].attempt.step \in {"none", "waking"}
        /\ host'[h].attempt.step # "none" => claim' = h
    BY <1>0, <1>30, DroppedReads, GoesReads DEF ContinueLock, At, NoAttempt
  <2>2. /\ claim' # claim => claim' = h /\ claim = "free"
        /\ row = "ended" <=> row' = "ended"
        /\ UNCHANGED <<seen, agent>>
    BY <1>0, <1>30 DEF ContinueLock, Reported, Status
  <2>3. host[h].attempt.step # "none"
    BY <1>30 DEF ContinueLock, At
  <2> QED BY <2>1, <2>2, <2>3, <1>a, HostsAssumption DEF Owned, Running, Holding
<1>31. ASSUME NEW h \in Hosts, Spawned(h) PROVE OwnerInv'
  <2> SUFFICES ASSUME NEW g \in Hosts PROVE Owned(g)'
    BY DEF OwnerInv
  <2>1. /\ host'[h].entry /\ host'[h].attempt.step = "none" /\ claim' = claim /\ seen' = seen
        /\ g # h => host'[g] = host[g] /\ agent'[g] = agent[g]
        /\ row = "ended" <=> row' = "ended"
    BY <1>0, <1>31 DEF Spawned, NoAttempt, Reported, HostState, AttemptState, Status
  <2>2. host[h].attempt.step \in Holding
    BY <1>31 DEF Spawned, At, Holding
  <2> QED BY <2>1, <2>2, <1>a DEF Owned, Running, Holding
<1>32. ASSUME NEW h \in Hosts, SpawnFails(h) PROVE OwnerInv'
  <2> SUFFICES ASSUME NEW g \in Hosts PROVE Owned(g)'
    BY DEF OwnerInv
  <2>1. /\ host'[g].entry = host[g].entry
        /\ g # h => host'[g].attempt.step = host[g].attempt.step
        /\ host'[h].attempt.step = "none"
    BY <1>0, <1>32, DroppedReads DEF SpawnFails, NoAttempt, HostState, AttemptState
  <2>2. /\ claim' = "free" /\ (row = "ended" => row' = "ended") /\ UNCHANGED <<seen, agent>>
        /\ row' # "ended" => row # "ended"
    BY <1>32 DEF SpawnFails, Reported
  <2>3. host[h].attempt.step \in Holding
    BY <1>32 DEF SpawnFails, At, Holding
  <2> QED BY <2>1, <2>2, <2>3, <1>a, HostsAssumption DEF Owned, Running, Holding
<1>33. ASSUME NEW h \in Hosts, AgentOpens(h) \/ AgentBegins(h) PROVE OwnerInv'
  <2> SUFFICES ASSUME NEW g \in Hosts PROVE Owned(g)'
    BY DEF OwnerInv
  <2>1. UNCHANGED <<row, seen, host, claim>> /\ (Running(g)' <=> Running(g))
    BY <1>0, <1>33 DEF AgentOpens, AgentBegins, Running, AgentState
  <2> QED BY <2>1, <1>a DEF Owned
<1> QED
  BY <1>1, <1>2, <1>3, <1>4, <1>5, <1>6, <1>7, <1>8, <1>9, <1>10, <1>11, <1>12, <1>13, <1>14, <1>15,
     <1>16, <1>17, <1>18, <1>19, <1>20, <1>21, <1>22, <1>23, <1>24, <1>25, <1>26, <1>27, <1>28,
     <1>29, <1>30, <1>31, <1>32, <1>33 DEF Next, Pass, Attempt, Engine, Faulty

\* Consuming changes pending messages only, and only the ones it is given.
LEMMA ConsumedForward == ASSUME NEW ms, NEW m \in Messages
  PROVE /\ Consumed(ms)[m] # msg[m] => msg[m] = "pending" /\ Consumed(ms)[m] = "consumed" /\ m \in ms
  BY DEF Consumed

\* The states no message leaves.
Gone == {"consumed", "withdrawn"}

\* What is consumed or withdrawn stays so.
LEMMA GoneStays == ASSUME TypeOK, [Next]_vars, NEW m \in Messages, msg[m] \in Gone PROVE msg'[m] = msg[m]
<1>0. msg \in [Messages -> MessageState]
  BY DEF TypeOK
<1>1. ASSUME NEW n \in Messages, Send(n) \/ Withdraw(n) PROVE msg'[m] = msg[m]
  BY <1>0, <1>1 DEF Send, Withdraw, Gone
<1>2. ASSUME NEW ms, msg' = Consumed(ms) PROVE msg'[m] = msg[m]
  BY <1>2, ConsumedForward DEF Gone
<1>3. ASSUME NEW h \in Hosts, Pass(h) PROVE msg'[m] = msg[m]
  BY <1>3 DEF Pass, Reclaim, Quiet, BeginLaunch, BeginWake, Kill, Feed
<1>4. ASSUME NEW h \in Hosts, Attempt(h) PROVE msg'[m] = msg[m]
  BY <1>4, <1>2 DEF Attempt, ClaimRow, ClaimLands, LaunchPrepared, WakeLock, ContinueLock, WakePrepared, Spawned
<1>5. ASSUME NEW h \in Hosts, Engine(h) PROVE msg'[m] = msg[m]
  BY <1>5, <1>2 DEF Engine, AgentOpens, AgentBegins, AgentReads, AgentConsumes, AgentEnds
<1>6. ASSUME NEW h \in Hosts, Faulty(h) PROVE msg'[m] = msg[m]
  BY <1>6, <1>2 DEF Faulty, ClaimUnanswered, ClaimLands, LaunchFails, WakeFails, SpawnFails, ConsumeGivesUp, AgentStops, Crash
<1>7. ASSUME NEW h \in Hosts, SyncRow(h) \/ SyncMessages(h) \/ Says(h) \/ ConsumeLands(h) \/ Restart(h) PROVE msg'[m] = msg[m]
  BY <1>7, <1>2 DEF SyncRow, SyncMessages, Says, ConsumeLands, Restart
<1>8. CASE EndSession \/ ClaimGoesStale \/ UNCHANGED vars
  BY <1>8 DEF EndSession, ClaimGoesStale, vars
<1> QED BY <1>1, <1>3, <1>4, <1>5, <1>6, <1>7, <1>8 DEF Next

\* Why nothing is fed twice: what an engine was fed is among the handed ids, or its host saw it
\* consumed or withdrawn, and what a host saw so is so for good.
Settled(h) ==
  /\ \A m \in Messages : seen[h].msg[m] \in Gone => msg[m] = seen[h].msg[m]
  /\ host[h].entry =>
       \A m \in agent[h].fed : m \in host[h].handed \/ seen[h].msg[m] \in Gone
  /\ agent[h].twice = {}
FedInv == \A h \in Hosts : Settled(h)

\* Every step keeps what an engine was fed accounted for.
LEMMA FedStep == TypeOK /\ FedInv /\ [Next]_vars => FedInv'
<1> SUFFICES ASSUME TypeOK, FedInv, [Next]_vars PROVE FedInv'
  OBVIOUS
<1>0. /\ msg \in [Messages -> MessageState] /\ seen \in [Hosts -> View]
      /\ host \in [Hosts -> HostState] /\ agent \in [Hosts -> AgentState]
  BY DEF TypeOK
<1>a. \A h \in Hosts : Settled(h)
  BY DEF FedInv
<1>b. \A m \in Messages : msg[m] \in Gone => msg'[m] = msg[m]
  BY GoneStays
<1>c. ASSUME UNCHANGED <<seen, host, agent>> PROVE FedInv'
  BY <1>a, <1>b, <1>c DEF FedInv, Settled
<1>1. ASSUME NEW m \in Messages, Send(m) \/ Withdraw(m) PROVE FedInv'
  BY <1>1, <1>c DEF Send, Withdraw
<1>2. CASE EndSession \/ ClaimGoesStale \/ UNCHANGED vars
  BY <1>2, <1>c DEF EndSession, ClaimGoesStale, vars
<1>3. ASSUME NEW h \in Hosts, SyncRow(h) PROVE FedInv'
  <2> SUFFICES ASSUME NEW g \in Hosts PROVE Settled(g)'
    BY DEF FedInv
  <2> QED BY <1>0, <1>3, <1>a, <1>b DEF SyncRow, Settled, Gone, HostState, AgentState, View
<1>4. ASSUME NEW h \in Hosts, SyncMessages(h) PROVE FedInv'
  <2> SUFFICES ASSUME NEW g \in Hosts PROVE Settled(g)'
    BY DEF FedInv
  <2> QED BY <1>0, <1>4, <1>a, <1>b DEF SyncMessages, Settled, Gone, HostState, AgentState, View
<1>5. ASSUME NEW h \in Hosts, Reclaim(h) PROVE FedInv'
  <2> SUFFICES ASSUME NEW g \in Hosts PROVE Settled(g)'
    BY DEF FedInv
  <2>1. ~host'[h].entry /\ (g # h => host'[g] = host[g]) /\ UNCHANGED <<agent, seen>>
    BY <1>5, ReclaimReads
  <2> QED BY <2>1, <1>a, <1>b DEF Settled
<1>6. ASSUME NEW h \in Hosts, Quiet(h) PROVE FedInv'
  <2> SUFFICES ASSUME NEW g \in Hosts PROVE Settled(g)'
    BY DEF FedInv
  <2>1. /\ Housekept(h) \in HostState
        /\ Housekept(h).entry <=> (host[h].entry /\ ~Pruned(h))
        /\ Housekept(h).handed = IF Pruned(h) THEN {} ELSE host[h].handed \ ConsumedIn(h)
    BY <1>0, Kept
  <2> QED BY <2>1, <1>0, <1>6, <1>a, <1>b DEF Quiet, ConsumedIn, Settled, Gone, HostState, AgentState, View
<1>7. ASSUME NEW h \in Hosts, BeginLaunch(h) PROVE FedInv'
  <2> SUFFICES ASSUME NEW g \in Hosts PROVE Settled(g)'
    BY DEF FedInv
  <2>1. ~host'[h].entry /\ (g # h => host'[g] = host[g]) /\ UNCHANGED <<agent, seen>>
    BY <1>7, BeginLaunchReads
  <2> QED BY <2>1, <1>a, <1>b DEF Settled
<1>8. ASSUME NEW h \in Hosts, BeginWake(h) PROVE FedInv'
  <2> SUFFICES ASSUME NEW g \in Hosts PROVE Settled(g)'
    BY DEF FedInv
  <2>1. /\ Housekept(h) \in HostState
        /\ Housekept(h).entry <=> (host[h].entry /\ ~Pruned(h))
        /\ Housekept(h).handed = IF Pruned(h) THEN {} ELSE host[h].handed \ ConsumedIn(h)
    BY <1>0, Kept
  <2> QED BY <2>1, <1>0, <1>8, <1>a, <1>b DEF BeginWake, ConsumedIn, PlansResume, Settled, Gone, HostState, AgentState, View
<1>9. ASSUME NEW h \in Hosts, Kill(h) PROVE FedInv'
  <2> SUFFICES ASSUME NEW g \in Hosts PROVE Settled(g)'
    BY DEF FedInv
  <2>1. /\ Housekept(h) \in HostState
        /\ Housekept(h).entry <=> (host[h].entry /\ ~Pruned(h))
        /\ Housekept(h).handed = IF Pruned(h) THEN {} ELSE host[h].handed \ ConsumedIn(h)
    BY <1>0, Kept
  <2> QED BY <2>1, <1>0, <1>9, <1>a, <1>b DEF Kill, Settled, Gone, HostState, AgentState, View
<1>10. ASSUME NEW h \in Hosts, Feed(h) PROVE FedInv'
  <2> SUFFICES ASSUME NEW g \in Hosts PROVE Settled(g)'
    BY DEF FedInv
  <2> DEFINE ha == (Housekept(h).handed \ Revoked(h)) \cup FreshFor(h)
             f == agent[h].fed \cup FreshFor(h)
             t == agent[h].twice \cup (FreshFor(h) \cap agent[h].fed)
  <2>1. /\ Housekept(h) \in HostState
        /\ Housekept(h).entry <=> (host[h].entry /\ ~Pruned(h))
        /\ Housekept(h).handed = IF Pruned(h) THEN {} ELSE host[h].handed \ ConsumedIn(h)
    BY <1>0, Kept
  <2>2. host[h].entry /\ ~Pruned(h)
    BY <1>10, <2>1 DEF Feed, PlansFeed
  <2>3. /\ host' = [host EXCEPT ![h] = [Housekept(h) EXCEPT !.handed = ha]]
        /\ UNCHANGED <<msg, seen>>
    BY <1>10 DEF Feed
  <2>4. agent'[h].fed = f /\ agent'[h].twice = t
    BY <1>10, <1>0 DEF Feed, AgentState
  <2>5. g # h => agent'[g] = agent[g] /\ host'[g] = host[g]
    BY <1>10, <1>0 DEF Feed
  <2>6. host'[h].handed = ha
    BY <2>1, <2>3, <1>0 DEF HostState
  <2>7. ASSUME NEW m \in agent[h].fed PROVE m \in ha \/ seen[h].msg[m] \in Gone
    <3>1. m \in Messages
      BY <1>0, AgentFields
    <3>2. m \in host[h].handed \/ seen[h].msg[m] \in Gone
      BY <2>2, <2>7, <1>a DEF Settled
    <3> QED BY <2>1, <2>2, <3>1, <3>2 DEF ConsumedIn, Revoked, Gone
  <2>8. FreshFor(h) \cap agent[h].fed = {}
    <3> SUFFICES ASSUME NEW m \in FreshFor(h), m \in agent[h].fed PROVE FALSE
      OBVIOUS
    <3>1. m \in Messages /\ seen[h].msg[m] = "pending" /\ m \notin Housekept(h).handed
      BY DEF FreshFor, PendingIn
    <3>2. m \in host[h].handed \/ seen[h].msg[m] \in Gone
      BY <2>2, <1>a DEF Settled
    <3> QED BY <2>1, <2>2, <3>1, <3>2 DEF ConsumedIn, Gone
  <2>9. CASE g # h
    BY <2>9, <2>3, <2>5, <1>a DEF Settled
  <2>10. CASE g = h
    <3>1. \A m \in f : m \in ha \/ seen[h].msg[m] \in Gone
      BY <2>7
    <3>2. t = {}
      BY <2>8, <1>a DEF Settled
    <3> HIDE DEF f, t, ha
    <3> QED BY <2>10, <2>3, <2>4, <2>6, <3>1, <3>2, <1>a DEF Settled
  <2> QED BY <2>9, <2>10
<1>11. ASSUME NEW h \in Hosts, ClaimRow(h) PROVE FedInv'
  <2> SUFFICES ASSUME NEW g \in Hosts PROVE Settled(g)'
    BY DEF FedInv
  <2> QED BY <1>11, <1>a, <1>b, AttemptKeeps DEF Settled
<1>12. ASSUME NEW h \in Hosts, ClaimUnanswered(h) PROVE FedInv'
  <2> SUFFICES ASSUME NEW g \in Hosts PROVE Settled(g)'
    BY DEF FedInv
  <2> QED BY <1>12, <1>a, <1>b, AttemptKeeps DEF Settled
<1>13. ASSUME NEW h \in Hosts, LaunchPrepared(h) PROVE FedInv'
  <2> SUFFICES ASSUME NEW g \in Hosts PROVE Settled(g)'
    BY DEF FedInv
  <2> QED BY <1>0, <1>13, <1>a, <1>b DEF LaunchPrepared, Settled, Gone, HostState, AgentState, View
<1>14. ASSUME NEW h \in Hosts, LaunchFails(h) PROVE FedInv'
  <2> SUFFICES ASSUME NEW g \in Hosts PROVE Settled(g)'
    BY DEF FedInv
  <2> QED BY <1>14, <1>a, <1>b, AttemptKeeps DEF Settled
<1>15. ASSUME NEW h \in Hosts, WakeLock(h) PROVE FedInv'
  <2> SUFFICES ASSUME NEW g \in Hosts PROVE Settled(g)'
    BY DEF FedInv
  <2> QED BY <1>15, <1>a, <1>b, AttemptKeeps DEF Settled
<1>16. ASSUME NEW h \in Hosts, WakePrepared(h) PROVE FedInv'
  <2> SUFFICES ASSUME NEW g \in Hosts PROVE Settled(g)'
    BY DEF FedInv
  <2> QED BY <1>0, <1>16, <1>a, <1>b DEF WakePrepared, Settled, Gone, HostState, AgentState, View
<1>17. ASSUME NEW h \in Hosts, WakeFails(h) PROVE FedInv'
  <2> SUFFICES ASSUME NEW g \in Hosts PROVE Settled(g)'
    BY DEF FedInv
  <2> QED BY <1>17, <1>a, <1>b, WakeFailsReads DEF Settled
<1>18. ASSUME NEW h \in Hosts, ConsumeLands(h) PROVE FedInv'
  <2> SUFFICES ASSUME NEW g \in Hosts PROVE Settled(g)'
    BY DEF FedInv
  <2> QED BY <1>0, <1>18, <1>a, <1>b DEF ConsumeLands, Settled, Gone, HostState, AgentState, View
<1>19. ASSUME NEW h \in Hosts, ConsumeGivesUp(h) PROVE FedInv'
  <2> SUFFICES ASSUME NEW g \in Hosts PROVE Settled(g)'
    BY DEF FedInv
  <2> QED BY <1>0, <1>19, <1>a, <1>b DEF ConsumeGivesUp, Settled, Gone, HostState, AgentState, View
<1>20. ASSUME NEW h \in Hosts, AgentReads(h) PROVE FedInv'
  <2> SUFFICES ASSUME NEW g \in Hosts PROVE Settled(g)'
    BY DEF FedInv
  <2> QED BY <1>0, <1>20, <1>a, <1>b DEF AgentReads, Settled, Gone, HostState, AgentState, View
<1>21. ASSUME NEW h \in Hosts, AgentConsumes(h) PROVE FedInv'
  <2> SUFFICES ASSUME NEW g \in Hosts PROVE Settled(g)'
    BY DEF FedInv
  <2> QED BY <1>0, <1>21, <1>a, <1>b DEF AgentConsumes, Settled, Gone, HostState, AgentState, View
<1>22. ASSUME NEW h \in Hosts, AgentStops(h) PROVE FedInv'
  <2> SUFFICES ASSUME NEW g \in Hosts PROVE Settled(g)'
    BY DEF FedInv
  <2> QED BY <1>0, <1>22, <1>a, <1>b DEF AgentStops, Settled, Gone, HostState, AgentState, View
<1>23. ASSUME NEW h \in Hosts, AgentEnds(h) PROVE FedInv'
  <2> SUFFICES ASSUME NEW g \in Hosts PROVE Settled(g)'
    BY DEF FedInv
  <2> QED BY <1>0, <1>23, <1>a, <1>b DEF AgentEnds, NoAgent, Settled, Gone, HostState, AgentState, View
<1>24. ASSUME NEW h \in Hosts, Crash(h) PROVE FedInv'
  <2> SUFFICES ASSUME NEW g \in Hosts PROVE Settled(g)'
    BY DEF FedInv
  <2> QED BY <1>0, <1>24, <1>a, <1>b DEF Crash, FreshHost, NoAgent, Settled, Gone, HostState, AgentState, View
<1>25. ASSUME NEW h \in Hosts, Restart(h) PROVE FedInv'
  <2> SUFFICES ASSUME NEW g \in Hosts PROVE Settled(g)'
    BY DEF FedInv
  <2> QED BY <1>0, <1>25, <1>a, <1>b DEF Restart, Settled, Gone, HostState, AgentState, View
<1>26. ASSUME NEW h \in Hosts, Says(h) PROVE FedInv'
  <2> SUFFICES ASSUME NEW g \in Hosts PROVE Settled(g)'
    BY DEF FedInv
  <2> QED BY <1>0, <1>26, <1>a, <1>b DEF Says, Settled, Gone, HostState, AgentState, View
<1>27. ASSUME NEW h \in Hosts, ContinueLock(h) PROVE FedInv'
  <2> SUFFICES ASSUME NEW g \in Hosts PROVE Settled(g)'
    BY DEF FedInv
  <2> QED BY <1>27, <1>a, <1>b, AttemptKeeps DEF Settled
<1>28. ASSUME NEW h \in Hosts, Spawned(h) PROVE FedInv'
  <2> SUFFICES ASSUME NEW g \in Hosts PROVE Settled(g)'
    BY DEF FedInv
  <2> QED BY <1>0, <1>28, <1>a, <1>b DEF Spawned, NoAgent, Settled, Gone, HostState, AgentState, View
<1>29. ASSUME NEW h \in Hosts, SpawnFails(h) PROVE FedInv'
  <2> SUFFICES ASSUME NEW g \in Hosts PROVE Settled(g)'
    BY DEF FedInv
  <2>1. host'[g].entry = host[g].entry /\ host'[g].handed = host[g].handed /\ UNCHANGED <<agent, seen>>
    BY <1>0, <1>29, DroppedReads DEF SpawnFails, HostState
  <2> QED BY <2>1, <1>a, <1>b DEF Settled
<1>30. ASSUME NEW h \in Hosts, AgentOpens(h) \/ AgentBegins(h) PROVE FedInv'
  <2> SUFFICES ASSUME NEW g \in Hosts PROVE Settled(g)'
    BY DEF FedInv
  <2>1. UNCHANGED <<seen, host>> /\ agent'[g].fed = agent[g].fed /\ agent'[g].twice = agent[g].twice
    BY <1>0, <1>30 DEF AgentOpens, AgentBegins, AgentState
  <2> QED BY <2>1, <1>a, <1>b DEF Settled
<1> QED
  BY <1>1, <1>2, <1>3, <1>4, <1>5, <1>6, <1>7, <1>8, <1>9, <1>10, <1>11, <1>12, <1>13, <1>14, <1>15,
     <1>16, <1>17, <1>18, <1>19, <1>20, <1>21, <1>22, <1>23, <1>24, <1>25, <1>26, <1>27, <1>28, <1>29,
     <1>30 DEF Next, Pass, Attempt, Engine, Faulty

\* Why nothing is consumed unheard: whatever may still be consumed (parked, read by an engine,
\* handed to a consume thread) was read or its failure replied.
HeardInv ==
  /\ ConsumedWasHeard
  /\ record.owed \subseteq Known
  /\ \A h \in Hosts : agent[h].unconsumed \subseteq Known /\ host[h].jobs \subseteq Known

\* Every step keeps what is owed, reported or being consumed known.
LEMMA HeardStep == TypeOK /\ HeardInv /\ [Next]_vars => HeardInv'
<1> SUFFICES ASSUME TypeOK, HeardInv, [Next]_vars PROVE HeardInv'
  OBVIOUS
<1>0. /\ msg \in [Messages -> MessageState] /\ ghost \in GhostState /\ record \in RecordState
      /\ host \in [Hosts -> HostState] /\ agent \in [Hosts -> AgentState]
  BY DEF TypeOK
<1>a. /\ \A m \in Messages : msg[m] = "consumed" => m \in Known \cup ghost.given
      /\ record.owed \subseteq Known
      /\ \A h \in Hosts : agent[h].unconsumed \subseteq Known /\ host[h].jobs \subseteq Known
  BY DEF HeardInv, ConsumedWasHeard
<1>1. ASSUME NEW m \in Messages, Send(m) PROVE HeardInv'
  BY <1>0, <1>1, <1>a DEF Send, HeardInv, ConsumedWasHeard, Known
<1>2. ASSUME NEW m \in Messages, Withdraw(m) PROVE HeardInv'
  BY <1>0, <1>2, <1>a DEF Withdraw, HeardInv, ConsumedWasHeard, Known
<1>3. CASE EndSession \/ ClaimGoesStale \/ UNCHANGED vars
  BY <1>3, <1>a DEF EndSession, ClaimGoesStale, vars, HeardInv, ConsumedWasHeard, Known
<1>4. ASSUME NEW h \in Hosts, SyncRow(h) PROVE HeardInv'
  <2> QED BY <1>0, <1>4, <1>a, ConsumedForward DEF SyncRow, HeardInv, ConsumedWasHeard, Known, HostState, AgentState, GhostState, RecordState
<1>5. ASSUME NEW h \in Hosts, SyncMessages(h) PROVE HeardInv'
  <2> QED BY <1>0, <1>5, <1>a, ConsumedForward DEF SyncMessages, HeardInv, ConsumedWasHeard, Known, HostState, AgentState, GhostState, RecordState
<1>6. ASSUME NEW h \in Hosts, Reclaim(h) PROVE HeardInv'
  <2>1. /\ \A g \in Hosts : host'[g].jobs = host[g].jobs
        /\ UNCHANGED <<msg, agent, record, ghost>>
    BY <1>6, ReclaimReads
  <2> QED BY <2>1, <1>a DEF HeardInv, ConsumedWasHeard, Known
<1>7. ASSUME NEW h \in Hosts, Quiet(h) PROVE HeardInv'
  <2>1. /\ Housekept(h) \in HostState
        /\ Housekept(h).jobs = host[h].jobs
    BY <1>0, Kept
  <2> QED BY <2>1, <1>0, <1>7, <1>a, ConsumedForward DEF Quiet, HeardInv, ConsumedWasHeard, Known, HostState, AgentState, GhostState, RecordState
<1>8. ASSUME NEW h \in Hosts, BeginLaunch(h) PROVE HeardInv'
  <2>1. /\ \A g \in Hosts : host'[g].jobs = host[g].jobs
        /\ UNCHANGED <<msg, agent, record, ghost>>
    BY <1>8, BeginLaunchReads
  <2> QED BY <2>1, <1>a DEF HeardInv, ConsumedWasHeard, Known
<1>9. ASSUME NEW h \in Hosts, BeginWake(h) PROVE HeardInv'
  <2>1. /\ Housekept(h) \in HostState
        /\ Housekept(h).jobs = host[h].jobs
    BY <1>0, Kept
  <2> QED BY <2>1, <1>0, <1>9, <1>a, ConsumedForward DEF BeginWake, HeardInv, ConsumedWasHeard, Known, HostState, AgentState, GhostState, RecordState
<1>10. ASSUME NEW h \in Hosts, Kill(h) PROVE HeardInv'
  <2>1. /\ Housekept(h) \in HostState
        /\ Housekept(h).jobs = host[h].jobs
    BY <1>0, Kept
  <2> QED BY <2>1, <1>0, <1>10, <1>a, ConsumedForward DEF Kill, HeardInv, ConsumedWasHeard, Known, HostState, AgentState, GhostState, RecordState
<1>11. ASSUME NEW h \in Hosts, Feed(h) PROVE HeardInv'
  <2>1. /\ Housekept(h) \in HostState
        /\ Housekept(h).jobs = host[h].jobs
    BY <1>0, Kept
  <2> QED BY <2>1, <1>0, <1>11, <1>a, ConsumedForward DEF Feed, HeardInv, ConsumedWasHeard, Known, HostState, AgentState, GhostState, RecordState
<1>12. ASSUME NEW h \in Hosts, ClaimRow(h) PROVE HeardInv'
  <2>1. \A g \in Hosts : host'[g].jobs = host[g].jobs
    BY <1>12, AttemptKeeps
  <2>2. UNCHANGED <<agent, record>>
    BY <1>12 DEF ClaimRow
  <2>3. /\ ghost.heard \subseteq ghost'.heard /\ ghost.told \subseteq ghost'.told
        /\ ghost.given \subseteq ghost'.given
        /\ \A m \in Messages : msg'[m] # msg[m] => m \in ghost'.given
    BY <1>12, <1>0 DEF ClaimRow, ClaimLands, GhostState
  <2> QED BY <2>1, <2>2, <2>3, <1>a DEF HeardInv, ConsumedWasHeard, Known
<1>13. ASSUME NEW h \in Hosts, ClaimUnanswered(h) PROVE HeardInv'
  <2>1. \A g \in Hosts : host'[g].jobs = host[g].jobs
    BY <1>13, AttemptKeeps
  <2>2. UNCHANGED <<agent, record>>
    BY <1>13 DEF ClaimUnanswered
  <2>3. /\ ghost.heard \subseteq ghost'.heard /\ ghost.told \subseteq ghost'.told
        /\ ghost.given \subseteq ghost'.given
        /\ \A m \in Messages : msg'[m] # msg[m] => m \in ghost'.given
    BY <1>13, <1>0 DEF ClaimUnanswered, ClaimLands, GhostState
  <2> QED BY <2>1, <2>2, <2>3, <1>a DEF HeardInv, ConsumedWasHeard, Known
<1>14. ASSUME NEW h \in Hosts, LaunchPrepared(h) PROVE HeardInv'
  <2> QED BY <1>0, <1>14, <1>a DEF LaunchPrepared, HeardInv, ConsumedWasHeard, Known, HostState, AgentState, GhostState, RecordState
<1>15. ASSUME NEW h \in Hosts, LaunchFails(h) PROVE HeardInv'
  <2>1. \A g \in Hosts : host'[g].jobs = host[g].jobs
    BY <1>15, AttemptKeeps
  <2>2. UNCHANGED <<agent, record>>
    BY <1>15 DEF LaunchFails
  <2>3. /\ ghost.heard \subseteq ghost'.heard /\ ghost.told \subseteq ghost'.told
        /\ ghost.given \subseteq ghost'.given
        /\ \A m \in Messages : msg'[m] # msg[m] => m \in ghost'.given
    BY <1>15, <1>0 DEF LaunchFails, GhostState
  <2> QED BY <2>1, <2>2, <2>3, <1>a DEF HeardInv, ConsumedWasHeard, Known
<1>16. ASSUME NEW h \in Hosts, WakeLock(h) PROVE HeardInv'
  <2>1. \A g \in Hosts : host'[g].jobs = host[g].jobs
    BY <1>16, AttemptKeeps
  <2>2. UNCHANGED <<agent, record>>
    BY <1>16 DEF WakeLock
  <2>3. /\ ghost.heard \subseteq ghost'.heard /\ ghost.told \subseteq ghost'.told
        /\ ghost.given \subseteq ghost'.given
        /\ \A m \in Messages : msg'[m] # msg[m] => m \in ghost'.given
    BY <1>16, <1>0 DEF WakeLock, GhostState
  <2> QED BY <2>1, <2>2, <2>3, <1>a DEF HeardInv, ConsumedWasHeard, Known
<1>17. ASSUME NEW h \in Hosts, WakePrepared(h) PROVE HeardInv'
  <2> QED BY <1>0, <1>17, <1>a DEF WakePrepared, HeardInv, ConsumedWasHeard, Known, HostState, AgentState, GhostState, RecordState
<1>18. ASSUME NEW h \in Hosts, WakeFails(h) PROVE HeardInv'
  <2>1. \A g \in Hosts : g # h => host'[g].jobs = host[g].jobs
    BY <1>18, WakeFailsReads
  <2>2. /\ host'[h].jobs \subseteq host[h].jobs \cup ghost'.told
        /\ ghost.told \subseteq ghost'.told /\ ghost'.heard = ghost.heard /\ ghost'.given = ghost.given
        /\ UNCHANGED <<msg, agent, record>>
    BY <1>18, WakeFailsReads
  <2> QED BY <2>1, <2>2, <1>a DEF HeardInv, ConsumedWasHeard, Known
<1>19. ASSUME NEW h \in Hosts, ConsumeLands(h) PROVE HeardInv'
  <2> QED BY <1>0, <1>19, <1>a, ConsumedForward DEF ConsumeLands, HeardInv, ConsumedWasHeard, Known, HostState, AgentState, GhostState, RecordState
<1>20. ASSUME NEW h \in Hosts, ConsumeGivesUp(h) PROVE HeardInv'
  <2> QED BY <1>0, <1>20, <1>a, ConsumedForward DEF ConsumeGivesUp, HeardInv, ConsumedWasHeard, Known, HostState, AgentState, GhostState, RecordState
<1>21. ASSUME NEW h \in Hosts, AgentReads(h) PROVE HeardInv'
  <2> QED BY <1>0, <1>21, <1>a, ConsumedForward DEF AgentReads, HeardInv, ConsumedWasHeard, Known, HostState, AgentState, GhostState, RecordState
<1>22. ASSUME NEW h \in Hosts, AgentConsumes(h) PROVE HeardInv'
  <2> QED BY <1>0, <1>22, <1>a, ConsumedForward DEF AgentConsumes, HeardInv, ConsumedWasHeard, Known, HostState, AgentState, GhostState, RecordState
<1>23. ASSUME NEW h \in Hosts, AgentStops(h) PROVE HeardInv'
  <2> QED BY <1>0, <1>23, <1>a, ConsumedForward DEF AgentStops, HeardInv, ConsumedWasHeard, Known, HostState, AgentState, GhostState, RecordState
<1>24. ASSUME NEW h \in Hosts, AgentEnds(h) PROVE HeardInv'
  <2>1. /\ Known \subseteq Known' /\ ghost'.given = ghost.given
    BY <1>0, <1>24 DEF AgentEnds, EndSaid, Known, GhostState
  <2>2. /\ UNCHANGED host /\ record'.owed \subseteq record.owed \cup agent[h].unconsumed
        /\ \A g \in Hosts : agent'[g].unconsumed \subseteq agent[g].unconsumed
    BY <1>0, <1>24 DEF AgentEnds, NoAgent, AgentState, RecordState
  <2>3. ASSUME NEW m \in Messages, msg'[m] = "consumed" PROVE msg[m] = "consumed" \/ m \in agent[h].unconsumed
    BY <1>24, <2>3, ConsumedForward DEF AgentEnds
  <2> QED BY <2>1, <2>2, <2>3, <1>a DEF HeardInv, ConsumedWasHeard
<1>25. ASSUME NEW h \in Hosts, Crash(h) PROVE HeardInv'
  <2> QED BY <1>0, <1>25, <1>a, ConsumedForward DEF Crash, FreshHost, NoAgent, HeardInv, ConsumedWasHeard, Known, HostState, AgentState, GhostState, RecordState
<1>26. ASSUME NEW h \in Hosts, Restart(h) PROVE HeardInv'
  <2> QED BY <1>0, <1>26, <1>a, ConsumedForward DEF Restart, HeardInv, ConsumedWasHeard, Known, HostState, AgentState, GhostState, RecordState
<1>27. ASSUME NEW h \in Hosts, Says(h) PROVE HeardInv'
  <2> QED BY <1>0, <1>27, <1>a DEF Says, HeardInv, ConsumedWasHeard, Known, HostState, AgentState, GhostState, RecordState
<1>28. ASSUME NEW h \in Hosts, ContinueLock(h) PROVE HeardInv'
  <2>1. \A g \in Hosts : host'[g].jobs = host[g].jobs
    BY <1>28, AttemptKeeps
  <2>2. UNCHANGED <<msg, agent, record, ghost>>
    BY <1>28 DEF ContinueLock
  <2> QED BY <2>1, <2>2, <1>a DEF HeardInv, ConsumedWasHeard, Known
<1>29. ASSUME NEW h \in Hosts, Spawned(h) PROVE HeardInv'
  <2> QED BY <1>0, <1>29, <1>a DEF Spawned, NoAgent, HeardInv, ConsumedWasHeard, Known, HostState, AgentState, GhostState, RecordState
<1>30. ASSUME NEW h \in Hosts, SpawnFails(h) PROVE HeardInv'
  <2>1. ASSUME NEW g \in Hosts PROVE host'[g].jobs = host[g].jobs
    <3>1. CASE host' = Dropped(h)
      BY <1>0, <3>1, DroppedReads
    <3>2. CASE host' = [host EXCEPT ![h].attempt = NoAttempt, ![h].refused = host[h].attempt.batch]
      BY <1>0, <3>2 DEF HostState
    <3> QED BY <1>30, <3>1, <3>2 DEF SpawnFails
  <2>2. /\ UNCHANGED <<msg, agent, record>> /\ Known \subseteq Known' /\ ghost'.given = ghost.given
    BY <1>0, <1>30 DEF SpawnFails, Known, GhostState
  <2> QED BY <2>1, <2>2, <1>a DEF HeardInv, ConsumedWasHeard
<1>31. ASSUME NEW h \in Hosts, AgentOpens(h) \/ AgentBegins(h) PROVE HeardInv'
  <2>1. /\ Known \subseteq Known' /\ ghost'.given = ghost.given /\ UNCHANGED <<msg, host>>
        /\ record'.owed = record.owed
    BY <1>0, <1>31 DEF AgentOpens, AgentBegins, Known, GhostState, RecordState
  <2>2. \A g \in Hosts : agent'[g].unconsumed = agent[g].unconsumed
    BY <1>0, <1>31 DEF AgentOpens, AgentBegins, AgentState
  <2> QED BY <2>1, <2>2, <1>a DEF HeardInv, ConsumedWasHeard
<1> QED
  BY <1>1, <1>2, <1>3, <1>4, <1>5, <1>6, <1>7, <1>8, <1>9, <1>10, <1>11, <1>12, <1>13, <1>14, <1>15,
     <1>16, <1>17, <1>18, <1>19, <1>20, <1>21, <1>22, <1>23, <1>24, <1>25, <1>26, <1>27, <1>28, <1>29,
     <1>30, <1>31 DEF Next, Pass, Attempt, Engine, Faulty

\* Whatever crashes, lags or fails, two hosts of a device never run a live session both.
THEOREM OneAgentPerSession == Spec => []OneAgent
<1>1. Init => OwnerInv
  <2> SUFFICES ASSUME Init, NEW h \in Hosts PROVE Owned(h)
    BY DEF OwnerInv
  <2> QED BY DEF Init, Owned, Running, Holding, FreshHost, NoAttempt, NoAgent
<1>2. OwnerInv => OneAgent
  BY DEF OwnerInv, Owned, OneAgent
<1> QED BY <1>1, <1>2, OwnedStep, PickupTyped, PTL DEF Spec

\* An engine is handed no message twice, however its host's copy of the messages lags.
THEOREM FedAtMostOnce == Spec => []FedOnce
<1>1. Init => FedInv
  <2> SUFFICES ASSUME Init, NEW h \in Hosts PROVE Settled(h)
    BY DEF FedInv
  <2> QED BY DEF Init, Settled, FreshHost, NoAgent, Gone
<1>2. FedInv => FedOnce
  BY DEF FedInv, Settled, FedOnce
<1> QED BY <1>1, <1>2, FedStep, PickupTyped, PTL DEF Spec

\* What the server holds consumed was read, answered for, or taken by the first start.
THEOREM NothingConsumedUnheard == Spec => []ConsumedWasHeard
<1>1. Init => HeardInv
  BY DEF Init, HeardInv, ConsumedWasHeard, FreshHost, NoAgent
<1>2. HeardInv => ConsumedWasHeard
  BY DEF HeardInv
<1> QED BY <1>1, <1>2, HeardStep, PickupTyped, PTL DEF Spec

-----------------------------------------------------------------------------
\* A start the server consumed at the claim is carried until it is answered for: read, or its
\* failure replied. The Request stays the message that claim took, so that every brief and every
\* reply is about it. Once a run record is on disk the Request is in the prompt of the one attempt
\* or the one engine that holds the claim lock; before, a host counts the row as unsettled.

SentInOrder ==
  \A m, n \in Messages : n < m /\ msg[m] # "unsent" => msg[n] # "unsent"

GivenIsFirst ==
  \A m \in ghost.given : /\ msg[m] = "consumed"
                         /\ \A n \in Messages : n < m => msg[n] = "withdrawn"

\* What the server and the disk know of a host's attempt and engine: only a host that was down
\* reclaims; the Request is in the prompt of a prepared attempt or of a running engine, and these
\* have a record; whoever saw the row claimed, or is past its claim, came after the first claim,
\* which is counted.
Sound(h) ==
  /\ ~ghost.crashed => /\ host[h].reconciled /\ host[h].says = "nothing"
                       /\ host[h].attempt.step # "reclaiming"
  /\ host[h].attempt.seed # {} => host[h].attempt.step \in {"starting", "resuming"}
  /\ agent[h].seed # {} => Running(h)
  /\ seen[h].row # "queued" => row # "queued"
  /\ host[h].attempt.step \notin {"none", "claiming"} => row # "queued"
  /\ host[h].attempt.step \in {"starting", "resuming"} \/ host[h].entry \/ Running(h)
       => record.exists
  /\ host[h].attempt.step = "claiming" /\ row = "queued" => host[h].unsettled > 0
SoundInv ==
  /\ record.started => record.exists
  /\ record.exists => row # "queued"
  /\ \A h \in Hosts : Sound(h)

\* Every step keeps what is known of the attempts and the engines.
LEMMA SoundStep == TypeOK /\ SoundInv /\ [Next]_vars => SoundInv'
<1> SUFFICES ASSUME TypeOK, SoundInv, [Next]_vars PROVE SoundInv'
  OBVIOUS
<1>0. /\ row \in Status /\ seen \in [Hosts -> View] /\ ghost \in GhostState /\ record \in RecordState
      /\ host \in [Hosts -> HostState] /\ agent \in [Hosts -> AgentState]
  BY DEF TypeOK
<1>a. /\ record.started => record.exists
      /\ record.exists => row # "queued"
      /\ \A h \in Hosts : Sound(h)
  BY DEF SoundInv
<1>b. ASSUME UNCHANGED <<row, seen, host, agent, record>>, ghost'.crashed = ghost.crashed PROVE SoundInv'
  BY <1>a, <1>b DEF SoundInv, Sound, Running
<1>1. ASSUME NEW m \in Messages, Send(m) \/ Withdraw(m) PROVE SoundInv'
  BY <1>1, <1>b DEF Send, Withdraw
<1>2. CASE EndSession
  BY <1>0, <1>2, <1>a DEF EndSession, SoundInv, Sound, Running
<1>3. CASE ClaimGoesStale \/ UNCHANGED vars
  BY <1>3, <1>b DEF ClaimGoesStale, vars
<1>4. ASSUME NEW h \in Hosts, SyncRow(h) \/ SyncMessages(h) PROVE SoundInv'
  <2>1. UNCHANGED <<row, host, agent, record, ghost>>
    BY <1>4 DEF SyncRow, SyncMessages
  <2>2. seen' = [seen EXCEPT ![h].row = row] \/ seen' = [seen EXCEPT ![h].msg = msg]
    BY <1>4 DEF SyncRow, SyncMessages
  <2>3. seen \in [Hosts -> [row : Status, msg : [Messages -> MessageState]]]
    BY <1>0 DEF View
  <2>4. \A g \in Hosts : seen'[g].row \in {seen[g].row, row}
    BY <2>2, <2>3
  <2> QED BY <2>1, <2>4, <1>a DEF SoundInv, Sound, Running
<1>c. ASSUME NEW h \in Hosts, UNCHANGED <<seen, record>>, ghost'.crashed = ghost.crashed,
             \A g \in Hosts : g # h => host'[g] = host[g] /\ agent'[g] = agent[g],
             row # "queued" => row' # "queued", Sound(h)'
      PROVE  SoundInv'
  <2> SUFFICES ASSUME NEW g \in Hosts, g # h PROVE Sound(g)'
    BY <1>a, <1>c DEF SoundInv
  <2> QED BY <1>a, <1>c DEF Sound, Running
<1>5. ASSUME NEW h \in Hosts, Reclaim(h) PROVE SoundInv'
  <2>1. /\ \A g \in Hosts : g # h => host'[g] = host[g]
        /\ ~host'[h].entry
        /\ UNCHANGED <<row, msg, seen, agent, claim, record, ghost, faults>>
        /\ host'[h].unsettled = Housekept(h).unsettled
        /\ host'[h].attempt.seed = host[h].attempt.seed
        /\ \/ host'[h].attempt.step = host[h].attempt.step
           \/ host[h].attempt.step = "none" /\ host'[h].attempt.step = "reclaiming"
    BY <1>5, ReclaimReads
  <2>2. ~host[h].reconciled /\ seen[h].row # "queued"
    BY <1>5 DEF Reclaim, LeftBehind
  <2>3. Sound(h)'
    BY <1>a, <2>1, <2>2 DEF Sound, Running
  <2> QED BY <1>c, <2>1, <2>3
<1>6. ASSUME NEW h \in Hosts, NEW k, host' = [host EXCEPT ![h] = k],
             UNCHANGED <<row, seen, record, ghost>>,
             \A g \in Hosts : agent'[g].state = agent[g].state /\ agent'[g].seed = agent[g].seed,
             k.reconciled, k.says = host[h].says, k.unsettled = Housekept(h).unsettled,
             k.entry => host[h].entry,
             \/ k.attempt.step = host[h].attempt.step /\ k.attempt.seed = host[h].attempt.seed
             \/ k.attempt.step = "none" /\ k.attempt.seed = {}
             \/ k.attempt.step = "locking" /\ k.attempt.seed = {} /\ seen[h].row # "queued"
      PROVE  SoundInv'
  <2>1. host'[h] = k /\ \A g \in Hosts : g # h => host'[g] = host[g]
    BY <1>0, <1>6
  <2>2. Housekept(h).unsettled = IF seen[h].row \in {"queued", "running"} THEN host[h].unsettled ELSE 0
    BY <1>0, Kept
  <2>3. \A g \in Hosts : Running(g)' <=> Running(g)
    BY <1>6 DEF Running
  <2>4. Sound(h)'
    BY <1>0, <1>a, <1>6, <2>1, <2>2, <2>3 DEF Sound, View, Status
  <2> SUFFICES ASSUME NEW g \in Hosts, g # h PROVE Sound(g)'
    BY <1>a, <1>6, <2>4 DEF SoundInv
  <2> QED BY <1>a, <1>6, <2>1, <2>3 DEF Sound
<1>7. ASSUME NEW h \in Hosts, Quiet(h) PROVE SoundInv'
  <2>1. host' = [host EXCEPT ![h] = Housekept(h)] /\ UNCHANGED <<row, seen, agent, record, ghost>>
    BY <1>7 DEF Quiet
  <2>2. /\ Housekept(h).reconciled /\ Housekept(h).says = host[h].says
        /\ Housekept(h).attempt = host[h].attempt /\ (Housekept(h).entry => host[h].entry)
    BY <1>0, Kept
  <2> QED BY <1>6, <2>1, <2>2
<1>8. ASSUME NEW h \in Hosts, BeginLaunch(h) PROVE SoundInv'
  <2> DEFINE k == Housekept(h)
             u == IF k.unsettled < MaxAttempts THEN k.unsettled + 1 ELSE k.unsettled
             r == [k EXCEPT !.attempt.step = "claiming", !.unsettled = u]
  <2>1. host' = [host EXCEPT ![h] = r] \/ host' = [host EXCEPT ![h] = k]
    BY <1>8 DEF BeginLaunch
  <2>2. /\ k \in HostState /\ k.reconciled /\ k.says = host[h].says /\ k.attempt = host[h].attempt
        /\ k.entry => host[h].entry
        /\ UNCHANGED <<row, seen, agent, record, ghost>>
    BY <1>0, <1>8, Kept DEF BeginLaunch
  <2>3. host[h].attempt.step = "none"
    BY <1>8 DEF BeginLaunch
  <2>4. u > 0 /\ r.unsettled = u
    BY <2>2, MaxAttemptsAssumption DEF HostState
  <2>5. /\ r.reconciled = k.reconciled /\ r.says = k.says
        /\ r.attempt.step = "claiming" /\ r.attempt.seed = k.attempt.seed /\ r.entry = k.entry
    BY <2>2 DEF HostState, AttemptState
  <2> HIDE DEF r, u
  <2>6. CASE host' = [host EXCEPT ![h] = r]
    <3>1. host'[h] = r /\ \A g \in Hosts : g # h => host'[g] = host[g]
      BY <1>0, <2>6
    <3>2. Sound(h)'
      BY <1>a, <2>2, <2>3, <2>4, <2>5, <3>1 DEF Sound, Running
    <3> QED BY <1>c, <2>2, <3>1, <3>2
  <2>7. CASE host' = [host EXCEPT ![h] = k]
    BY <1>6, <2>2, <2>7
  <2> QED BY <2>1, <2>6, <2>7
<1>9. ASSUME NEW h \in Hosts, BeginWake(h) PROVE SoundInv'
  <2> DEFINE k == Housekept(h)
             covered == (PendingIn(h) \cap record.owed) \ k.consuming
             left == PendingIn(h) \ (record.owed \cup k.consuming)
             a == IF left \subseteq k.refused THEN NoAttempt
                  ELSE [step |-> "locking", batch |-> left, seed |-> {}]
             r == [k EXCEPT !.consuming = @ \cup covered, !.jobs = @ \cup covered, !.attempt = a]
  <2>1. host' = [host EXCEPT ![h] = r] /\ UNCHANGED <<row, seen, agent, record, ghost>>
    BY <1>9 DEF BeginWake
  <2>2. /\ k \in HostState /\ k.reconciled /\ k.says = host[h].says /\ seen[h].row # "queued"
        /\ k.entry => host[h].entry
    BY <1>0, <1>9, Kept DEF BeginWake, PlansResume
  <2>3. a.step \in {"none", "locking"} /\ a.seed = {}
    BY DEF NoAttempt
  <2> HIDE DEF covered, a
  <2>4. /\ r.reconciled = k.reconciled /\ r.says = k.says /\ r.unsettled = k.unsettled
        /\ r.attempt = a /\ r.entry = k.entry
    BY <2>2 DEF HostState
  <2> HIDE DEF r
  <2> QED BY <1>6, <2>1, <2>2, <2>3, <2>4
<1>10. ASSUME NEW h \in Hosts, Kill(h) PROVE SoundInv'
  <2> DEFINE r == [Housekept(h) EXCEPT !.entry = FALSE, !.handed = {}]
  <2>1. host' = [host EXCEPT ![h] = r] /\ agent' = [agent EXCEPT ![h].state = "closing"]
        /\ UNCHANGED <<row, seen, record, ghost>>
    BY <1>10 DEF Kill
  <2>2. /\ Housekept(h) \in HostState /\ Housekept(h).attempt = host[h].attempt
        /\ Housekept(h).reconciled /\ Housekept(h).says = host[h].says
        /\ host[h].entry /\ ~Pruned(h) /\ seen[h].row = "ended"
    BY <1>0, <1>10, Kept DEF Kill, PlansKill
  <2>3. /\ r.reconciled /\ r.says = host[h].says /\ r.unsettled = Housekept(h).unsettled
        /\ r.attempt = host[h].attempt /\ ~r.entry
    BY <2>2 DEF HostState
  <2>4. Housekept(h).unsettled = IF seen[h].row \in {"queued", "running"} THEN host[h].unsettled ELSE 0
    BY <1>0, Kept
  <2> HIDE DEF r
  <2>5. /\ host'[h] = r /\ agent'[h].state = "closing" /\ agent'[h].seed = agent[h].seed
        /\ \A g \in Hosts : g # h => host'[g] = host[g] /\ agent'[g] = agent[g]
    BY <1>0, <2>1 DEF AgentState
  <2>6. Sound(h)'
    BY <1>a, <2>1, <2>2, <2>3, <2>4, <2>5 DEF Sound, Running
  <2> QED BY <1>c, <2>1, <2>5, <2>6
<1>11. ASSUME NEW h \in Hosts, Feed(h) PROVE SoundInv'
  <2> DEFINE ha == (Housekept(h).handed \ Revoked(h)) \cup FreshFor(h)
             r == [Housekept(h) EXCEPT !.handed = ha]
  <2>1. host' = [host EXCEPT ![h] = r] /\ UNCHANGED <<row, seen, record, ghost>>
    BY <1>11 DEF Feed
  <2>2. /\ Housekept(h) \in HostState /\ Housekept(h).attempt = host[h].attempt
        /\ Housekept(h).reconciled /\ Housekept(h).says = host[h].says
        /\ Housekept(h).entry => host[h].entry
    BY <1>0, Kept
  <2> HIDE DEF ha
  <2>3. /\ r.reconciled /\ r.says = host[h].says /\ r.unsettled = Housekept(h).unsettled
        /\ r.attempt = host[h].attempt /\ (r.entry => host[h].entry)
    BY <2>2 DEF HostState
  <2>4. \A g \in Hosts : agent'[g].state = agent[g].state /\ agent'[g].seed = agent[g].seed
    BY <1>0, <1>11 DEF Feed, AgentState
  <2> HIDE DEF r
  <2> QED BY <1>6, <2>1, <2>3, <2>4
<1>12. ASSUME NEW h \in Hosts, Says(h) PROVE SoundInv'
  <2>1. /\ host'[h].reconciled = host[h].reconciled /\ host'[h].says = "nothing"
        /\ host'[h].attempt = host[h].attempt /\ host'[h].unsettled = host[h].unsettled
        /\ host'[h].entry = host[h].entry
        /\ \A g \in Hosts : g # h => host'[g] = host[g]
    BY <1>0, <1>12 DEF Says, HostState
  <2>2. /\ row' # "queued" /\ UNCHANGED <<seen, agent, record>> /\ ghost'.crashed = ghost.crashed
    BY <1>0, <1>12 DEF Says, Reported, GhostState
  <2>3. Sound(h)'
    BY <1>a, <2>1, <2>2 DEF Sound, Running
  <2> QED BY <1>c, <2>1, <2>2, <2>3
<1>d. ASSUME NEW h \in Hosts, UNCHANGED <<seen, agent, record>>, ghost'.crashed = ghost.crashed,
             row # "queued" => row' # "queued",
             host' = Dropped(h) \/ host' = [Dropped(h) EXCEPT ![h].unsettled = 0]
      PROVE  SoundInv'
  <2>1. /\ host'[h].attempt = NoAttempt /\ host'[h].entry = host[h].entry
        /\ host'[h].reconciled = host[h].reconciled /\ host'[h].says = host[h].says
        /\ \A g \in Hosts : g # h => host'[g] = host[g]
    BY <1>0, <1>d, DroppedReads
  <2>2. Sound(h)'
    BY <1>a, <1>d, <2>1 DEF Sound, Running, NoAttempt
  <2> QED BY <1>c, <1>d, <2>1, <2>2
<1>e. ASSUME NEW h \in Hosts, UNCHANGED <<seen, agent, record>>, ghost'.crashed = ghost.crashed,
             NEW s \in {"briefing", "waking"}, host' = Goes(h, s), row' # "queued",
             host[h].attempt.step \in {"claiming", "locking", "reclaiming"}
      PROVE  SoundInv'
  <2>1. /\ host'[h].attempt.step = s /\ host'[h].attempt.seed = host[h].attempt.seed
        /\ host'[h].entry = host[h].entry
        /\ host'[h].reconciled = host[h].reconciled /\ host'[h].says = host[h].says
        /\ \A g \in Hosts : g # h => host'[g] = host[g]
    BY <1>0, <1>e, GoesReads
  <2>2. Sound(h)'
    BY <1>a, <1>e, <2>1 DEF Sound, Running
  <2> QED BY <1>c, <1>e, <2>1, <2>2
<1>f. ASSUME ClaimLands PROVE row' # "queued" /\ ghost'.crashed = ghost.crashed
  BY <1>0, <1>f DEF ClaimLands, GhostState
<1>13. ASSUME NEW h \in Hosts, ClaimRow(h) PROVE SoundInv'
  <2>1. CASE ClaimLands /\ host' = Goes(h, "briefing")
    BY <1>13, <1>e, <1>f, <2>1 DEF ClaimRow, At
  <2>2. CASE /\ host' = [Dropped(h) EXCEPT ![h].unsettled = 0]
             /\ ghost' = [ghost EXCEPT !.told = @ \cup Request] /\ UNCHANGED row
    BY <1>0, <1>13, <1>d, <2>2 DEF ClaimRow, GhostState
  <2> QED BY <1>13, <2>1, <2>2 DEF ClaimRow
<1>14. ASSUME NEW h \in Hosts, ClaimUnanswered(h) PROVE SoundInv'
  BY <1>14, <1>d, <1>f DEF ClaimUnanswered
<1>15. ASSUME NEW h \in Hosts, LaunchFails(h) PROVE SoundInv'
  <2>1. row # "queued" => row' # "queued"
    BY <1>15 DEF LaunchFails, Reported, EndStatus
  <2>2. ghost'.crashed = ghost.crashed /\ UNCHANGED <<seen, agent, record>>
    BY <1>0, <1>15 DEF LaunchFails, GhostState
  <2> QED BY <1>15, <1>d, <2>1, <2>2 DEF LaunchFails
<1>16. ASSUME NEW h \in Hosts, WakeLock(h) \/ ContinueLock(h) PROVE SoundInv'
  <2>1. host[h].attempt.step \in {"locking", "reclaiming"} /\ row # "queued"
    BY <1>16, <1>a DEF WakeLock, ContinueLock, At, Sound
  <2>2. row' # "queued" /\ UNCHANGED <<seen, agent, record, ghost>>
    BY <1>16, <2>1 DEF WakeLock, ContinueLock, Reported
  <2> QED BY <1>16, <1>d, <1>e, <2>1, <2>2 DEF WakeLock, ContinueLock
<1>17. ASSUME NEW h \in Hosts, LaunchPrepared(h) \/ WakePrepared(h) PROVE SoundInv'
  <2>1. /\ host'[h].reconciled = host[h].reconciled /\ host'[h].says = host[h].says
        /\ host'[h].attempt.step \in {"starting", "resuming"}
        /\ \A g \in Hosts : g # h => host'[g] = host[g]
    <3>1. CASE LaunchPrepared(h)
      BY <1>0, <3>1 DEF LaunchPrepared, HostState
    <3>2. CASE WakePrepared(h)
      <4> DEFINE d == IF record.started THEN {} ELSE Request
      <4>1. host' = [host EXCEPT ![h].attempt.step = "resuming", ![h].attempt.seed = d]
        BY <3>2 DEF WakePrepared
      <4> HIDE DEF d
      <4> QED BY <1>0, <4>1 DEF HostState, AttemptState
    <3> QED BY <1>17, <3>1, <3>2
  <2>2. /\ record'.exists /\ UNCHANGED <<row, seen, agent, ghost>>
    BY <1>0, <1>17 DEF LaunchPrepared, WakePrepared, RecordState
  <2>3. row # "queued"
    BY <1>17, <1>a DEF LaunchPrepared, WakePrepared, At, Sound
  <2> SUFFICES ASSUME NEW g \in Hosts PROVE Sound(g)'
    BY <2>2, <2>3 DEF SoundInv
  <2> QED BY <1>a, <2>1, <2>2, <2>3 DEF Sound, Running
<1>18. ASSUME NEW h \in Hosts, Spawned(h) PROVE SoundInv'
  <2>1. /\ host'[h].reconciled = host[h].reconciled /\ host'[h].says = host[h].says
        /\ host'[h].attempt = NoAttempt
        /\ \A g \in Hosts : g # h => host'[g] = host[g] /\ agent'[g] = agent[g]
    BY <1>0, <1>18 DEF Spawned, HostState
  <2>2. agent'[h].state = "starting" /\ UNCHANGED <<seen, record, ghost>>
    BY <1>0, <1>18 DEF Spawned, NoAgent
  <2>3. row' # "queued" /\ record.exists
    BY <1>18, <1>a DEF Spawned, At, Sound, Reported
  <2>4. Sound(h)'
    BY <1>a, <2>1, <2>2, <2>3 DEF Sound, Running, NoAttempt
  <2> QED BY <1>c, <2>1, <2>2, <2>3, <2>4
<1>19. ASSUME NEW h \in Hosts, WakeFails(h) \/ SpawnFails(h) PROVE SoundInv'
  <2>1. /\ host'[h].reconciled = host[h].reconciled /\ host'[h].says = host[h].says
        /\ host'[h].attempt = NoAttempt /\ host'[h].entry = host[h].entry
        /\ \A g \in Hosts : g # h => host'[g] = host[g]
    BY <1>0, <1>19 DEF WakeFails, SpawnFails, Dropped, HostState
  <2>2. /\ UNCHANGED <<seen, agent, record>> /\ ghost'.crashed = ghost.crashed
        /\ row # "queued" => row' # "queued"
    BY <1>0, <1>19 DEF WakeFails, SpawnFails, Reported, EndStatus, GhostState
  <2>3. Sound(h)'
    BY <1>a, <2>1, <2>2 DEF Sound, Running, NoAttempt
  <2> QED BY <1>c, <2>1, <2>2, <2>3
<1>20. ASSUME NEW h \in Hosts, ConsumeLands(h) \/ ConsumeGivesUp(h) \/ Restart(h) PROVE SoundInv'
  <2>1. /\ \A g \in Hosts : /\ host'[g].reconciled = host[g].reconciled /\ host'[g].says = host[g].says
                            /\ host'[g].attempt = host[g].attempt /\ host'[g].entry = host[g].entry
                            /\ host'[g].unsettled = host[g].unsettled
    BY <1>0, <1>20 DEF ConsumeLands, ConsumeGivesUp, Restart, HostState
  <2>2. /\ UNCHANGED <<row, agent, ghost>>
        /\ record'.exists = record.exists /\ record'.started = record.started
        /\ \A g \in Hosts : seen'[g].row \in {seen[g].row, row}
    BY <1>0, <1>20 DEF ConsumeLands, ConsumeGivesUp, Restart, RecordState
  <2> QED BY <1>a, <2>1, <2>2 DEF SoundInv, Sound, Running
<1>21. ASSUME NEW h \in Hosts,
              AgentOpens(h) \/ AgentBegins(h) \/ AgentReads(h) \/ AgentConsumes(h) \/ AgentStops(h)
       PROVE  SoundInv'
  <2>1. ASSUME NEW g \in Hosts PROVE (Running(g)' <=> Running(g)) /\ (agent'[g].seed # {} => agent[g].seed # {})
    <3>1. CASE AgentOpens(h) \/ AgentStops(h)
      BY <1>0, <3>1 DEF AgentOpens, AgentStops, Running, AgentState
    <3>2. CASE AgentBegins(h) \/ AgentReads(h) \/ AgentConsumes(h)
      <4>1. /\ agent'[g].state = agent[g].state
            /\ agent'[g].seed # {} => agent[g].seed # {}
        <5>1. CASE AgentBegins(h)
          BY <1>0, <5>1 DEF AgentBegins, AgentState
        <5>2. CASE AgentReads(h)
          BY <1>0, <5>2 DEF AgentReads, AgentState
        <5>3. CASE AgentConsumes(h)
          BY <1>0, <5>3 DEF AgentConsumes, AgentState
        <5> QED BY <3>2, <5>1, <5>2, <5>3
      <4> QED BY <4>1 DEF Running
    <3> QED BY <1>21, <3>1, <3>2
  <2>2. /\ UNCHANGED <<row, host, seen>> /\ ghost'.crashed = ghost.crashed
        /\ record'.exists = record.exists
    BY <1>0, <1>21 DEF AgentOpens, AgentBegins, AgentReads, AgentConsumes, AgentStops, RecordState, GhostState
  <2>3. record'.started => record.started \/ Running(h)
    BY <1>21 DEF AgentOpens, AgentBegins, AgentReads, AgentConsumes, AgentStops, Running
  <2> QED BY <1>a, <2>1, <2>2, <2>3 DEF SoundInv, Sound
<1>22. ASSUME NEW h \in Hosts, AgentEnds(h) PROVE SoundInv'
  <2>1. /\ agent'[h].seed = {} /\ ~Running(h)'
        /\ \A g \in Hosts : g # h => agent'[g] = agent[g]
    BY <1>0, <1>22 DEF AgentEnds, NoAgent, Running
  <2>2. /\ UNCHANGED <<host, seen>> /\ ghost'.crashed = ghost.crashed /\ row' # "queued"
        /\ record'.exists = record.exists /\ record'.started = record.started
    BY <1>0, <1>22 DEF AgentEnds, EndSaid, Reported, EndStatus, RecordState, GhostState
  <2> SUFFICES ASSUME NEW g \in Hosts PROVE Sound(g)'
    BY <1>a, <2>2 DEF SoundInv
  <2> QED BY <1>a, <2>1, <2>2 DEF Sound, Running
<1>23. ASSUME NEW h \in Hosts, Crash(h) PROVE SoundInv'
  <2>1. /\ host'[h].attempt = NoAttempt /\ ~host'[h].entry /\ agent'[h] = NoAgent
        /\ seen'[h].row = "queued" /\ ghost'.crashed
        /\ \A g \in Hosts : g # h => host'[g] = host[g] /\ agent'[g] = agent[g] /\ seen'[g] = seen[g]
        /\ UNCHANGED <<row, record>>
    BY <1>0, <1>23 DEF Crash, FreshHost, GhostState
  <2> SUFFICES ASSUME NEW g \in Hosts PROVE Sound(g)'
    BY <1>a, <2>1 DEF SoundInv
  <2> QED BY <1>a, <2>1 DEF Sound, Running, NoAttempt, NoAgent
<1> QED
  BY <1>1, <1>2, <1>3, <1>4, <1>5, <1>7, <1>8, <1>9, <1>10, <1>11, <1>12, <1>13, <1>14, <1>15, <1>16,
     <1>17, <1>18, <1>19, <1>20, <1>21, <1>22, <1>23 DEF Next, Pass, Attempt, Engine, Faulty

\* The row is live, and no host of the device crashed so far.
Live == ~ghost.crashed /\ row # "ended"

\* The start is over: the row was claimed, and what the claim took is answered for.
Answered == row # "queued" /\ ghost.given \subseteq Known

\* m is (part of) the Request in the prompt of an attempt or of an engine.
Seeded(m) == \E h \in Hosts : m \in host[h].attempt.seed \cup agent[h].seed

\* What the first claim took is in a prompt once there is a record, counted before; whoever saw
\* the row idle came after the answer.
Answers ==
  /\ record.exists => \A m \in ghost.given \ Known : Seeded(m)
  /\ row = "idle" => Answered
  /\ \A h \in Hosts : seen[h].row = "idle" => Answered
  /\ \/ record.exists \/ ghost.given \subseteq Known
     \/ \E h \in Hosts : host[h].unsettled > 0

CarriedInv == SentInOrder /\ GivenIsFirst /\ SoundInv /\ (Live => Answers)

\* The first claim, by the host whose attempt is at it.
FirstClaim ==
  /\ ClaimLands /\ row = "queued"
  /\ \E g \in Hosts : host[g].attempt.step = "claiming" /\ host'[g].unsettled = host[g].unsettled

\* Every other step leaves what the first claim took.
GivenMoves == ghost'.given = ghost.given \/ FirstClaim

\* What no step does to the server's side: a row is never queued again, nor alive again, nor idle
\* before what the first claim took is answered for; a record is made with the Request in hand.
ServerMoves ==
  /\ row' # row => row # "ended" /\ row' \in {"running", "idle", "ended"}
  /\ Known \subseteq Known' /\ (ghost.crashed => ghost'.crashed)
  /\ record.exists => record'.exists
  /\ \A g \in Hosts : seen'[g].row \in {seen[g].row, row, "queued"}
  /\ Live' /\ row' = "idle" => row = "idle" \/ Answered'
  /\ record'.exists => record.exists \/ \A m \in ghost'.given : Seeded(m)'

\* A host lets go of the Request in a prompt when it was read or told of, and of a row it counted
\* when it saw it settled, or the step leaves a record, or answers for it.
HostMoves(g) ==
  /\ \A m \in host[g].attempt.seed \cup agent[g].seed :
        m \in host'[g].attempt.seed \cup agent'[g].seed \cup Known'
  /\ host[g].unsettled > 0
       => \/ host'[g].unsettled > 0 \/ seen[g].row \in {"idle", "ended"}
          \/ record'.exists \/ Answered'

\* What was sent is not sent again, and what was consumed or withdrawn stays so.
MessagesSettle ==
  \A m \in Messages : \/ msg'[m] = msg[m]
                      \/ msg[m] = "pending" /\ msg'[m] \in {"consumed", "withdrawn"}

LEMMA ConsumedSettles ==
  ASSUME msg \in [Messages -> MessageState], NEW ms, msg' = Consumed(ms)
  PROVE  MessagesSettle
  BY DEF Consumed, MessagesSettle

\* What a dropped attempt leaves of every host's count.
LEMMA DroppedUnsettled ==
  ASSUME host \in [Hosts -> HostState], NEW h \in Hosts, NEW g \in Hosts
  PROVE  /\ Dropped(h)[g].unsettled = host[g].unsettled
         /\ g # h => [Dropped(h) EXCEPT ![h].unsettled = 0][g] = host[g] /\ Dropped(h)[g] = host[g]
         /\ Dropped(h)[h].attempt.step = "none"
         /\ [Dropped(h) EXCEPT ![h].unsettled = 0][h].attempt.step = "none"
         /\ [Dropped(h) EXCEPT ![h].unsettled = 0][h].entry = host[h].entry
         /\ Dropped(h)[h].entry = host[h].entry
<1>1. Dropped(h) \in [Hosts -> HostState]
  BY DroppedType
<1>2. Dropped(h)[g].unsettled = host[g].unsettled /\ (g # h => Dropped(h)[g] = host[g])
  BY DEF Dropped, HostState
<1>3. [Dropped(h) EXCEPT ![h].unsettled = 0][g] = IF g = h THEN [Dropped(h)[h] EXCEPT !.unsettled = 0]
                                                     ELSE Dropped(h)[g]
  BY <1>1
<1>4. NoAttempt.step = "none"
  BY DEF NoAttempt
<1> QED BY <1>2, <1>3, <1>4, DroppedReads

\* How a step moves the messages: one is sent, or what was pending is settled.
LEMMA MessagesMove ==
  ASSUME TypeOK, [Next]_vars
  PROVE  MessagesSettle \/ \E m \in Messages : Send(m)
<1>0. msg \in [Messages -> MessageState]
  BY DEF TypeOK
<1>a. ASSUME msg' = msg PROVE MessagesSettle
  BY <1>a DEF MessagesSettle
<1>b. ASSUME NEW ms, msg' = Consumed(ms) PROVE MessagesSettle
  BY <1>0, <1>b, ConsumedSettles
<1>1. ASSUME NEW m \in Messages, Withdraw(m) PROVE MessagesSettle
  BY <1>0, <1>1 DEF Withdraw, MessagesSettle
<1>2. ASSUME NEW h \in Hosts, Pass(h) PROVE MessagesSettle
  BY <1>2, <1>a DEF Pass, Reclaim, Quiet, BeginLaunch, BeginWake, Kill, Feed
<1>3. ASSUME NEW h \in Hosts, Attempt(h) PROVE MessagesSettle
  BY <1>3, <1>a, <1>b DEF Attempt, ClaimRow, ClaimLands, LaunchPrepared, WakeLock, ContinueLock, WakePrepared, Spawned
<1>4. ASSUME NEW h \in Hosts, Engine(h) PROVE MessagesSettle
  BY <1>4, <1>a, <1>b DEF Engine, AgentOpens, AgentBegins, AgentReads, AgentConsumes, AgentEnds
<1>5. ASSUME NEW h \in Hosts, Faulty(h) PROVE MessagesSettle
  BY <1>5, <1>a, <1>b DEF Faulty, ClaimUnanswered, ClaimLands, LaunchFails, WakeFails, SpawnFails, ConsumeGivesUp, AgentStops, Crash
<1>6. ASSUME NEW h \in Hosts, SyncRow(h) \/ SyncMessages(h) \/ Says(h) \/ ConsumeLands(h) \/ Restart(h) PROVE MessagesSettle
  BY <1>6, <1>a, <1>b DEF SyncRow, SyncMessages, Says, ConsumeLands, Restart
<1>7. CASE EndSession \/ ClaimGoesStale \/ UNCHANGED vars
  BY <1>7, <1>a DEF EndSession, ClaimGoesStale, vars
<1> QED BY <1>1, <1>2, <1>3, <1>4, <1>5, <1>6, <1>7 DEF Next

\* A claim that lands moves the row and the messages it takes, the first one alone.
LEMMA ClaimMoves ==
  ASSUME TypeOK, ClaimLands
  PROVE  /\ row # "ended" /\ row' = (IF row = "queued" THEN "running" ELSE row)
         /\ ghost'.heard = ghost.heard /\ ghost'.told = ghost.told /\ ghost'.crashed = ghost.crashed
         /\ ghost'.given = ghost.given \cup {m \in Messages : msg'[m] # msg[m]}
         /\ row # "queued" => msg' = msg /\ ghost'.given = ghost.given
<1>1. ghost \in GhostState
  BY DEF TypeOK
<1>2. ghost'.given = ghost.given \cup {m \in Messages : msg'[m] # msg[m]}
  BY <1>1 DEF ClaimLands, GhostState
<1>3. row # "queued" => {m \in Messages : msg'[m] # msg[m]} = {}
  BY DEF ClaimLands
<1> QED BY <1>1, <1>2, <1>3 DEF ClaimLands, GhostState

\* What the first claim took is the Request.
LEMMA GivenIsRequest == ASSUME TypeOK, GivenIsFirst PROVE ghost.given \subseteq Request
<1> SUFFICES ASSUME NEW m \in ghost.given PROVE m \in Request
  OBVIOUS
<1>1. m \in Messages /\ msg[m] = "consumed"
  BY DEF TypeOK, GhostState, GivenIsFirst
<1>2. ASSUME NEW n \in Messages, msg[n] \in {"pending", "consumed"} PROVE m <= n
  BY <1>1, <1>2, MessagesAssumption DEF GivenIsFirst
<1> QED BY <1>1, <1>2 DEF Request, Oldest

\* Every step keeps the messages in order, and what the first claim took ahead of the rest.
LEMMA OrderStep ==
  ASSUME TypeOK, SentInOrder, GivenIsFirst, [Next]_vars, GivenMoves
  PROVE  SentInOrder' /\ GivenIsFirst'
<1>0. msg \in [Messages -> MessageState] /\ ghost.given \subseteq Messages
  BY DEF TypeOK, GhostState
<1>1. ASSUME NEW m \in Messages, Send(m) PROVE /\ \A n \in Messages : n # m => msg'[n] = msg[n]
                                               /\ msg[m] = "unsent" /\ msg'[m] = "pending"
                                               /\ \A n \in Messages : n < m => msg[n] # "unsent"
  BY <1>0, <1>1 DEF Send
<1>2. SentInOrder'
  <2>1. ASSUME NEW m \in Messages, Send(m) PROVE SentInOrder'
    BY <1>1, <2>1 DEF SentInOrder
  <2>2. CASE MessagesSettle
    BY <2>2 DEF SentInOrder, MessagesSettle
  <2> QED BY <2>1, <2>2, MessagesMove
<1>3. ASSUME NEW m \in Messages, msg[m] \in {"consumed", "withdrawn"} PROVE msg'[m] = msg[m]
  <2>1. ASSUME NEW n \in Messages, Send(n) PROVE msg'[m] = msg[m]
    BY <1>1, <1>3, <2>1
  <2>2. CASE MessagesSettle
    BY <1>3, <2>2 DEF MessagesSettle
  <2> QED BY <2>1, <2>2, MessagesMove
<1>4. ASSUME NEW m \in ghost.given
      PROVE  msg'[m] = "consumed" /\ \A n \in Messages : n < m => msg'[n] = "withdrawn"
  BY <1>0, <1>3, <1>4 DEF GivenIsFirst
<1>5. ASSUME ghost'.given = ghost.given PROVE GivenIsFirst'
  BY <1>4, <1>5 DEF GivenIsFirst
<1>6. ASSUME FirstClaim PROVE GivenIsFirst'
  <2>1. msg' = Consumed(Request) /\ ghost'.given = ghost.given \cup {m \in Messages : msg'[m] # msg[m]}
    BY <1>6, ClaimMoves DEF FirstClaim, ClaimLands
  <2>2. ASSUME NEW m \in Messages, msg'[m] # msg[m]
        PROVE  msg'[m] = "consumed" /\ \A n \in Messages : n < m => msg'[n] = "withdrawn"
    <3>1. msg[m] = "pending" /\ msg'[m] = "consumed" /\ m \in Request
      BY <2>1, <2>2, ConsumedForward
    <3>2. ASSUME NEW n \in Messages, n < m PROVE msg'[n] = "withdrawn"
      <4>1. msg[n] \notin {"pending", "consumed"}
        BY <3>1, <3>2, MessagesAssumption DEF Request, Oldest
      <4>2. msg[n] # "unsent"
        BY <3>1, <3>2 DEF SentInOrder
      <4> QED BY <1>0, <1>3, <4>1, <4>2 DEF MessageState
    <3> QED BY <3>1, <3>2
  <2>3. ASSUME NEW m \in ghost'.given PROVE m \in ghost.given \/ (m \in Messages /\ msg'[m] # msg[m])
    BY <2>1, <2>3
  <2> QED BY <1>4, <2>2, <2>3 DEF GivenIsFirst
<1> QED BY <1>2, <1>5, <1>6 DEF GivenMoves

\* While a host holds a live session, no other has the Request in a prompt.
LEMMA Alone ==
  ASSUME TypeOK, OwnerInv, SoundInv, Live, NEW h \in Hosts,
         host[h].entry \/ host[h].attempt.step \in Holding, NEW m, Seeded(m)
  PROVE  m \in host[h].attempt.seed \cup agent[h].seed
<1>1. PICK g \in Hosts : m \in host[g].attempt.seed \cup agent[g].seed
  BY DEF Seeded
<1>2. claim = h /\ Owned(g) /\ Sound(g)
  BY DEF OwnerInv, Owned, SoundInv
<1>3. CASE host[g].attempt.seed # {}
  BY <1>1, <1>2, <1>3 DEF Owned, Sound, Holding
<1>4. CASE agent[g].seed # {}
  BY <1>1, <1>2, <1>4 DEF Owned, Sound, Live
<1> QED BY <1>1, <1>3, <1>4

\* What the host that holds a live session with a record has to answer for is in its hands.
LEMMA InHand ==
  ASSUME TypeOK, OwnerInv, CarriedInv, Live, record.exists, NEW h \in Hosts,
         host[h].entry \/ host[h].attempt.step \in Holding
  PROVE  ghost.given \subseteq Known \cup host[h].attempt.seed \cup agent[h].seed
<1>1. \A m \in ghost.given \ Known : Seeded(m)
  BY DEF CarriedInv, Answers
<1> QED BY <1>1, Alone DEF CarriedInv

\* An attempt on a live row is its host's only hold on the Request, from its preparation on.
LEMMA InAttempt ==
  ASSUME OwnerInv, SoundInv, row # "ended", NEW h \in Hosts, host[h].attempt.step # "none"
  PROVE  /\ agent[h].seed = {}
         /\ host[h].attempt.step \notin {"starting", "resuming"} => host[h].attempt.seed = {}
  BY DEF OwnerInv, Owned, SoundInv, Sound

\* How a step moves the server's side.
LEMMA ServerStep ==
  ASSUME TypeOK, OwnerInv, CarriedInv, [Next]_vars
  PROVE  GivenMoves /\ ServerMoves
<1>0. /\ row \in Status /\ seen \in [Hosts -> View] /\ ghost \in GhostState /\ record \in RecordState
      /\ host \in [Hosts -> HostState] /\ agent \in [Hosts -> AgentState]
  BY DEF TypeOK
<1>a. /\ SoundInv /\ ghost.given \subseteq Request /\ \A h \in Hosts : Sound(h)
  BY GivenIsRequest DEF CarriedInv, SoundInv
<1>b. ASSUME UNCHANGED <<row, seen>>, record'.exists = record.exists, ghost'.given = ghost.given,
             Known \subseteq Known', ghost'.crashed = ghost.crashed
      PROVE  GivenMoves /\ ServerMoves
  BY <1>b DEF GivenMoves, ServerMoves
<1>c. ASSUME UNCHANGED seen, record'.exists = record.exists, ghost'.given = ghost.given,
             Known \subseteq Known', ghost'.crashed = ghost.crashed,
             NEW s \in {"running", "idle", "ended"}, row' = Reported(s),
             Live /\ s = "idle" => row # "queued" /\ ghost.given \subseteq Known'
      PROVE  GivenMoves /\ ServerMoves
  <2>1. row' # row => row # "ended" /\ row' = s
    BY <1>c DEF Reported
  <2>2. Live' => Live
    BY <1>c DEF Live, Reported
  <2> QED BY <1>c, <2>1, <2>2 DEF GivenMoves, ServerMoves, Answered
<1>1. ASSUME NEW m \in Messages, Send(m) \/ Withdraw(m) PROVE GivenMoves /\ ServerMoves
  BY <1>1, <1>b DEF Send, Withdraw, Known
<1>2. CASE EndSession
  BY <1>2 DEF EndSession, GivenMoves, ServerMoves, Known, Live
<1>3. CASE ClaimGoesStale \/ UNCHANGED vars
  BY <1>3, <1>b DEF ClaimGoesStale, vars, Known
<1>4. ASSUME NEW h \in Hosts, SyncRow(h) \/ SyncMessages(h) \/ Restart(h) PROVE GivenMoves /\ ServerMoves
  <2>1. UNCHANGED <<row, ghost, record>>
    BY <1>4 DEF SyncRow, SyncMessages, Restart
  <2>2. \/ seen' = [seen EXCEPT ![h].row = row] \/ seen' = [seen EXCEPT ![h].msg = msg]
        \/ seen' = [seen EXCEPT ![h] = [row |-> row, msg |-> msg]]
    BY <1>4 DEF SyncRow, SyncMessages, Restart
  <2>3. seen \in [Hosts -> [row : Status, msg : [Messages -> MessageState]]]
    BY <1>0 DEF View
  <2>4. \A g \in Hosts : seen'[g].row \in {seen[g].row, row}
    BY <2>2, <2>3
  <2> QED BY <2>1, <2>4 DEF GivenMoves, ServerMoves, Known
<1>5. ASSUME NEW h \in Hosts, Says(h) PROVE GivenMoves /\ ServerMoves
  <2>1. ~Live
    BY <1>5, <1>a DEF Says, Sound, Live
  <2>2. ghost'.given = ghost.given /\ Known \subseteq Known' /\ ghost'.crashed = ghost.crashed
    BY <1>0, <1>5 DEF Says, GhostState, Known
  <2> QED BY <1>5, <1>c, <2>1, <2>2 DEF Says
<1>6. ASSUME NEW h \in Hosts,
             Reclaim(h) \/ Quiet(h) \/ BeginLaunch(h) \/ BeginWake(h) \/ Kill(h) \/ Feed(h)
      PROVE  GivenMoves /\ ServerMoves
  <2>1. UNCHANGED <<row, seen, record, ghost>>
    BY <1>6 DEF Reclaim, Quiet, BeginLaunch, BeginWake, Kill, Feed
  <2> QED BY <1>b, <2>1 DEF Known
<1>7. ASSUME NEW h \in Hosts, ClaimRow(h) PROVE GivenMoves /\ ServerMoves
  <2>1. CASE ClaimLands /\ host' = Goes(h, "briefing")
    <3>1. host'[h].unsettled = host[h].unsettled /\ host[h].attempt.step = "claiming"
      BY <1>0, <1>7, <2>1, GoesReads DEF ClaimRow, At
    <3>2. GivenMoves
      BY <2>1, <3>1, ClaimMoves DEF GivenMoves, FirstClaim
    <3> QED BY <1>0, <1>7, <2>1, <3>2, ClaimMoves DEF ClaimRow, ServerMoves, Known, Status
  <2>2. CASE /\ row = "ended" /\ UNCHANGED <<row, msg, seen, record>>
             /\ ghost' = [ghost EXCEPT !.told = @ \cup Request]
    <3>1. ghost'.given = ghost.given /\ Known \subseteq Known' /\ ghost'.crashed = ghost.crashed
      BY <1>0, <2>2 DEF GhostState, Known
    <3> QED BY <1>b, <2>2, <3>1
  <2> QED BY <1>7, <2>1, <2>2 DEF ClaimRow
<1>8. ASSUME NEW h \in Hosts, ClaimUnanswered(h) PROVE GivenMoves /\ ServerMoves
  <2>1. CASE ClaimLands
    <3>1. host'[h].unsettled = host[h].unsettled /\ host[h].attempt.step = "claiming"
      BY <1>0, <1>8, DroppedUnsettled DEF ClaimUnanswered, At
    <3>2. GivenMoves
      BY <2>1, <3>1, ClaimMoves DEF GivenMoves, FirstClaim
    <3> QED BY <1>0, <1>8, <2>1, <3>2, ClaimMoves DEF ClaimUnanswered, ServerMoves, Known, Status
  <2>2. CASE UNCHANGED <<row, msg, ghost>>
    BY <1>8, <1>b, <2>2 DEF ClaimUnanswered, Known
  <2> QED BY <1>8, <2>1, <2>2 DEF ClaimUnanswered
<1>9. ASSUME NEW h \in Hosts, LaunchPrepared(h) \/ WakePrepared(h) PROVE GivenMoves /\ ServerMoves
  <2>1. UNCHANGED <<row, msg, seen, agent, ghost>> /\ record'.exists
    BY <1>0, <1>9 DEF LaunchPrepared, WakePrepared, RecordState
  <2>2. ~record.exists => host'[h].attempt.seed = Request
    <3>1. CASE LaunchPrepared(h)
      BY <1>0, <3>1 DEF LaunchPrepared, HostState
    <3>2. CASE WakePrepared(h) /\ ~record.exists
      <4>1. ~record.started
        BY <1>a, <3>2 DEF SoundInv
      <4>2. host' = [host EXCEPT ![h].attempt.step = "resuming", ![h].attempt.seed = Request]
        BY <3>2, <4>1 DEF WakePrepared
      <4> QED BY <1>0, <4>2 DEF HostState, AttemptState
    <3> QED BY <1>9, <3>1, <3>2
  <2>3. record.exists \/ \A m \in ghost'.given : Seeded(m)'
    BY <1>a, <2>1, <2>2 DEF Seeded
  <2> QED BY <2>1, <2>3 DEF GivenMoves, ServerMoves, Known
<1>10. ASSUME NEW h \in Hosts, LaunchFails(h) PROVE GivenMoves /\ ServerMoves
  <2>1. CASE UNCHANGED <<row, ghost>>
    BY <1>10, <1>b, <2>1 DEF LaunchFails, Known
  <2>2. CASE /\ row' \in {Reported("idle"), Reported(EndStatus)}
             /\ ghost' = [ghost EXCEPT !.told = @ \cup Request]
    <3>1. /\ ghost'.given = ghost.given /\ Known \subseteq Known' /\ ghost'.crashed = ghost.crashed
          /\ Request \subseteq Known'
      BY <1>0, <2>2 DEF GhostState, Known
    <3>2. UNCHANGED <<seen, record>> /\ row # "queued"
      BY <1>10, <1>a DEF LaunchFails, At, Sound
    <3>3. \E s \in {"running", "idle", "ended"} : row' = Reported(s)
      BY <2>2 DEF EndStatus
    <3> QED BY <1>a, <1>c, <3>1, <3>2, <3>3
  <2> QED BY <1>10, <2>1, <2>2 DEF LaunchFails
<1>11. ASSUME NEW h \in Hosts, WakeLock(h) \/ ConsumeLands(h) \/ ConsumeGivesUp(h) \/ AgentConsumes(h)
                               \/ AgentStops(h) \/ AgentOpens(h)
       PROVE GivenMoves /\ ServerMoves
  <2>1. UNCHANGED <<row, seen, ghost>>
    BY <1>11 DEF WakeLock, ConsumeLands, ConsumeGivesUp, AgentConsumes, AgentStops, AgentOpens
  <2>2. record'.exists = record.exists
    BY <1>0, <1>11 DEF WakeLock, ConsumeLands, ConsumeGivesUp, AgentConsumes, AgentStops, AgentOpens, RecordState
  <2> QED BY <1>b, <2>1, <2>2 DEF Known
<1>12. ASSUME NEW h \in Hosts, ContinueLock(h) PROVE GivenMoves /\ ServerMoves
  <2>1. ~Live
    BY <1>12, <1>a DEF ContinueLock, At, Sound, Live
  <2>2. (row' = row \/ row' = Reported("idle")) /\ UNCHANGED <<seen, record, ghost>>
    BY <1>12 DEF ContinueLock
  <2> QED BY <1>b, <1>c, <2>1, <2>2 DEF Known
<1>13. ASSUME NEW h \in Hosts, Spawned(h) PROVE GivenMoves /\ ServerMoves
  <2>1. row' = Reported("running") /\ UNCHANGED <<seen, record, ghost>>
    BY <1>13 DEF Spawned
  <2> QED BY <1>c, <2>1 DEF Known
<1>14. ASSUME NEW h \in Hosts, WakeFails(h) PROVE GivenMoves /\ ServerMoves
  <2>1. CASE UNCHANGED <<row, ghost>>
    BY <1>14, <1>b, <2>1 DEF WakeFails, Known
  <2>2. CASE /\ row' = Reported("idle")
             /\ ghost' = [ghost EXCEPT !.told = @ \cup host[h].attempt.batch \cup
                                  IF record.exists THEN {} ELSE Request]
    <3>1. /\ ghost'.given = ghost.given /\ Known \subseteq Known' /\ ghost'.crashed = ghost.crashed
          /\ record.exists \/ Request \subseteq Known'
      BY <1>0, <2>2 DEF GhostState, Known
    <3>2. UNCHANGED <<seen, record>> /\ row # "queued" /\ host[h].attempt.step = "waking"
      BY <1>14, <1>a DEF WakeFails, At, Sound
    <3>3. ASSUME Live PROVE ghost.given \subseteq Known'
      <4>1. agent[h].seed = {} /\ host[h].attempt.seed = {}
        BY <1>a, <3>2, <3>3, InAttempt DEF Live
      <4>2. CASE record.exists
        BY <3>1, <3>2, <3>3, <4>1, <4>2, InHand DEF Holding
      <4> QED BY <1>a, <3>1, <4>2
    <3> QED BY <1>c, <2>2, <3>1, <3>2, <3>3
  <2> QED BY <1>14, <2>1, <2>2 DEF WakeFails
<1>15. ASSUME NEW h \in Hosts, SpawnFails(h) PROVE GivenMoves /\ ServerMoves
  <2>1. /\ ghost'.given = ghost.given /\ Known \subseteq Known' /\ ghost'.crashed = ghost.crashed
        /\ host[h].attempt.seed \subseteq Known'
    BY <1>0, <1>15 DEF SpawnFails, GhostState, Known
  <2>2. /\ UNCHANGED <<seen, record>> /\ host[h].attempt.step \in {"starting", "resuming"}
        /\ row # "queued" /\ record.exists
    BY <1>15, <1>a DEF SpawnFails, At, Sound
  <2>3. \E s \in {"running", "idle", "ended"} : row' = Reported(s)
    BY <1>15 DEF SpawnFails, EndStatus
  <2>4. ASSUME Live PROVE ghost.given \subseteq Known'
    <3>1. agent[h].seed = {}
      BY <1>a, <2>2, <2>4, InAttempt DEF Live
    <3> QED BY <2>1, <2>2, <2>4, <3>1, InHand DEF Holding
  <2> QED BY <1>c, <2>1, <2>2, <2>3, <2>4
<1>16. ASSUME NEW h \in Hosts, AgentBegins(h) \/ AgentReads(h) PROVE GivenMoves /\ ServerMoves
  <2>1. UNCHANGED <<row, seen, record>>
    BY <1>16 DEF AgentBegins, AgentReads
  <2>2. ghost'.given = ghost.given /\ Known \subseteq Known' /\ ghost'.crashed = ghost.crashed
    BY <1>0, <1>16 DEF AgentBegins, AgentReads, GhostState, Known
  <2> QED BY <1>b, <2>1, <2>2
<1>17. ASSUME NEW h \in Hosts, AgentEnds(h) PROVE GivenMoves /\ ServerMoves
  <2>1. /\ ghost'.given = ghost.given /\ Known \subseteq Known' /\ ghost'.crashed = ghost.crashed
        /\ row # "ended" => agent[h].seed \subseteq Known'
    BY <1>0, <1>17 DEF AgentEnds, EndSaid, GhostState, Known
  <2>2. UNCHANGED seen /\ Running(h) /\ record'.exists = record.exists
    BY <1>0, <1>17 DEF AgentEnds, Running, RecordState
  <2>3. \E s \in {"running", "idle", "ended"} : row' = Reported(s)
    BY <1>17 DEF AgentEnds, EndSaid, EndStatus, Reported
  <2>4. record.exists /\ row # "queued"
    BY <1>a, <2>2 DEF SoundInv, Sound
  <2>5. ASSUME Live PROVE ghost.given \subseteq Known'
    <3>1. host[h].entry
      BY <2>2, <2>5 DEF OwnerInv, Owned, Live
    <3>2. host[h].attempt.seed = {}
      BY <1>a, <3>1 DEF OwnerInv, Owned, Sound
    <3> QED BY <2>1, <2>4, <2>5, <3>1, <3>2, InHand DEF Live
  <2> QED BY <1>c, <2>1, <2>2, <2>3, <2>4, <2>5
<1>18. ASSUME NEW h \in Hosts, Crash(h) PROVE GivenMoves /\ ServerMoves
  <2>1. UNCHANGED <<row, record>> /\ ghost' = [ghost EXCEPT !.crashed = TRUE]
    BY <1>18 DEF Crash
  <2>2. ghost'.given = ghost.given /\ Known' = Known /\ ghost'.crashed
    BY <1>0, <2>1 DEF GhostState, Known
  <2>3. \A g \in Hosts : seen'[g].row \in {seen[g].row, "queued"}
    BY <1>0, <1>18 DEF Crash
  <2> QED BY <2>1, <2>2, <2>3 DEF GivenMoves, ServerMoves, Live
<1> QED
  BY <1>1, <1>2, <1>3, <1>4, <1>5, <1>6, <1>7, <1>8, <1>9, <1>10, <1>11, <1>12, <1>13, <1>14, <1>15,
     <1>16, <1>17, <1>18 DEF Next, Pass, Attempt, Engine, Faulty

\* Every step but a crash keeps a host's hold on a start.
LEMMA HostStep ==
  ASSUME TypeOK, OwnerInv, CarriedInv, [Next]_vars, ServerMoves, Live'
  PROVE  \A g \in Hosts : HostMoves(g)
<1>0. /\ row \in Status /\ seen \in [Hosts -> View] /\ ghost \in GhostState /\ record \in RecordState
      /\ host \in [Hosts -> HostState] /\ agent \in [Hosts -> AgentState]
  BY DEF TypeOK
<1>a. /\ Live /\ SoundInv /\ Known \subseteq Known' /\ ghost.given \subseteq Request
      /\ \A h \in Hosts : Sound(h)
  BY GivenIsRequest DEF CarriedInv, SoundInv, ServerMoves, Live
<1>b. ASSUME UNCHANGED <<host, agent>> PROVE \A g \in Hosts : HostMoves(g)
  BY <1>b DEF HostMoves
<1>c. ASSUME NEW h \in Hosts, HostMoves(h), \A g \in Hosts : g # h => host'[g] = host[g] /\ agent'[g] = agent[g]
      PROVE  \A g \in Hosts : HostMoves(g)
  <2> SUFFICES ASSUME NEW g \in Hosts, g # h PROVE HostMoves(g)
    BY <1>c
  <2> QED BY <1>c DEF HostMoves
<1>d. ASSUME NEW h \in Hosts, host'[h].unsettled = Housekept(h).unsettled,
             host'[h].attempt.seed = host[h].attempt.seed \/ host[h].attempt.seed = {},
             agent'[h].seed = agent[h].seed,
             \A g \in Hosts : g # h => host'[g] = host[g] /\ agent'[g] = agent[g]
      PROVE  \A g \in Hosts : HostMoves(g)
  <2>1. Housekept(h).unsettled = IF seen[h].row \in {"queued", "running"} THEN host[h].unsettled ELSE 0
    BY <1>0, Kept
  <2>2. seen[h].row \in {"queued", "running", "idle", "ended"}
    BY <1>0 DEF View, Status
  <2>3. HostMoves(h)
    BY <1>d, <2>1, <2>2 DEF HostMoves
  <2> QED BY <1>c, <1>d, <2>3
<1>e. ASSUME NEW h \in Hosts, host[h].attempt.step \notin {"none", "starting", "resuming"}, agent'[h] = agent[h],
             \A g \in Hosts : g # h => host'[g] = host[g] /\ agent'[g] = agent[g],
             host'[h].unsettled = host[h].unsettled \/ record'.exists \/ Answered'
      PROVE  \A g \in Hosts : HostMoves(g)
  <2>1. agent[h].seed = {} /\ host[h].attempt.seed = {}
    BY <1>a, <1>e, InAttempt DEF Live
  <2>2. HostMoves(h)
    BY <1>e, <2>1 DEF HostMoves
  <2> QED BY <1>c, <1>e, <2>2
<1>1. ASSUME NEW m \in Messages, Send(m) \/ Withdraw(m) PROVE \A g \in Hosts : HostMoves(g)
  BY <1>1, <1>b DEF Send, Withdraw
<1>2. CASE EndSession \/ ClaimGoesStale \/ UNCHANGED vars
  BY <1>2, <1>b DEF EndSession, ClaimGoesStale, vars
<1>3. ASSUME NEW h \in Hosts, SyncRow(h) \/ SyncMessages(h) PROVE \A g \in Hosts : HostMoves(g)
  BY <1>3, <1>b DEF SyncRow, SyncMessages
<1>4. ASSUME NEW h \in Hosts, Reclaim(h) PROVE \A g \in Hosts : HostMoves(g)
  <2>1. /\ host'[h].unsettled = Housekept(h).unsettled
        /\ host'[h].attempt.seed = host[h].attempt.seed
        /\ \A g \in Hosts : g # h => host'[g] = host[g]
        /\ UNCHANGED agent
    BY <1>4, ReclaimReads
  <2> QED BY <1>d, <2>1
<1>5. ASSUME NEW h \in Hosts, NEW k, host' = [host EXCEPT ![h] = k], k.unsettled = Housekept(h).unsettled,
             k.attempt.seed = host[h].attempt.seed \/ host[h].attempt.seed = {},
             \/ UNCHANGED agent
             \/ agent'[h].seed = agent[h].seed /\ \A g \in Hosts : g # h => agent'[g] = agent[g]
      PROVE  \A g \in Hosts : HostMoves(g)
  <2>1. host'[h] = k /\ \A g \in Hosts : g # h => host'[g] = host[g]
    BY <1>0, <1>5
  <2> QED BY <1>5, <1>d, <2>1
<1>6. ASSUME NEW h \in Hosts, Quiet(h) PROVE \A g \in Hosts : HostMoves(g)
  <2>1. Housekept(h).attempt = host[h].attempt
    BY <1>0, Kept
  <2>2. host' = [host EXCEPT ![h] = Housekept(h)] /\ UNCHANGED agent
    BY <1>6 DEF Quiet
  <2> QED BY <1>5, <2>1, <2>2
<1>7. ASSUME NEW h \in Hosts, BeginLaunch(h) PROVE \A g \in Hosts : HostMoves(g)
  <2> DEFINE k == Housekept(h)
             u == IF k.unsettled < MaxAttempts THEN k.unsettled + 1 ELSE k.unsettled
             r == [k EXCEPT !.attempt.step = "claiming", !.unsettled = u]
  <2>1. host' = [host EXCEPT ![h] = r] \/ host' = [host EXCEPT ![h] = k]
    BY <1>7 DEF BeginLaunch
  <2>2. k \in HostState /\ k.attempt = host[h].attempt /\ UNCHANGED agent
    BY <1>0, <1>7, Kept DEF BeginLaunch
  <2>3. r.unsettled = u /\ r.attempt.seed = k.attempt.seed /\ u > 0
    BY <2>2, MaxAttemptsAssumption DEF HostState, AttemptState
  <2> HIDE DEF u, r
  <2>4. CASE host' = [host EXCEPT ![h] = r]
    <3>1. host'[h] = r /\ \A g \in Hosts : g # h => host'[g] = host[g]
      BY <1>0, <2>4
    <3>2. HostMoves(h)
      BY <2>2, <2>3, <3>1 DEF HostMoves
    <3> QED BY <1>c, <2>2, <3>1, <3>2
  <2>5. CASE host' = [host EXCEPT ![h] = k]
    BY <1>5, <2>2, <2>5
  <2> QED BY <2>1, <2>4, <2>5
<1>8. ASSUME NEW h \in Hosts, BeginWake(h) PROVE \A g \in Hosts : HostMoves(g)
  <2> DEFINE k == Housekept(h)
             covered == (PendingIn(h) \cap record.owed) \ k.consuming
             left == PendingIn(h) \ (record.owed \cup k.consuming)
             a == IF left \subseteq k.refused THEN NoAttempt
                  ELSE [step |-> "locking", batch |-> left, seed |-> {}]
             r == [k EXCEPT !.consuming = @ \cup covered, !.jobs = @ \cup covered, !.attempt = a]
  <2>1. host' = [host EXCEPT ![h] = r] /\ UNCHANGED agent
    BY <1>8 DEF BeginWake
  <2>2. k \in HostState /\ host[h].attempt.step = "none"
    BY <1>0, <1>8, Kept DEF BeginWake
  <2>3. host[h].attempt.seed = {}
    BY <1>a, <2>2 DEF Sound
  <2> HIDE DEF covered, a
  <2>4. r.unsettled = k.unsettled
    BY <2>2 DEF HostState
  <2> HIDE DEF r
  <2> QED BY <1>5, <2>1, <2>3, <2>4
<1>9. ASSUME NEW h \in Hosts, Kill(h) \/ Feed(h) PROVE \A g \in Hosts : HostMoves(g)
  <2>1. Housekept(h) \in HostState /\ Housekept(h).attempt = host[h].attempt
    BY <1>0, Kept
  <2>2. CASE Kill(h)
    <3> DEFINE r == [Housekept(h) EXCEPT !.entry = FALSE, !.handed = {}]
    <3>1. host' = [host EXCEPT ![h] = r] /\ agent' = [agent EXCEPT ![h].state = "closing"]
      BY <2>2 DEF Kill
    <3>2. r.unsettled = Housekept(h).unsettled /\ r.attempt = host[h].attempt
      BY <2>1 DEF HostState
    <3>3. agent'[h].seed = agent[h].seed /\ \A g \in Hosts : g # h => agent'[g] = agent[g]
      BY <1>0, <3>1 DEF AgentState
    <3> HIDE DEF r
    <3> QED BY <1>5, <3>1, <3>2, <3>3
  <2>3. CASE Feed(h)
    <3> DEFINE ha == (Housekept(h).handed \ Revoked(h)) \cup FreshFor(h)
               r == [Housekept(h) EXCEPT !.handed = ha]
    <3>1. host' = [host EXCEPT ![h] = r]
      BY <2>3 DEF Feed
    <3> HIDE DEF ha
    <3>2. r.unsettled = Housekept(h).unsettled /\ r.attempt = host[h].attempt
      BY <2>1 DEF HostState
    <3>3. agent'[h].seed = agent[h].seed /\ \A g \in Hosts : g # h => agent'[g] = agent[g]
      BY <1>0, <2>3 DEF Feed, AgentState
    <3> HIDE DEF r
    <3> QED BY <1>5, <3>1, <3>2, <3>3
  <2> QED BY <1>9, <2>2, <2>3
<1>10. ASSUME NEW h \in Hosts, NEW r, host' = [host EXCEPT ![h] = r], UNCHANGED agent,
              r.unsettled = host[h].unsettled, r.attempt = host[h].attempt
       PROVE  \A g \in Hosts : HostMoves(g)
  <2>1. host'[h] = r /\ \A g \in Hosts : g # h => host'[g] = host[g]
    BY <1>0, <1>10
  <2>2. HostMoves(h)
    BY <1>10, <2>1 DEF HostMoves
  <2> QED BY <1>10, <1>c, <2>1, <2>2
<1>11. ASSUME NEW h \in Hosts, Says(h) \/ ConsumeLands(h) \/ ConsumeGivesUp(h) \/ Restart(h)
       PROVE  \A g \in Hosts : HostMoves(g)
  <2> DEFINE s == [host[h] EXCEPT !.says = "nothing"]
             j == [host[h] EXCEPT !.jobs = {}]
             u == [host[h] EXCEPT !.up = TRUE]
  <2>1. /\ UNCHANGED agent
        /\ \/ host' = [host EXCEPT ![h] = s] \/ host' = [host EXCEPT ![h] = j]
           \/ host' = [host EXCEPT ![h] = u]
    BY <1>11 DEF Says, ConsumeLands, ConsumeGivesUp, Restart
  <2>2. /\ s.unsettled = host[h].unsettled /\ s.attempt = host[h].attempt
        /\ j.unsettled = host[h].unsettled /\ j.attempt = host[h].attempt
        /\ u.unsettled = host[h].unsettled /\ u.attempt = host[h].attempt
    BY <1>0 DEF HostState
  <2> HIDE DEF s, j, u
  <2> QED BY <1>10, <2>1, <2>2
<1>12. ASSUME NEW h \in Hosts, host[h].attempt.step \notin {"none", "starting", "resuming"},
              UNCHANGED agent, host' = Dropped(h) \/ \E s \in Steps : host' = Goes(h, s)
       PROVE  \A g \in Hosts : HostMoves(g)
  <2>1. CASE host' = Dropped(h)
    <3>1. host'[h].unsettled = host[h].unsettled /\ \A g \in Hosts : g # h => host'[g] = host[g]
      BY <1>0, <2>1, DroppedUnsettled
    <3> QED BY <1>12, <1>e, <3>1
  <2>2. ASSUME NEW s \in Steps, host' = Goes(h, s) PROVE \A g \in Hosts : HostMoves(g)
    <3>1. host'[h].unsettled = host[h].unsettled /\ \A g \in Hosts : g # h => host'[g] = host[g]
      BY <1>0, <2>2, GoesReads
    <3> QED BY <1>12, <1>e, <3>1
  <2> QED BY <1>12, <2>1, <2>2
<1>13. ASSUME NEW h \in Hosts, ClaimRow(h) \/ ClaimUnanswered(h) \/ WakeLock(h) \/ ContinueLock(h)
       PROVE  \A g \in Hosts : HostMoves(g)
  <2>1. /\ host[h].attempt.step \in {"claiming", "locking", "reclaiming"} /\ UNCHANGED agent
        /\ \/ host' = Dropped(h) \/ host' = Goes(h, "briefing") \/ host' = Goes(h, "waking")
    BY <1>13, <1>a DEF ClaimRow, ClaimUnanswered, WakeLock, ContinueLock, At, Live
  <2> QED BY <1>12, <2>1 DEF Steps
<1>14. ASSUME NEW h \in Hosts, LaunchPrepared(h) \/ WakePrepared(h) PROVE \A g \in Hosts : HostMoves(g)
  <2>1. /\ host[h].attempt.step \in {"briefing", "waking"} /\ UNCHANGED agent /\ record'.exists
        /\ \A g \in Hosts : g # h => host'[g] = host[g]
    BY <1>0, <1>14 DEF LaunchPrepared, WakePrepared, At, RecordState
  <2> QED BY <1>e, <2>1
<1>15. ASSUME NEW h \in Hosts, LaunchFails(h) PROVE \A g \in Hosts : HostMoves(g)
  <2>1. host[h].attempt.step = "briefing" /\ UNCHANGED agent
    BY <1>15 DEF LaunchFails, At
  <2>2. CASE host' = Dropped(h)
    BY <1>12, <2>1, <2>2
  <2>3. CASE /\ host' = [Dropped(h) EXCEPT ![h].unsettled = 0]
             /\ row' \in {Reported("idle"), Reported(EndStatus)}
             /\ ghost' = [ghost EXCEPT !.told = @ \cup Request]
    <3>1. ghost'.given = ghost.given /\ Request \subseteq Known'
      BY <1>0, <2>3 DEF GhostState, Known
    <3>2. row # "queued" /\ row' # "queued"
      BY <1>a, <2>1, <2>3 DEF Sound, Reported, EndStatus
    <3>3. Answered'
      BY <1>a, <3>1, <3>2 DEF Answered
    <3>4. \A g \in Hosts : g # h => host'[g] = host[g]
      BY <1>0, <2>3, DroppedUnsettled
    <3> QED BY <1>e, <2>1, <3>3, <3>4
  <2> QED BY <1>15, <2>2, <2>3 DEF LaunchFails
<1>16. ASSUME NEW h \in Hosts, WakeFails(h) PROVE \A g \in Hosts : HostMoves(g)
  <2>1. host[h].attempt.step = "waking" /\ UNCHANGED agent
    BY <1>16 DEF WakeFails, At
  <2>2. CASE host' = Dropped(h)
    BY <1>12, <2>1, <2>2
  <2>3. CASE host' # Dropped(h)
    <3> DEFINE b == host[h].attempt.batch
    <3>1. PICK tried \in {{}, IF record.exists THEN {} ELSE b} :
              host' = [host EXCEPT
                      ![h].attempt = NoAttempt, ![h].refused = b,
                      ![h].jobs = @ \cup (tried \ host[h].consuming),
                      ![h].consuming = @ \cup tried]
      BY <1>16, <2>3 DEF WakeFails
    <3> HIDE DEF b
    <3>2. host'[h].unsettled = host[h].unsettled /\ \A g \in Hosts : g # h => host'[g] = host[g]
      BY <1>0, <3>1 DEF HostState
    <3> QED BY <1>e, <2>1, <3>2
  <2> QED BY <2>2, <2>3
<1>17. ASSUME NEW h \in Hosts, Spawned(h) PROVE \A g \in Hosts : HostMoves(g)
  <2>1. host[h].attempt.step \in {"starting", "resuming"}
    BY <1>17 DEF Spawned, At
  <2>2. agent[h].seed = {}
    BY <1>a, <2>1, InAttempt DEF Live
  <2>3. host'[h].unsettled = host[h].unsettled /\ agent'[h].seed = host[h].attempt.seed
    BY <1>0, <1>17 DEF Spawned, HostState, NoAgent
  <2>4. \A g \in Hosts : g # h => host'[g] = host[g] /\ agent'[g] = agent[g]
    BY <1>0, <1>17 DEF Spawned
  <2>5. HostMoves(h)
    BY <2>2, <2>3 DEF HostMoves
  <2> QED BY <1>c, <2>4, <2>5
<1>18. ASSUME NEW h \in Hosts, SpawnFails(h) PROVE \A g \in Hosts : HostMoves(g)
  <2>1. host[h].attempt.step \in {"starting", "resuming"} /\ UNCHANGED agent
    BY <1>18 DEF SpawnFails, At
  <2>2. agent[h].seed = {} /\ host[h].attempt.seed \subseteq Known'
    BY <1>0, <1>18, <1>a, <2>1, InAttempt DEF Live, SpawnFails, GhostState, Known
  <2>3. host'[h].unsettled = host[h].unsettled /\ \A g \in Hosts : g # h => host'[g] = host[g]
    <3>1. CASE host' = Dropped(h)
      BY <1>0, <3>1, DroppedUnsettled
    <3>2. CASE host' = [host EXCEPT ![h].attempt = NoAttempt, ![h].refused = host[h].attempt.batch]
      BY <1>0, <3>2 DEF HostState
    <3> QED BY <1>18, <3>1, <3>2 DEF SpawnFails
  <2>4. HostMoves(h)
    BY <2>1, <2>2, <2>3 DEF HostMoves
  <2> QED BY <1>c, <2>1, <2>3, <2>4
<1>19. ASSUME NEW h \in Hosts, UNCHANGED host, \A g \in Hosts : g # h => agent'[g] = agent[g],
              agent[h].seed \subseteq agent'[h].seed \cup Known'
       PROVE  \A g \in Hosts : HostMoves(g)
  <2>1. HostMoves(h)
    BY <1>19 DEF HostMoves
  <2> QED BY <1>19, <1>c, <2>1
<1>20. ASSUME NEW h \in Hosts, AgentOpens(h) \/ AgentReads(h) \/ AgentConsumes(h) \/ AgentStops(h)
       PROVE  \A g \in Hosts : HostMoves(g)
  <2>1. UNCHANGED host
    BY <1>20 DEF AgentOpens, AgentReads, AgentConsumes, AgentStops
  <2>2. agent'[h].seed = agent[h].seed /\ \A g \in Hosts : g # h => agent'[g] = agent[g]
    <3>1. CASE AgentOpens(h)
      BY <1>0, <3>1 DEF AgentOpens, AgentState
    <3>2. CASE AgentReads(h)
      BY <1>0, <3>2 DEF AgentReads, AgentState
    <3>3. CASE AgentConsumes(h)
      BY <1>0, <3>3 DEF AgentConsumes, AgentState
    <3>4. CASE AgentStops(h)
      BY <1>0, <3>4 DEF AgentStops, AgentState
    <3> QED BY <1>20, <3>1, <3>2, <3>3, <3>4
  <2> QED BY <1>19, <2>1, <2>2
<1>21. ASSUME NEW h \in Hosts, AgentBegins(h) \/ AgentEnds(h) PROVE \A g \in Hosts : HostMoves(g)
  <2>1. UNCHANGED host /\ \A g \in Hosts : g # h => agent'[g] = agent[g]
    BY <1>0, <1>21 DEF AgentBegins, AgentEnds
  <2>2. agent[h].seed \subseteq Known'
    BY <1>0, <1>a, <1>21 DEF AgentBegins, AgentEnds, EndSaid, Live, GhostState, Known
  <2> QED BY <1>19, <2>1, <2>2
<1>22. ASSUME NEW h \in Hosts, Crash(h) PROVE FALSE
  BY <1>0, <1>22 DEF Crash, GhostState, Live
<1> QED
  BY <1>1, <1>2, <1>3, <1>4, <1>6, <1>7, <1>8, <1>9, <1>11, <1>13, <1>14, <1>15, <1>16, <1>17, <1>18,
     <1>20, <1>21, <1>22 DEF Next, Pass, Attempt, Engine, Faulty

\* Every step keeps the start carried.
LEMMA CarriedStep == TypeOK /\ OwnerInv /\ CarriedInv /\ [Next]_vars => CarriedInv'
<1> SUFFICES ASSUME TypeOK, OwnerInv, CarriedInv, [Next]_vars PROVE CarriedInv'
  OBVIOUS
<1>0. SentInOrder /\ GivenIsFirst /\ SoundInv /\ (Live => Answers)
  BY DEF CarriedInv
<1>1. GivenMoves /\ ServerMoves
  BY ServerStep
<1>2. SentInOrder' /\ GivenIsFirst' /\ SoundInv'
  BY <1>0, <1>1, OrderStep, SoundStep
<1> SUFFICES ASSUME Live' PROVE Answers'
  BY <1>2 DEF CarriedInv
<1>3. \A g \in Hosts : HostMoves(g)
  BY <1>1, HostStep
<1>4. Live /\ Answers /\ Known \subseteq Known'
  BY <1>0, <1>1 DEF ServerMoves, Live
<1>5. Answered => Answered'
  BY <1>1, <1>4 DEF Answered, GivenMoves, FirstClaim, ServerMoves
<1>6. ASSUME record'.exists PROVE \A m \in ghost'.given \ Known' : Seeded(m)'
  <2>1. CASE ~record.exists
    BY <1>1, <1>6, <2>1 DEF ServerMoves
  <2>2. CASE record.exists
    <3>1. ghost'.given = ghost.given
      BY <1>0, <1>1, <2>2 DEF GivenMoves, FirstClaim, SoundInv
    <3> SUFFICES ASSUME NEW m \in ghost.given, m \notin Known' PROVE Seeded(m)'
      BY <3>1
    <3>2. PICK g \in Hosts : m \in host[g].attempt.seed \cup agent[g].seed
      BY <1>4, <2>2 DEF Answers, Seeded
    <3>3. m \in host'[g].attempt.seed \cup agent'[g].seed
      BY <1>3, <3>2 DEF HostMoves
    <3> QED BY <3>3 DEF Seeded
  <2> QED BY <2>1, <2>2
<1>7. ASSUME row' = "idle" PROVE Answered'
  BY <1>1, <1>4, <1>5, <1>7 DEF ServerMoves, Answers
<1>8. ASSUME NEW h \in Hosts, seen'[h].row = "idle" PROVE Answered'
  <2>1. seen[h].row = "idle" \/ row = "idle"
    BY <1>1, <1>8 DEF ServerMoves
  <2> QED BY <1>4, <1>5, <2>1 DEF Answers
<1>9. \/ record'.exists \/ ghost'.given \subseteq Known'
      \/ \E h \in Hosts : host'[h].unsettled > 0
  <2> SUFFICES ASSUME ~record'.exists, ~(ghost'.given \subseteq Known')
               PROVE  \E h \in Hosts : host'[h].unsettled > 0
    OBVIOUS
  <2>1. CASE FirstClaim
    BY <1>0, <2>1 DEF FirstClaim, SoundInv, Sound
  <2>2. CASE ghost'.given = ghost.given
    <3>1. ~record.exists /\ ~Answered' /\ ~(ghost.given \subseteq Known)
      BY <1>1, <1>4, <2>2 DEF ServerMoves, Answered
    <3>2. PICK h \in Hosts : host[h].unsettled > 0
      BY <1>4, <3>1 DEF Answers
    <3>3. seen[h].row \notin {"idle", "ended"}
      BY <1>4, <1>5, <3>1 DEF Answers, OwnerInv, Owned, Live
    <3>4. host'[h].unsettled > 0
      BY <1>3, <3>1, <3>2, <3>3 DEF HostMoves
    <3> QED BY <3>4
  <2> QED BY <1>1, <2>1, <2>2 DEF GivenMoves
<1> QED BY <1>6, <1>7, <1>8, <1>9 DEF Answers

\* Without a crash, a Request the server consumed at the claim and nobody read or was told of yet
\* is carried, on every number of hosts and attempts: a host counts the row as unsettled and will
\* launch it again, or the very message is in the prompt of an attempt or of an engine that did
\* not begin its first turn. The row never sits running with nothing behind it.
THEOREM StartsAreCarried == Spec => []StartIsCarried
<1>1. Init => OwnerInv /\ CarriedInv
  <2> SUFFICES ASSUME Init PROVE OwnerInv /\ CarriedInv
    OBVIOUS
  <2>1. OwnerInv
    BY DEF Init, OwnerInv, Owned, Running, Holding, FreshHost, NoAttempt, NoAgent
  <2>2. SentInOrder
    <3> SUFFICES ASSUME NEW m \in Messages, NEW n \in Messages, n < m, msg[m] # "unsent" PROVE FALSE
      BY DEF SentInOrder
    <3>1. m \in Oldest(Messages)
      BY DEF Init
    <3> QED BY <3>1, MessagesAssumption DEF Oldest
  <2>3. ghost.given = {} /\ row = "queued" /\ ~record.exists /\ ~record.started
    BY DEF Init
  <2>4. GivenIsFirst
    BY <2>3 DEF GivenIsFirst
  <2>5. SoundInv
    BY <2>3 DEF Init, SoundInv, Sound, Running, FreshHost, NoAttempt, NoAgent
  <2>6. Answers
    BY <2>3 DEF Init, Answers
  <2> QED BY <2>1, <2>2, <2>4, <2>5, <2>6 DEF CarriedInv
<1>2. CarriedInv => StartIsCarried
  BY DEF CarriedInv, Live, Answers, Seeded, StartIsCarried, Carries
<1> QED BY <1>1, <1>2, OwnedStep, CarriedStep, PickupTyped, PTL DEF Spec

=============================================================================
