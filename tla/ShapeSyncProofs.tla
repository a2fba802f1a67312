-------------------------- MODULE ShapeSyncProofs --------------------------
(***************************************************************************)
(* Proofs about ShapeSync: the types, that a live shape is whole, that no  *)
(* update is lost, and that a refetch swaps the whole table at once.       *)
(***************************************************************************)
EXTENDS ShapeSync, SequenceTheorems, FiniteSetTheorems, TLAPS

-----------------------------------------------------------------------------
\* The server's logs.

LogOK ==
    /\ log \in Seq(ShapeLog)
    /\ Current \in 1..MaxShapes
    /\ \A h \in 1..Current : log[h].snapshot <= Length(h) /\ Length(h) <= MaxLog

\* What every step leaves of a log: its handles, its positions and its snapshot.
LogKeeps ==
    /\ Current' \in Nat /\ Current <= Current'
    /\ \A h \in 1..Current :
         /\ Length(h) <= Length(h)'
         /\ log'[h].snapshot = log[h].snapshot
         /\ \A n \in 0..Length(h) : At(h, n)' = At(h, n)

LEMMA LogFacts ==
  ASSUME LogOK
  PROVE  /\ Current \in Nat \ {0} /\ MaxShapes \in Nat
         /\ \A h \in 1..Current :
              /\ log[h].tables \in Seq(Table) /\ Length(h) \in 0..MaxLog
              /\ log[h].snapshot \in Nat
              /\ \A n \in 0..Length(h) : At(h, n) \in Table
<1>1. Blank \in Table
  BY DEF Blank, Table
<1>2. \A h \in 1..Current : log[h] \in ShapeLog
  BY ElementOfSeq DEF LogOK, Current
<1>3. ASSUME NEW h \in 1..Current
      PROVE  log[h].tables \in Seq(Table) /\ Length(h) \in 0..MaxLog /\ log[h].snapshot \in Nat
  BY <1>2, <1>3, BoundsAssumption, LenProperties DEF LogOK, ShapeLog, Length
<1>4. ASSUME NEW h \in 1..Current, NEW n \in 0..Length(h)
      PROVE  At(h, n) \in Table
  <2>1. CASE n = 0
    BY <1>1, <2>1 DEF At
  <2>2. CASE n # 0
    <3>1. n \in 1..Len(log[h].tables)
      BY <1>3, <2>2 DEF Length
    <3> QED BY <1>3, <2>2, <3>1, ElementOfSeq DEF At
  <2> QED BY <2>1, <2>2
<1> QED BY <1>3, <1>4, BoundsAssumption DEF LogOK

\* A snapshot is a log of its own.
LEMMA NewShapeOK ==
  ASSUME NEW s \in Snapshots, Len(s) <= MaxLog
  PROVE  /\ NewShape(s) \in ShapeLog
         /\ Len(NewShape(s).tables) = NewShape(s).snapshot
<1>1. Cardinality(Keys) \in Nat
  BY RowsAssumption, FS_CardinalityType
<1>2. PICK n \in 0..Cardinality(Keys) : s \in [1..n -> Table]
  BY DEF Snapshots
<1>3. n \in Nat
  BY <1>1
<1>4. s \in Seq(Table) /\ Len(s) \in Nat
  BY <1>2, <1>3
<1> QED BY <1>4, BoundsAssumption DEF NewShape, ShapeLog

LEMMA ChangeKeepsLog ==
  ASSUME LogOK, Change
  PROVE  LogOK' /\ LogKeeps
<1> DEFINE c == Current
<1>1. c \in 1..Len(log) /\ c \in Nat /\ c \in 1..MaxShapes
  BY LogFacts DEF Current, LogOK
<1>2. PICK k \in Keys, v \in Values \cup {Absent} :
        log' = [log EXCEPT ![c].tables = Append(@, [At(c, Length(c)) EXCEPT ![k] = v])]
  BY DEF Change
<1> DEFINE T == [At(c, Length(c)) EXCEPT ![k] = v]
           new == [log[c] EXCEPT !.tables = Append(@, T)]
<1>3. At(c, Length(c)) \in Table
  BY <1>1, LogFacts DEF Current
<1>4. T \in Table
  BY <1>3 DEF Table
<1>5. log[c].tables \in Seq(Table) /\ log[c] \in ShapeLog
  BY <1>1, LogFacts, ElementOfSeq DEF LogOK, Current
<1>6. /\ Append(log[c].tables, T) \in Seq(Table)
      /\ Len(Append(log[c].tables, T)) = Length(c) + 1
      /\ \A i \in 1..Length(c) : Append(log[c].tables, T)[i] = log[c].tables[i]
  BY <1>4, <1>5, AppendProperties DEF Length
<1>7. /\ new \in ShapeLog /\ new.tables = Append(log[c].tables, T)
      /\ new.snapshot = log[c].snapshot
  BY <1>5, <1>6 DEF ShapeLog
<1>8. log' = [log EXCEPT ![c] = new]
  BY <1>1, <1>2
<1> HIDE DEF T, new, c
<1>9. log' \in Seq(ShapeLog) /\ Len(log') = Len(log)
      /\ \A h \in 1..Len(log) : log'[h] = IF h = c THEN new ELSE log[h]
  BY <1>1, <1>7, <1>8, ExceptSeq DEF LogOK
<1>10. Current' = Current
  BY <1>9 DEF Current
<1>11. Length(c) \in Nat /\ Length(c) < MaxLog
  BY <1>1, LogFacts DEF Change, c, Current
<1>12. ASSUME NEW h \in 1..Current
       PROVE  /\ log'[h].snapshot = log[h].snapshot
              /\ Length(h)' = IF h = c THEN Length(h) + 1 ELSE Length(h)
              /\ \A n \in 0..Length(h) : At(h, n)' = At(h, n)
  <2>1. h \in 1..Len(log) /\ Length(h) \in Nat
    BY <1>12, LogFacts DEF Current
  <2>2. CASE h = c
    BY <1>6, <1>7, <1>9, <2>1, <2>2 DEF Length, At
  <2>3. CASE h # c
    BY <1>9, <2>1, <2>3 DEF Length, At
  <2> QED BY <2>2, <2>3
<1>13. \A h \in 1..Current : log'[h].snapshot <= Length(h)' /\ Length(h)' <= MaxLog
                             /\ Length(h) <= Length(h)'
  BY <1>11, <1>12, LogFacts, BoundsAssumption DEF LogOK
<1>14. LogOK'
  BY <1>9, <1>10, <1>13 DEF LogOK
<1>15. LogKeeps
  BY <1>10, <1>12, <1>13, LogFacts DEF LogKeeps
<1> QED BY <1>14, <1>15

LEMMA RotateKeepsLog ==
  ASSUME LogOK, Rotate
  PROVE  LogOK' /\ LogKeeps
<1>1. PICK s \in Snapshots : Len(s) <= MaxLog /\ log' = Append(log, NewShape(s))
  BY DEF Rotate
<1>2. NewShape(s) \in ShapeLog /\ Len(NewShape(s).tables) = NewShape(s).snapshot
  BY <1>1, NewShapeOK
<1>3. /\ log' \in Seq(ShapeLog) /\ Len(log') = Len(log) + 1
      /\ \A h \in 1..Len(log) : log'[h] = log[h]
      /\ log'[Len(log) + 1] = NewShape(s)
  BY <1>1, <1>2, AppendProperties DEF LogOK
<1>4. Current' = Current + 1 /\ Current \in Nat \ {0} /\ Current < MaxShapes /\ MaxShapes \in Nat
  BY <1>3, LogFacts DEF Current, Rotate
<1>5. ASSUME NEW h \in 1..Current
      PROVE  log'[h] = log[h] /\ Length(h)' = Length(h) /\ Length(h) \in Nat
             /\ \A n \in 0..Length(h) : At(h, n)' = At(h, n)
  BY <1>3, <1>5, LogFacts DEF Current, Length, At
<1>6. NewShape(s).snapshot \in 0..MaxLog /\ NewShape(s).snapshot <= MaxLog
  BY <1>2, BoundsAssumption DEF ShapeLog
<1>7. \A h \in 1..Current' : log'[h].snapshot <= Length(h)' /\ Length(h)' <= MaxLog
  <2> SUFFICES ASSUME NEW h \in 1..Current'
               PROVE  log'[h].snapshot <= Length(h)' /\ Length(h)' <= MaxLog
    OBVIOUS
  <2>1. CASE h \in 1..Current
    BY <1>5, <2>1 DEF LogOK
  <2>2. CASE h = Current + 1
    BY <1>2, <1>3, <1>6, <2>2 DEF Length, Current
  <2> QED BY <1>4, <2>1, <2>2
<1>8. LogOK'
  BY <1>3, <1>4, <1>7 DEF LogOK
<1>9. LogKeeps
  BY <1>4, <1>5 DEF LogKeeps
<1> QED BY <1>8, <1>9

LEMMA SameLog ==
  ASSUME LogOK, UNCHANGED log
  PROVE  LogOK' /\ LogKeeps
<1>1. LogOK'
  BY DEF LogOK, Current, Length
<1>2. Current' = Current /\ \A h \in 1..Current : Length(h)' = Length(h) /\ \A n \in 0..Length(h) : At(h, n)' = At(h, n)
  BY DEF Current, Length, At
<1> QED BY <1>1, <1>2, LogFacts DEF LogKeeps

-----------------------------------------------------------------------------
\* The saved cursor, the threads' copies of it and the responses they hold.

\* A saved state points into its log, and is live only past the snapshot.
SavedIn(L, s) ==
    /\ s \in SavedState
    /\ s.handle <= Len(L)
    /\ s.offset <= IF s.handle = 0 THEN 0 ELSE Len(L[s.handle].tables)
    /\ s.live => ~s.refetch /\ s.handle # 0 /\ s.offset >= L[s.handle].snapshot

\* A response goes on where its request asked, in the log the request named.
ReplyIn(L, s, r) ==
    /\ r \in ReplyState
    /\ r.handle <= Len(L)
    /\ r.kind \in {"rows", "empty", "inline"} =>
         /\ r.handle # 0
         /\ r.from = From(s) /\ r.from <= r.to /\ r.to <= Len(L[r.handle].tables)
         /\ s.handle # 0 /\ ~s.refetch => r.handle = s.handle
         /\ r.upToDate => r.to >= L[r.handle].snapshot
    /\ r.kind = "inline" => ~s.refetch /\ s.handle # 0
    /\ r.kind = "empty" => ~r.upToDate

ThreadIn(L, th) ==
    /\ th \in ThreadState
    /\ SavedIn(L, th.saved)
    /\ th.pc = "applying" => ReplyIn(L, th.saved, th.reply)

ThreadsOK == thread \in [Threads -> ThreadState] /\ \A t \in Threads : ThreadIn(log, thread[t])

SyncInv ==
    /\ LogOK
    /\ table \in Table
    /\ SavedIn(log, saved)
    /\ ThreadsOK
    /\ stale \subseteq Keys
    /\ faults \in 0..MaxFaults

LEMMA SyncInvTyped == SyncInv => TypeOK
BY DEF SyncInv, TypeOK, LogOK, SavedIn, ThreadsOK, Length, Current

LEMMA SyncInvWhole == SyncInv => LiveIsWhole
BY DEF SyncInv, SavedIn, LiveIsWhole

LEMMA GrowsSaved ==
  ASSUME LogOK, LogKeeps, NEW s, SavedIn(log, s)
  PROVE  SavedIn(log', s)
<1>1. s.handle \in Nat /\ s.offset \in Nat /\ s \in SavedState
  BY BoundsAssumption DEF SavedIn, SavedState
<1>2. Current \in Nat /\ Current' \in Nat /\ Current <= Current' /\ s.handle <= Current
  BY LogFacts DEF LogKeeps, SavedIn, Current
<1>3. CASE s.handle = 0
  BY <1>1, <1>2, <1>3 DEF SavedIn, Current
<1>4. CASE s.handle # 0
  <2>1. s.handle \in 1..Current
    BY <1>1, <1>2, <1>4
  <2>2. /\ Length(s.handle) <= Len(log'[s.handle].tables)
        /\ log'[s.handle].snapshot = log[s.handle].snapshot
    BY <2>1 DEF LogKeeps, Length
  <2> QED BY <1>1, <1>2, <1>4, <2>1, <2>2 DEF SavedIn, Current, Length
<1> QED BY <1>3, <1>4

LEMMA GrowsReply ==
  ASSUME LogOK, LogOK', LogKeeps, NEW s, NEW r, ReplyIn(log, s, r)
  PROVE  ReplyIn(log', s, r)
<1>1. r \in ReplyState /\ r.handle \in Nat /\ r.to \in Nat /\ r.from \in Nat
  BY BoundsAssumption DEF ReplyIn, ReplyState
<1>2. Current \in Nat /\ Current' \in Nat /\ Current <= Current' /\ r.handle <= Current
  BY LogFacts DEF LogKeeps, ReplyIn, Current
<1>3. ASSUME r.handle # 0
      PROVE  /\ Length(r.handle) \in Nat /\ Length(r.handle) <= Len(log'[r.handle].tables)
             /\ log'[r.handle].snapshot = log[r.handle].snapshot
  <2>1. r.handle \in 1..Current
    BY <1>1, <1>2, <1>3
  <2> QED BY <2>1, LogFacts DEF LogKeeps, Length
<1>4. ASSUME r.handle # 0
      PROVE  Len(log'[r.handle].tables) \in Nat
  <2>1. r.handle \in 1..Current'
    BY <1>1, <1>2, <1>4
  <2>2. log'[r.handle] \in ShapeLog
    BY <2>1, ElementOfSeq DEF LogOK, Current
  <2> QED BY <2>2, LenProperties DEF ShapeLog
<1> QED BY <1>1, <1>2, <1>3, <1>4 DEF ReplyIn, Current, Length

LEMMA GrowsThread ==
  ASSUME LogOK, LogOK', LogKeeps, NEW th, ThreadIn(log, th)
  PROVE  ThreadIn(log', th)
BY GrowsSaved, GrowsReply DEF ThreadIn

\* A step of one thread.
LEMMA SetThread ==
  ASSUME LogOK, LogOK', LogKeeps, ThreadsOK, NEW t \in Threads, NEW th, ThreadIn(log', th),
         thread' = [thread EXCEPT ![t] = th]
  PROVE  ThreadsOK'
<1>1. th \in ThreadState
  BY DEF ThreadIn
<1>2. thread' \in [Threads -> ThreadState]
  BY <1>1 DEF ThreadsOK
<1>3. ASSUME NEW u \in Threads PROVE ThreadIn(log', thread'[u])
  <2>1. CASE u = t
    BY <2>1 DEF ThreadsOK
  <2>2. CASE u # t
    <3>1. thread'[u] = thread[u] /\ ThreadIn(log, thread[u])
      BY <2>2 DEF ThreadsOK
    <3> QED BY <3>1, GrowsThread
  <2> QED BY <2>1, <2>2
<1> QED BY <1>2, <1>3 DEF ThreadsOK

LEMMA SameThreads ==
  ASSUME LogOK, LogOK', LogKeeps, ThreadsOK, UNCHANGED thread
  PROVE  ThreadsOK'
<1>1. ASSUME NEW u \in Threads PROVE ThreadIn(log', thread[u])
  BY GrowsThread DEF ThreadsOK
<1> QED BY <1>1 DEF ThreadsOK

\* No saved state, a marker, a thread between polls or gone.
LEMMA FreshStates ==
  ASSUME LogOK
  PROVE  /\ SavedIn(log, NoState)
         /\ \A h \in 0..Current : SavedIn(log, RefetchMarker(h))
         /\ NoReply \in ReplyState
         /\ ThreadIn(log, NoThread)
         /\ \A first \in BOOLEAN : ThreadIn(log, [NoThread EXCEPT !.pc = "top", !.stop = FALSE, !.first = first])
         /\ ThreadIn(log, [NoThread EXCEPT !.pc = "top", !.stop = FALSE])
<1>1. Current \in Nat \ {0} /\ MaxShapes \in Nat /\ Current <= MaxShapes /\ MaxLog \in Nat
  BY LogFacts, BoundsAssumption DEF LogOK
<1>2. NoState \in SavedState /\ NoReply \in ReplyState
  BY <1>1 DEF NoState, SavedState, NoReply, ReplyState
<1>3. SavedIn(log, NoState)
  BY <1>1, <1>2 DEF SavedIn, NoState, Current
<1>4. ASSUME NEW h \in 0..Current PROVE SavedIn(log, RefetchMarker(h))
  <2>1. RefetchMarker(h) \in SavedState
    BY <1>1 DEF RefetchMarker, SavedState
  <2>2. h # 0 => Len(log[h].tables) \in Nat
    BY <1>1, LogFacts, BoundsAssumption DEF Length
  <2> QED BY <1>1, <2>1, <2>2 DEF SavedIn, RefetchMarker, Current
<1>5. NoThread \in ThreadState /\ NoThread.saved = NoState /\ NoThread.pc = "off"
  BY <1>2 DEF NoThread, ThreadState
<1>6. ASSUME NEW first \in BOOLEAN
      PROVE  ThreadIn(log, [NoThread EXCEPT !.pc = "top", !.stop = FALSE, !.first = first])
  BY <1>2, <1>3 DEF ThreadIn, NoThread, ThreadState
<1>7. ThreadIn(log, NoThread) /\ ThreadIn(log, [NoThread EXCEPT !.pc = "top", !.stop = FALSE])
  BY <1>2, <1>3, <1>5 DEF ThreadIn, NoThread, ThreadState
<1> QED BY <1>2, <1>3, <1>4, <1>6, <1>7

-----------------------------------------------------------------------------
\* The steps keep SyncInv.

\* What the answers are made of.
LEMMA ServerFacts ==
  ASSUME LogOK, NEW s, SavedIn(log, s)
  PROVE  /\ Current \in Nat \ {0} /\ Current = Len(log) /\ Current \in 0..MaxShapes
         /\ MaxShapes \in Nat /\ MaxLog \in Nat
         /\ Length(Current) \in Nat /\ Length(Current) <= MaxLog
         /\ log[Current].snapshot \in Nat /\ log[Current].snapshot <= Length(Current)
         /\ s.handle \in 0..Current /\ s.offset \in Nat /\ s.refetch \in BOOLEAN /\ s.handle \in 0..MaxShapes
         /\ s.handle # 0 => /\ Length(s.handle) \in Nat /\ Length(s.handle) <= MaxLog
                            /\ s.offset <= Length(s.handle)
         /\ Answered(s) => From(s) \in Nat /\ From(s) <= Length(Current)
<1>1. /\ Current \in Nat \ {0} /\ Current = Len(log) /\ Current \in 0..MaxShapes
      /\ MaxShapes \in Nat /\ MaxLog \in Nat
  BY LogFacts, BoundsAssumption DEF LogOK, Current
<1>2. /\ Length(Current) \in Nat /\ Length(Current) <= MaxLog
      /\ log[Current].snapshot \in Nat /\ log[Current].snapshot <= Length(Current)
  BY <1>1, LogFacts DEF LogOK
<1>3. s.handle \in 0..Current /\ s.offset \in Nat /\ s.refetch \in BOOLEAN /\ s.handle \in 0..MaxShapes
  BY <1>1 DEF SavedIn, SavedState
<1>4. s.handle # 0 => /\ Length(s.handle) \in Nat /\ Length(s.handle) <= MaxLog
                      /\ s.offset <= Length(s.handle)
  BY <1>1, <1>3, LogFacts DEF SavedIn, Length
<1>5. s.handle = 0 => s.offset = 0
  BY <1>3 DEF SavedIn
<1>6. Answered(s) => From(s) \in Nat /\ From(s) <= Length(Current)
  BY <1>2, <1>3, <1>4, <1>5 DEF Answered, From
<1> QED BY <1>1, <1>2, <1>3, <1>4, <1>6

LEMMA ReplyFields ==
  ASSUME NEW kind, NEW h, NEW m, NEW n, NEW u, NEW headers
  PROVE  LET r == Reply(kind, h, m, n, u, headers)
         IN  /\ r.kind = kind /\ r.handle = h /\ r.from = m /\ r.to = n
             /\ r.upToDate = u /\ r.headers = headers
             /\ (/\ kind \in {"none", "rows", "inline", "refused", "empty"} /\ h \in 0..MaxShapes
                 /\ m \in 0..MaxLog /\ n \in 0..MaxLog /\ u \in BOOLEAN /\ headers \in BOOLEAN)
                => r \in ReplyState
BY DEF Reply, ReplyState

LEMMA ChunkFits ==
  ASSUME LogOK, NEW s, SavedIn(log, s), Answered(s), NEW headers \in BOOLEAN,
         NEW r \in Chunks(s, headers), Sent(s, r)
  PROVE  ReplyIn(log, s, r)
<1>1. PICK n \in From(s)..Length(Current), u \in BOOLEAN : r = Reply("rows", Current, From(s), n, u, headers)
  BY DEF Chunks
<1>2. n \in Nat /\ From(s) \in Nat /\ From(s) <= n /\ n <= Length(Current)
  BY ServerFacts
<1>3. n \in 0..MaxLog /\ From(s) \in 0..MaxLog
  BY <1>2, ServerFacts
<1>4. /\ r.kind = "rows" /\ r.handle = Current /\ r.from = From(s) /\ r.to = n /\ r.upToDate = u
      /\ r \in ReplyState
  BY <1>1, <1>3, ReplyFields, ServerFacts
<1>5. s.handle # 0 => s.handle = Current
  BY DEF Answered
<1>6. r.upToDate => r.to = Length(Current)
  BY <1>4 DEF Sent
<1> QED BY <1>2, <1>4, <1>5, <1>6, ServerFacts DEF ReplyIn, Length

LEMMA RefusalFits ==
  ASSUME LogOK, NEW s, SavedIn(log, s), NEW h \in 0..Current
  PROVE  ReplyIn(log, s, Reply("refused", h, 0, 0, FALSE, FALSE))
<1> DEFINE r == Reply("refused", h, 0, 0, FALSE, FALSE)
<1>1. h \in 0..MaxShapes /\ h <= Len(log) /\ 0 \in 0..MaxLog
  BY ServerFacts
<1>2. r.kind = "refused" /\ r.handle = h /\ r \in ReplyState
  BY <1>1 DEF Reply, ReplyState
<1> HIDE DEF r
<1>3. ReplyIn(log, s, r)
  BY <1>1, <1>2 DEF ReplyIn
<1> QED BY <1>3 DEF r

LEMMA InlineFits ==
  ASSUME LogOK, NEW s, SavedIn(log, s), ~Answered(s), ~s.refetch, NEW n \in s.offset..Length(s.handle)
  PROVE  ReplyIn(log, s, Reply("inline", s.handle, s.offset, n, FALSE, FALSE))
<1> DEFINE r == Reply("inline", s.handle, s.offset, n, FALSE, FALSE)
<1>1. s.handle # 0 /\ s.handle \in 0..MaxShapes /\ s.handle <= Len(log)
  BY ServerFacts DEF Answered
<1>2. n \in Nat /\ s.offset \in Nat /\ s.offset <= n /\ n <= Length(s.handle)
  BY <1>1, ServerFacts
<1>3. n \in 0..MaxLog /\ s.offset \in 0..MaxLog
  BY <1>1, <1>2, ServerFacts
<1>4. /\ r.kind = "inline" /\ r.handle = s.handle /\ r.from = s.offset /\ r.to = n /\ r.upToDate = FALSE
      /\ r \in ReplyState
  BY <1>1, <1>3 DEF Reply, ReplyState
<1> HIDE DEF r
<1>5. ReplyIn(log, s, r)
  BY <1>1, <1>2, <1>4 DEF ReplyIn, From, Length
<1> QED BY <1>5 DEF r

LEMMA EmptyFits ==
  ASSUME LogOK, NEW s, SavedIn(log, s), Answered(s), NEW n \in From(s)..Length(Current)
  PROVE  ReplyIn(log, s, Reply("empty", Current, From(s), n, FALSE, TRUE))
<1> DEFINE r == Reply("empty", Current, From(s), n, FALSE, TRUE)
<1>1. n \in Nat /\ From(s) \in Nat /\ From(s) <= n /\ n <= Length(Current)
  BY ServerFacts
<1>2. n \in 0..MaxLog /\ From(s) \in 0..MaxLog
  BY <1>1, ServerFacts
<1>3. /\ r.kind = "empty" /\ r.handle = Current /\ r.from = From(s) /\ r.to = n /\ r.upToDate = FALSE
      /\ r \in ReplyState
  <2>1. Current \in 0..MaxShapes
    BY ServerFacts
  <2> QED BY <1>2, <2>1 DEF Reply, ReplyState
<1>4. s.handle # 0 => s.handle = Current
  BY DEF Answered
<1> HIDE DEF r
<1>5. ReplyIn(log, s, r)
  BY <1>1, <1>3, <1>4, ServerFacts DEF ReplyIn, Length
<1> QED BY <1>5 DEF r

\* The server's answers are about its current log, or refuse.
LEMMA RepliesFit ==
  ASSUME LogOK, NEW s, SavedIn(log, s), NEW r, r \in Good(s) \/ r \in Odd(s)
  PROVE  ReplyIn(log, s, r)
<1>0. 0 \in 0..Current /\ Current \in 0..Current
  BY ServerFacts
<1>1. CASE Answered(s) /\ r \in Good(s)
  <2>1. r \in Chunks(s, TRUE) /\ Sent(s, r)
    BY <1>1 DEF Good
  <2> QED BY <1>1, <2>1, ChunkFits
<1>2. CASE ~Answered(s) /\ r \in Good(s)
  <2>1. CASE \E h \in {0, Current} : r = Reply("refused", h, 0, 0, FALSE, FALSE)
    BY <1>0, <2>1, RefusalFits
  <2>2. CASE ~s.refetch /\ \E n \in s.offset..Length(s.handle) :
                             r = Reply("inline", s.handle, s.offset, n, FALSE, FALSE)
    BY <1>2, <2>2, InlineFits
  <2> QED BY <1>2, <2>1, <2>2 DEF Good
<1>3. CASE Answered(s) /\ r \in Odd(s)
  <2>1. CASE r = Reply("refused", 0, 0, 0, FALSE, FALSE)
    BY <1>0, <2>1, RefusalFits
  <2>2. CASE \E n \in From(s)..Length(Current) : r = Reply("empty", Current, From(s), n, FALSE, TRUE)
    BY <1>3, <2>2, EmptyFits
  <2>3. CASE r \in Chunks(s, FALSE) /\ Sent(s, r)
    BY <1>3, <2>3, ChunkFits
  <2> QED BY <1>3, <2>1, <2>2, <2>3 DEF Odd
<1>4. CASE ~Answered(s) /\ r \in Odd(s)
  BY <1>4 DEF Odd
<1> QED BY <1>1, <1>2, <1>3, <1>4

\* A cursor after its batch, and a table after one.
LEMMA AfterApplyFits ==
  ASSUME LogOK, NEW s, SavedIn(log, s), NEW r, ReplyIn(log, s, r), r.kind \in {"rows", "empty"}
  PROVE  SavedIn(log, AfterApply(s, r))
<1>1. /\ r.handle \in 0..MaxShapes /\ r.handle # 0 /\ r.to \in 0..MaxLog /\ r.from \in 0..MaxLog
      /\ r.upToDate \in BOOLEAN /\ s.live \in BOOLEAN /\ s.refetch \in BOOLEAN
  BY DEF ReplyIn, ReplyState, SavedIn, SavedState
<1>2. AfterApply(s, r) \in SavedState
  BY <1>1 DEF AfterApply, SavedState
<1>3. s.live /\ ~s.refetch => r.to >= log[r.handle].snapshot
  <2> SUFFICES ASSUME s.live, ~s.refetch PROVE r.to >= log[r.handle].snapshot
    OBVIOUS
  <2>1. s.handle # 0 /\ s.offset >= log[s.handle].snapshot
    BY DEF SavedIn
  <2>2. r.handle = s.handle /\ r.from = s.offset /\ r.from <= r.to
    BY <2>1 DEF ReplyIn, From
  <2>3. r.handle \in 1..Current
    BY <1>1, LogFacts, BoundsAssumption DEF ReplyIn, Current
  <2>4. log[r.handle].snapshot \in Nat
    BY <2>3, LogFacts
  <2> QED BY <1>1, <2>1, <2>2, <2>4, BoundsAssumption
<1>4. r.upToDate => r.to >= log[r.handle].snapshot
  BY DEF ReplyIn
<1>5. r.handle <= Len(log) /\ r.to <= Len(log[r.handle].tables)
  BY DEF ReplyIn
<1> QED BY <1>1, <1>2, <1>3, <1>4, <1>5 DEF SavedIn, AfterApply

LEMMA PatchedFits ==
  ASSUME LogOK, NEW base \in Table, NEW h \in 1..Current, NEW m, NEW n \in 0..Length(h)
  PROVE  Patched(base, h, m, n) \in Table
<1>1. At(h, n) \in Table
  BY LogFacts
<1> QED BY <1>1 DEF Patched, Table

\* A response of rows is about positions of a log there is.
LEMMA ReplyPlace ==
  ASSUME LogOK, NEW s, NEW r, ReplyIn(log, s, r), r.kind \in {"rows", "empty", "inline"}
  PROVE  /\ r.handle \in 1..Current /\ r.to \in 0..Length(r.handle)
         /\ r.from \in Nat /\ r.to \in Nat /\ r.from <= r.to
<1>1. r.handle \in Nat /\ r.to \in Nat /\ r.from \in Nat
  BY BoundsAssumption DEF ReplyIn, ReplyState
<1>2. r.handle \in 1..Current
  BY <1>1, LogFacts DEF ReplyIn, Current
<1> QED BY <1>1, <1>2, LogFacts DEF ReplyIn, Length

LEMMA LoopFits ==
  ASSUME LogOK, NEW t, NEW first \in BOOLEAN
  PROVE  ThreadIn(log, Loop(t, first))
BY FreshStates DEF Loop

LEMMA ThreadFields ==
  ASSUME ThreadsOK, NEW t \in Threads
  PROVE  /\ thread[t] \in ThreadState /\ ThreadIn(log, thread[t]) /\ SavedIn(log, thread[t].saved)
         /\ thread[t].first \in BOOLEAN /\ thread[t].stop \in BOOLEAN
BY DEF ThreadsOK, ThreadIn, ThreadState

LEMMA PollKeeps ==
  ASSUME SyncInv, NEW t \in Threads, Poll(t)
  PROVE  SyncInv'
<1> DEFINE copy == [saved EXCEPT !.live = @ /\ ~thread[t].first]
           th == [thread[t] EXCEPT !.pc = "sent", !.saved = copy]
<1>1. thread[t] \in ThreadState /\ thread[t].first \in BOOLEAN
  BY ThreadFields DEF SyncInv
<1>2. SavedIn(log, copy)
  BY <1>1 DEF SyncInv, SavedIn, SavedState
<1>3. th \in ThreadState /\ th.saved = copy /\ th.pc = "sent"
  BY <1>1, <1>2 DEF ThreadState, SavedIn
<1>4. thread' = [thread EXCEPT ![t] = th]
  BY <1>1 DEF Poll, SyncInv, ThreadsOK
<1> HIDE DEF copy, th
<1>5. ThreadIn(log, th)
  BY <1>2, <1>3 DEF ThreadIn
<1>6. UNCHANGED <<log, table, saved, stale, faults>>
  BY DEF Poll
<1>7. LogOK' /\ LogKeeps
  BY <1>6, SameLog DEF SyncInv
<1>8. ThreadsOK'
  BY <1>4, <1>5, <1>6, <1>7, SetThread DEF SyncInv
<1> QED BY <1>6, <1>7, <1>8 DEF SyncInv

LEMMA ReceiveKeeps ==
  ASSUME SyncInv, NEW t \in Threads, Receive(t)
  PROVE  SyncInv'
<1> DEFINE s == thread[t].saved
<1>1. PICK r : /\ r \in Good(s) \/ r \in Odd(s)
               /\ thread' = [thread EXCEPT ![t].pc = "applying", ![t].reply = r]
  BY DEF Receive
<1> DEFINE th == [thread[t] EXCEPT !.pc = "applying", !.reply = r]
<1>2. thread[t] \in ThreadState /\ SavedIn(log, s)
  BY ThreadFields DEF SyncInv
<1> HIDE DEF s
<1>3. ReplyIn(log, s, r)
  BY <1>1, <1>2, RepliesFit DEF SyncInv
<1> USE DEF s
<1>4. th \in ThreadState /\ th.saved = s /\ th.pc = "applying" /\ th.reply = r
  BY <1>2, <1>3 DEF ThreadState, ReplyIn
<1>5. thread' = [thread EXCEPT ![t] = th]
  BY <1>1, <1>2 DEF SyncInv, ThreadsOK
<1> HIDE DEF s, th
<1>6. ThreadIn(log, th)
  BY <1>2, <1>3, <1>4 DEF ThreadIn
<1>7. UNCHANGED <<log, table, saved, stale>> /\ faults' \in 0..MaxFaults
  BY BoundsAssumption DEF Receive, Fault, SyncInv
<1>8. LogOK' /\ LogKeeps
  BY <1>7, SameLog DEF SyncInv
<1>9. ThreadsOK'
  BY <1>5, <1>6, <1>7, <1>8, SetThread DEF SyncInv
<1> QED BY <1>7, <1>8, <1>9 DEF SyncInv

\* A step that ends a thread's round, or its life, and leaves the rest of the thread fresh.
LEMMA RoundEnds ==
  ASSUME SyncInv, NEW t \in Threads, NEW th, ThreadIn(log, th),
         thread' = [thread EXCEPT ![t] = th], UNCHANGED log
  PROVE  LogOK' /\ ThreadsOK'
<1>1. LogOK' /\ LogKeeps
  BY SameLog DEF SyncInv
<1> QED BY <1>1, SetThread DEF SyncInv

LEMMA FaultCounts == ASSUME SyncInv, Fault PROVE faults' \in 0..MaxFaults
BY BoundsAssumption DEF Fault, SyncInv

LEMMA DiscardKeeps ==
  ASSUME SyncInv, NEW t \in Threads, Discard(t)
  PROVE  SyncInv'
<1>1. ThreadIn(log, NoThread)
  BY FreshStates DEF SyncInv
<1>2. LogOK' /\ ThreadsOK'
  BY <1>1, RoundEnds DEF Discard
<1> QED BY <1>2 DEF Discard, SyncInv

LEMMA FailKeeps ==
  ASSUME SyncInv, NEW t \in Threads, Fail(t)
  PROVE  SyncInv'
<1>1. ThreadIn(log, Loop(t, thread[t].first))
  BY LoopFits, ThreadFields DEF SyncInv
<1>2. LogOK' /\ ThreadsOK'
  BY <1>1, RoundEnds DEF Fail
<1>3. faults' \in 0..MaxFaults
  BY FaultCounts DEF Fail
<1> QED BY <1>2, <1>3 DEF Fail, SyncInv

LEMMA ApplyRefusedKeeps ==
  ASSUME SyncInv, NEW t \in Threads, ApplyRefused(t)
  PROVE  SyncInv'
<1>1. ThreadIn(log, Loop(t, FALSE))
  BY LoopFits DEF SyncInv
<1>2. LogOK' /\ ThreadsOK'
  BY <1>1, RoundEnds DEF ApplyRefused, Polled
<1>3. ReplyIn(log, thread[t].saved, thread[t].reply)
  BY ThreadFields DEF SyncInv, ThreadIn, ApplyRefused
<1>4. thread[t].reply.handle \in 0..Current
  BY <1>3, LogFacts DEF ReplyIn, ReplyState, Current, SyncInv
<1>5. SavedIn(log, RefetchMarker(thread[t].reply.handle))
  BY <1>4, FreshStates DEF SyncInv
<1> QED BY <1>2, <1>5 DEF ApplyRefused, Refused, SyncInv

LEMMA PassedTyped ==
  ASSUME stale \subseteq Keys, NEW r, NEW next
  PROVE  Passed(r, next) \subseteq Keys
<1>1. \A h, m, n : Touched(h, m, n) \subseteq Keys
  BY DEF Touched
<1>2. CASE saved.refetch \/ saved.handle \notin {0, r.handle}
  BY <1>2 DEF Passed
<1>3. CASE ~(saved.refetch \/ saved.handle \notin {0, r.handle}) /\ next.handle = 0
  BY <1>1, <1>3 DEF Passed
<1>4. CASE ~(saved.refetch \/ saved.handle \notin {0, r.handle}) /\ next.handle # 0
  BY <1>1, <1>4 DEF Passed
<1> QED BY <1>2, <1>3, <1>4

LEMMA ApplyInlineKeeps ==
  ASSUME SyncInv, NEW t \in Threads, ApplyInline(t)
  PROVE  SyncInv'
<1> DEFINE th == [thread[t] EXCEPT !.pc = "marking"]
           r == thread[t].reply
<1>1. thread[t] \in ThreadState /\ SavedIn(log, thread[t].saved) /\ ThreadIn(log, thread[t])
  BY ThreadFields DEF SyncInv
<1>2. th \in ThreadState /\ th.saved = thread[t].saved /\ th.pc = "marking"
  BY <1>1 DEF ThreadState
<1>3. ReplyIn(log, thread[t].saved, r) /\ r.kind = "inline"
  BY <1>1 DEF ThreadIn, ApplyInline
<1>4. thread' = [thread EXCEPT ![t] = th]
  BY <1>1 DEF ApplyInline, SyncInv, ThreadsOK
<1> HIDE DEF th
<1>5. ThreadIn(log, th)
  BY <1>1, <1>2 DEF ThreadIn
<1>6. LogOK' /\ ThreadsOK'
  BY <1>4, <1>5, RoundEnds DEF ApplyInline
<1>7. table' \in Table
  <2>1. r.handle \in 1..Current /\ r.to \in 0..Length(r.handle)
    BY <1>3, ReplyPlace DEF SyncInv
  <2>2. table' = Patched(table, r.handle, r.from, r.to)
    BY DEF ApplyInline
  <2> HIDE DEF r
  <2> QED BY <2>1, <2>2, PatchedFits DEF SyncInv
<1>8. stale' \subseteq Keys
  BY PassedTyped DEF ApplyInline, SyncInv
<1> QED BY <1>6, <1>7, <1>8 DEF ApplyInline, SyncInv

LEMMA MarkInlineKeeps ==
  ASSUME SyncInv, NEW t \in Threads, MarkInline(t)
  PROVE  SyncInv'
<1>1. ThreadIn(log, Loop(t, FALSE))
  BY LoopFits DEF SyncInv
<1>2. LogOK' /\ ThreadsOK'
  BY <1>1, RoundEnds DEF MarkInline, Polled
<1>3. SavedIn(log, RefetchMarker(0))
  <2>1. 0 \in 0..Current
    BY LogFacts DEF SyncInv
  <2> QED BY <2>1, FreshStates DEF SyncInv
<1> QED BY <1>2, <1>3 DEF MarkInline, SyncInv

LEMMA ApplyRowsKeeps ==
  ASSUME SyncInv, NEW t \in Threads, ApplyRows(t)
  PROVE  SyncInv'
<1> DEFINE s == thread[t].saved
           r == thread[t].reply
<1>1. ThreadIn(log, Loop(t, FALSE))
  BY LoopFits DEF SyncInv
<1>2. LogOK' /\ ThreadsOK'
  BY <1>1, RoundEnds DEF ApplyRows, Polled
<1>3. SavedIn(log, s) /\ ReplyIn(log, s, r) /\ r.kind \in {"rows", "empty"}
  BY ThreadFields DEF SyncInv, ThreadIn, ApplyRows
<1>4. r.handle \in 1..Current /\ r.to \in 0..Length(r.handle)
  BY <1>3, ReplyPlace DEF SyncInv
<1>5. SavedIn(log, AfterApply(s, r))
  BY <1>3, AfterApplyFits DEF SyncInv
<1>6. Base(t) \in Table
  BY DEF Base, Blank, Table, SyncInv
<1>7. Patched(Base(t), r.handle, r.from, r.to) \in Table
  <2> HIDE DEF r
  <2> QED BY <1>4, <1>6, PatchedFits DEF SyncInv
<1>8. Batch(Base(t), r) \in Table
  BY <1>6, <1>7 DEF Batch
<1>9. /\ table' \in {table, Batch(Base(t), r)}
      /\ saved' \in {saved, AfterApply(s, r)}
      /\ UNCHANGED <<log, faults>>
  BY DEF ApplyRows
<1>10. stale' \subseteq Keys
  BY PassedTyped DEF ApplyRows, SyncInv
<1> HIDE DEF s, r
<1> QED BY <1>2, <1>5, <1>8, <1>9, <1>10 DEF SyncInv

LEMMA ManagerKeeps ==
  ASSUME SyncInv, NEW t \in Threads, StopPipeline(t) \/ StartPipeline(t)
  PROVE  SyncInv'
<1>1. thread[t] \in ThreadState /\ ThreadIn(log, thread[t])
  BY ThreadFields DEF SyncInv
<1>2. ThreadIn(log, [thread[t] EXCEPT !.stop = TRUE])
  BY <1>1 DEF ThreadIn, ThreadState
<1>3. CASE StopPipeline(t)
  <2>1. ThreadIn(log, IF thread[t].pc = "top" THEN NoThread ELSE [thread[t] EXCEPT !.stop = TRUE])
    BY <1>2, FreshStates DEF SyncInv
  <2>2. thread' = [thread EXCEPT ![t] = IF thread[t].pc = "top" THEN NoThread
                                       ELSE [thread[t] EXCEPT !.stop = TRUE]]
    BY <1>3 DEF StopPipeline, SyncInv, ThreadsOK
  <2>3. LogOK' /\ ThreadsOK'
    BY <1>3, <2>1, <2>2, RoundEnds DEF StopPipeline
  <2>4. faults' \in 0..MaxFaults
    BY <1>3, FaultCounts DEF StopPipeline
  <2> QED BY <1>3, <2>3, <2>4 DEF StopPipeline, SyncInv
<1>4. CASE StartPipeline(t)
  <2>1. LogOK' /\ ThreadsOK'
    BY <1>4, FreshStates, RoundEnds DEF StartPipeline, SyncInv
  <2> QED BY <1>4, <2>1 DEF StartPipeline, SyncInv
<1> QED BY <1>3, <1>4

LEMMA CrashKeeps ==
  ASSUME SyncInv, Crash
  PROVE  SyncInv'
<1>1. LogOK' /\ LogKeeps
  BY SameLog DEF Crash, SyncInv
<1>2. ThreadIn(log, NoThread) /\ NoThread \in ThreadState
  BY FreshStates DEF SyncInv, ThreadIn
<1>3. ThreadsOK'
  BY <1>2 DEF Crash, ThreadsOK
<1>4. faults' \in 0..MaxFaults
  BY FaultCounts DEF Crash
<1> QED BY <1>1, <1>3, <1>4 DEF Crash, SyncInv

LEMMA ServerKeeps ==
  ASSUME SyncInv, Change \/ Rotate
  PROVE  SyncInv'
<1>1. LogOK' /\ LogKeeps
  BY ChangeKeepsLog, RotateKeepsLog DEF SyncInv
<1>2. UNCHANGED <<table, saved, thread, stale, faults>>
  BY DEF Change, Rotate
<1>3. SavedIn(log', saved)
  BY <1>1, GrowsSaved DEF SyncInv
<1>4. ThreadsOK'
  BY <1>1, <1>2, SameThreads DEF SyncInv
<1> QED BY <1>1, <1>2, <1>3, <1>4 DEF SyncInv

LEMMA SyncStart == Init => SyncInv
<1> SUFFICES ASSUME Init PROVE SyncInv
  OBVIOUS
<1>1. PICK s \in Snapshots : Len(s) <= MaxLog /\ log = <<NewShape(s)>>
  BY DEF Init
<1>2. NewShape(s) \in ShapeLog /\ Len(NewShape(s).tables) = NewShape(s).snapshot
  BY <1>1, NewShapeOK
<1>3. log \in Seq(ShapeLog) /\ Len(log) = 1 /\ log[1] = NewShape(s)
  BY <1>1, <1>2
<1>4. NewShape(s).snapshot \in 0..MaxLog
  BY <1>2 DEF ShapeLog
<1>5. LogOK
  BY <1>2, <1>3, <1>4, BoundsAssumption DEF LogOK, Current, Length
<1>6. ThreadIn(log, NoThread) /\ NoThread \in ThreadState /\ SavedIn(log, NoState)
  BY <1>5, FreshStates DEF ThreadIn
<1>7. ThreadsOK
  BY <1>6 DEF ThreadsOK, Init
<1>8. Blank \in Table
  BY DEF Blank, Table
<1>9. table = Blank /\ saved = NoState /\ stale = {} /\ faults = 0
  BY DEF Init
<1>10. faults \in 0..MaxFaults
  BY <1>9, BoundsAssumption
<1>11. stale \subseteq Keys
  BY <1>9
<1> QED BY <1>5, <1>6, <1>7, <1>8, <1>9, <1>10, <1>11 DEF SyncInv

LEMMA SyncStutter == ASSUME SyncInv, UNCHANGED vars PROVE SyncInv'
BY DEF vars, SyncInv, LogOK, Current, Length, ThreadsOK

LEMMA SyncNext == ASSUME SyncInv, [Next]_vars PROVE SyncInv'
<1>1. CASE Change \/ Rotate
  BY <1>1, ServerKeeps
<1>2. CASE Crash
  BY <1>2, CrashKeeps
<1>3. ASSUME NEW t \in Threads, Step(t) PROVE SyncInv'
  BY <1>3, PollKeeps, ReceiveKeeps, DiscardKeeps, ApplyRefusedKeeps, ApplyInlineKeeps,
     MarkInlineKeeps, ApplyRowsKeeps DEF Step
<1>4. ASSUME NEW t \in Threads, Fail(t) \/ StopPipeline(t) \/ StartPipeline(t) PROVE SyncInv'
  BY <1>4, FailKeeps, ManagerKeeps
<1>5. CASE UNCHANGED vars
  BY <1>5, SyncStutter
<1> QED BY <1>1, <1>2, <1>3, <1>4, <1>5 DEF Next

LEMMA SyncAlways == Spec => []SyncInv
<1>1. SyncInv /\ [Next]_vars => SyncInv'
  BY SyncNext
<1> QED BY <1>1, SyncStart, PTL DEF Spec

\* The store only ever holds what its types say, and every cursor, saved or in a thread's hands,
\* names a position of a log the server has: ShapeStore and ShapeClient, whatever fails between them.
THEOREM SyncTyped == Spec => []TypeOK
<1>1. SyncInv => TypeOK
  BY SyncInvTyped
<1> QED BY <1>1, SyncAlways, PTL

\* A shape the app is told is live holds its whole snapshot: chunks, rotations, refusals, crashes
\* and stragglers never carry the live mark past it.
THEOREM LiveMeansWhole == Spec => []LiveIsWhole
<1>1. SyncInv => LiveIsWhole
  BY SyncInvWhole
<1> QED BY <1>1, SyncAlways, PTL

-----------------------------------------------------------------------------
\* The table: each row is what the cursor stands for, except the stale ones.

\* Position m of log h is where row k stays to the end of the log.
Settled(h, m, k) == \A i \in m..Length(h) : At(h, i)[k] = At(h, m)[k]

\* v is what cursor s says of row k, unless an operation that follows writes the row.
RowFits(v, s, k) ==
    /\ s.handle = 0 => v = Absent
    /\ s.handle # 0 /\ Settled(s.handle, s.offset, k) => v = At(s.handle, s.offset)[k]

TableFits == ~saved.refetch => \A k \in Keys \ stale : RowFits(table[k], saved, k)

TableInv == SyncInv /\ TableFits

LEMMA FitsReach == TableInv => CatchUpReaches
<1> SUFFICES ASSUME TableInv, saved.handle = Current, ~saved.refetch, NEW k \in Keys \ stale
             PROVE  Patched(table, Current, saved.offset, Length(Current))[k]
                      = At(Current, Length(Current))[k]
  BY DEF CatchUpReaches
<1> DEFINE c == Current
           m == saved.offset
<1>1. c \in 1..Current /\ c # 0 /\ Length(c) \in Nat
  BY LogFacts, BoundsAssumption DEF TableInv, SyncInv
<1>2. m \in Nat /\ m <= Length(c)
  BY <1>1, BoundsAssumption DEF TableInv, SyncInv, SavedIn, SavedState, Length
<1>3. ASSUME k \notin Touched(c, m, Length(c))
      PROVE  table[k] = At(c, Length(c))[k]
  <2>1. Settled(c, m, k)
    BY <1>3 DEF Touched, Settled
  <2>2. Length(c) \in m..Length(c)
    BY <1>1, <1>2
  <2>3. At(c, Length(c))[k] = At(c, m)[k]
    BY <2>1, <2>2 DEF Settled
  <2> QED BY <1>1, <2>1, <2>3 DEF TableInv, TableFits, RowFits
<1> HIDE DEF c, m
<1>4. Patched(table, c, m, Length(c))[k] = At(c, Length(c))[k]
  BY <1>3 DEF Patched
<1> QED BY <1>4 DEF c, m

\* A row that fits position o fits position n once a batch m..e is applied to it, if neither the
\* gap before the batch nor the one after it writes the row behind the batch's back.
LEMMA PassedFits ==
  ASSUME LogOK, NEW h \in 1..Current, NEW o \in 0..Length(h), NEW m \in 0..Length(h),
         NEW e \in m..Length(h), NEW n \in 0..Length(h), NEW base, NEW k \in Keys,
         k \notin Touched(h, e, n), Settled(h, n, k),
         k \notin Touched(h, m, e) => k \notin Touched(h, o, m),
         k \notin Touched(h, m, e) /\ Settled(h, o, k) => base[k] = At(h, o)[k]
  PROVE  Patched(base, h, m, e)[k] = At(h, n)[k]
<1>1. Length(h) \in Nat /\ o \in Nat /\ m \in Nat /\ e \in Nat /\ n \in Nat /\ m <= e
  BY LogFacts, BoundsAssumption
<1> DEFINE v == At(h, n)[k]
<1>2. \A i \in n..Length(h) : At(h, i)[k] = v
  BY DEF Settled
<1>3. At(h, e)[k] = v
  <2>1. CASE e <= n
    <3>1. n \in e..n
      BY <1>1, <2>1
    <3> QED BY <3>1 DEF Touched
  <2>2. CASE n < e
    <3>1. e \in n..Length(h)
      BY <1>1, <2>2
    <3> QED BY <1>2, <3>1
  <2> QED BY <1>1, <2>1, <2>2
<1>4. CASE k \in Touched(h, m, e)
  BY <1>3, <1>4 DEF Patched
<1>5. CASE k \notin Touched(h, m, e)
  <2>1. \A i \in m..e : At(h, i)[k] = v
    <3>1. \A i \in m..e : At(h, i)[k] = At(h, m)[k]
      BY <1>5 DEF Touched
    <3>2. e \in m..e
      BY <1>1
    <3> QED BY <1>3, <3>1, <3>2
  <2>2. \A i \in e..Length(h) : At(h, i)[k] = v
    <3> SUFFICES ASSUME NEW i \in e..Length(h) PROVE At(h, i)[k] = v
      OBVIOUS
    <3>1. CASE i < n
      <4>1. i \in e..n
        BY <1>1, <3>1
      <4> QED BY <1>3, <4>1 DEF Touched
    <3>2. CASE n <= i
      <4>1. i \in n..Length(h)
        BY <1>1, <3>2
      <4> QED BY <1>2, <4>1
    <3> QED BY <1>1, <3>1, <3>2
  <2>3. At(h, m)[k] = v
    BY <1>1, <2>1
  <2>4. \A i \in o..m : At(h, i)[k] = v
    <3> SUFFICES ASSUME NEW i \in o..m PROVE At(h, i)[k] = v
      OBVIOUS
    <3>1. \A j \in o..m : At(h, j)[k] = At(h, o)[k]
      BY <1>5 DEF Touched
    <3>2. m \in o..m
      BY <1>1
    <3> QED BY <2>3, <3>1, <3>2
  <2>5. \A i \in o..Length(h) : At(h, i)[k] = v
    <3> SUFFICES ASSUME NEW i \in o..Length(h) PROVE At(h, i)[k] = v
      OBVIOUS
    <3>1. i \in o..m \/ i \in m..e \/ i \in e..Length(h)
      BY <1>1
    <3> QED BY <2>1, <2>2, <2>4, <3>1
  <2>6. o \in o..Length(h)
    BY <1>1
  <2>7. At(h, o)[k] = v /\ Settled(h, o, k)
    BY <2>5, <2>6 DEF Settled
  <2> HIDE DEF v
  <2>8. base[k] = v
    BY <1>5, <2>7
  <2> QED BY <1>5, <2>8 DEF Patched, v
<1> QED BY <1>4, <1>5

\* A batch from the start of a log, onto no rows, is the table there.
LEMMA BatchFromBlank ==
  ASSUME LogOK, NEW h \in 1..Current, NEW n \in 0..Length(h)
  PROVE  Patched(Blank, h, 0, n) = At(h, n)
<1>1. At(h, n) \in Table /\ At(h, 0) = Blank /\ n \in 0..n
  BY LogFacts, BoundsAssumption DEF At
<1>2. ASSUME NEW k \in Keys, k \notin Touched(h, 0, n) PROVE At(h, n)[k] = Blank[k]
  BY <1>1, <1>2 DEF Touched
<1> QED BY <1>1, <1>2 DEF Patched, Table

\* What fits a cursor fits it when the logs grow.
LEMMA FitsGrows ==
  ASSUME LogOK, LogOK', LogKeeps, NEW s, SavedIn(log, s), NEW v, NEW k \in Keys, RowFits(v, s, k)
  PROVE  /\ s.handle = 0 => v = Absent
         /\ s.handle # 0 /\ Settled(s.handle, s.offset, k)' => v = At(s.handle, s.offset)'[k]
<1> SUFFICES ASSUME s.handle # 0, \A i \in s.offset..Length(s.handle)' :
                                     At(s.handle, i)'[k] = At(s.handle, s.offset)'[k]
             PROVE  v = At(s.handle, s.offset)'[k]
  BY DEF RowFits, Settled
<1>1. s.handle \in 1..Current /\ s.offset \in 0..Length(s.handle)
  BY LogFacts, BoundsAssumption DEF SavedIn, SavedState, Current, Length
<1>2. /\ Length(s.handle) \in Nat /\ Length(s.handle)' \in Nat /\ Length(s.handle) <= Length(s.handle)'
      /\ \A n \in 0..Length(s.handle) : At(s.handle, n)' = At(s.handle, n)
  <2>1. s.handle \in 1..Current'
    BY <1>1, LogFacts DEF LogKeeps
  <2>2. log'[s.handle] \in ShapeLog
    BY <2>1, ElementOfSeq DEF LogOK, Current
  <2>3. Length(s.handle)' \in Nat
    BY <2>2, LenProperties DEF ShapeLog, Length
  <2> QED BY <1>1, <2>3, LogFacts, BoundsAssumption DEF LogKeeps
<1>3. \A i \in s.offset..Length(s.handle) : At(s.handle, i)[k] = At(s.handle, s.offset)[k]
  <2> SUFFICES ASSUME NEW i \in s.offset..Length(s.handle)
               PROVE  At(s.handle, i)[k] = At(s.handle, s.offset)[k]
    OBVIOUS
  <2>1. i \in 0..Length(s.handle) /\ i \in s.offset..Length(s.handle)'
    BY <1>1, <1>2
  <2> QED BY <1>1, <1>2, <2>1
<1>4. At(s.handle, s.offset)' = At(s.handle, s.offset)
  BY <1>1, <1>2
<1> QED BY <1>3, <1>4 DEF RowFits, Settled

LEMMA ServerKeepsFits ==
  ASSUME TableInv, Change \/ Rotate
  PROVE  TableFits'
<1>1. LogOK /\ LogOK' /\ LogKeeps /\ SavedIn(log, saved)
  BY ChangeKeepsLog, RotateKeepsLog DEF TableInv, SyncInv
<1>2. UNCHANGED <<table, saved, stale>>
  BY DEF Change, Rotate
<1> SUFFICES ASSUME ~saved.refetch, NEW k \in Keys \ stale PROVE RowFits(table[k], saved, k)'
  BY <1>2 DEF TableFits
<1>3. RowFits(table[k], saved, k)
  BY DEF TableInv, TableFits
<1> QED BY <1>1, <1>2, <1>3, FitsGrows DEF RowFits

\* While the logs stay, a new table and a new cursor fit as they would have.
LEMMA SameFits ==
  ASSUME UNCHANGED log, ~saved'.refetch => \A k \in Keys \ stale' : RowFits(table'[k], saved', k)
  PROVE  TableFits'
BY DEF TableFits, RowFits, Settled, At, Length

LEMMA RestKeepsFits ==
  ASSUME TableInv, UNCHANGED <<log, table, saved, stale>>
  PROVE  TableFits'
BY DEF TableInv, TableFits, RowFits, Settled, At, Length

LEMMA MarkerKeepsFits ==
  ASSUME TableInv, NEW h, saved' = RefetchMarker(h)
  PROVE  TableFits'
BY DEF TableFits, RefetchMarker

\* The places a response names in its log.
LEMMA ReplyReach ==
  ASSUME LogOK, NEW s, NEW r, ReplyIn(log, s, r), r.kind \in {"rows", "empty", "inline"}
  PROVE  /\ r.handle \in 1..Current /\ r.handle # 0 /\ Length(r.handle) \in Nat
         /\ r.from \in 0..Length(r.handle) /\ r.to \in r.from..Length(r.handle)
         /\ End(r) \in r.from..Length(r.handle)
<1>1. /\ r.handle \in 1..Current /\ r.to \in 0..Length(r.handle)
      /\ r.from \in Nat /\ r.to \in Nat /\ r.from <= r.to /\ r.handle # 0
  BY ReplyPlace DEF ReplyIn
<1>2. Length(r.handle) \in Nat
  BY <1>1, LogFacts, BoundsAssumption
<1> QED BY <1>1, <1>2 DEF End

\* The saved cursor, seen from the log of a response, when it is no other shape's.
LEMMA SavedReach ==
  ASSUME SyncInv, NEW h \in 1..Current, saved.handle \in {0, h}
  PROVE  /\ saved.offset \in 0..Length(h)
         /\ saved.handle = 0 => saved.offset = 0
<1>1. Length(h) \in Nat /\ h # 0
  BY LogFacts, BoundsAssumption DEF SyncInv
<1>2. saved.offset \in Nat
  BY BoundsAssumption DEF SyncInv, SavedIn, SavedState
<1> QED BY <1>1, <1>2 DEF SyncInv, SavedIn, Length

\* A commit that leaves the cursor where it was or takes it to the response's log leaves every row
\* in place but those Passed counts. The batch goes onto the table, or onto no rows at all.
LEMMA CommitFits ==
  ASSUME TableInv, NEW s, NEW r, ReplyIn(log, s, r), r.kind \in {"rows", "empty", "inline"},
         NEW next, next = saved \/ (next.handle = r.handle /\ next.offset \in 0..Length(r.handle)),
         NEW base, base = table \/ (base = Blank /\ r.from = 0),
         NEW k \in Keys, k \notin Passed(r, next)
  PROVE  RowFits(Patched(base, r.handle, r.from, End(r))[k], next, k)
<1> DEFINE h == r.handle
           m == r.from
           e == End(r)
           n == next.offset
           o == saved.offset
<1>1. /\ h \in 1..Current /\ h # 0 /\ Length(h) \in Nat
      /\ m \in 0..Length(h) /\ e \in m..Length(h)
  BY ReplyReach DEF TableInv, SyncInv
<1>2. ~saved.refetch /\ saved.handle \in {0, h}
  BY DEF Passed
<1>3. o \in 0..Length(h) /\ (saved.handle = 0 => o = 0)
  BY <1>1, <1>2, SavedReach DEF TableInv
<1>4. At(h, 0) = Blank /\ Blank[k] = Absent
  BY DEF At, Blank
<1>5. k \notin stale => RowFits(table[k], saved, k)
  BY <1>2 DEF TableInv, TableFits
<1>6. CASE next.handle = 0
  <2>1. k \notin stale /\ k \notin Touched(h, 0, e) /\ saved.handle = 0
    BY <1>1, <1>2, <1>6 DEF Passed
  <2>2. \A i \in 0..e : At(h, i)[k] = At(h, 0)[k]
    BY <2>1 DEF Touched
  <2>3. m \in 0..e /\ \A i \in m..e : i \in 0..e
    BY <1>1
  <2>4. k \notin Touched(h, m, e)
    BY <2>2, <2>3 DEF Touched
  <2>5. base[k] = Absent
    BY <1>4, <1>5, <2>1 DEF RowFits
  <2>6. Patched(base, h, m, e)[k] = base[k]
    BY <2>4 DEF Patched
  <2> QED BY <1>6, <2>5, <2>6 DEF RowFits
<1>7. CASE next.handle # 0
  <2>1. next.handle = h
    BY <1>2, <1>7
  <2>2. /\ k \notin Touched(h, e, n)
        /\ k \notin Touched(h, m, e) => k \notin stale /\ k \notin Touched(h, o, m)
    BY <1>2, <1>7 DEF Passed
  <2>3. n \in 0..Length(h)
    BY <1>2, <1>3
  <2>4. k \notin stale => (Settled(h, o, k) => table[k] = At(h, o)[k])
    BY <1>1, <1>2, <1>3, <1>4, <1>5 DEF RowFits
  <2> SUFFICES ASSUME Settled(h, n, k) PROVE Patched(base, h, m, e)[k] = At(h, n)[k]
    BY <1>1, <2>1 DEF RowFits
  <2> HIDE DEF h, m, e, n, o
  <2>5. CASE base = table
    BY <1>1, <1>3, <2>2, <2>3, <2>4, <2>5, PassedFits DEF TableInv, SyncInv
  <2>6. CASE base = Blank /\ m = 0
    <3>1. k \notin Touched(h, 0, 0)
      BY DEF Touched
    <3>2. base[k] = At(h, 0)[k] /\ 0 \in 0..Length(h)
      BY <1>1, <1>4, <2>6
    <3> QED BY <1>1, <2>2, <2>3, <2>6, <3>1, <3>2, PassedFits DEF TableInv, SyncInv
  <2> QED BY <2>5, <2>6 DEF m
<1> QED BY <1>6, <1>7

LEMMA ApplyInlineKeepsFits ==
  ASSUME TableInv, NEW t \in Threads, ApplyInline(t)
  PROVE  TableFits'
<1> DEFINE s == thread[t].saved
           r == thread[t].reply
<1>1. ReplyIn(log, s, r) /\ r.kind = "inline" /\ End(r) = r.to
  BY ThreadFields DEF TableInv, SyncInv, ThreadIn, ApplyInline, End
<1>2. /\ table' = Patched(table, r.handle, r.from, End(r)) /\ stale' = Passed(r, saved)
      /\ UNCHANGED <<log, saved>>
  BY <1>1 DEF ApplyInline
<1> HIDE DEF s, r
<1>3. \A k \in Keys \ stale' : RowFits(table'[k], saved, k)
  BY <1>1, <1>2, CommitFits
<1> QED BY <1>2, <1>3, SameFits

\* The first batch of a refetch that ends it.
LEMMA RefetchBatch ==
  ASSUME SyncInv, NEW t \in Threads, ApplyRows(t), thread[t].saved.refetch, ~KeepsMarker(t)
  PROVE  LET r == thread[t].reply
         IN  /\ r.handle \in 1..Current /\ r.to \in 0..Length(r.handle)
             /\ table' = At(r.handle, r.to)
             /\ r.to = 0 => log[r.handle].snapshot = 0
<1> DEFINE s == thread[t].saved
           r == thread[t].reply
<1>1. SavedIn(log, s) /\ ReplyIn(log, s, r) /\ r.kind \in {"rows", "empty"}
  BY ThreadFields DEF SyncInv, ThreadIn, ApplyRows
<1>2. /\ r.handle \in 1..Current /\ r.to \in 0..Length(r.handle)
      /\ r.from \in Nat /\ r.to \in Nat /\ r.from <= r.to
  BY <1>1, ReplyPlace DEF SyncInv
<1>3. log[r.handle].snapshot \in Nat
  BY <1>2, LogFacts DEF SyncInv
<1>4. r.from = 0
  BY <1>1 DEF ReplyIn, From
<1>5. ~NoMessages(r) \/ SnapshotEnd(r)
  BY DEF KeepsMarker
<1>6. r.kind = "rows"
  BY <1>1, <1>5 DEF NoMessages, SnapshotEnd
<1>7. r.to = 0 => log[r.handle].snapshot = 0
  <2>1. r.upToDate => r.to >= log[r.handle].snapshot
    BY <1>1, <1>6 DEF ReplyIn
  <2> HIDE DEF s, r
  <2> QED BY <1>2, <1>3, <1>4, <1>5, <2>1 DEF NoMessages, SnapshotEnd
<1>8. table' = Patched(Blank, r.handle, 0, r.to)
  BY <1>4, <1>6 DEF ApplyRows, Batch, Base
<1> HIDE DEF s, r
<1>9. table' = At(r.handle, r.to)
  BY <1>2, <1>8, BatchFromBlank DEF SyncInv
<1> QED BY <1>2, <1>7, <1>9 DEF r

LEMMA ApplyRowsKeepsFits ==
  ASSUME TableInv, NEW t \in Threads, ApplyRows(t)
  PROVE  TableFits'
<1> DEFINE s == thread[t].saved
           r == thread[t].reply
<1>1. SavedIn(log, s) /\ ReplyIn(log, s, r) /\ r.kind \in {"rows", "empty"} /\ r.handle # 0
  BY ThreadFields DEF TableInv, SyncInv, ThreadIn, ApplyRows, ReplyIn
<1>2. CASE KeepsMarker(t)
  BY <1>2, RestKeepsFits DEF ApplyRows
<1>3. CASE ~KeepsMarker(t) /\ s.refetch /\ r.headers
  <2>1. table' = At(r.handle, r.to)
    BY <1>3, RefetchBatch DEF TableInv
  <2>2. saved'.handle = r.handle /\ saved'.offset = r.to
    BY <1>3 DEF ApplyRows, AfterApply
  <2>3. \A k \in Keys : RowFits(table'[k], saved', k)
    BY <1>1, <2>1, <2>2 DEF RowFits
  <2> QED BY <2>3, SameFits DEF ApplyRows
<1>4. CASE ~KeepsMarker(t) /\ ~(s.refetch /\ r.headers)
  <2> DEFINE base == Base(t)
  <2>1. /\ table' = Batch(base, r) /\ stale' = Passed(r, saved') /\ UNCHANGED log
        /\ saved' = IF r.headers THEN AfterApply(s, r) ELSE saved
    BY <1>4 DEF ApplyRows
  <2>2. base = table \/ (base = Blank /\ r.from = 0)
    BY <1>1 DEF Base, ReplyIn, From
  <2>3. saved' = saved \/ (saved'.handle = r.handle /\ saved'.offset = r.to)
    BY <2>1 DEF AfterApply
  <2> HIDE DEF s, r, base
  <2>4. /\ Length(r.handle) \in Nat /\ r.from \in Nat /\ r.from <= r.to /\ r.to <= Length(r.handle)
        /\ r.to \in Nat
    BY <1>1, ReplyReach DEF TableInv, SyncInv
  <2>5. ASSUME NEW k \in Keys
        PROVE  Batch(base, r)[k] = Patched(base, r.handle, r.from, End(r))[k]
    <3>1. CASE r.kind = "rows"
      BY <3>1 DEF Batch, End
    <3>2. CASE r.kind = "empty"
      <4>1. k \notin Touched(r.handle, r.from, r.from)
        BY <2>4 DEF Touched
      <4> QED BY <3>2, <4>1 DEF Batch, End, Patched
    <3> QED BY <1>1, <3>1, <3>2
  <2>6. saved' = saved \/ (saved'.handle = r.handle /\ saved'.offset \in 0..Length(r.handle))
    BY <2>3, <2>4
  <2>7. \A k \in Keys \ stale' : RowFits(table'[k], saved', k)
    BY <1>1, <2>1, <2>2, <2>5, <2>6, CommitFits
  <2> QED BY <2>1, <2>7, SameFits
<1> QED BY <1>2, <1>3, <1>4

LEMMA TableNext == ASSUME TableInv, [Next]_vars PROVE TableInv'
<1>1. SyncInv'
  BY SyncNext DEF TableInv
<1>2. CASE Change \/ Rotate
  BY <1>1, <1>2, ServerKeepsFits DEF TableInv
<1>3. ASSUME UNCHANGED <<log, table, saved, stale>> PROVE TableInv'
  BY <1>1, <1>3, RestKeepsFits DEF TableInv
<1>4. ASSUME NEW t \in Threads, ApplyRefused(t) \/ MarkInline(t) PROVE TableInv'
  BY <1>1, <1>4, MarkerKeepsFits DEF TableInv, ApplyRefused, Refused, MarkInline
<1>5. ASSUME NEW t \in Threads, ApplyInline(t) PROVE TableInv'
  BY <1>1, <1>5, ApplyInlineKeepsFits DEF TableInv
<1>6. ASSUME NEW t \in Threads, ApplyRows(t) PROVE TableInv'
  BY <1>1, <1>6, ApplyRowsKeepsFits DEF TableInv
<1>7. ASSUME NEW t \in Threads, Poll(t) \/ Receive(t) \/ Discard(t) \/ Fail(t)
                                \/ StopPipeline(t) \/ StartPipeline(t)
      PROVE  TableInv'
  BY <1>3, <1>7 DEF Poll, Receive, Discard, Fail, StopPipeline, StartPipeline
<1>8. CASE Crash
  BY <1>3, <1>8 DEF Crash
<1>9. CASE UNCHANGED vars
  BY <1>3, <1>9 DEF vars
<1> QED BY <1>2, <1>4, <1>5, <1>6, <1>7, <1>8, <1>9 DEF Next, Step

LEMMA TableAlways == Spec => []TableInv
<1>1. Init => TableInv
  BY SyncStart DEF TableInv, TableFits, RowFits, Init, NoState, Blank
<1>2. TableInv /\ [Next]_vars => TableInv'
  BY TableNext
<1> QED BY <1>1, <1>2, PTL DEF Spec

\* Catching up loses no update but those the cursor was moved past: from the saved cursor, the
\* operations that follow turn every row of the local table into the server's, whatever was applied
\* twice, cut short, refused or rotated (poll_once's apply and must-refetch paths); the exceptions
\* are exactly the rows a lost body or a straggler skipped, until written again or refetched.
THEOREM OnlySkippedLost == Spec => []CatchUpReaches
<1>1. TableInv => CatchUpReaches
  BY FitsReach
<1> QED BY <1>1, TableAlways, PTL

\* A refetch swaps the rows in one commit for those of one position of one log, and for none only
\* when the shape's snapshot has none (the empty-refetch guard of poll_once); nothing else changes
\* the table under a marker but an answer asked for before it.
THEOREM RefetchIsWhole == Spec => RefetchSwapsWhole
<1> DEFINE A == saved.refetch /\ table' # table =>
                  \/ \E h \in 1..Current : \E n \in 0..Length(h) :
                       table' = At(h, n) /\ (n = 0 => log[h].snapshot = 0)
                  \/ \E t \in Threads : ~thread[t].saved.refetch /\ (ApplyInline(t) \/ ApplyRows(t))
<1>1. ASSUME SyncInv, [Next]_vars PROVE A
  <2> SUFFICES ASSUME saved.refetch, table' # table,
                      \A t \in Threads : ApplyInline(t) \/ ApplyRows(t) => thread[t].saved.refetch
               PROVE  \E h \in 1..Current : \E n \in 0..Length(h) :
                        table' = At(h, n) /\ (n = 0 => log[h].snapshot = 0)
    OBVIOUS
  <2>1. ASSUME NEW t \in Threads, ApplyInline(t) PROVE FALSE
    <3>1. ReplyIn(log, thread[t].saved, thread[t].reply) /\ thread[t].reply.kind = "inline"
      BY <1>1, <2>1, ThreadFields DEF SyncInv, ThreadIn, ApplyInline
    <3> QED BY <2>1, <3>1 DEF ReplyIn
  <2>2. ASSUME NEW t \in Threads, ApplyRows(t)
        PROVE  \E h \in 1..Current : \E n \in 0..Length(h) :
                 table' = At(h, n) /\ (n = 0 => log[h].snapshot = 0)
    <3>1. ~KeepsMarker(t) /\ thread[t].saved.refetch
      BY <2>2 DEF ApplyRows
    <3> QED BY <1>1, <2>2, <3>1, RefetchBatch
  <2>3. \E t \in Threads : ApplyInline(t) \/ ApplyRows(t)
    BY <1>1 DEF Next, Step, vars, Change, Rotate, Crash, Poll, Receive, Discard, Fail, ApplyRefused,
                MarkInline, StopPipeline, StartPipeline
  <2> QED BY <2>1, <2>2, <2>3
<1>2. SyncInv /\ [Next]_vars => [A]_vars
  BY <1>1
<1> HIDE DEF A
<1>3. Spec => [][A]_vars
  BY <1>2, SyncAlways, PTL DEF Spec
<1> QED BY <1>3 DEF RefetchSwapsWhole, A
=============================================================================
