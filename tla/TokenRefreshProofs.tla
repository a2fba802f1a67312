--------------------------- MODULE TokenRefreshProofs ---------------------------
(***************************************************************************)
(* TokenRefresh for all processes, lock options and bounds: its types, the  *)
(* lock's one holder, and what the refresh keeps under it.                  *)
(***************************************************************************)
EXTENDS TokenRefresh, SequenceTheorems, TLAPS

\* What a refresh has in hand at each of its steps, and where it stands with the lock.
InSection(p) == job[p].at \in {"canary", "posting", "comparing", "writing", "leaving"}
JobSound(p) ==
  /\ job[p].read \in {0} \cup Given
  /\ ~Doing(p, "idle") => job[p].read # 0 /\ Grant(job[p].read) # 0
  /\ job[p].got \in {0} \cup Given
  /\ job[p].got # 0 <=> job[p].at \in {"comparing", "writing"}
  /\ Doing(p, "idle") <=> At(p, "out")
  /\ InSection(p) => At(p, "held")

\* A grant is named by the first pair it came with, belongs to one sign-in, and only one that was
\* given out is spent.
GrantsSound ==
  /\ \A n \in Given : Grant(n) \in 0..n
  /\ \A m, n \in Given : Grant(m) = Grant(n) /\ Grant(m) # 0 => issued[m].sign = issued[n].sign
  /\ spent \subseteq Given

TypeInv == TypeOK /\ GrantsSound /\ \A p \in Procs : JobSound(p)

\* While nothing tore the lock: its holder is one, the directory is the holder's, as old as its last
\* stamp and never old enough to be found stale. A straggler that is about to write into the
\* directory of a holder finds it new, for time does not pass over a write that is due.
Holds(p) == lock[p].at \in {"stamp", "held"}
Straggles(p) == lock[p].beat = "writes" /\ ~At(p, "held")
HoldsSound(p) ==
  /\ At(p, "stamp") => dir.there /\ dir.foundBy = {} /\ dir.age = 0
  /\ At(p, "held") =>
       /\ dir.there /\ dir.foundBy = {} /\ dir.age = lock[p].stamp
       /\ lock[p].stamp <= Update /\ lock[p].beat # "none"
  /\ lock[p].beat = "sleeps" => At(p, "held")
  /\ ~lock[p].lost
OneHolder == \A p, q \in Procs : Holds(p) /\ Holds(q) => p = q
StragglesInTime == \A p, q \in Procs : Straggles(p) /\ At(q, "held") => lock[q].stamp = 0
Whole == ~torn.ripped /\ ~torn.slept
LockInv == Whole => OneHolder /\ StragglesInTime /\ \A p \in Procs : HoldsSound(p)

\* A new pair in hand is of the sign-in of the one that was read. With a new grant it is the one copy:
\* nobody spent it, stores it, reads it or has it in hand.
HandSound(p) ==
  /\ job[p].got # 0 => issued[job[p].got].sign = issued[job[p].read].sign
  /\ OnlyCopy(p) =>
       /\ Grant(job[p].got) \notin spent \cup {0}
       /\ store # 0 => Grant(store) # Grant(job[p].got)
       /\ \A q \in Procs : job[q].read # 0 => Grant(job[q].read) # Grant(job[p].got)
       /\ \A q \in Procs \ {p} : OnlyCopy(q) => Grant(job[q].got) # Grant(job[p].got)

\* Who is about to write is alone, and what was compared stands, unless it was deleted.
Compared(p) ==
  Doing(p, "writing") =>
    /\ store # 0 => Grant(store) \in {0, Grant(job[p].read)}
    /\ \A q \in Procs : Doing(q, "writing") => q = p

LoginInv == LoginStands /\ \A p \in Procs : HandSound(p) /\ Compared(p)

\* While nothing tore the lock and no rotated pair is lost: who holds the lock and read the store under
\* it has an unspent grant until it rotates it, and the store's is unspent unless it is being replaced.
Calm == Whole /\ ~ghost.lost
InUse(p) == job[p].at \in {"canary", "posting", "comparing", "writing"} /\ ~OnlyCopy(p)
GrantInv ==
  Calm =>
    /\ ~ghost.twice
    /\ store # 0 /\ Grant(store) \in spent => Replaced
    /\ \A p \in Procs : InUse(p) => Grant(job[p].read) \notin spent

-----------------------------------------------------------------------------
(* The refresh's steps, as the lock and as the login see them. *)

LockMoves ==
  \/ Tick \/ Sleep
  \/ \E p \in Procs :
       \/ Acquire(p) \/ MakeDir(p) \/ StatDir(p) \/ RemoveStale(p) \/ MakeDirAgain(p) \/ StampFresh(p) \/ UnmakeDir(p)
       \/ HeartbeatLooks(p) \/ HeartbeatWrites(p) \/ Release(p) \/ Unacquired(p) \/ LockCrash(p)

LEMMA LockMovesOnly ==
  ASSUME [Next]_vars
  PROVE  LockMoves \/ UNCHANGED lockVars
<1>1. CASE Expire \/ SignIn \/ SignOut \/ UNCHANGED vars
  BY <1>1 DEF Expire, SignIn, SignOut, vars
<1>2. CASE TimePasses \/ MachineSleeps
  BY <1>2 DEF TimePasses, MachineSleeps, LockMoves
<1>3. ASSUME NEW p \in Procs, Look(p) \/ Queue(p) \/ GiveUp(p) \/ Leave(p) \/ Beat(p) \/ Crash(p)
      PROVE  LockMoves
  BY <1>3 DEF LockMoves, Look, Queue, Locking, GiveUp, Leave, Beat, Heartbeat, Crash
<1>4. ASSUME NEW p \in Procs,
             \/ ReRead(p) \/ Canary(p) \/ Post(p) \/ InvalidGrant(p) \/ PostFails(p)
             \/ Compare(p) \/ Write(p) \/ WriteRefused(p) \/ WriteFails(p)
      PROVE  UNCHANGED lockVars
  BY <1>4 DEF ReRead, Canary, Post, InvalidGrant, PostFails, Compare, Write, WriteRefused, WriteFails
<1> QED
  BY <1>1, <1>2, <1>3, <1>4 DEF Next, Refresh

LEMMA OlderInAges ==
  ASSUME NEW age \in Ages, NEW by \in Nat
  PROVE  Older(age, by) \in Ages
  BY LockAssumption DEF Ages, Older, Old

LEMMA DirsTyped ==
  /\ NoDir \in DirState /\ NewDir \in DirState
  /\ NewDir.there /\ NewDir.age = 0 /\ NewDir.foundBy = {} /\ ~NoDir.there
<1>1. 0 \in Ages
  BY LockAssumption DEF Ages, Old
<1>2. NoDir \in DirState /\ ~NoDir.there /\ NoDir.age = 0 /\ NoDir.foundBy = {}
  BY <1>1 DEF NoDir, DirState
<1>3. NewDir \in DirState
  BY <1>2 DEF NewDir, DirState
<1>4. NewDir.there /\ NewDir.age = NoDir.age /\ NewDir.foundBy = NoDir.foundBy
  BY <1>2 DEF NewDir, DirState
<1> QED
  BY <1>2, <1>3, <1>4

LEMMA LockTypeInit == LockInit => LockTypeOK
  BY LockAssumption, DirsTyped DEF LockInit, LockTypeOK, NoLock, LockState, Ages, Old

LEMMA AgedTyped ==
  ASSUME LockTypeOK, NEW by \in Nat, Aged(by)
  PROVE  dir' \in DirState /\ lock' \in [Procs -> LockState]
<1> USE DEF LockTypeOK, DirState
<1>1. dir' \in DirState
  BY OlderInAges DEF Aged
<1>2. ASSUME NEW p \in Procs
      PROVE  lock'[p] \in LockState
  <2>1. lock'[p] = [lock[p] EXCEPT !.stamp = IF At(p, "held") THEN Older(@, by) ELSE @]
    BY DEF Aged
  <2>2. lock[p] \in LockState /\ lock[p].stamp \in Ages
    BY DEF LockState
  <2>3. lock'[p] \in {lock[p], [lock[p] EXCEPT !.stamp = Older(lock[p].stamp, by)]}
    BY <2>1, <2>2 DEF LockState
  <2>4. Older(lock[p].stamp, by) \in Ages
    BY <2>2, OlderInAges
  <2> QED
    BY <2>2, <2>3, <2>4 DEF LockState
<1> QED
  BY <1>1, <1>2 DEF Aged

LEMMA LockTypeStep ==
  ASSUME LockTypeOK, LockMoves
  PROVE  LockTypeOK'
<1> USE LockAssumption, DirsTyped DEF LockTypeOK
<1>1. CASE Tick \/ Sleep
  <2>1. 1 \in Nat /\ Old \in Nat
    BY DEF Old
  <2>2. dir' \in DirState /\ lock' \in [Procs -> LockState]
    BY <1>1, <2>1, AgedTyped DEF Tick, Sleep
  <2> QED
    BY <1>1, <2>2 DEF Tick, Sleep
<1>2. ASSUME NEW p \in Procs, Acquire(p) \/ Release(p) \/ Unacquired(p) \/ LockCrash(p)
      PROVE  LockTypeOK'
  <2>1. NoLock \in LockState
    BY DEF NoLock, LockState, Ages, Old
  <2>2. /\ [NoLock EXCEPT !.at = "mkdir", !.tries = 1] \in LockState
        /\ [NoLock EXCEPT !.beat = "none"] \in LockState
        /\ [NoLock EXCEPT !.beat = "writes"] \in LockState
    <3>1. [NoLock EXCEPT !.at = "mkdir"] \in LockState
      BY <2>1 DEF LockState
    <3>2. 1 \in 0..Attempts
      OBVIOUS
    <3>3. [[NoLock EXCEPT !.at = "mkdir"] EXCEPT !.tries = 1] \in LockState
      BY <3>1, <3>2 DEF LockState
    <3>4. [NoLock EXCEPT !.beat = "none"] \in LockState /\ [NoLock EXCEPT !.beat = "writes"] \in LockState
      BY <2>1 DEF LockState
    <3> QED
      BY <3>3, <3>4
  <2> QED
    BY <1>2, <2>1, <2>2 DEF Acquire, Release, Unacquired, LockCrash
<1>3. ASSUME NEW p \in Procs, MakeDir(p) \/ RemoveStale(p) \/ StampFresh(p) \/ UnmakeDir(p)
      PROVE  LockTypeOK'
  <2>1. dir' \in {dir, NoDir, NewDir, [dir EXCEPT !.age = 0]}
    BY <1>3 DEF MakeDir, RemoveStale, StampFresh, UnmakeDir
  <2>2. dir' \in DirState
    <3>1. [dir EXCEPT !.age = 0] \in DirState
      BY DEF DirState, Ages, Old
    <3> QED
      BY <2>1, <3>1
  <2>3. lock' \in [Procs -> LockState] /\ torn' \in [ripped : BOOLEAN, slept : BOOLEAN]
    <3>1. lock' \in [Procs -> LockState]
      BY <1>3 DEF MakeDir, RemoveStale, StampFresh, UnmakeDir, Goes, LockState, Ages, Old
    <3>2. torn' \in [ripped : BOOLEAN, slept : BOOLEAN]
      BY <1>3 DEF MakeDir, RemoveStale, StampFresh, UnmakeDir
    <3> QED
      BY <3>1, <3>2
  <2> QED
    BY <2>2, <2>3
<1>4. ASSUME NEW p \in Procs, StatDir(p) \/ MakeDirAgain(p)
      PROVE  LockTypeOK'
  <2>1. lock' \in [Procs -> LockState]
    <3>1. CASE Contended(p)
      BY <3>1 DEF Contended, LockState
    <3>2. CASE Goes(p, "retry") \/ Goes(p, "rmdir") \/ Goes(p, "stamp")
      BY <3>2 DEF Goes, LockState
    <3> QED
      BY <1>4, <3>1, <3>2 DEF StatDir, MakeDirAgain
  <2>2. dir' \in {dir, NewDir, [dir EXCEPT !.foundBy = @ \cup {p}]} /\ torn' = torn
    BY <1>4 DEF StatDir, MakeDirAgain
  <2>3. [dir EXCEPT !.foundBy = @ \cup {p}] \in DirState
    BY DEF DirState
  <2> QED
    BY <2>1, <2>2, <2>3
<1>5. ASSUME NEW p \in Procs, HeartbeatLooks(p) \/ HeartbeatWrites(p)
      PROVE  LockTypeOK'
  <2>1. [dir EXCEPT !.age = 0] \in DirState
    BY DEF DirState, Ages, Old
  <2> QED
    BY <1>5, <2>1 DEF HeartbeatLooks, HeartbeatWrites, LockState, Ages, Old
<1> QED
  BY <1>1, <1>2, <1>3, <1>4, <1>5 DEF LockMoves

-----------------------------------------------------------------------------
(* Types, and what a refresh has in hand. *)

Entry == [sign : 1..MaxSigns + 1, grant : 0..MaxPairs]

LEMMA TypeInit == Init => TypeInv
<1> SUFFICES ASSUME Init PROVE TypeInv
  OBVIOUS
<1> USE RefreshAssumption DEF Init
<1>1. LockTypeOK
  BY LockTypeInit
<1>2. Given = {1} /\ 1 \in Pairs /\ 1 \in 1..MaxSigns + 1
  BY DEF Given, Pairs
<1>3. NoJob \in JobState
  BY DEF NoJob, JobState
<1>4. issued \in Seq([sign : 1..MaxSigns + 1, grant : 0..MaxPairs])
  <2>1. [sign |-> 1, grant |-> 1] \in [sign : 1..MaxSigns + 1, grant : 0..MaxPairs]
    BY <1>2
  <2> QED
    BY <2>1
<1>5. /\ signs \in [count : 1..MaxSigns + 1, standing : 0..MaxSigns + 1]
      /\ ghost \in [twice : BOOLEAN, lost : BOOLEAN, wiped : BOOLEAN]
  OBVIOUS
<1>6. job \in [Procs -> JobState] /\ faults \in 0..MaxFaults
  BY <1>3
<1>7. TypeOK
  BY <1>1, <1>2, <1>4, <1>5, <1>6 DEF TypeOK
<1>8. ASSUME NEW p \in Procs
      PROVE  JobSound(p)
  BY <1>2 DEF JobSound, Doing, At, NoJob, InSection, LockInit, NoLock
<1>9. GrantsSound
  BY <1>2 DEF GrantsSound, Grant
<1> QED
  BY <1>7, <1>8, <1>9 DEF TypeInv

LEMMA Appended ==
  ASSUME TypeInv, NEW e \in Entry, issued' = Append(issued, e), Len(issued) < MaxPairs
  PROVE  /\ issued' \in Seq(Entry)
         /\ Len(issued') = Len(issued) + 1 /\ Len(issued') \in Nat \ {0}
         /\ Given' = Given \cup {Len(issued')} /\ Len(issued') \notin Given
         /\ Given' \subseteq Pairs /\ issued'[Len(issued')] = e
         /\ \A n \in Given : issued'[n] = issued[n] /\ n \in Nat /\ n < Len(issued')
<1>1. issued \in Seq(Entry)
  BY DEF TypeInv, TypeOK, Entry
<1>2. /\ issued' \in Seq(Entry) /\ Len(issued') = Len(issued) + 1
      /\ issued'[Len(issued) + 1] = e
      /\ \A n \in 1..Len(issued) : issued'[n] = issued[n]
  BY <1>1, AppendProperties
<1>3. Given = 1..Len(issued) /\ Given' = 1..Len(issued') /\ Len(issued) \in Nat
  BY <1>1, <1>2 DEF Given
<1> QED
  BY <1>2, <1>3, RefreshAssumption DEF Pairs

LEMMA EntryTyped ==
  ASSUME TypeInv, NEW n \in Given
  PROVE  /\ issued[n] \in Entry /\ issued[n].sign \in 1..MaxSigns + 1 /\ Grant(n) = issued[n].grant
         /\ Grant(n) \in 0..n /\ n \in Nat \ {0} /\ n \in 0..MaxPairs
<1>1. issued \in Seq(Entry) /\ n \in 1..Len(issued)
  BY DEF TypeInv, TypeOK, Entry, Given
<1>2. issued[n] \in Entry
  BY <1>1, ElementOfSeq
<1>3. Grant(n) \in 0..n /\ n \in 1..MaxPairs
  BY DEF TypeInv, TypeOK, GrantsSound, Pairs
<1> QED
  BY <1>1, <1>2, <1>3, RefreshAssumption DEF Entry, Grant

LEMMA JobTyped ==
  ASSUME TypeInv, NEW p \in Procs
  PROVE  /\ job[p] \in JobState /\ lock[p] \in LockState
         /\ job[p].read \in {0} \cup Given /\ job[p].got \in {0} \cup Given
         /\ ~Doing(p, "idle") => job[p].read \in Given /\ Grant(job[p].read) \in Given
         /\ job[p].got # 0 <=> job[p].at \in {"comparing", "writing"}
         /\ OnlyCopy(p) => job[p].at \in {"comparing", "writing"}
<1>1. job[p] \in JobState /\ lock[p] \in LockState /\ JobSound(p)
  BY DEF TypeInv, TypeOK, LockTypeOK
<1>2. ~Doing(p, "idle") => job[p].read \in Given /\ Grant(job[p].read) \in Given
  <2> SUFFICES ASSUME ~Doing(p, "idle") PROVE job[p].read \in Given /\ Grant(job[p].read) \in Given
    OBVIOUS
  <2>1. job[p].read \in Given /\ Grant(job[p].read) # 0
    BY <1>1 DEF JobSound
  <2>2. Grant(job[p].read) \in 1..job[p].read /\ job[p].read \in Nat
    BY <2>1, EntryTyped
  <2>3. Given = 1..Len(issued) /\ Len(issued) \in Nat
    BY DEF TypeInv, TypeOK, Given
  <2> QED
    BY <2>1, <2>2, <2>3
<1> QED
  BY <1>1, <1>2 DEF JobSound, OnlyCopy

\* The pair a POST brings: of the same sign-in, with the grant that was posted or a new one.
LEMMA Posted ==
  ASSUME TypeInv, NEW p \in Procs, Post(p)
  PROVE  /\ job[p].read \in Given /\ Grant(job[p].read) \in Given
         /\ \E g \in {Grant(job[p].read), Len(issued')} :
              /\ issued' = Append(issued, [sign |-> issued[job[p].read].sign, grant |-> g])
              /\ [sign |-> issued[job[p].read].sign, grant |-> g] \in Entry /\ g # 0
              /\ spent' = spent \cup ({Grant(job[p].read)} \ {g})
<1>1. job[p].read \in Given /\ Grant(job[p].read) \in Given
  BY JobTyped DEF Post, Doing
<1>2. /\ issued[job[p].read].sign \in 1..MaxSigns + 1 /\ Grant(job[p].read) \in 1..MaxPairs
      /\ Len(issued) \in Nat
  <2>1. issued[job[p].read].sign \in 1..MaxSigns + 1
    BY <1>1, EntryTyped
  <2>2. Given \subseteq 1..MaxPairs
    BY DEF TypeInv, TypeOK, Pairs
  <2>3. Len(issued) \in Nat
    BY LenProperties DEF TypeInv, TypeOK
  <2> QED
    BY <1>1, <2>1, <2>2, <2>3
<1>3. PICK g \in {Grant(job[p].read), Len(issued) + 1} :
         /\ issued' = Append(issued, [sign |-> issued[job[p].read].sign, grant |-> g])
         /\ spent' = spent \cup ({Grant(job[p].read)} \ {g})
  BY DEF Post
<1>4. [sign |-> issued[job[p].read].sign, grant |-> g] \in Entry /\ g # 0
  BY <1>2, <1>3, RefreshAssumption DEF Post, Entry
<1>5. Len(issued') = Len(issued) + 1
  BY <1>3, <1>4, Appended DEF Post
<1> QED
  BY <1>1, <1>3, <1>4, <1>5

\* Pairs are only added, each with a grant of its own or that of a pair of its sign-in.
LEMMA GrantsStep ==
  ASSUME TypeInv, [Next]_vars
  PROVE  /\ GrantsSound' /\ issued' \in Seq(Entry) /\ Given \subseteq Given' /\ Given' \subseteq Pairs
         /\ \A n \in Given : issued'[n] = issued[n]
         /\ spent \subseteq spent'
<1>1. GrantsSound /\ issued \in Seq(Entry) /\ Given \subseteq Pairs
  BY DEF TypeInv, TypeOK, Entry
<1>2. CASE SignIn
  <2>1. PICK g \in {0, Len(issued) + 1} : issued' = Append(issued, [sign |-> signs.count + 1, grant |-> g])
    BY <1>2 DEF SignIn
  <2>2. [sign |-> signs.count + 1, grant |-> g] \in Entry
    BY <1>2, <2>1, RefreshAssumption DEF SignIn, Entry, TypeInv, TypeOK
  <2> DEFINE new == Len(issued')
  <2>3. /\ issued' \in Seq(Entry) /\ Given' = Given \cup {new} /\ Given' \subseteq Pairs
        /\ new \in Nat \ {0} /\ new \notin Given /\ issued'[new].grant = g /\ g \in {0, new}
        /\ \A n \in Given : issued'[n] = issued[n] /\ n < new /\ n \in Nat
    <3>1. Len(issued) < MaxPairs
      BY <1>2 DEF SignIn
    <3>2. /\ issued' \in Seq(Entry) /\ Given' = Given \cup {new} /\ Given' \subseteq Pairs /\ new = Len(issued) + 1
          /\ new \in Nat \ {0} /\ new \notin Given /\ issued'[new] = [sign |-> signs.count + 1, grant |-> g]
          /\ \A n \in Given : issued'[n] = issued[n] /\ n < new /\ n \in Nat
      BY <2>1, <2>2, <3>1, Appended
    <3>3. g \in {0, new}
      BY <2>1, <3>2
    <3>4. issued'[new].grant = g
      BY <3>2
    <3> QED
      BY <3>2, <3>3, <3>4
  <2>4. \A n \in Given : issued'[n].grant = Grant(n) /\ Grant(n) \in 0..n
    BY <1>1, <2>3 DEF GrantsSound, Grant
  <2>5. spent' = spent
    BY <1>2 DEF SignIn
  <2>6. \A n \in Given' : issued'[n].grant \in 0..n
    BY <2>3, <2>4
  <2>7. ASSUME NEW m \in Given', NEW n \in Given', issued'[m].grant = issued'[n].grant, issued'[m].grant # 0
        PROVE  issued'[m].sign = issued'[n].sign
    <3>1. CASE m \in Given /\ n \in Given
      BY <1>1, <2>3, <2>4, <2>7, <3>1 DEF GrantsSound
    <3>2. CASE m = new \/ n = new
      BY <2>3, <2>4, <2>7, <3>2
    <3> QED
      BY <2>3, <3>1, <3>2
  <2>8. GrantsSound'
    BY <1>1, <2>3, <2>5, <2>6, <2>7 DEF GrantsSound, Grant
  <2> QED
    BY <2>3, <2>5, <2>8
<1>3. ASSUME NEW p \in Procs, Post(p)
      PROVE  /\ GrantsSound' /\ issued' \in Seq(Entry) /\ Given \subseteq Given' /\ Given' \subseteq Pairs
             /\ \A n \in Given : issued'[n] = issued[n]
             /\ spent \subseteq spent'
  <2> DEFINE old == job[p].read
             new == Len(issued')
  <2>1. PICK g \in {Grant(old), new} :
              /\ issued' = Append(issued, [sign |-> issued[old].sign, grant |-> g])
              /\ [sign |-> issued[old].sign, grant |-> g] \in Entry /\ g # 0
              /\ spent' = spent \cup ({Grant(old)} \ {g})
    BY <1>3, Posted
  <2>2. old \in Given /\ Grant(old) \in Given
    BY <1>3, Posted
  <2>3. /\ issued' \in Seq(Entry) /\ Given' = Given \cup {new} /\ Given' \subseteq Pairs
        /\ new \in Nat \ {0} /\ new \notin Given /\ issued'[new].grant = g /\ issued'[new].sign = issued[old].sign
        /\ \A n \in Given : issued'[n] = issued[n] /\ n < new /\ n \in Nat
    <3>1. Len(issued) < MaxPairs
      BY <1>3 DEF Post
    <3>2. /\ issued' \in Seq(Entry) /\ Given' = Given \cup {new} /\ Given' \subseteq Pairs
          /\ new \in Nat \ {0} /\ new \notin Given /\ issued'[new] = [sign |-> issued[old].sign, grant |-> g]
          /\ \A n \in Given : issued'[n] = issued[n] /\ n < new /\ n \in Nat
      BY <2>1, <3>1, Appended
    <3> QED
      BY <3>2
  <2>4. \A n \in Given : issued'[n].grant = Grant(n) /\ Grant(n) \in 0..n
    BY <1>1, <2>3 DEF GrantsSound, Grant
  <2>5. g \in 0..new
    <3>1. Grant(old) \in 0..old /\ old < new /\ old \in Nat
      BY <2>2, <2>3, <2>4
    <3> QED
      BY <2>1, <2>3, <3>1
  <2>6. \A n \in Given' : issued'[n].grant \in 0..n
    BY <2>3, <2>4, <2>5
  <2>7. ASSUME NEW n \in Given, issued'[n].grant = g
        PROVE  issued'[n].sign = issued'[new].sign
    <3>1. Grant(n) = g /\ Grant(n) \in 0..n /\ n < new /\ n \in Nat
      BY <2>3, <2>4, <2>7
    <3>2. g = Grant(old)
      BY <2>1, <2>3, <3>1
    <3>3. issued[n].sign = issued[old].sign
      BY <1>1, <2>1, <2>2, <3>1, <3>2 DEF GrantsSound
    <3> QED
      BY <2>3, <3>3
  <2>8. ASSUME NEW m \in Given', NEW n \in Given', issued'[m].grant = issued'[n].grant, issued'[m].grant # 0
        PROVE  issued'[m].sign = issued'[n].sign
    <3>1. CASE m \in Given /\ n \in Given
      BY <1>1, <2>3, <2>4, <2>8, <3>1 DEF GrantsSound
    <3>2. CASE m = new \/ n = new
      BY <2>3, <2>7, <2>8, <3>2
    <3> QED
      BY <2>3, <3>1, <3>2
  <2>9. spent' \subseteq Given'
    BY <1>1, <2>1, <2>2, <2>3 DEF GrantsSound
  <2>10. GrantsSound'
    BY <2>6, <2>8, <2>9 DEF GrantsSound, Grant
  <2> QED
    BY <2>1, <2>3, <2>10
<1>4. ASSUME NEW p \in Procs, PostFails(p)
      PROVE  issued' = issued /\ spent \subseteq spent' /\ spent' \subseteq Given
  <2>1. Grant(job[p].read) \in Given
    BY <1>4, JobTyped DEF PostFails, Doing
  <2> QED
    BY <1>1, <1>4, <2>1 DEF PostFails, GrantsSound
<1>5. CASE UNCHANGED <<issued, spent>> \/ \E p \in Procs : PostFails(p)
  <2>1. issued' = issued /\ spent \subseteq spent' /\ spent' \subseteq Given
    BY <1>1, <1>4, <1>5 DEF GrantsSound
  <2> QED
    BY <1>1, <2>1 DEF GrantsSound, Grant, Given
<1>6. ASSUME NEW p \in Procs,
             \/ Look(p) \/ Queue(p) \/ GiveUp(p) \/ ReRead(p) \/ Canary(p) \/ InvalidGrant(p) \/ Compare(p)
             \/ Write(p) \/ WriteRefused(p) \/ Leave(p) \/ Beat(p) \/ WriteFails(p) \/ Crash(p)
      PROVE  UNCHANGED <<issued, spent>>
  BY <1>6 DEF Look, Queue, GiveUp, ReRead, Canary, InvalidGrant, Compare, Write, WriteRefused, Leave, Beat, WriteFails,
              Crash, accountVars, refreshVars
<1>7. CASE Expire \/ SignOut \/ TimePasses \/ MachineSleeps \/ UNCHANGED vars
  BY <1>5, <1>7 DEF Expire, SignOut, TimePasses, MachineSleeps, vars, accountVars, refreshVars
<1> QED
  BY <1>2, <1>3, <1>5, <1>6, <1>7 DEF Next, Refresh

LEMMA JobKept ==
  ASSUME TypeInv, [Next]_vars, NEW q \in Procs, job'[q] = job[q], lock'[q].at = lock[q].at
  PROVE  JobSound(q)'
<1>1. JobSound(q) /\ Given \subseteq Given' /\ \A n \in Given : issued'[n] = issued[n]
  BY GrantsStep DEF TypeInv
<1>2. job[q].read # 0 => issued'[job[q].read] = issued[job[q].read]
  BY <1>1 DEF JobSound
<1> QED
  BY <1>1, <1>2 DEF JobSound, Doing, At, InSection, Grant

\* The step one process takes in the refresh, seen from the others.
LEMMA OthersKept ==
  ASSUME TypeInv, [Next]_vars, NEW p \in Procs, JobSound(p)',
         \A q \in Procs \ {p} : job'[q] = job[q] /\ lock'[q].at = lock[q].at
  PROVE  \A q \in Procs : JobSound(q)'
<1> TAKE q \in Procs
<1>1. CASE q = p
  BY <1>1
<1>2. CASE q # p
  BY <1>2, JobKept
<1> QED
  BY <1>1, <1>2

\* The login, the ghosts and the counters.
LEMMA LoginTyped ==
  ASSUME TypeInv, [Next]_vars
  PROVE  /\ store' \in {0} \cup Given' /\ due' \in BOOLEAN
         /\ signs' \in [count : 1..MaxSigns + 1, standing : 0..MaxSigns + 1]
         /\ ghost' \in [twice : BOOLEAN, lost : BOOLEAN, wiped : BOOLEAN]
         /\ faults' \in 0..MaxFaults
<1> USE RefreshAssumption
<1>1. /\ store \in {0} \cup Given /\ due \in BOOLEAN
      /\ signs \in [count : 1..MaxSigns + 1, standing : 0..MaxSigns + 1]
      /\ ghost \in [twice : BOOLEAN, lost : BOOLEAN, wiped : BOOLEAN]
      /\ faults \in 0..MaxFaults /\ Given \subseteq Given'
  BY GrantsStep DEF TypeInv, TypeOK
<1>2. CASE Expire \/ TimePasses \/ MachineSleeps \/ UNCHANGED vars
  <2>1. CASE MachineSleeps
    <3>1. UNCHANGED <<accountVars, ghost>> /\ faults' \in 0..MaxFaults
      BY <1>1, <2>1 DEF MachineSleeps, Fault
    <3> QED
      BY <1>1, <3>1 DEF accountVars, Given
  <2>2. CASE Expire \/ TimePasses \/ UNCHANGED vars
    <3>1. UNCHANGED <<store, issued, signs, ghost, faults>> /\ due' \in BOOLEAN
      BY <1>1, <2>2 DEF Expire, TimePasses, vars, refreshVars, accountVars
    <3> QED
      BY <1>1, <3>1 DEF Given
  <2> QED
    BY <1>2, <2>1, <2>2
<1>3. CASE SignIn \/ SignOut
  <2>1. signs.count + 1 \in 1..MaxSigns + 1
    BY <1>1, <1>3 DEF SignIn, SignOut
  <2>2. signs' \in [count : 1..MaxSigns + 1, standing : 0..MaxSigns + 1]
    BY <1>3, <2>1 DEF SignIn, SignOut
  <2>3. ghost' \in [twice : BOOLEAN, lost : BOOLEAN, wiped : BOOLEAN] /\ faults' = faults /\ due' = FALSE
    BY <1>1, <1>3 DEF SignIn, SignOut
  <2>4. store' \in {0} \cup Given'
    <3>1. CASE SignOut
      BY <3>1 DEF SignOut
    <3>2. CASE SignIn
      <4>1. PICK g \in {0, Len(issued) + 1} : issued' = Append(issued, [sign |-> signs.count + 1, grant |-> g])
        BY <3>2 DEF SignIn
      <4>2. [sign |-> signs.count + 1, grant |-> g] \in Entry
        BY <2>1, <3>2, <4>1 DEF SignIn, Entry, TypeInv, TypeOK
      <4> QED
        BY <3>2, <4>1, <4>2, Appended DEF SignIn
    <3> QED
      BY <1>3, <3>1, <3>2
  <2> QED
    BY <1>1, <2>2, <2>3, <2>4
<1>4. ASSUME NEW p \in Procs,
             \/ Look(p) \/ Queue(p) \/ GiveUp(p) \/ ReRead(p) \/ Post(p) \/ Compare(p) \/ WriteRefused(p) \/ Leave(p)
             \/ Beat(p)
      PROVE  UNCHANGED <<store, due, signs, ghost, faults>>
  BY <1>4 DEF Look, Queue, GiveUp, ReRead, Post, Compare, WriteRefused, Leave, Beat, accountVars, refreshVars
<1>5. ASSUME NEW p \in Procs, Canary(p) \/ Write(p)
      PROVE  /\ store' \in {0} \cup Given' /\ due' \in BOOLEAN /\ signs' = signs
             /\ ghost' \in [twice : BOOLEAN, lost : BOOLEAN, wiped : BOOLEAN] /\ faults' \in 0..MaxFaults
  <2>1. store' \in {0} \cup Given' /\ due' \in BOOLEAN /\ signs' = signs
    BY <1>1, <1>5, JobTyped DEF Canary, Write
  <2>2. ghost' \in [twice : BOOLEAN, lost : BOOLEAN, wiped : BOOLEAN]
    BY <1>1, <1>5 DEF Canary, Write
  <2>3. faults' \in 0..MaxFaults
    BY <1>1, <1>5 DEF Canary, Write, Fault
  <2> QED
    BY <2>1, <2>2, <2>3
<1>6. ASSUME NEW p \in Procs, InvalidGrant(p) \/ PostFails(p) \/ WriteFails(p) \/ Crash(p)
      PROVE  /\ UNCHANGED <<store, due, signs>>
             /\ ghost' \in [twice : BOOLEAN, lost : BOOLEAN, wiped : BOOLEAN] /\ faults' \in 0..MaxFaults
  <2>1. UNCHANGED <<store, due, signs>>
    BY <1>6 DEF InvalidGrant, PostFails, WriteFails, Crash, accountVars
  <2>2. ghost' \in [twice : BOOLEAN, lost : BOOLEAN, wiped : BOOLEAN]
    <3>1. CASE InvalidGrant(p) \/ PostFails(p)
      BY <1>1, <3>1 DEF InvalidGrant, PostFails
    <3>2. CASE WriteFails(p) \/ Crash(p)
      <4>1. OnlyCopy(p) \in BOOLEAN /\ ghost.lost \in BOOLEAN
        BY <1>1 DEF OnlyCopy
      <4> QED
        BY <1>1, <3>2, <4>1 DEF WriteFails, Crash
    <3> QED
      BY <1>6, <3>1, <3>2
  <2>3. faults' \in 0..MaxFaults
    BY <1>1, <1>6 DEF InvalidGrant, PostFails, WriteFails, Crash, Fault
  <2> QED
    BY <2>1, <2>2, <2>3
<1> QED
  BY <1>1, <1>2, <1>3, <1>4, <1>5, <1>6 DEF Next, Refresh

\* The refreshes: what each has in hand, and where it stands.
LEMMA JobsStep ==
  ASSUME TypeInv, [Next]_vars
  PROVE  job' \in [Procs -> JobState] /\ \A p \in Procs : JobSound(p)'
<1>1. lock \in [Procs -> LockState] /\ job \in [Procs -> JobState]
  BY DEF TypeInv, TypeOK, LockTypeOK
<1>2. /\ Given \subseteq Given' /\ Given' \subseteq Pairs /\ Pairs \subseteq 0..MaxPairs /\ 0 \in 0..MaxPairs
      /\ \A n \in Given : issued'[n] = issued[n]
  BY GrantsStep, RefreshAssumption DEF Pairs
<1>3. ASSUME NEW p \in Procs
      PROVE  /\ JobSound(p) /\ job[p] \in JobState
             /\ ~Doing(p, "idle") => job[p].read \in Given /\ Grant(job[p].read) \in Pairs
             /\ job[p].got \in {0} \cup Given
             /\ job[p].read \in Given => job[p].read # 0 /\ issued'[job[p].read] = issued[job[p].read]
  BY <1>2, JobTyped, EntryTyped DEF TypeInv, TypeOK
<1>4. ASSUME job' = job, \A p \in Procs : lock'[p].at = lock[p].at
      PROVE  job' \in [Procs -> JobState] /\ \A p \in Procs : JobSound(p)'
  BY <1>1, <1>4, JobKept
<1>5. CASE Expire \/ SignIn \/ SignOut \/ UNCHANGED vars
  BY <1>4, <1>5 DEF Expire, SignIn, SignOut, vars, lockVars, refreshVars
<1>6. CASE TimePasses \/ MachineSleeps
  <2>1. job' = job
    BY <1>6 DEF TimePasses, MachineSleeps, refreshVars
  <2>2. PICK by \in {1, Old} : Aged(by)
    BY <1>6 DEF TimePasses, MachineSleeps, Tick, Sleep
  <2>3. \A p \in Procs : lock'[p].at = lock[p].at
    BY <1>1, <2>2 DEF Aged, LockState
  <2> QED
    BY <1>4, <2>1, <2>3
<1>7. ASSUME NEW p \in Procs, Beat(p)
      PROVE  job' \in [Procs -> JobState] /\ \A q \in Procs : JobSound(q)'
  <2>1. job' = job /\ \A q \in Procs : lock'[q].at = lock[q].at
    BY <1>1, <1>7 DEF Beat, Heartbeat, HeartbeatLooks, HeartbeatWrites, refreshVars, LockState
  <2> QED
    BY <1>4, <2>1
<1>8. ASSUME NEW p \in Procs, Look(p)
      PROVE  job' \in [Procs -> JobState] /\ \A q \in Procs : JobSound(q)'
  <2>1. /\ store \in Given /\ Grant(store) # 0 /\ UNCHANGED accountVars /\ Doing(p, "idle")
        /\ job' = [job EXCEPT ![p] = [job[p] EXCEPT !.at = "locking", !.read = store]]
        /\ lock' = [lock EXCEPT ![p] = [NoLock EXCEPT !.at = "mkdir", !.tries = 1]]
    BY <1>8 DEF Look, Worth, Acquire, TypeInv, TypeOK
  <2>2. [job[p] EXCEPT !.at = "locking", !.read = store] \in JobState
    <3>1. [job[p] EXCEPT !.at = "locking"] \in JobState
      BY <1>1 DEF JobState
    <3>2. store \in 0..MaxPairs
      BY <1>2, <2>1
    <3> QED
      BY <3>1, <3>2 DEF JobState
  <2>3. /\ job'[p].at = "locking" /\ job'[p].read = store /\ job'[p].got = job[p].got
        /\ \A q \in Procs \ {p} : job'[q] = job[q]
    BY <1>1, <2>1 DEF JobState
  <2>4. lock'[p].at = "mkdir" /\ \A q \in Procs \ {p} : lock'[q] = lock[q]
    BY <1>1, <2>1 DEF NoLock
  <2>5. job[p].got = 0 /\ store # 0 /\ issued' = issued
    <3>1. job[p].got = 0
      BY <1>3, <2>1 DEF JobSound, Doing
    <3>2. store # 0
      BY <2>1, EntryTyped
    <3> QED
      BY <2>1, <3>1, <3>2 DEF accountVars
  <2>6. JobSound(p)'
    BY <2>1, <2>3, <2>4, <2>5 DEF JobSound, Doing, At, InSection, Grant, Given
  <2> QED
    BY <1>1, <2>1, <2>2, <2>3, <2>4, <2>6, OthersKept
<1>9. ASSUME NEW p \in Procs, Queue(p)
      PROVE  job' \in [Procs -> JobState] /\ \A q \in Procs : JobSound(q)'
  <2>1. /\ job' = job /\ Doing(p, "locking") /\ issued' = issued
        /\ \A q \in Procs \ {p} : lock'[q] = lock[q]
        /\ lock'[p].at # "out"
    BY <1>1, <1>9 DEF Queue, Locking, MakeDir, StatDir, RemoveStale, MakeDirAgain, StampFresh, UnmakeDir, Contended, Goes,
                      refreshVars, accountVars, LockState
  <2>2. JobSound(p)'
    BY <1>3, <2>1 DEF JobSound, Doing, At, InSection, Grant, Given
  <2> QED
    BY <1>1, <2>1, <2>2, OthersKept
<1>10. ASSUME NEW p \in Procs, GiveUp(p) \/ Leave(p) \/ Crash(p)
       PROVE  job' \in [Procs -> JobState] /\ \A q \in Procs : JobSound(q)'
  <2>1. /\ job' \in [Procs -> JobState] /\ job'[p].at = "idle"
        /\ job'[p].read \in {0, job[p].read} /\ job'[p].got = 0
        /\ \A q \in Procs \ {p} : job'[q] = job[q]
    <3>1. NoJob \in JobState /\ NoJob.at = "idle" /\ NoJob.read = 0 /\ NoJob.got = 0
      BY <1>2 DEF NoJob, JobState
    <3>2. CASE Crash(p)
      BY <1>1, <3>1, <3>2 DEF Crash
    <3>3. CASE GiveUp(p) \/ Leave(p)
      <4>1. job[p].got = 0
        BY <1>3, <3>3 DEF GiveUp, Unacquired, Leave, JobSound, InSection, Doing, At
      <4> QED
        BY <1>1, <3>3, <4>1 DEF GiveUp, Leave, Does, JobState
    <3> QED
      BY <1>10, <3>2, <3>3
  <2>2. lock'[p].at = "out" /\ \A q \in Procs \ {p} : lock'[q] = lock[q]
    BY <1>1, <1>10 DEF GiveUp, Leave, Crash, Unacquired, Release, LockCrash, NoLock
  <2>3. JobSound(p)'
    BY <1>2, <1>3, <2>1, <2>2 DEF JobSound, Doing, At, InSection
  <2> QED
    BY <2>1, <2>2, <2>3, OthersKept
<1>11. ASSUME NEW p \in Procs, ReRead(p) \/ Canary(p) \/ PostFails(p) \/ WriteRefused(p) \/ Post(p) \/ InvalidGrant(p)
                               \/ Compare(p) \/ Write(p) \/ WriteFails(p)
       PROVE  job' \in [Procs -> JobState] /\ \A q \in Procs : JobSound(q)'
  <2>1. /\ lock' = lock /\ ~Doing(p, "idle") /\ At(p, "held") /\ \A q \in Procs \ {p} : job'[q] = job[q]
    <3>1. lock' = lock /\ job[p].at # "idle" /\ \A q \in Procs \ {p} : job'[q] = job[q]
      BY <1>1, <1>11 DEF ReRead, Canary, PostFails, WriteRefused, Post, InvalidGrant, Compare, Write, WriteFails, Does,
                         Doing, lockVars
    <3>2. At(p, "held")
      BY <1>3, <1>11 DEF ReRead, Canary, PostFails, WriteRefused, Post, InvalidGrant, Compare, Write, WriteFails,
                         Doing, JobSound, InSection
    <3> QED
      BY <3>1, <3>2 DEF Doing
  <2>2. /\ job'[p] \in JobState /\ job' \in [Procs -> JobState] /\ job'[p].read = job[p].read
        /\ job'[p].at \in {"canary", "posting", "comparing", "writing", "leaving"}
        /\ job'[p].got \in {0} \cup Given'
        /\ job'[p].got # 0 <=> job'[p].at \in {"comparing", "writing"}
    <3>1. CASE ReRead(p) \/ Canary(p) \/ PostFails(p)
      <4>1. job[p].got = 0 /\ \E at \in {"canary", "posting", "leaving"} : job' = [job EXCEPT ![p].at = at]
        BY <1>3, <3>1 DEF ReRead, Canary, PostFails, Does, Doing, JobSound
      <4> QED
        BY <1>1, <4>1 DEF JobState
    <3>2. CASE WriteRefused(p)
      <4>1. /\ job' = [job EXCEPT ![p].at = "comparing"]
            /\ job[p].got # 0 /\ job[p].got \in {0} \cup Given'
        BY <1>2, <1>3, <3>2 DEF WriteRefused, Does, Doing, JobSound
      <4> QED
        BY <1>1, <4>1 DEF JobState
    <3>3. CASE Post(p)
      <4>1. PICK g \in {Grant(job[p].read), Len(issued')} :
              /\ issued' = Append(issued, [sign |-> issued[job[p].read].sign, grant |-> g])
              /\ [sign |-> issued[job[p].read].sign, grant |-> g] \in Entry
        BY <3>3, Posted
      <4>2. Len(issued') \in Given' /\ Len(issued') # 0
        BY <3>3, <4>1, Appended DEF Post
      <4>3. [job[p] EXCEPT !.at = "comparing", !.got = Len(issued')] \in JobState
        <5>1. [job[p] EXCEPT !.at = "comparing"] \in JobState
          BY <1>1 DEF JobState
        <5>2. Len(issued') \in 0..MaxPairs
          BY <1>2, <4>2
        <5> QED
          BY <5>1, <5>2 DEF JobState
      <4>4. job' = [job EXCEPT ![p] = [job[p] EXCEPT !.at = "comparing", !.got = Len(issued')]]
        BY <3>3 DEF Post
      <4>5. job'[p].read = job[p].read /\ job'[p].at = "comparing" /\ job'[p].got = Len(issued')
        BY <1>1, <4>4 DEF JobState
      <4>6. job' \in [Procs -> JobState] /\ job'[p] \in JobState
        BY <1>1, <4>3, <4>4
      <4> QED
        BY <4>2, <4>5, <4>6
    <3>4. CASE InvalidGrant(p)
      <4>1. job[p].dead \cup {Grant(job[p].read)} \in SUBSET Pairs /\ job[p].got = 0
        BY <1>3, <2>1, <3>4 DEF InvalidGrant, Doing, JobSound, JobState
      <4>2. [job[p] EXCEPT !.at = "leaving", !.dead = @ \cup {Grant(job[p].read)}] \in JobState
        <5>1. [job[p] EXCEPT !.at = "leaving"] \in JobState
          BY <1>1 DEF JobState
        <5> QED
          BY <4>1, <5>1 DEF JobState
      <4>3. job' = [job EXCEPT ![p] = [job[p] EXCEPT !.at = "leaving", !.dead = @ \cup {Grant(job[p].read)}]]
        BY <3>4 DEF InvalidGrant
      <4> QED
        BY <1>1, <4>1, <4>2, <4>3 DEF JobState
    <3>5. CASE job' = [job EXCEPT ![p] = [job[p] EXCEPT !.at = "leaving", !.got = 0]]
      <4>1. [job[p] EXCEPT !.at = "leaving", !.got = 0] \in JobState
        <5>1. [job[p] EXCEPT !.at = "leaving"] \in JobState
          BY <1>1 DEF JobState
        <5> QED
          BY <1>2, <5>1 DEF JobState
      <4> QED
        BY <1>1, <3>5, <4>1 DEF JobState
    <3>6. CASE Compare(p) /\ job' = [job EXCEPT ![p].at = "writing"]
      <4>1. job[p].got # 0 /\ job[p].got \in {0} \cup Given'
        BY <1>2, <1>3, <3>6 DEF Compare, Doing, JobSound
      <4> QED
        BY <1>1, <3>6, <4>1 DEF JobState
    <3>7. CASE Compare(p) \/ Write(p) \/ WriteFails(p)
      BY <3>5, <3>6, <3>7 DEF Compare, Write, WriteFails
    <3> QED
      BY <1>11, <3>1, <3>2, <3>3, <3>4, <3>7
  <2>3. JobSound(p)'
    <3>1. job'[p].read \in Given' /\ job'[p].read # 0 /\ issued'[job'[p].read].grant # 0
      BY <1>2, <1>3, <2>1, <2>2 DEF JobSound, Grant
    <3>2. lock'[p].at = "held" /\ job'[p].at # "idle"
      BY <2>1, <2>2 DEF At
    <3> QED
      BY <2>2, <3>1, <3>2 DEF JobSound, Doing, At, InSection, Grant
  <2> QED
    BY <2>1, <2>2, <2>3, OthersKept
<1> QED
  BY <1>5, <1>6, <1>7, <1>8, <1>9, <1>10, <1>11 DEF Next, Refresh

LEMMA TypeStep ==
  ASSUME TypeInv, [Next]_vars
  PROVE  TypeInv'
<1>1. LockTypeOK'
  <2>1. CASE LockMoves
    BY <2>1, LockTypeStep DEF TypeInv, TypeOK
  <2>2. CASE UNCHANGED lockVars
    BY <2>2 DEF TypeInv, TypeOK, LockTypeOK, lockVars
  <2> QED
    BY <2>1, <2>2, LockMovesOnly
<1>2. /\ issued' \in Seq([sign : 1..MaxSigns + 1, grant : 0..MaxPairs]) /\ Given' \subseteq Pairs
      /\ spent' \subseteq Pairs /\ GrantsSound'
  BY GrantsStep DEF Entry, GrantsSound
<1>3. TypeOK'
  BY <1>1, <1>2, LoginTyped, JobsStep DEF TypeOK
<1> QED
  BY <1>2, <1>3, JobsStep DEF TypeInv

\* The store, the lock and every refresh hold what their types say.
THEOREM RefreshTyped == Spec => []TypeOK
<1>1. Init => TypeInv
  BY TypeInit
<1>2. TypeInv /\ [Next]_vars => TypeInv'
  BY TypeStep
<1>3. TypeInv => TypeOK
  BY DEF TypeInv
<1> QED
  BY <1>1, <1>2, <1>3, PTL DEF Spec

-----------------------------------------------------------------------------
(* The lock's one holder. *)

LEMMA LockInitSound == LockInit => LockInv
  BY DEF LockInit, LockInv, OneHolder, StragglesInTime, HoldsSound, Holds, Straggles, At, NoLock

LEMMA LockStep ==
  ASSUME LockTypeOK, LockInv, LockMoves
  PROVE  LockInv'
<1> SUFFICES ASSUME Whole'
             PROVE  OneHolder' /\ StragglesInTime' /\ \A p \in Procs : HoldsSound(p)'
  BY DEF LockInv
<1>1. /\ lock \in [Procs -> LockState] /\ dir \in DirState
      /\ lock' \in [Procs -> LockState] /\ dir' \in DirState
      /\ torn \in [ripped : BOOLEAN, slept : BOOLEAN]
  BY LockTypeStep DEF LockTypeOK
<1>2. Whole
  BY <1>1 DEF LockMoves, Tick, Sleep, Acquire, MakeDir, StatDir, RemoveStale, MakeDirAgain, StampFresh, UnmakeDir,
              HeartbeatLooks, HeartbeatWrites, Release, Unacquired, LockCrash, Whole
<1>3. OneHolder /\ StragglesInTime /\ \A p \in Procs : HoldsSound(p)
  BY <1>2 DEF LockInv
<1> USE LockAssumption
<1>4. CASE Tick
  <2>1. \A p \in Procs : /\ lock'[p].at = lock[p].at /\ lock'[p].beat = lock[p].beat /\ lock'[p].lost = lock[p].lost
                         /\ lock'[p].stamp = IF At(p, "held") THEN Older(lock[p].stamp, 1) ELSE lock[p].stamp
    BY <1>1, <1>4 DEF Tick, Aged, LockState
  <2>2. dir.there /\ dir'.there /\ dir'.foundBy = dir.foundBy /\ dir'.age = Older(dir.age, 1)
    BY <1>1, <1>4 DEF Tick, Aged, DirState
  <2>3. ASSUME NEW p \in Procs
        PROVE  lock[p].beat # "writes" /\ ~At(p, "stamp") /\ (At(p, "held") => lock[p].stamp < Update)
    <3>1. lock[p].beat \in {"none", "sleeps", "writes"} /\ lock[p].stamp \in Nat
      BY <1>1 DEF LockState, Ages, Old
    <3> QED
      BY <1>3, <1>4, <3>1 DEF Tick, InTime, HoldsSound
  <2>4. OneHolder' /\ StragglesInTime'
    BY <1>3, <2>1, <2>3 DEF OneHolder, Holds, StragglesInTime, Straggles, At
  <2>5. ASSUME NEW p \in Procs
        PROVE  HoldsSound(p)'
    <3>1. lock[p].stamp \in Nat
      BY <1>1 DEF LockState, Ages, Old
    <3>2. At(p, "held") => Older(lock[p].stamp, 1) = lock[p].stamp + 1
      BY <2>3, <3>1 DEF Older, Old
    <3> QED
      BY <1>3, <2>1, <2>2, <2>3, <3>1, <3>2 DEF HoldsSound, At
  <2> QED
    BY <2>4, <2>5
<1>5. CASE Sleep
  BY <1>1, <1>5 DEF Sleep, Whole
<1>6. ASSUME NEW p \in Procs, Acquire(p) \/ Unacquired(p) \/ LockCrash(p)
      PROVE  OneHolder' /\ StragglesInTime' /\ \A q \in Procs : HoldsSound(q)'
  <2>1. /\ dir' = dir /\ lock'[p].at \in {"out", "mkdir"} /\ lock'[p].beat = "none" /\ ~lock'[p].lost
        /\ \A q \in Procs \ {p} : lock'[q] = lock[q]
    <3>1. CASE Acquire(p)
      <4>1. lock'[p] = [NoLock EXCEPT !.at = "mkdir", !.tries = 1]
        BY <1>1, <3>1 DEF Acquire
      <4>2. lock'[p].at = "mkdir" /\ lock'[p].beat = "none" /\ lock'[p].lost = FALSE
        BY <4>1 DEF NoLock
      <4> QED
        BY <1>1, <3>1, <4>2 DEF Acquire
    <3>2. CASE Unacquired(p) \/ LockCrash(p)
      BY <1>1, <3>2 DEF Unacquired, LockCrash, NoLock
    <3> QED
      BY <1>6, <3>1, <3>2
  <2> QED
    BY <1>3, <2>1 DEF OneHolder, Holds, StragglesInTime, Straggles, HoldsSound, At
<1>7. ASSUME NEW p \in Procs, Release(p)
      PROVE  OneHolder' /\ StragglesInTime' /\ \A q \in Procs : HoldsSound(q)'
  <2>1. /\ At(p, "held") /\ lock'[p].at = "out" /\ lock'[p].beat # "sleeps" /\ ~lock'[p].lost
        /\ \A q \in Procs \ {p} : lock'[q] = lock[q]
    BY <1>1, <1>7 DEF Release, NoLock
  <2>2. \A q \in Procs : ~Holds(q)'
    BY <1>3, <2>1 DEF OneHolder, Holds, At
  <2> QED
    BY <1>3, <2>1, <2>2 DEF OneHolder, Holds, StragglesInTime, HoldsSound, At
<1>8. ASSUME NEW p \in Procs, MakeDir(p) \/ MakeDirAgain(p)
      PROVE  OneHolder' /\ StragglesInTime' /\ \A q \in Procs : HoldsSound(q)'
  <2>1. /\ At(p, "mkdir") \/ At(p, "retry")
        /\ lock'[p].beat = lock[p].beat /\ lock'[p].lost = lock[p].lost
        /\ \A q \in Procs \ {p} : lock'[q] = lock[q]
        /\ \/ dir.there /\ dir' = dir /\ lock'[p].at \in {"stat", "mkdir", "contended"}
           \/ ~dir.there /\ dir' = NewDir /\ lock'[p].at = "stamp"
    BY <1>1, <1>8 DEF MakeDir, MakeDirAgain, Contended, Goes, LockState
  <2>2. CASE dir.there
    BY <1>3, <2>1, <2>2 DEF OneHolder, Holds, StragglesInTime, Straggles, HoldsSound, At
  <2>3. CASE ~dir.there
    <3>1. \A q \in Procs : ~Holds(q)
      BY <1>3, <2>3 DEF HoldsSound, Holds, At
    <3> QED
      BY <1>3, <2>1, <2>3, <3>1, DirsTyped DEF OneHolder, Holds, StragglesInTime, HoldsSound, At
  <2> QED
    BY <2>2, <2>3
<1>9. ASSUME NEW p \in Procs, StatDir(p)
      PROVE  OneHolder' /\ StragglesInTime' /\ \A q \in Procs : HoldsSound(q)'
  <2>1. /\ At(p, "stat") /\ lock'[p].at \in {"retry", "mkdir", "contended", "rmdir"}
        /\ lock'[p].beat = lock[p].beat /\ lock'[p].lost = lock[p].lost
        /\ \A q \in Procs \ {p} : lock'[q] = lock[q]
        /\ dir' = dir \/ (dir.there /\ ~Live)
        /\ dir'.there = dir.there /\ dir'.age = dir.age
    BY <1>1, <1>9 DEF StatDir, Contended, Goes, LockState, DirState
  <2>2. ~Live => \A q \in Procs : ~Holds(q)
    <3>1. \A q \in Procs : lock[q].stamp \in Nat
      BY <1>1 DEF LockState, Ages, Old
    <3> QED
      BY <1>3, <3>1 DEF Live, HoldsSound, Holds, At
  <2> QED
    BY <1>3, <2>1, <2>2 DEF OneHolder, Holds, StragglesInTime, Straggles, HoldsSound, At
<1>10. ASSUME NEW p \in Procs, RemoveStale(p)
       PROVE  OneHolder' /\ StragglesInTime' /\ \A q \in Procs : HoldsSound(q)'
  <2>1. /\ At(p, "rmdir") /\ lock'[p].at = "retry" /\ lock'[p].beat = lock[p].beat /\ lock'[p].lost = lock[p].lost
        /\ \A q \in Procs \ {p} : lock'[q] = lock[q]
    BY <1>1, <1>10 DEF RemoveStale, Goes, LockState
  <2>2. dir.there => p \in dir.foundBy
    BY <1>1, <1>10 DEF RemoveStale, Whole
  <2>3. \A q \in Procs : ~Holds(q)
    BY <1>3, <2>2 DEF HoldsSound, Holds, At
  <2> QED
    BY <1>3, <2>1, <2>3 DEF OneHolder, Holds, StragglesInTime, HoldsSound, At
<1>11. ASSUME NEW p \in Procs, StampFresh(p)
       PROVE  OneHolder' /\ StragglesInTime' /\ \A q \in Procs : HoldsSound(q)'
  <2>1. At(p, "stamp") /\ dir.there /\ dir.foundBy = {} /\ ~lock[p].lost
    <3>1. At(p, "stamp")
      BY <1>11 DEF StampFresh
    <3> QED
      BY <1>3, <3>1 DEF HoldsSound
  <2>2. /\ lock'[p].at = "held" /\ lock'[p].stamp = 0 /\ lock'[p].beat = "sleeps" /\ ~lock'[p].lost
        /\ \A q \in Procs \ {p} : lock'[q] = lock[q]
        /\ dir'.there /\ dir'.foundBy = {} /\ dir'.age = 0
    BY <1>1, <1>11, <2>1 DEF StampFresh, LockState, DirState
  <2>3. \A q \in Procs \ {p} : ~Holds(q)
    BY <1>3, <2>1 DEF OneHolder, Holds, At
  <2> QED
    BY <1>3, <2>2, <2>3 DEF OneHolder, Holds, StragglesInTime, HoldsSound, At
<1>12. ASSUME NEW p \in Procs, HeartbeatLooks(p)
       PROVE  OneHolder' /\ StragglesInTime' /\ \A q \in Procs : HoldsSound(q)'
  <2>1. At(p, "held") /\ StillOurs(p)
    BY <1>3, <1>12 DEF HeartbeatLooks, HoldsSound, StillOurs
  <2>2. /\ dir' = dir /\ lock'[p].beat = "writes" /\ lock'[p].at = "held"
        /\ lock'[p].stamp = lock[p].stamp /\ lock'[p].lost = lock[p].lost
        /\ \A q \in Procs \ {p} : lock'[q] = lock[q]
    BY <1>1, <1>12, <2>1 DEF HeartbeatLooks, LockState, At
  <2> QED
    BY <1>3, <2>1, <2>2 DEF OneHolder, Holds, StragglesInTime, Straggles, HoldsSound, At
<1>13. ASSUME NEW p \in Procs, HeartbeatWrites(p)
       PROVE  OneHolder' /\ StragglesInTime' /\ \A q \in Procs : HoldsSound(q)'
  <2>1. CASE At(p, "held")
    <3>1. dir.there
      BY <1>3, <2>1 DEF HoldsSound
    <3>2. /\ lock'[p].at = "held" /\ lock'[p].stamp = 0 /\ lock'[p].beat = "sleeps"
          /\ lock'[p].lost = lock[p].lost
          /\ \A q \in Procs \ {p} : lock'[q] = lock[q]
          /\ dir'.there /\ dir'.foundBy = dir.foundBy /\ dir'.age = 0
      BY <1>1, <1>13, <2>1, <3>1 DEF HeartbeatWrites, LockState, DirState, At
    <3>3. \A q \in Procs \ {p} : ~Holds(q)
      BY <1>3, <2>1 DEF OneHolder, Holds, At
    <3> QED
      BY <1>3, <2>1, <3>2, <3>3 DEF OneHolder, Holds, StragglesInTime, HoldsSound, At
  <2>2. CASE ~At(p, "held")
    <3>1. /\ lock[p].beat = "writes" /\ lock'[p].at = lock[p].at /\ lock'[p].beat = "none" /\ lock'[p].lost = lock[p].lost
          /\ \A q \in Procs \ {p} : lock'[q] = lock[q]
          /\ dir'.there = dir.there /\ dir'.foundBy = dir.foundBy
          /\ dir'.age = IF dir.there THEN 0 ELSE dir.age
      BY <1>1, <1>13, <2>2 DEF HeartbeatWrites, LockState, DirState
    <3>2. \A q \in Procs : At(q, "held") => lock[q].stamp = 0
      BY <1>3, <2>2, <3>1 DEF StragglesInTime, Straggles
    <3> QED
      BY <1>3, <2>2, <3>1, <3>2 DEF OneHolder, Holds, StragglesInTime, Straggles, HoldsSound, At
  <2> QED
    BY <2>1, <2>2
<1>14. ASSUME NEW p \in Procs, UnmakeDir(p)
       PROVE  OneHolder' /\ StragglesInTime' /\ \A q \in Procs : HoldsSound(q)'
  <2>1. /\ At(p, "unmake") /\ lock'[p].at = "error" /\ lock'[p].beat = lock[p].beat /\ lock'[p].lost = lock[p].lost
        /\ \A q \in Procs \ {p} : lock'[q] = lock[q]
    BY <1>1, <1>14 DEF UnmakeDir, Goes, LockState
  <2>2. ~dir.there
    BY <1>1, <1>14 DEF UnmakeDir, Whole
  <2>3. \A q \in Procs : ~Holds(q)
    BY <1>3, <2>2 DEF HoldsSound, Holds, At
  <2> QED
    BY <1>3, <2>1, <2>3 DEF OneHolder, Holds, StragglesInTime, HoldsSound, At
<1> QED
  BY <1>4, <1>5, <1>6, <1>7, <1>8, <1>9, <1>10, <1>11, <1>12, <1>13, <1>14 DEF LockMoves

-----------------------------------------------------------------------------
(* The login. *)

LEMMA LoginInit == Init => LoginInv
  BY DEF Init, LoginInv, LoginStands, HandSound, Compared, OnlyCopy, Doing, NoJob, Grant

\* No action but these touches what LoginInv speaks of.
LoginMoves ==
  \/ SignIn \/ SignOut
  \/ \E p \in Procs : \/ Look(p) \/ Canary(p) \/ Post(p) \/ PostFails(p) \/ Compare(p) \/ Write(p) \/ WriteFails(p)
                      \/ Crash(p)

\* The others take no pair into hand and leave none behind.
Quiet ==
  /\ UNCHANGED <<store, issued, spent, signs>>
  /\ \/ ghost' = ghost
     \/ ghost' = [ghost EXCEPT !.twice = TRUE] /\ \E p \in Procs : InvalidGrant(p)
  /\ \A p \in Procs : /\ job'[p].read = job[p].read /\ job'[p].got = job[p].got
                      /\ Doing(p, "writing")' => Doing(p, "writing")
                      /\ job'[p].at \in {"canary", "posting"} /\ job'[p].at # job[p].at => ReRead(p)

LEMMA LoginMovesOnly ==
  ASSUME TypeInv, [Next]_vars
  PROVE  LoginMoves \/ Quiet
<1>1. job \in [Procs -> JobState] /\ ghost \in [twice : BOOLEAN, lost : BOOLEAN, wiped : BOOLEAN]
  BY DEF TypeInv, TypeOK
<1>2. CASE Expire \/ TimePasses \/ MachineSleeps \/ UNCHANGED vars
  BY <1>2 DEF Expire, TimePasses, MachineSleeps, vars, lockVars, refreshVars, accountVars, Quiet, Doing
<1>3. ASSUME NEW p \in Procs, Queue(p) \/ Beat(p)
      PROVE  Quiet
  BY <1>3 DEF Queue, Beat, refreshVars, accountVars, Quiet, Doing
<1>4. ASSUME NEW p \in Procs, GiveUp(p) \/ ReRead(p) \/ Leave(p) \/ InvalidGrant(p) \/ WriteRefused(p)
      PROVE  Quiet
  <2>1. /\ UNCHANGED <<store, issued, spent, signs>>
        /\ ghost' = ghost \/ (ghost' = [ghost EXCEPT !.twice = TRUE] /\ InvalidGrant(p))
    BY <1>4 DEF GiveUp, ReRead, Leave, InvalidGrant, WriteRefused, accountVars
  <2>2. \A q \in Procs \ {p} : job'[q] = job[q]
    BY <1>1, <1>4 DEF GiveUp, ReRead, Leave, InvalidGrant, WriteRefused, Does
  <2>3. /\ job'[p].read = job[p].read /\ job'[p].got = job[p].got
        /\ job'[p].at \in {"idle", "canary", "posting", "leaving", "comparing"}
        /\ job'[p].at \in {"canary", "posting"} => ReRead(p)
    <3>1. CASE GiveUp(p) \/ ReRead(p) \/ WriteRefused(p)
      BY <1>1, <3>1 DEF GiveUp, ReRead, WriteRefused, Does, JobState
    <3>2. CASE Leave(p) \/ InvalidGrant(p)
      BY <1>1, <3>2 DEF Leave, InvalidGrant, JobState
    <3> QED
      BY <1>4, <3>1, <3>2
  <2> QED
    BY <2>1, <2>2, <2>3 DEF Quiet, Doing
<1> QED
  BY <1>2, <1>3, <1>4 DEF Next, Refresh, LoginMoves

\* What an unchanged refresh has in hand is what it was.
LEMMA HandKept ==
  ASSUME TypeInv, [Next]_vars, NEW q \in Procs,
         job'[q].read = job[q].read, job'[q].got = job[q].got
  PROVE  /\ OnlyCopy(q)' <=> OnlyCopy(q)
         /\ job[q].got # 0 => issued'[job[q].got] = issued[job[q].got] /\ issued'[job[q].read] = issued[job[q].read]
         /\ job[q].read # 0 => issued'[job[q].read] = issued[job[q].read]
<1>1. \A n \in Given : issued'[n] = issued[n]
  BY GrantsStep
<1>2. /\ job[q].read \in {0} \cup Given /\ job[q].got \in {0} \cup Given
      /\ job[q].got # 0 => job[q].read \in Given
  BY JobTyped DEF Doing
<1> QED
  BY <1>1, <1>2 DEF OnlyCopy, Grant

LEMMA LoginStep ==
  ASSUME TypeInv, LoginInv, [Next]_vars
  PROVE  LoginInv'
<1>1. /\ job \in [Procs -> JobState] /\ ghost \in [twice : BOOLEAN, lost : BOOLEAN, wiped : BOOLEAN]
      /\ store \in {0} \cup Given /\ spent \subseteq Given /\ 0 \notin Given
  BY DEF TypeInv, TypeOK, GrantsSound, Given
<1>2. ASSUME NEW p \in Procs
      PROVE  /\ HandSound(p) /\ Compared(p)
             /\ job[p].read \in {0} \cup Given
             /\ ~Doing(p, "idle") => job[p].read \in Given /\ Grant(job[p].read) \in Given
             /\ job[p].got \in {0} \cup Given
             /\ job[p].got # 0 <=> job[p].at \in {"comparing", "writing"}
  BY JobTyped DEF LoginInv
<1>3. LoginStands
  BY DEF LoginInv
<1>4. \A n \in Given : issued'[n] = issued[n]
  BY GrantsStep
<1>5. CASE Quiet
  <2>1. \A p \in Procs : OnlyCopy(p)' <=> OnlyCopy(p)
    BY <1>5, HandKept DEF Quiet
  <2>2. Replaced' <=> Replaced
    BY <1>5, <2>1 DEF Quiet, Replaced, Grant
  <2>3. ghost'.wiped = ghost.wiped /\ ghost'.lost = ghost.lost
    BY <1>1, <1>5 DEF Quiet
  <2>4. LoginStands'
    BY <1>3, <1>5, <2>2, <2>3 DEF Quiet, LoginStands, Grant
  <2>5. ASSUME NEW p \in Procs
        PROVE  HandSound(p)'
    BY <1>2, <1>5, <2>1 DEF Quiet, HandSound, Grant
  <2>6. ASSUME NEW p \in Procs
        PROVE  Compared(p)'
    BY <1>2, <1>5 DEF Quiet, Compared, Grant
  <2> QED
    BY <2>4, <2>5, <2>6 DEF LoginInv
<1>6. CASE SignIn
  <2>1. PICK g \in {0, Len(issued) + 1} : issued' = Append(issued, [sign |-> signs.count + 1, grant |-> g])
    BY <1>6 DEF SignIn
  <2>2. [sign |-> signs.count + 1, grant |-> g] \in Entry /\ signs.count + 1 # 0 /\ Len(issued) < MaxPairs
    BY <1>6, <2>1, RefreshAssumption DEF SignIn, Entry, TypeInv, TypeOK
  <2>3. /\ store' \notin Given /\ store' \in Nat \ {0} /\ issued'[store'] = [sign |-> signs.count + 1, grant |-> g]
        /\ g \in {0, store'} /\ \A n \in Given : n \in Nat /\ n < store'
    BY <1>6, <2>1, <2>2, Appended DEF SignIn
  <2>4. /\ signs'.standing = signs.count + 1 /\ UNCHANGED <<spent, job>> /\ StorageFree
    BY <1>6 DEF SignIn
  <2>5. Grant(store)' = g
    BY <2>3 DEF Grant
  <2>6. LoginStands'
    BY <1>1, <2>2, <2>3, <2>4, <2>5 DEF LoginStands
  <2>7. ASSUME NEW p \in Procs
        PROVE  HandSound(p)'
    <3>1. OnlyCopy(p) => job[p].got \in Given /\ Grant(job[p].got) \in 1..job[p].got
      <4>1. OnlyCopy(p) => job[p].got \in Given /\ Grant(job[p].got) # 0
        BY <1>2 DEF HandSound, OnlyCopy
      <4> QED
        BY <4>1, EntryTyped
    <3>2. \A q \in Procs : (OnlyCopy(q)' <=> OnlyCopy(q)) /\ (job[q].read # 0 => issued'[job[q].read] = issued[job[q].read])
      BY <2>4, HandKept
    <3>3. job[p].got # 0 => issued'[job[p].got] = issued[job[p].got] /\ issued'[job[p].read] = issued[job[p].read]
      BY <2>4, HandKept
    <3>4. OnlyCopy(p) => Grant(job[p].got) # g
      BY <2>3, <3>1
    <3>5. \A q \in Procs : OnlyCopy(q) => Grant(job[q].got)' = Grant(job[q].got)
      BY <1>2, <1>4, <2>4 DEF OnlyCopy, Grant
    <3>6. \A q \in Procs : job[q].read # 0 => Grant(job[q].read)' = Grant(job[q].read)
      BY <2>4, <3>2 DEF Grant
    <3>7. HandSound(p)
      BY <1>2
    <3> QED
      BY <2>4, <2>5, <3>2, <3>3, <3>4, <3>5, <3>6, <3>7 DEF HandSound
  <2>8. ASSUME NEW p \in Procs
        PROVE  Compared(p)'
    BY <2>4 DEF Compared, StorageFree, Doing
  <2> QED
    BY <2>6, <2>7, <2>8 DEF LoginInv
<1>7. CASE SignOut
  <2>1. store' = 0 /\ signs'.standing = 0 /\ UNCHANGED <<issued, spent, job>>
    BY <1>7 DEF SignOut
  <2>2. LoginStands'
    BY <2>1 DEF LoginStands
  <2>3. ASSUME NEW p \in Procs
        PROVE  HandSound(p)' /\ Compared(p)'
    BY <1>2, <2>1 DEF HandSound, Compared, OnlyCopy, Doing, Grant
  <2> QED
    BY <2>2, <2>3 DEF LoginInv
<1>8. ASSUME NEW p \in Procs, Look(p) \/ Canary(p) \/ PostFails(p)
      PROVE  LoginInv'
  <2>1. /\ job[p].got = 0 /\ job'[p].got = 0 /\ ~Doing(p, "writing") /\ ~Doing(p, "writing")'
        /\ \A q \in Procs \ {p} : job'[q] = job[q]
        /\ job'[p].read \in {job[p].read, store}
    BY <1>1, <1>2, <1>8 DEF Look, Canary, PostFails, Does, Doing, JobState
  <2>2. /\ UNCHANGED <<issued, signs>> /\ store' \in {store, job[p].read}
        /\ spent \subseteq spent' /\ spent' \subseteq spent \cup {Grant(job[p].read)}
        /\ store' # store \/ spent' # spent => ~Doing(p, "idle")
        /\ store' # store => StorageFree
    BY <1>8 DEF Look, Canary, PostFails, Doing, accountVars
  <2>3. \A q \in Procs : OnlyCopy(q)' <=> OnlyCopy(q)
    BY <2>1, <2>2 DEF OnlyCopy, Grant
  <2>4. ASSUME NEW q \in Procs
        PROVE  HandSound(q)'
    <3>1. CASE q = p
      BY <2>1, <2>3, <3>1 DEF HandSound, OnlyCopy
    <3>2. CASE q # p
      <4>1. job'[q] = job[q] /\ HandSound(q) /\ (store' # store \/ spent' # spent => job[p].read # 0)
        BY <1>1, <1>2, <2>1, <2>2, <3>2
      <4>2. OnlyCopy(q) => Grant(job[q].got) \notin spent' \cup {0} /\ (store' # 0 => Grant(store') # Grant(job[q].got))
        BY <2>2, <4>1 DEF HandSound
      <4>3. OnlyCopy(q) => \A o \in Procs : job'[o].read # 0 => Grant(job'[o].read) # Grant(job[q].got)
        BY <2>1, <4>1 DEF HandSound
      <4>4. OnlyCopy(q) => \A o \in Procs \ {q} : OnlyCopy(o)' => Grant(job'[o].got) # Grant(job[q].got)
        BY <2>1, <2>3, <4>1 DEF HandSound, OnlyCopy
      <4> QED
        BY <2>2, <2>3, <4>1, <4>2, <4>3, <4>4 DEF HandSound, Grant
    <3> QED
      BY <3>1, <3>2
  <2>5. ASSUME NEW q \in Procs
        PROVE  Compared(q)'
    BY <1>2, <2>1, <2>2 DEF Compared, StorageFree, Doing, Grant
  <2>6. Replaced /\ store' = store => Replaced'
    <3>1. \A q \in Procs : OnlyCopy(q) => q # p
      BY <2>1 DEF OnlyCopy
    <3> QED
      BY <2>1, <2>2, <2>3, <3>1 DEF Replaced, Grant
  <2>7. ~ghost.wiped' => ~ghost.wiped /\ store' = store
    BY <1>1, <1>8 DEF Look, Canary, PostFails, Moved, accountVars
  <2>8. ~ghost.lost' => ~ghost.lost /\ spent' = spent
    BY <1>1, <1>8 DEF Look, Canary, PostFails, accountVars
  <2>9. LoginStands'
    BY <1>3, <2>2, <2>6, <2>7, <2>8 DEF LoginStands, Grant
  <2> QED
    BY <2>4, <2>5, <2>9 DEF LoginInv
<1>9. ASSUME NEW p \in Procs, Post(p)
      PROVE  LoginInv'
  <2> DEFINE new == Len(issued')
  <2>1. /\ job[p].got = 0 /\ job[p].read \in Given /\ Grant(job[p].read) \in Given /\ ~Doing(p, "writing")
    BY <1>2, <1>9 DEF Post, Doing
  <2>2. PICK g \in {Grant(job[p].read), new} :
              /\ issued' = Append(issued, [sign |-> issued[job[p].read].sign, grant |-> g])
              /\ [sign |-> issued[job[p].read].sign, grant |-> g] \in Entry /\ g # 0
              /\ spent' = spent \cup ({Grant(job[p].read)} \ {g})
    BY <1>9, Posted
  <2>3. Len(issued) < MaxPairs
    BY <1>9 DEF Post
  <2>4. /\ new \in Nat \ {0} /\ new \notin Given /\ issued'[new] = [sign |-> issued[job[p].read].sign, grant |-> g]
        /\ \A n \in Given : n \in Nat /\ n < new
    BY <2>2, <2>3, Appended
  <2>5. /\ job'[p].at = "comparing" /\ job'[p].got = new /\ job'[p].read = job[p].read
        /\ \A q \in Procs \ {p} : job'[q] = job[q]
    BY <1>1, <1>9 DEF Post, JobState
  <2>6. UNCHANGED <<store, signs, ghost>>
    BY <1>9 DEF Post
  <2>7. \A n \in Given : Grant(n)' = Grant(n) /\ Grant(n) # new
    <3>1. \A n \in Given : Grant(n) \in 0..n
      BY EntryTyped
    <3> QED
      BY <1>4, <2>4, <3>1 DEF Grant
  <2>8. \A q \in Procs : job'[q].read = job[q].read
    BY <2>5
  <2>9. \A q \in Procs \ {p} : /\ OnlyCopy(q)' <=> OnlyCopy(q)
                               /\ OnlyCopy(q) => job[q].got \in Given
    BY <1>2, <2>5, HandKept DEF OnlyCopy
  <2>10. OnlyCopy(p)' <=> g # Grant(job[p].read)
    <3>1. issued'[job'[p].got].grant = g /\ issued'[job'[p].read].grant = Grant(job[p].read)
      BY <1>4, <2>1, <2>4, <2>5 DEF Grant
    <3> QED
      BY <2>4, <2>5, <3>1 DEF OnlyCopy, Grant
  <2>11. HandSound(p)'
    <3>1. issued'[job'[p].got].sign = issued'[job'[p].read].sign
      BY <1>4, <2>1, <2>4, <2>5
    <3> SUFFICES ASSUME OnlyCopy(p)'
                 PROVE  /\ Grant(job[p].got)' \notin spent' \cup {0}
                        /\ store' # 0 => Grant(store)' # Grant(job[p].got)'
                        /\ \A q \in Procs : job'[q].read # 0 => Grant(job[q].read)' # Grant(job[p].got)'
                        /\ \A q \in Procs \ {p} : OnlyCopy(q)' => Grant(job[q].got)' # Grant(job[p].got)'
      BY <3>1 DEF HandSound
    <3>2. g = new /\ Grant(job[p].got)' = new
      BY <2>2, <2>4, <2>5, <2>10 DEF Grant
    <3>3. new \notin spent' \cup {0}
      BY <1>1, <2>1, <2>2, <2>4
    <3>4. store' # 0 => Grant(store)' # new
      BY <1>1, <2>6, <2>7 DEF Grant
    <3>5. ASSUME NEW q \in Procs, job'[q].read # 0
          PROVE  Grant(job[q].read)' # new
      <4>1. job[q].read \in Given
        BY <1>2, <2>8, <3>5
      <4> QED
        BY <2>7, <2>8, <4>1 DEF Grant
    <3>6. ASSUME NEW q \in Procs \ {p}, OnlyCopy(q)'
          PROVE  Grant(job[q].got)' # new
      BY <2>5, <2>7, <2>9, <3>6 DEF Grant
    <3> QED
      BY <3>2, <3>3, <3>4, <3>5, <3>6
  <2>12. ASSUME NEW q \in Procs \ {p}
         PROVE  HandSound(q)'
    <3>1. job'[q] = job[q] /\ HandSound(q)
      BY <1>2, <2>5
    <3>2. job[q].got # 0 => issued'[job[q].got] = issued[job[q].got] /\ issued'[job[q].read] = issued[job[q].read]
      BY <3>1, HandKept
    <3>3. job'[q].got # 0 => issued'[job'[q].got].sign = issued'[job'[q].read].sign
      BY <3>1, <3>2 DEF HandSound
    <3> SUFFICES ASSUME OnlyCopy(q)'
                 PROVE  /\ Grant(job[q].got)' \notin spent' \cup {0}
                        /\ store' # 0 => Grant(store)' # Grant(job[q].got)'
                        /\ \A o \in Procs : job'[o].read # 0 => Grant(job[o].read)' # Grant(job[q].got)'
                        /\ \A o \in Procs \ {q} : OnlyCopy(o)' => Grant(job[o].got)' # Grant(job[q].got)'
      BY <3>3 DEF HandSound
    <3>4. OnlyCopy(q) /\ job[q].got \in Given /\ Grant(job[q].got)' = Grant(job[q].got) /\ Grant(job[q].got) # new
      BY <2>5, <2>7, <2>9 DEF Grant
    <3>5. Grant(job[q].got) \notin spent' \cup {0}
      <4>1. job[p].read # 0
        BY <1>1, <2>1
      <4> QED
        BY <2>2, <3>1, <3>4, <4>1 DEF HandSound
    <3>6. store' # 0 => Grant(store)' # Grant(job[q].got)
      <4>1. store # 0 => Grant(store)' = Grant(store)
        BY <1>1, <2>6, <2>7 DEF Grant
      <4> QED
        BY <2>6, <3>1, <3>4, <4>1 DEF HandSound
    <3>7. ASSUME NEW o \in Procs, job'[o].read # 0
          PROVE  Grant(job[o].read)' # Grant(job[q].got)
      <4>1. job[o].read \in Given /\ job[o].read # 0
        BY <1>2, <2>8, <3>7
      <4>2. Grant(job[o].read)' = Grant(job[o].read)
        BY <2>7, <2>8, <4>1 DEF Grant
      <4> QED
        BY <3>1, <3>4, <4>1, <4>2 DEF HandSound
    <3>8. ASSUME NEW o \in Procs \ {q}, OnlyCopy(o)'
          PROVE  Grant(job[o].got)' # Grant(job[q].got)
      <4>1. CASE o = p
        <5>1. Grant(job[p].got)' = new
          BY <2>2, <2>4, <2>5, <2>10, <3>8, <4>1 DEF Grant
        <5> QED
          BY <3>4, <4>1, <5>1
      <4>2. CASE o # p
        <5>1. OnlyCopy(o) /\ Grant(job[o].got)' = Grant(job[o].got)
          BY <2>5, <2>7, <2>9, <3>8, <4>2 DEF Grant
        <5> QED
          BY <3>1, <3>4, <5>1 DEF HandSound
      <4> QED
        BY <4>1, <4>2
    <3> QED
      BY <3>4, <3>5, <3>6, <3>7, <3>8
  <2>13. ASSUME NEW q \in Procs
         PROVE  Compared(q)'
    <3>1. Doing(q, "writing")' => q # p /\ Doing(q, "writing")
      BY <2>5 DEF Doing
    <3>2. store # 0 => Grant(store)' = Grant(store)
      BY <1>1, <2>6, <2>7 DEF Grant
    <3>3. Doing(q, "writing") => Grant(job[q].read)' = Grant(job[q].read)
      BY <1>2, <2>7, <2>8 DEF Doing, Grant
    <3>4. \A o \in Procs : Doing(o, "writing")' => Doing(o, "writing")
      BY <2>5 DEF Doing
    <3> QED
      BY <1>2, <2>6, <3>1, <3>2, <3>3, <3>4 DEF Compared
  <2>14. LoginStands'
    <3>1. store # 0 => Grant(store)' = Grant(store) /\ issued'[store] = issued[store]
      BY <1>1, <1>4, <2>7, <2>6 DEF Grant
    <3>2. ASSUME store # 0, Grant(store) \in spent', Replaced \/ Grant(store) \notin spent
          PROVE  Replaced'
      <4>1. CASE Replaced
        <5>1. PICK q \in Procs : OnlyCopy(q) /\ Grant(job[q].read) = Grant(store)
          BY <4>1 DEF Replaced
        <5>2. q # p /\ job[q].read \in Given
          BY <1>2, <2>1, <5>1 DEF OnlyCopy, Doing
        <5>3. OnlyCopy(q)' /\ Grant(job[q].read)' = Grant(store)'
          BY <2>5, <2>7, <2>9, <3>1, <3>2, <5>1, <5>2 DEF Grant
        <5> QED
          BY <5>3 DEF Replaced
      <4>2. CASE Grant(store) \notin spent
        <5>1. Grant(store) = Grant(job[p].read) /\ g # Grant(job[p].read)
          BY <2>2, <3>2, <4>2
        <5>2. OnlyCopy(p)' /\ Grant(job[p].read)' = Grant(store)'
          BY <2>1, <2>5, <2>7, <2>10, <3>1, <3>2, <5>1 DEF Grant
        <5> QED
          BY <5>2 DEF Replaced
      <4> QED
        BY <3>2, <4>1, <4>2
    <3>3. Grant(store)' = issued'[store'].grant
      BY DEF Grant
    <3> QED
      BY <1>3, <2>6, <3>1, <3>2 DEF LoginStands
  <2> QED
    BY <2>11, <2>12, <2>13, <2>14 DEF LoginInv
<1>10. ASSUME NEW p \in Procs, Compare(p) \/ WriteFails(p) \/ Crash(p)
       PROVE  LoginInv'
  <2>1. /\ \A q \in Procs \ {p} : job'[q] = job[q]
        /\ UNCHANGED accountVars
        /\ ghost'.wiped = ghost.wiped
    BY <1>1, <1>10 DEF Compare, WriteFails, Crash
  <2>2. \/ job'[p].got = 0 /\ job'[p].read \in {0, job[p].read} /\ job'[p].at # "writing"
        \/ /\ Compare(p) /\ ~Adopts(p) /\ StorageFree
           /\ job'[p].got = job[p].got /\ job'[p].read = job[p].read
    <3>1. CASE Crash(p)
      BY <1>1, <3>1 DEF Crash, NoJob
    <3>2. CASE WriteFails(p)
      BY <1>1, <3>2 DEF WriteFails, JobState
    <3>3. CASE Compare(p)
      BY <1>1, <3>3 DEF Compare, JobState
    <3> QED
      BY <1>10, <3>1, <3>2, <3>3
  <2>3. \A q \in Procs : /\ OnlyCopy(q)' => OnlyCopy(q)
                         /\ OnlyCopy(q) /\ q # p => OnlyCopy(q)'
                         /\ OnlyCopy(q)' => job'[q].got = job[q].got /\ job'[q].read = job[q].read
                         /\ job'[q].read \in {0, job[q].read}
    BY <2>1, <2>2 DEF OnlyCopy, Grant, accountVars
  <2>4. ASSUME NEW q \in Procs
        PROVE  HandSound(q)'
    <3>1. job'[q].got # 0 => job'[q].got = job[q].got /\ job'[q].read = job[q].read
      BY <2>1, <2>2
    <3> QED
      BY <1>2, <2>1, <2>3, <3>1 DEF HandSound, Grant, accountVars
  <2>5. ASSUME NEW q \in Procs
        PROVE  Compared(q)'
    <3>1. CASE job'[p].at # "writing"
      BY <1>2, <2>1, <3>1 DEF Compared, Doing, Grant, accountVars
    <3>2. CASE Compare(p) /\ ~Adopts(p) /\ StorageFree /\ job'[p].read = job[p].read
      <4>1. \A o \in Procs : Doing(o, "writing")' => o = p
        BY <2>1, <3>2 DEF StorageFree, Doing
      <4>2. store # 0 => Grant(store) \in {0, Grant(job[p].read)}
        BY <3>2 DEF Adopts
      <4> QED
        BY <2>1, <3>2, <4>1, <4>2 DEF Compared, Grant, accountVars
    <3> QED
      BY <2>2, <3>1, <3>2
  <2>6. ~ghost'.lost => ~ghost.lost /\ (Replaced /\ store # 0 /\ Grant(store) # 0 => Replaced')
    <3> SUFFICES ASSUME ~ghost'.lost, Replaced, store # 0, Grant(store) # 0
                 PROVE  Replaced'
      BY <1>1, <1>10 DEF Compare, WriteFails, Crash
    <3>1. PICK q \in Procs : OnlyCopy(q) /\ Grant(job[q].read) = Grant(store)
      BY DEF Replaced
    <3>2. OnlyCopy(q)'
      <4>1. CASE q # p
        BY <2>3, <3>1, <4>1
      <4>2. CASE q = p /\ Compare(p)
        <5>1. ~Adopts(p)
          BY <3>1, <4>2 DEF Adopts
        <5>2. job' = [job EXCEPT ![p].at = "writing"]
          BY <4>2, <5>1 DEF Compare
        <5> QED
          BY <1>1, <2>1, <3>1, <4>2, <5>2 DEF OnlyCopy, Grant, accountVars, JobState
      <4>3. CASE q = p /\ (WriteFails(p) \/ Crash(p))
        BY <1>1, <3>1, <4>3 DEF WriteFails, Crash
      <4> QED
        BY <1>10, <4>1, <4>2, <4>3
    <3>3. job'[q].read = job[q].read
      BY <2>3, <3>2
    <3> QED
      BY <2>1, <3>1, <3>2, <3>3 DEF Replaced, Grant, accountVars
  <2>7. LoginStands'
    BY <1>1, <1>3, <2>1, <2>6 DEF LoginStands, Grant, accountVars
  <2> QED
    BY <2>4, <2>5, <2>7 DEF LoginInv
<1>11. ASSUME NEW p \in Procs, Write(p)
       PROVE  LoginInv'
  <2>1. /\ Doing(p, "writing") /\ job'[p].at = "leaving" /\ job'[p].read = job[p].read /\ job'[p].got = 0
        /\ \A q \in Procs \ {p} : job'[q] = job[q]
        /\ UNCHANGED <<issued, spent, signs>> /\ store' = job[p].got
        /\ ghost'.lost = ghost.lost
        /\ ~ghost'.wiped => ~ghost.wiped /\ store # 0 /\ Grant(store) # 0
    BY <1>1, <1>11 DEF Write, JobState
  <2>2. job[p].got \in Given /\ job[p].got # 0 /\ job[p].read \in Given /\ job[p].read # 0
    BY <1>1, <1>2, <2>1 DEF Doing
  <2>3. \A q \in Procs : /\ OnlyCopy(q)' <=> OnlyCopy(q) /\ q # p
                         /\ OnlyCopy(q)' => job'[q] = job[q]
    BY <2>1 DEF OnlyCopy, Grant
  <2>4. ASSUME NEW q \in Procs
        PROVE  HandSound(q)'
    <3>1. CASE q = p
      BY <2>1, <2>3, <3>1 DEF HandSound
    <3>2. CASE q # p
      <4>1. job'[q] = job[q] /\ HandSound(q)
        BY <1>2, <2>1, <3>2
      <4>2. OnlyCopy(q) => Grant(job[p].got) # Grant(job[q].got)
        BY <2>2, <3>2, <4>1 DEF HandSound, OnlyCopy
      <4>3. \A o \in Procs : job'[o].read = job[o].read
        BY <2>1
      <4> QED
        BY <2>1, <2>3, <4>1, <4>2, <4>3 DEF HandSound, Grant
    <3> QED
      BY <3>1, <3>2
  <2>5. ASSUME NEW q \in Procs
        PROVE  Compared(q)'
    <3>1. ~Doing(q, "writing")'
      BY <1>2, <2>1 DEF Compared, Doing
    <3> QED
      BY <3>1 DEF Compared
  <2>6. LoginStands'
    <3> SUFFICES ASSUME ~ghost'.wiped
                 PROVE  /\ signs.standing # 0 /\ issued[job[p].got].sign = signs.standing
                        /\ Grant(job[p].got) \in spent => Replaced' \/ ghost.lost
      BY <2>1, <2>2 DEF LoginStands, Grant
    <3>1. store # 0 /\ signs.standing # 0 /\ issued[store].sign = signs.standing
          /\ (Grant(store) \in spent => Replaced \/ ghost.lost)
      BY <1>3, <2>1 DEF LoginStands
    <3>2. Grant(store) = Grant(job[p].read) /\ Grant(store) # 0
      BY <1>2, <2>1 DEF Compared
    <3>3. issued[store].sign = issued[job[p].read].sign
      BY <1>1, <2>2, <3>1, <3>2 DEF TypeInv, GrantsSound
    <3>4. issued[job[p].got].sign = issued[job[p].read].sign
      BY <1>2, <2>2 DEF HandSound
    <3>5. CASE OnlyCopy(p)
      BY <1>2, <3>1, <3>3, <3>4, <3>5 DEF HandSound
    <3>6. CASE ~OnlyCopy(p)
      <4>1. Grant(job[p].got) = Grant(store)
        BY <2>2, <3>2, <3>6 DEF OnlyCopy
      <4>2. ASSUME Replaced
            PROVE  Replaced'
        <5>1. PICK q \in Procs : OnlyCopy(q) /\ Grant(job[q].read) = Grant(store)
          BY <4>2 DEF Replaced
        <5>2. OnlyCopy(q)' /\ job'[q] = job[q]
          BY <2>3, <3>6, <5>1
        <5> QED
          BY <2>1, <4>1, <5>1, <5>2 DEF Replaced, Grant
      <4> QED
        BY <3>1, <3>3, <3>4, <4>1, <4>2
    <3> QED
      BY <3>5, <3>6
  <2> QED
    BY <2>4, <2>5, <2>6 DEF LoginInv
<1> QED
  BY <1>5, <1>6, <1>7, <1>8, <1>9, <1>10, <1>11, LoginMovesOnly DEF LoginMoves

\* The person's last word stands, the refresh lock kept or lost.
THEOREM LastWordStands == Spec => []LoginStands
<1>1. Init => TypeInv /\ LoginInv
  BY TypeInit, LoginInit
<1>2. TypeInv /\ LoginInv /\ [Next]_vars => TypeInv' /\ LoginInv'
  BY TypeStep, LoginStep
<1>3. LoginInv => LoginStands
  BY DEF LoginInv
<1> QED
  BY <1>1, <1>2, <1>3, PTL DEF Spec

-----------------------------------------------------------------------------
(* One grant, one POST. *)

LEMMA OneInSection ==
  ASSUME TypeInv, LockInv, Whole, NEW p \in Procs, NEW q \in Procs,
         At(p, "held"), InSection(q)
  PROVE  p = q
  BY DEF TypeInv, JobSound, LockInv, OneHolder, Holds, At

LEMMA GrantInit == Init => LockInv /\ GrantInv
  BY LockInitSound DEF Init, GrantInv, InUse, NoJob, Grant

LEMMA CalmBefore ==
  ASSUME TypeInv, [Next]_vars, Calm'
  PROVE  Calm
<1>1. /\ torn \in [ripped : BOOLEAN, slept : BOOLEAN]
      /\ ghost \in [twice : BOOLEAN, lost : BOOLEAN, wiped : BOOLEAN]
  BY DEF TypeInv, TypeOK, LockTypeOK
<1>2. Whole' => Whole
  <2>1. CASE UNCHANGED lockVars
    BY <2>1 DEF lockVars, Whole
  <2>2. CASE LockMoves
    BY <1>1, <2>2 DEF LockMoves, Tick, Sleep, Acquire, MakeDir, StatDir, RemoveStale, MakeDirAgain, StampFresh, UnmakeDir,
                HeartbeatLooks, HeartbeatWrites, Release, Unacquired, LockCrash, Whole
  <2> QED
    BY <2>1, <2>2, LockMovesOnly
<1>3. ~ghost'.lost => ~ghost.lost
  <2>1. CASE Quiet
    BY <1>1, <2>1 DEF Quiet
  <2>2. CASE LoginMoves
    BY <1>1, <2>2 DEF LoginMoves, SignIn, SignOut, Look, Canary, Post, PostFails, Compare, Write, WriteFails, Crash
  <2> QED
    BY <2>1, <2>2, LoginMovesOnly
<1> QED
  BY <1>2, <1>3 DEF Calm

LEMMA GrantStep ==
  ASSUME TypeInv, LoginInv, LockInv, GrantInv, [Next]_vars
  PROVE  GrantInv'
<1> DEFINE Goal ==
      /\ ~ghost'.twice
      /\ store' # 0 /\ Grant(store)' \in spent' => Replaced'
      /\ \A p \in Procs : InUse(p)' => Grant(job[p].read)' \notin spent'
<1> SUFFICES ASSUME Calm'
             PROVE  Goal
  BY DEF GrantInv, Calm, Whole
<1>1. /\ job \in [Procs -> JobState] /\ ghost \in [twice : BOOLEAN, lost : BOOLEAN, wiped : BOOLEAN]
      /\ store \in {0} \cup Given /\ spent \subseteq Given /\ 0 \notin Given
      /\ \A n \in Given : issued'[n] = issued[n]
  BY GrantsStep DEF TypeInv, TypeOK, GrantsSound, Given
<1>2. Calm /\ Whole
  BY CalmBefore DEF Calm
<1>3. /\ ~ghost.twice
      /\ store # 0 /\ Grant(store) \in spent => Replaced
      /\ \A p \in Procs : InUse(p) => Grant(job[p].read) \notin spent
  BY <1>2 DEF GrantInv
<1>4. ASSUME NEW p \in Procs, NEW q \in Procs, At(p, "held"), InSection(q)
      PROVE  p = q
  BY <1>2, <1>4, OneInSection
<1>5. ASSUME NEW p \in Procs
      PROVE  /\ ~Doing(p, "idle") => job[p].read \in Given
             /\ job[p].got \in {0} \cup Given
             /\ job[p].got # 0 <=> job[p].at \in {"comparing", "writing"}
             /\ InUse(p) \/ OnlyCopy(p) => InSection(p)
             /\ InSection(p) => At(p, "held")
             /\ HandSound(p)
  BY JobTyped DEF TypeInv, JobSound, LoginInv, InUse, InSection
<1>6. ASSUME NEW q \in Procs, job'[q] = job[q]
      PROVE  /\ OnlyCopy(q)' <=> OnlyCopy(q)
             /\ InUse(q)' <=> InUse(q)
             /\ InUse(q) \/ OnlyCopy(q) => Grant(job[q].read)' = Grant(job[q].read)
  <2>1. OnlyCopy(q)' <=> OnlyCopy(q)
    BY <1>6, HandKept
  <2>2. InUse(q) \/ OnlyCopy(q) => job[q].read \in Given
    BY <1>5 DEF InSection, Doing
  <2> QED
    BY <1>1, <1>6, <2>1, <2>2 DEF InUse, Grant
<1>7. CASE Quiet
  <2>1. \A p \in Procs : OnlyCopy(p)' <=> OnlyCopy(p)
    BY <1>7, HandKept DEF Quiet
  <2>2. Replaced' <=> Replaced
    BY <1>7, <2>1 DEF Quiet, Replaced, Grant
  <2>3. ~ghost'.twice
    <3>1. ASSUME NEW p \in Procs, InvalidGrant(p)
          PROVE  FALSE
      <4>1. InUse(p)
        BY <1>5, <3>1 DEF InvalidGrant, Doing, InUse, OnlyCopy
      <4> QED
        BY <1>3, <3>1, <4>1 DEF InvalidGrant, Rotates
    <3>2. ghost' = ghost
      BY <1>7, <3>1 DEF Quiet
    <3> QED
      BY <1>3, <3>2
  <2>4. ASSUME NEW p \in Procs, InUse(p)'
        PROVE  Grant(job[p].read)' \notin spent'
    <3>1. Grant(job[p].read)' = Grant(job[p].read) /\ spent' = spent
      BY <1>7 DEF Quiet, Grant
    <3>2. CASE InUse(p)
      BY <1>3, <3>1, <3>2
    <3>3. CASE ~InUse(p)
      <4>1. ReRead(p)
        <5>1. job'[p].at \in {"canary", "posting"} \/ job[p].got # 0
          BY <1>7, <2>4, TypeStep, JobTyped DEF Quiet, InUse, TypeInv, JobSound
        <5>2. job[p].got = 0
          BY <1>5, <2>1, <2>4, <3>3 DEF InUse
        <5>3. job'[p].at \in {"canary", "posting"} /\ job'[p].at # job[p].at
          BY <2>1, <2>4, <3>3, <5>1, <5>2 DEF InUse
        <5> QED
          BY <1>7, <5>3 DEF Quiet
      <4>2. Doing(p, "locking") /\ At(p, "held") /\ (store = job[p].read \/ job'[p].at = "leaving")
        BY <1>1, <4>1 DEF ReRead, Moved, Does, JobState
      <4>3. store = job[p].read /\ store # 0
        BY <1>1, <1>5, <2>4, <4>2 DEF InUse, Doing
      <4>4. ~Replaced
        <5>1. ASSUME NEW q \in Procs, OnlyCopy(q)
              PROVE  FALSE
          <6>1. q = p
            BY <1>4, <1>5, <4>2, <5>1
          <6> QED
            BY <1>5, <4>2, <5>1, <6>1 DEF InSection, Doing
        <5> QED
          BY <5>1 DEF Replaced
      <4> QED
        BY <1>3, <3>1, <4>3, <4>4
    <3> QED
      BY <3>2, <3>3
  <2>5. store' # 0 /\ Grant(store)' \in spent' => Replaced'
    BY <1>3, <1>7, <2>2 DEF Quiet, Grant
  <2> QED
    BY <2>3, <2>4, <2>5
<1>8. CASE SignIn
  <2>1. PICK g \in {0, Len(issued) + 1} : issued' = Append(issued, [sign |-> signs.count + 1, grant |-> g])
    BY <1>8 DEF SignIn
  <2>2. [sign |-> signs.count + 1, grant |-> g] \in Entry /\ Len(issued) < MaxPairs
    BY <1>8, <2>1, RefreshAssumption DEF SignIn, Entry, TypeInv, TypeOK
  <2>3. store' \notin Given /\ issued'[store'] = [sign |-> signs.count + 1, grant |-> g] /\ g \in {0, store'}
    BY <1>8, <2>1, <2>2, Appended DEF SignIn
  <2>4. UNCHANGED <<spent, job>> /\ ghost'.twice = ghost.twice
    BY <1>1, <1>8 DEF SignIn
  <2>5. Grant(store)' \notin spent'
    BY <1>1, <2>3, <2>4 DEF Grant
  <2> QED
    BY <1>3, <1>6, <2>4, <2>5
<1>9. CASE SignOut
  <2>1. store' = 0 /\ UNCHANGED <<spent, job>> /\ ghost'.twice = ghost.twice
    BY <1>1, <1>9 DEF SignOut
  <2> QED
    BY <1>3, <1>6, <2>1
<1>10. ASSUME NEW p \in Procs, Look(p) \/ PostFails(p) \/ Compare(p) \/ WriteFails(p) \/ Crash(p)
       PROVE  Goal
  <2>1. /\ UNCHANGED <<store, issued, spent>> /\ ghost'.twice = ghost.twice
        /\ \A q \in Procs \ {p} : job'[q] = job[q]
    BY <1>1, <1>10 DEF Look, PostFails, Compare, WriteFails, Crash, Does, accountVars, Calm
  <2>2. InUse(p)' => InUse(p) /\ job'[p].read = job[p].read
    <3>1. CASE Compare(p)
      <4>1. /\ job'[p].read = job[p].read
            /\ (job'[p].at = "leaving" \/ job'[p].got = job[p].got)
        BY <1>1, <3>1 DEF Compare, JobState
      <4> QED
        BY <2>1, <3>1, <4>1 DEF Compare, InUse, OnlyCopy, Doing, Grant
    <3>2. CASE Look(p) \/ PostFails(p) \/ WriteFails(p) \/ Crash(p)
      <4>1. job'[p].at \in {"locking", "leaving", "idle"}
        <5>1. CASE Crash(p)
          BY <1>1, <5>1 DEF Crash, NoJob
        <5>2. CASE Look(p) \/ PostFails(p) \/ WriteFails(p)
          BY <1>1, <5>2 DEF Look, PostFails, WriteFails, Does, JobState
        <5> QED
          BY <3>2, <5>1, <5>2
      <4> QED
        BY <4>1 DEF InUse
    <3> QED
      BY <1>10, <3>1, <3>2
  <2>3. ASSUME NEW q \in Procs, InUse(q)'
        PROVE  Grant(job[q].read)' \notin spent'
    <3>1. CASE q = p
      BY <1>3, <2>1, <2>2, <2>3, <3>1 DEF Grant
    <3>2. CASE q # p
      BY <1>3, <1>6, <2>1, <2>3, <3>2
    <3> QED
      BY <3>1, <3>2
  <2>4. ASSUME store' # 0, Grant(store)' \in spent'
        PROVE  Replaced'
    <3>1. store # 0 /\ Grant(store) \in spent
      BY <2>1, <2>4 DEF Grant
    <3>2. PICK q \in Procs : OnlyCopy(q) /\ Grant(job[q].read) = Grant(store)
      BY <1>3, <3>1 DEF Replaced
    <3>3. CASE q # p
      BY <1>6, <2>1, <3>2, <3>3 DEF Replaced, Grant
    <3>4. CASE q = p
      <4>1. Compare(p)
        BY <1>1, <1>5, <1>10, <3>2, <3>4 DEF Look, PostFails, WriteFails, Crash, Doing, InSection, OnlyCopy, Calm
      <4>2. Grant(store) # 0
        BY <1>1, <3>1
      <4>3. ~Adopts(p)
        BY <3>1, <3>2, <3>4, <4>2 DEF Adopts
      <4>4. job'[p].read = job[p].read /\ job'[p].got = job[p].got
        BY <1>1, <4>1, <4>3 DEF Compare, JobState
      <4> QED
        BY <2>1, <3>2, <3>4, <4>4 DEF Replaced, OnlyCopy, Grant
    <3> QED
      BY <3>3, <3>4
  <2> QED
    BY <1>3, <2>1, <2>3, <2>4
<1>11. ASSUME NEW p \in Procs, Canary(p)
       PROVE  Goal
  <2>1. /\ Doing(p, "canary") /\ job'[p].at \in {"posting", "leaving"} /\ job'[p].read = job[p].read
        /\ job'[p].got = job[p].got
        /\ UNCHANGED <<issued, spent>> /\ store' \in {store, job[p].read} /\ ghost'.twice = ghost.twice
        /\ \A q \in Procs \ {p} : job'[q] = job[q]
    BY <1>1, <1>11 DEF Canary, Does, Doing, JobState
  <2>2. job[p].got = 0 /\ InUse(p) /\ InSection(p) /\ At(p, "held")
    BY <1>5, <2>1 DEF InUse, InSection, OnlyCopy, Doing
  <2>3. \A q \in Procs : ~OnlyCopy(q)
    <3>1. ASSUME NEW q \in Procs, OnlyCopy(q)
          PROVE  FALSE
      <4>1. q = p
        BY <1>4, <1>5, <2>2, <3>1
      <4> QED
        BY <2>2, <3>1, <4>1 DEF OnlyCopy
    <3> QED
      BY <3>1
  <2>4. Grant(job[p].read) \notin spent /\ (store # 0 => Grant(store) \notin spent)
    BY <1>3, <2>2, <2>3 DEF Replaced
  <2>5. ASSUME NEW q \in Procs, InUse(q)'
        PROVE  Grant(job[q].read)' \notin spent'
    <3>1. CASE q = p
      BY <2>1, <2>4, <3>1 DEF Grant
    <3>2. CASE q # p
      BY <1>3, <1>6, <2>1, <2>5, <3>2
    <3> QED
      BY <3>1, <3>2
  <2> QED
    BY <1>3, <2>1, <2>4, <2>5 DEF Grant
<1>12. ASSUME NEW p \in Procs, Post(p)
       PROVE  Goal
  <2> DEFINE new == Len(issued')
  <2>1. PICK g \in {Grant(job[p].read), new} :
              /\ issued' = Append(issued, [sign |-> issued[job[p].read].sign, grant |-> g])
              /\ [sign |-> issued[job[p].read].sign, grant |-> g] \in Entry /\ g # 0
              /\ spent' = spent \cup ({Grant(job[p].read)} \ {g})
    BY <1>12, Posted
  <2>2. Len(issued) < MaxPairs /\ Doing(p, "posting")
    BY <1>12 DEF Post
  <2>3. issued'[new] = [sign |-> issued[job[p].read].sign, grant |-> g] /\ new # 0
    BY <2>1, <2>2, Appended
  <2>4. /\ job'[p].at = "comparing" /\ job'[p].got = new /\ job'[p].read = job[p].read
        /\ \A q \in Procs \ {p} : job'[q] = job[q]
        /\ UNCHANGED <<store, ghost>>
    BY <1>1, <1>12 DEF Post, JobState
  <2>5. job[p].got = 0 /\ InUse(p) /\ InSection(p) /\ At(p, "held") /\ job[p].read \in Given
    BY <1>5, <2>2 DEF InUse, InSection, OnlyCopy, Doing
  <2>6. \A q \in Procs : InUse(q) \/ OnlyCopy(q) => q = p
    BY <1>4, <1>5, <2>5
  <2>7. Grant(job[p].read) \notin spent /\ (store # 0 => Grant(store) \notin spent)
    BY <1>3, <2>5, <2>6 DEF Replaced, OnlyCopy
  <2>8. OnlyCopy(p)' <=> g # Grant(job[p].read)
    <3>1. issued'[job'[p].got].grant = g /\ issued'[job'[p].read].grant = Grant(job[p].read)
      BY <1>1, <2>3, <2>4, <2>5 DEF Grant
    <3> QED
      BY <2>3, <2>4, <3>1 DEF OnlyCopy, Grant
  <2>9. Grant(job[p].read)' = Grant(job[p].read)
    BY <1>1, <2>4, <2>5 DEF Grant
  <2>10. ASSUME NEW q \in Procs, InUse(q)'
         PROVE  Grant(job[q].read)' \notin spent'
    <3>1. q = p
      BY <1>6, <2>4, <2>6, <2>10
    <3>2. g = Grant(job[p].read)
      BY <2>8, <2>10, <3>1 DEF InUse
    <3> QED
      BY <2>1, <2>7, <2>9, <3>1, <3>2
  <2>11. ASSUME store' # 0, Grant(store)' \in spent'
         PROVE  Replaced'
    <3>1. store \in Given /\ Grant(store)' = Grant(store)
      BY <1>1, <2>4, <2>11 DEF Grant
    <3>2. Grant(store) = Grant(job[p].read) /\ g # Grant(job[p].read)
      BY <1>1, <2>1, <2>7, <2>11, <3>1
    <3> QED
      BY <2>8, <2>9, <3>1, <3>2 DEF Replaced
  <2> QED
    BY <1>3, <2>4, <2>10, <2>11
<1>13. ASSUME NEW p \in Procs, Write(p)
       PROVE  Goal
  <2>1. /\ Doing(p, "writing") /\ job'[p].at = "leaving"
        /\ \A q \in Procs \ {p} : job'[q] = job[q]
        /\ UNCHANGED <<issued, spent>> /\ store' = job[p].got /\ ghost'.twice = ghost.twice
    BY <1>1, <1>13 DEF Write, JobState
  <2>2. Grant(job[p].got) \notin spent
    <3>1. CASE OnlyCopy(p)
      BY <1>5, <3>1 DEF HandSound
    <3>2. CASE ~OnlyCopy(p)
      <4>1. InUse(p) /\ Grant(job[p].got) = Grant(job[p].read)
        BY <1>5, <2>1, <3>2 DEF InUse, OnlyCopy, Doing
      <4> QED
        BY <1>3, <4>1
    <3> QED
      BY <3>1, <3>2
  <2>3. ASSUME NEW q \in Procs, InUse(q)'
        PROVE  Grant(job[q].read)' \notin spent'
    <3>1. q # p
      BY <2>1, <2>3 DEF InUse
    <3> QED
      BY <1>3, <1>6, <2>1, <2>3, <3>1
  <2> QED
    BY <1>3, <2>1, <2>2, <2>3 DEF Grant
<1> QED
  BY <1>7, <1>8, <1>9, <1>10, <1>11, <1>12, <1>13, LoginMovesOnly DEF LoginMoves

\* No grant is POSTed twice while nothing tore the lock and no rotated pair was lost.
THEOREM GrantPostedOnce == Spec => []GrantSpentOnce
<1> DEFINE Inv == TypeInv /\ LoginInv /\ LockInv /\ GrantInv
<1>1. Init => Inv
  BY TypeInit, LoginInit, GrantInit
<1>2. Inv /\ [Next]_vars => Inv'
  <2> SUFFICES ASSUME Inv, [Next]_vars PROVE Inv'
    OBVIOUS
  <2>1. LockInv'
    <3>1. CASE LockMoves
      BY <3>1, LockStep DEF TypeInv, TypeOK
    <3>2. CASE UNCHANGED lockVars
      BY <3>2 DEF lockVars, LockInv, Whole, OneHolder, StragglesInTime, HoldsSound, Holds, Straggles, At
    <3> QED
      BY <3>1, <3>2, LockMovesOnly
  <2> QED
    BY <2>1, TypeStep, LoginStep, GrantStep
<1>3. Inv => GrantSpentOnce
  BY DEF TypeInv, TypeOK, LockTypeOK, GrantInv, GrantSpentOnce, Calm, Whole
<1> QED
  BY <1>1, <1>2, <1>3, PTL DEF Spec
=============================================================================
