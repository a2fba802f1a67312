-------------------------------- MODULE LockFile --------------------------------
(***************************************************************************)
(* The lock directory: src/apps/desktop/crates/eagent/src/lockfile.rs.     *)
(* Whoever makes the directory holds the lock, a heartbeat keeps its mtime *)
(* fresh, and a directory whose mtime is too old may be reclaimed.  Every  *)
(* call on the file system is a step of its own.  Times are ages, in units *)
(* of the heartbeat's period: what is older than Stale is just that.       *)
(***************************************************************************)
EXTENDS Naturals

CONSTANTS
    Procs,      \* the processes that take the lock, one thread each
    Update,     \* LockOptions.update: the heartbeat's period
    Stale,      \* LockOptions.stale
    Attempts    \* LockOptions.attempts

ASSUME LockAssumption ==
    /\ Update \in Nat \ {0} /\ Stale \in Nat /\ Update <= Stale
    /\ Attempts \in Nat \ {0}

VARIABLES
    dir,        \* the directory: whether it is there, how old its mtime is; foundBy is
                \* a ghost, who saw this very directory stale and is about to remove it
    lock,       \* per process: acquire's place, then the guard and its heartbeat thread
    torn        \* ghost: another's fresh directory was removed in place of the stale one that
                \* was found, or of one's own (ripped), the machine slept through the
                \* heartbeats (slept)

Old == Stale + 1
Ages == 0..Old

DirState == [there : BOOLEAN, age : Ages, foundBy : SUBSET Procs]
NoDir == [there |-> FALSE, age |-> 0, foundBy |-> {}]
NewDir == [NoDir EXCEPT !.there = TRUE]

\* at: outside; the calls of try_acquire, the second mkdir being the one retry without
\* staleness; a stamp that failed; the guard held; acquire gave up. stamp: the age of the mtime
\* last written. beat: the heartbeat thread sleeps, or is between its stat and its write.
LockState == [at : {"out", "mkdir", "stat", "rmdir", "retry", "stamp", "unmake", "held", "contended", "error"},
              tries : 0..Attempts, stamp : Ages, lost : BOOLEAN, beat : {"none", "sleeps", "writes"}]
NoLock == [at |-> "out", tries |-> 0, stamp |-> 0, lost |-> FALSE, beat |-> "none"]

LockTypeOK ==
    /\ dir \in DirState
    /\ lock \in [Procs -> LockState]
    /\ torn \in [ripped : BOOLEAN, slept : BOOLEAN]

LockInit ==
    /\ dir = NoDir /\ lock = [p \in Procs |-> NoLock]
    /\ torn = [ripped |-> FALSE, slept |-> FALSE]

At(p, place) == lock[p].at = place
Goes(p, place) == lock' = [lock EXCEPT ![p].at = place]

-----------------------------------------------------------------------------
\* acquire, try_acquire, stamp_fresh.

\* A straggling heartbeat of the last guard is this slot's until it ended.
Acquire(p) ==
    /\ At(p, "out") /\ lock[p].beat = "none"
    /\ lock' = [lock EXCEPT ![p] = [NoLock EXCEPT !.at = "mkdir", !.tries = 1]]
    /\ UNCHANGED <<dir, torn>>

\* Mutant: the attempts are compared one off.
ContendedOnceMore(p) ==
    lock' = IF lock[p].tries <= Attempts
            THEN [lock EXCEPT ![p].at = "mkdir", ![p].tries = @ + 1]
            ELSE [lock EXCEPT ![p].at = "contended"]

\* Contended: another attempt after the backoff, or no more.
Contended(p) ==
    lock' = IF lock[p].tries < Attempts
            THEN [lock EXCEPT ![p].at = "mkdir", ![p].tries = @ + 1]
            ELSE [lock EXCEPT ![p].at = "contended"]

MakeDir(p) ==
    /\ At(p, "mkdir")
    /\ IF dir.there THEN Goes(p, "stat") /\ UNCHANGED dir
                    ELSE Goes(p, "stamp") /\ dir' = NewDir
    /\ UNCHANGED torn

\* is_live
Live == dir.age <= Stale

StatDir(p) ==
    /\ At(p, "stat")
    /\ \/ ~dir.there /\ Goes(p, "retry") /\ UNCHANGED dir
       \/ dir.there /\ Live /\ Contended(p) /\ UNCHANGED dir
       \/ /\ dir.there /\ ~Live
          /\ Goes(p, "rmdir")
          /\ dir' = [dir EXCEPT !.foundBy = @ \cup {p}]
    /\ UNCHANGED torn

\* By its path: whatever directory is there now.
RemoveStale(p) ==
    /\ At(p, "rmdir")
    /\ Goes(p, "retry")
    /\ dir' = NoDir
    /\ torn' = [torn EXCEPT !.ripped = @ \/ (dir.there /\ p \notin dir.foundBy)]

\* The one retry, staleness disabled.
MakeDirAgain(p) ==
    /\ At(p, "retry")
    /\ IF dir.there THEN Contended(p) /\ UNCHANGED dir
                    ELSE Goes(p, "stamp") /\ dir' = NewDir
    /\ UNCHANGED torn

\* The directory may be gone by now, or be another's.
StampFresh(p) ==
    /\ At(p, "stamp")
    /\ IF dir.there
       THEN /\ dir' = [dir EXCEPT !.age = 0]
            /\ lock' = [lock EXCEPT ![p].at = "held", ![p].stamp = 0, ![p].beat = "sleeps"]
       ELSE Goes(p, "unmake") /\ UNCHANGED dir
    /\ UNCHANGED torn

\* stamp_fresh gives back what it could not stamp, by the path: it was gone, so what is there now
\* is another's.
UnmakeDir(p) ==
    /\ At(p, "unmake")
    /\ Goes(p, "error")
    /\ dir' = NoDir
    /\ torn' = [torn EXCEPT !.ripped = @ \/ dir.there]

-----------------------------------------------------------------------------
\* heartbeat: a stat, then a write, with nothing that keeps them together.

\* Stamps of one second are not told apart.
StillOurs(p) == dir.there /\ dir.age = lock[p].stamp

HeartbeatLooks(p) ==
    /\ lock[p].beat = "sleeps" /\ lock[p].stamp >= Update
    /\ lock' = IF StillOurs(p)
               THEN [lock EXCEPT ![p].beat = "writes"]
               ELSE [lock EXCEPT ![p].beat = "none", ![p].lost = TRUE]
    /\ UNCHANGED <<dir, torn>>

\* The guard may have been released since the look: the write lands all the same, and a
\* loss is then no surprise.
HeartbeatWrites(p) ==
    /\ lock[p].beat = "writes"
    /\ dir' = IF dir.there THEN [dir EXCEPT !.age = 0] ELSE dir
    /\ lock' = IF ~At(p, "held") THEN [lock EXCEPT ![p].beat = "none"]
               ELSE IF dir.there THEN [lock EXCEPT ![p].beat = "sleeps", ![p].stamp = 0]
               ELSE [lock EXCEPT ![p].beat = "none", ![p].lost = TRUE]
    /\ UNCHANGED torn

Heartbeat(p) == HeartbeatLooks(p) \/ HeartbeatWrites(p)

\* shutdown: the sleeping heartbeat ends within a slice; a lock known as lost is left alone.
Release(p) ==
    /\ At(p, "held")
    /\ dir' = IF lock[p].lost THEN dir ELSE NoDir
    /\ lock' = [lock EXCEPT ![p] = [NoLock EXCEPT !.beat = IF lock[p].beat = "writes" THEN "writes" ELSE "none"]]
    /\ UNCHANGED torn

\* acquire returned without a guard.
Unacquired(p) ==
    /\ At(p, "contended") \/ At(p, "error")
    /\ lock' = [lock EXCEPT ![p] = NoLock]
    /\ UNCHANGED <<dir, torn>>

Locking(p) == MakeDir(p) \/ StatDir(p) \/ RemoveStale(p) \/ MakeDirAgain(p) \/ StampFresh(p) \/ UnmakeDir(p)

-----------------------------------------------------------------------------
\* The process and the machine.

LockCrash(p) ==
    /\ lock' = [lock EXCEPT ![p] = NoLock]
    /\ UNCHANGED <<dir, torn>>

\* Bound: an age past Old reads the same as Old.
Older(age, by) == IF age + by > Old THEN Old ELSE age + by
Aged(by) ==
    /\ dir' = [dir EXCEPT !.age = IF dir.there THEN Older(@, by) ELSE @]
    /\ lock' = [p \in Procs |-> [lock[p] EXCEPT !.stamp =
                    IF At(p, "held") THEN Older(@, by) ELSE @]]

\* Assumption, of the machine and not of the code: awake, it runs its threads. A new directory is
\* stamped, and a heartbeat that is due comes before the next period ends.
InTime(p) == ~At(p, "stamp") /\ lock[p].beat # "writes" /\ ~(lock[p].beat = "sleeps" /\ lock[p].stamp >= Update)

Tick ==
    /\ dir.there /\ dir.age < Old
    /\ \A p \in Procs : InTime(p)
    /\ Aged(1)
    /\ UNCHANGED torn

\* Asleep longer than Stale: who wakes first?
Sleep ==
    /\ Aged(Old)
    /\ torn' = [torn EXCEPT !.slept = TRUE]
=============================================================================
