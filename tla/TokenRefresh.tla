------------------------------ MODULE TokenRefresh ------------------------------
(***************************************************************************)
(* Keeping a claude login alive: src/apps/desktop/crates/coding/src/       *)
(* claude_oauth.rs, refresh_locked, by every process that shares the       *)
(* credential store (the app, the daemon, and the claude CLI, whose        *)
(* protocol the code mirrors), under the refresh lock of LockFile.  The    *)
(* subject is one login: its store, the server that rotates a grant once,  *)
(* and the person who signs in and out meanwhile.                          *)
(***************************************************************************)
EXTENDS LockFile, Sequences

CONSTANTS
    Keychain,   \* the store is a macOS keychain item: a canary write precedes the POST
    MaxPairs,   \* bound: pairs of access token and refresh grant the server gives out
    MaxSigns,   \* bound: sign-ins and sign-outs
    MaxFaults   \* bound: crashes, sleeps, failed calls and refused writes

ASSUME RefreshAssumption ==
    /\ Keychain \in BOOLEAN /\ MaxPairs \in Nat \ {0}
    /\ MaxSigns \in Nat /\ MaxFaults \in Nat

VARIABLES
    store,      \* the pair the store holds, 0 when signed out
    due,        \* its access token is inside the margin
    issued,     \* per pair given out, in their order: its sign-in and its grant, 0 for none
    spent,      \* the grants the server rotated
    signs,      \* sign-ins and sign-outs so far, and the sign-in that stands (0: signed out)
    job,        \* per process: the refresh
    ghost,      \* a spent grant was POSTed (twice), the one copy of a rotated grant is gone
                \* (lost), a write landed, after the last sign-in or sign-out, over a newer
                \* document, or over none or one without a grant (wiped)
    faults

accountVars == <<store, due, issued, spent, signs>>
refreshVars == <<accountVars, job, ghost, faults>>
lockVars == <<dir, lock, torn>>
vars == <<lockVars, refreshVars>>

\* Pairs and grants are named by their place in `issued`; a grant by the first pair it came with.
Pairs == 1..MaxPairs
Given == DOMAIN issued
Grant(n) == issued[n].grant

\* Nothing to do; queued for the lock; past the re-read, at the canary; at the POST; the new pair
\* in hand; compared, under the storage lock, and about to write; the locks to be released.
\* read: the pair that was read; got: the new one; dead: the grants known to be dead.
JobState == [at : {"idle", "locking", "canary", "posting", "comparing", "writing", "leaving"},
             read : 0..MaxPairs, got : 0..MaxPairs, dead : SUBSET Pairs]
NoJob == [at |-> "idle", read |-> 0, got |-> 0, dead |-> {}]
Doing(p, step) == job[p].at = step
Does(p, step) == job' = [job EXCEPT ![p].at = step]

Fault == faults < MaxFaults /\ faults' = faults + 1

Init ==
    /\ LockInit
    /\ store = 1 /\ issued = <<[sign |-> 1, grant |-> 1]>> /\ due = FALSE /\ spent = {}
    /\ signs = [count |-> 1, standing |-> 1]
    /\ job = [p \in Procs |-> NoJob]
    /\ ghost = [twice |-> FALSE, lost |-> FALSE, wiped |-> FALSE]
    /\ faults = 0

-----------------------------------------------------------------------------
\* refresh_locked, in the order of its steps.

\* precheck: inside the margin, with a grant, and one not known dead.
Worth(p) == store # 0 /\ due /\ Grant(store) \notin {0} \cup job[p].dead

\* 1. The read before the lock.
Look(p) ==
    /\ Doing(p, "idle") /\ Worth(p)
    /\ Acquire(p)
    /\ job' = [job EXCEPT ![p].at = "locking", ![p].read = store]
    /\ UNCHANGED <<accountVars, ghost, faults>>

\* 2. The lock: its own steps, or no lock.
Queue(p) == Doing(p, "locking") /\ Locking(p) /\ UNCHANGED refreshVars
Beat(p) == Heartbeat(p) /\ UNCHANGED refreshVars
GiveUp(p) ==
    /\ Unacquired(p) /\ Does(p, "idle")
    /\ UNCHANGED <<accountVars, ghost, faults>>

\* Mutant: the read before the lock decides.
MovedNever(p) == FALSE

\* The store holds another pair than the one that was read: a process refreshed, or the person
\* signed in or out, while this one queued.
Moved(p) == store # job[p].read

\* 3. The re-read under the lock. An older CLI may hold the legacy lock instead, or the store
\* refuse the read.
ReRead(p) ==
    /\ Doing(p, "locking") /\ At(p, "held")
    /\ \/ ~Moved(p) /\ Worth(p) /\ ~lock[p].lost /\ Does(p, IF Keychain THEN "canary" ELSE "posting")
       \/ Does(p, "leaving")
    /\ UNCHANGED <<lockVars, accountVars, ghost, faults>>

\* .storage-write.lock, around every write but a deletion: whoever is between the comparison and
\* the write holds it. (Its own contention is a refused write.)
StorageFree == \A p \in Procs : ~Doing(p, "writing")

\* 4. The canary: the document that was read, written back as it was, or refused.
Canary(p) ==
    /\ Doing(p, "canary")
    /\ \/ /\ StorageFree /\ Does(p, "posting")
          /\ store' = job[p].read
          /\ due' = (due \/ Moved(p))
          /\ ghost' = [ghost EXCEPT !.wiped = @ \/ Moved(p)]
          /\ UNCHANGED faults
       \/ Fault /\ Does(p, "leaving") /\ UNCHANGED <<store, due, ghost>>
    /\ UNCHANGED <<lockVars, issued, spent, signs>>

\* 5. The POST. The server rotates a grant once, or answers with an access token alone and the
\* grant stays.
Rotates(p) == Grant(job[p].read) \notin spent
Post(p) ==
    /\ Doing(p, "posting") /\ Rotates(p) /\ Len(issued) < MaxPairs
    /\ \E g \in {Grant(job[p].read), Len(issued) + 1} :
         /\ issued' = Append(issued, [sign |-> issued[job[p].read].sign, grant |-> g])
         /\ spent' = spent \cup ({Grant(job[p].read)} \ {g})
    /\ job' = [job EXCEPT ![p].at = "comparing", ![p].got = Len(issued')]
    /\ UNCHANGED <<lockVars, store, due, signs, ghost, faults>>

InvalidGrant(p) ==
    /\ Doing(p, "posting") /\ ~Rotates(p)
    /\ job' = [job EXCEPT ![p].at = "leaving", ![p].dead = @ \cup {Grant(job[p].read)}]
    /\ ghost' = [ghost EXCEPT !.twice = TRUE]
    /\ UNCHANGED <<lockVars, accountVars, faults>>

\* The request does not arrive, or its answer does not.
PostFails(p) ==
    /\ Doing(p, "posting") /\ Fault
    /\ \/ UNCHANGED <<spent, ghost>>
       \/ /\ Rotates(p) /\ spent' = spent \cup {Grant(job[p].read)}
          /\ ghost' = [ghost EXCEPT !.lost = TRUE]
    /\ Does(p, "leaving")
    /\ UNCHANGED <<lockVars, store, due, issued, signs>>

\* Mutant: the write-back does not compare.
AdoptsNever(p) == store = 0

\* cas_document: a logout stands, and so does a sibling's credential, unless it has no grant.
Adopts(p) == store = 0 \/ Grant(store) \notin {0, Grant(job[p].read)}

\* 6. The write-back: read and compared under the storage lock.
Compare(p) ==
    /\ Doing(p, "comparing") /\ StorageFree
    /\ job' = IF Adopts(p) THEN [job EXCEPT ![p].at = "leaving", ![p].got = 0]
              ELSE [job EXCEPT ![p].at = "writing"]
    /\ UNCHANGED <<lockVars, accountVars, ghost, faults>>

\* Then written. A deletion takes no lock and may have come between.
Write(p) ==
    /\ Doing(p, "writing")
    /\ store' = job[p].got /\ due' = FALSE
    /\ ghost' = [ghost EXCEPT !.wiped = @ \/ store = 0 \/ Grant(store) = 0]
    /\ job' = [job EXCEPT ![p].at = "leaving", ![p].got = 0]
    /\ UNCHANGED <<lockVars, issued, spent, signs, faults>>

\* A refused write: read and compared again.
WriteRefused(p) ==
    /\ Doing(p, "writing") /\ Does(p, "comparing")
    /\ UNCHANGED <<lockVars, accountVars, ghost, faults>>

\* The new pair in hand is the one copy of a rotated grant.
OnlyCopy(p) == job[p].got # 0 /\ Grant(job[p].got) # Grant(job[p].read)

\* The store refuses every attempt. (A write that times out and landed is a Write.)
WriteFails(p) ==
    /\ Doing(p, "comparing") \/ Doing(p, "writing")
    /\ Fault
    /\ ghost' = [ghost EXCEPT !.lost = @ \/ OnlyCopy(p)]
    /\ job' = [job EXCEPT ![p].at = "leaving", ![p].got = 0]
    /\ UNCHANGED <<lockVars, accountVars>>

\* The guard is dropped on every way out.
Leave(p) ==
    /\ Doing(p, "leaving") /\ Release(p)
    /\ job' = [job EXCEPT ![p].at = "idle"]
    /\ UNCHANGED <<accountVars, ghost, faults>>

-----------------------------------------------------------------------------
\* What goes on meanwhile.

Expire ==
    /\ store # 0 /\ ~due /\ due' = TRUE
    /\ UNCHANGED <<lockVars, store, issued, spent, signs, job, ghost, faults>>

\* write_profile_credential, `claude login`: under the storage lock alone. The credential may have
\* no grant to refresh it with.
SignIn ==
    /\ signs.count <= MaxSigns /\ Len(issued) < MaxPairs /\ StorageFree
    /\ signs' = [count |-> signs.count + 1, standing |-> signs.count + 1]
    /\ \E g \in {0, Len(issued) + 1} : issued' = Append(issued, [sign |-> signs.count + 1, grant |-> g])
    /\ store' = Len(issued') /\ due' = FALSE
    /\ ghost' = [ghost EXCEPT !.wiped = FALSE]
    /\ UNCHANGED <<lockVars, spent, job, faults>>

\* delete_store, `claude logout`: under no lock at all.
SignOut ==
    /\ signs.count <= MaxSigns /\ store # 0
    /\ signs' = [count |-> signs.count + 1, standing |-> 0]
    /\ store' = 0 /\ due' = FALSE
    /\ ghost' = [ghost EXCEPT !.wiped = FALSE]
    /\ UNCHANGED <<lockVars, issued, spent, job, faults>>

Crash(p) ==
    /\ Fault /\ job[p].at # "idle"
    /\ LockCrash(p)
    /\ job' = [job EXCEPT ![p] = NoJob]
    /\ ghost' = [ghost EXCEPT !.lost = @ \/ OnlyCopy(p)]
    /\ UNCHANGED accountVars

TimePasses == Tick /\ UNCHANGED refreshVars
MachineSleeps == Fault /\ Sleep /\ dir.there /\ UNCHANGED <<accountVars, job, ghost>>

Refresh(p) ==
    \/ Look(p) \/ Queue(p) \/ GiveUp(p) \/ ReRead(p) \/ Canary(p)
    \/ Post(p) \/ InvalidGrant(p) \/ Compare(p) \/ Write(p) \/ WriteRefused(p)
    \/ Leave(p)

Next ==
    \/ Expire \/ SignIn \/ SignOut \/ TimePasses \/ MachineSleeps
    \/ \E p \in Procs : Refresh(p) \/ Beat(p) \/ PostFails(p) \/ WriteFails(p) \/ Crash(p)

Spec == Init /\ [][Next]_vars

-----------------------------------------------------------------------------
\* The type invariant.
TypeOK ==
    /\ LockTypeOK
    /\ store \in {0} \cup Given /\ due \in BOOLEAN
    /\ issued \in Seq([sign : 1..MaxSigns + 1, grant : 0..MaxPairs]) /\ Given \subseteq Pairs /\ spent \subseteq Pairs
    /\ signs \in [count : 1..MaxSigns + 1, standing : 0..MaxSigns + 1]
    /\ job \in [Procs -> JobState]
    /\ ghost \in [twice : BOOLEAN, lost : BOOLEAN, wiped : BOOLEAN]
    /\ faults \in 0..MaxFaults

\* No grant is POSTed twice ("two POSTs of one grant leave one of us dead"), however the
\* processes queue, die holding the lock and reclaim it. What breaks it: a reclaimer that
\* removes the fresh lock of another, a holder that slept past Stale, and a rotated pair
\* that was lost.
GrantSpentOnce == ghost.twice => torn.ripped \/ torn.slept \/ ghost.lost

\* The person has the last word and the login stays alive, the refresh lock kept or lost: the store
\* holds a pair of the sign-in that stands, nothing after a sign-out, and a pair whose grant was
\* spent is about to be replaced. What breaks it, until the person's next word: a canary over a
\* newer document, a write-back whose store was deleted after it compared, or that found a document
\* without a grant, and a rotated grant that was lost.
Replaced == \E p \in Procs : OnlyCopy(p) /\ Grant(job[p].read) = Grant(store)
LoginStands ==
    ~ghost.wiped =>
        IF signs.standing = 0 THEN store = 0
        ELSE /\ store # 0 /\ issued[store].sign = signs.standing
             /\ Grant(store) \in spent => Replaced \/ ghost.lost
=============================================================================
