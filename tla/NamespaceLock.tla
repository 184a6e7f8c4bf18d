--------------------------- MODULE NamespaceLock ---------------------------
(***************************************************************************)
(* The exclusive lock on one target namespace (persistence/locks.py) and   *)
(* the workers that take it (runtime/worker.py).  Every process has a      *)
(* store of its own (an InMemoryRedisLikeClient) and one worker thread,    *)
(* which notes the leases it took in _active_locks and trusts the note     *)
(* from then on.  A lease lapses when it is not renewed in time, and       *)
(* nothing in the code renews one.                                         *)
(***************************************************************************)
EXTENDS Naturals, FiniteSets

CONSTANTS
    Processes,  \* API process, worker process
    Jobs,       \* jobs whose target is the namespace
    Null,       \* no lease, no job
    MaxLeases,  \* bound: leases acquired
    MayLapse    \* TRUE if a lease may outlive its lease_seconds

ASSUME LockAssumption ==
    /\ Null \notin Jobs
    /\ MaxLeases \in Nat
    /\ MayLapse \in BOOLEAN

VARIABLES
    store,   \* per process: the lease stored under the namespace's key
    noted,   \* per process and job: the lease in _active_locks
    busy,    \* per process: the job whose mutation its worker runs
    issued,  \* lease tokens issued so far, so the next one is fresh
    lapsed   \* history: tokens of the leases that lapsed

vars == <<store, noted, busy, issued, lapsed>>

Lease == [owner : Jobs, token : Nat]
NoLease == [owner |-> Null, token |-> 0]

TypeOK ==
    /\ store \in [Processes -> Lease \cup {NoLease}]
    /\ noted \in [Processes -> [Jobs -> Lease \cup {NoLease}]]
    /\ busy \in [Processes -> Jobs \cup {Null}]
    /\ issued \in Nat
    /\ lapsed \subseteq Nat

Init ==
    /\ store = [p \in Processes |-> NoLease]
    /\ noted = [p \in Processes |-> [j \in Jobs |-> NoLease]]
    /\ busy = [p \in Processes |-> Null]
    /\ issued = 0
    /\ lapsed = {}

\* Fault: the note is emptied instead of being forgotten.
NoteEmptied(p, j, lease) ==
    noted' = [noted EXCEPT ![p][j] = IF lease = NoLease THEN Null ELSE lease]
Note(p, j, lease) == noted' = [noted EXCEPT ![p][j] = lease]
Notes(p, j) == noted[p][j] # NoLease

\* Fault: the key is set without nx.
AcquireOverwrites(p, j) ==
    /\ busy[p] = Null
    /\ ~Notes(p, j)
    /\ issued < MaxLeases
    /\ issued' = issued + 1
    /\ LET lease == [owner |-> j, token |-> issued + 1]
       IN store' = [store EXCEPT ![p] = lease] /\ Note(p, j, lease)
    /\ UNCHANGED <<busy, lapsed>>

\* NamespaceLockService.acquire (set nx), then the note.
Acquire(p, j) ==
    /\ busy[p] = Null
    /\ ~Notes(p, j)
    /\ store[p] = NoLease
    /\ issued < MaxLeases
    /\ issued' = issued + 1
    /\ LET lease == [owner |-> j, token |-> issued + 1]
       IN store' = [store EXCEPT ![p] = lease] /\ Note(p, j, lease)
    /\ UNCHANGED <<busy, lapsed>>

\* A mutation runs on the strength of the note, whatever the store says.
BeginMutation(p, j) ==
    /\ busy[p] = Null
    /\ Notes(p, j)
    /\ busy' = [busy EXCEPT ![p] = j]
    /\ UNCHANGED <<store, noted, issued, lapsed>>

EndMutation(p) ==
    /\ busy[p] # Null
    /\ busy' = [busy EXCEPT ![p] = Null]
    /\ UNCHANGED <<store, noted, issued, lapsed>>

\* Fault: the key is deleted without comparing the token.
StillOwnsAlways(p, lease) == TRUE
StillOwns(p, lease) == store[p] = lease

\* _release_lock: forget the note, delete the key if it still holds the lease.
Release(p, j) ==
    /\ busy[p] = Null
    /\ Notes(p, j)
    /\ Note(p, j, NoLease)
    /\ store' = IF StillOwns(p, noted[p][j]) THEN [store EXCEPT ![p] = NoLease]
                ELSE store
    /\ UNCHANGED <<busy, issued, lapsed>>

\* lease_seconds pass: the key expires, the note stays.
Lapse(p) ==
    /\ MayLapse
    /\ store[p] # NoLease
    /\ lapsed' = lapsed \cup {store[p].token}
    /\ store' = [store EXCEPT ![p] = NoLease]
    /\ UNCHANGED <<noted, busy, issued>>

\* Store, notes and thread are all in the process's memory.
Crash(p) ==
    /\ store' = [store EXCEPT ![p] = NoLease]
    /\ noted' = [noted EXCEPT ![p] = [j \in Jobs |-> NoLease]]
    /\ busy' = [busy EXCEPT ![p] = Null]
    /\ UNCHANGED <<issued, lapsed>>

Next ==
    \E p \in Processes :
        \/ \E j \in Jobs : Acquire(p, j) \/ BeginMutation(p, j) \/ Release(p, j)
        \/ EndMutation(p) \/ Lapse(p) \/ Crash(p)

Spec == Init /\ [][Next]_vars

-----------------------------------------------------------------------------
(* Properties.                                                             *)

\* Within one process two jobs hold the namespace only if a lease lapsed.
ExclusiveUnlessLapsed ==
    \A p \in Processes : \A j, k \in Jobs :
        j # k /\ Notes(p, j) /\ Notes(p, k) =>
            {noted[p][j].token, noted[p][k].token} \cap lapsed # {}

KeyChangesHands(p) ==
    store[p] # NoLease /\ store'[p] # store[p] =>
        /\ store'[p] = NoLease
        /\ \/ noted'[p][store[p].owner] # store[p]
           \/ store[p].token \in lapsed'

\* A stored lease disappears only when its own holder releases it or crashes,
\* or when it lapses: no job ever releases another job's lease.
OnlyHolderReleases == [][\A p \in Processes : KeyChangesHands(p)]_vars

\* "Only one mutating job may hold a target namespace lock." (LLD 23.1)
Holders == {j \in Jobs : \E p \in Processes : Notes(p, j)}
OneHolder == Cardinality(Holders) <= 1
=============================================================================
