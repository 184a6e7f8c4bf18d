----------------------- MODULE NamespaceLock_proofs ------------------------
(***************************************************************************)
(* Proofs about NamespaceLock for every set of processes and jobs and any  *)
(* number of leases: the invariant behind mutual exclusion inside one      *)
(* process, and that a job only ever releases its own lease.               *)
(***************************************************************************)
EXTENDS NamespaceLock, TLAPS

USE LockAssumption

\* The lock's state keeps its types, crashes and lapses included.
THEOREM TypeCorrect == Spec => []TypeOK
<1>1. Init => TypeOK
  BY DEF Init, TypeOK, NoLease
<1>2. TypeOK /\ [Next]_vars => TypeOK'
  <2> SUFFICES ASSUME TypeOK, [Next]_vars PROVE TypeOK'
    OBVIOUS
  <2> USE DEF TypeOK, NoLease, Lease
  <2>1. ASSUME NEW p \in Processes, NEW j \in Jobs, Acquire(p, j) PROVE TypeOK'
    BY <2>1 DEF Acquire, Note
  <2>2. ASSUME NEW p \in Processes, NEW j \in Jobs, BeginMutation(p, j) PROVE TypeOK'
    BY <2>2 DEF BeginMutation
  <2>3. ASSUME NEW p \in Processes, EndMutation(p) PROVE TypeOK'
    BY <2>3 DEF EndMutation
  <2>4. ASSUME NEW p \in Processes, NEW j \in Jobs, Release(p, j) PROVE TypeOK'
    BY <2>4 DEF Release, Note
  <2>5. ASSUME NEW p \in Processes, Lapse(p) PROVE TypeOK'
    BY <2>5 DEF Lapse
  <2>6. ASSUME NEW p \in Processes, Crash(p) PROVE TypeOK'
    BY <2>6 DEF Crash
  <2>7. CASE UNCHANGED vars
    BY <2>7 DEF vars
  <2> QED
    BY <2>1, <2>2, <2>3, <2>4, <2>5, <2>6, <2>7 DEF Next
<1> QED
  BY <1>1, <1>2, PTL DEF Spec

\* A stored lease is noted by its owner, and it has not lapsed.
StoredIsNoted ==
    \A p \in Processes :
        store[p] # NoLease =>
            /\ store[p].owner \in Jobs
            /\ noted[p][store[p].owner] = store[p]

\* A noted lease belongs to its job, and is the stored one unless it lapsed.
NotedIsStoredOrLapsed ==
    \A p \in Processes, j \in Jobs :
        Notes(p, j) =>
            /\ noted[p][j].owner = j
            /\ store[p] = noted[p][j] \/ noted[p][j].token \in lapsed

\* The inductive invariant: exclusion survives lapses because a key that is
\* free means that every lease still noted has lapsed.
LockInv == TypeOK /\ StoredIsNoted /\ NotedIsStoredOrLapsed

\* Nothing is held at first.
LEMMA InitLockInv == Init => LockInv
  BY DEF Init, LockInv, TypeOK, StoredIsNoted, NotedIsStoredOrLapsed, Notes, NoLease

\* Each step keeps the lock invariant: tokens are fresh, and a note is stored
\* or its lease has lapsed.
LEMMA NextLockInv == LockInv /\ TypeOK' /\ [Next]_vars => LockInv'
<1> SUFFICES ASSUME LockInv, TypeOK', [Next]_vars
             PROVE  StoredIsNoted' /\ NotedIsStoredOrLapsed'
  BY DEF LockInv
<1> USE DEF LockInv, TypeOK, StoredIsNoted, NotedIsStoredOrLapsed, Notes, NoLease, Lease
<1>1. ASSUME NEW p \in Processes, NEW j \in Jobs, Acquire(p, j)
      PROVE  StoredIsNoted' /\ NotedIsStoredOrLapsed'
  BY <1>1 DEF Acquire, Note
<1>2. ASSUME NEW p \in Processes, NEW j \in Jobs, BeginMutation(p, j)
      PROVE  StoredIsNoted' /\ NotedIsStoredOrLapsed'
  BY <1>2 DEF BeginMutation
<1>3. ASSUME NEW p \in Processes, EndMutation(p)
      PROVE  StoredIsNoted' /\ NotedIsStoredOrLapsed'
  BY <1>3 DEF EndMutation
<1>4. ASSUME NEW p \in Processes, NEW j \in Jobs, Release(p, j)
      PROVE  StoredIsNoted' /\ NotedIsStoredOrLapsed'
  BY <1>4 DEF Release, Note, StillOwns
<1>5. ASSUME NEW p \in Processes, Lapse(p)
      PROVE  StoredIsNoted' /\ NotedIsStoredOrLapsed'
  BY <1>5 DEF Lapse
<1>6. ASSUME NEW p \in Processes, Crash(p)
      PROVE  StoredIsNoted' /\ NotedIsStoredOrLapsed'
  BY <1>6 DEF Crash
<1>7. CASE UNCHANGED vars
  BY <1>7 DEF vars
<1> QED
  BY <1>1, <1>2, <1>3, <1>4, <1>5, <1>6, <1>7 DEF Next

\* The lock invariant holds throughout.
THEOREM LockInvariant == Spec => []LockInv
  BY TypeCorrect, InitLockInv, NextLockInv, PTL DEF Spec

\* Two jobs hold the namespace in one process only if a lease lapsed.
THEOREM Exclusion == Spec => []ExclusiveUnlessLapsed
<1>1. LockInv => ExclusiveUnlessLapsed
  BY DEF LockInv, NotedIsStoredOrLapsed, ExclusiveUnlessLapsed
<1> QED
  BY <1>1, LockInvariant, PTL

\* No job releases a lease another job holds.
THEOREM ReleaseIsOwn == Spec => OnlyHolderReleases
<1>1. LockInv /\ TypeOK' /\ [Next]_vars => [\A p \in Processes : KeyChangesHands(p)]_vars
  <2> SUFFICES ASSUME LockInv, TypeOK', [Next]_vars, NEW q \in Processes PROVE KeyChangesHands(q)
    OBVIOUS
  <2> USE DEF LockInv, TypeOK, StoredIsNoted, NoLease, Lease, KeyChangesHands
  <2>1. ASSUME NEW p \in Processes, NEW j \in Jobs, Acquire(p, j) PROVE KeyChangesHands(q)
    BY <2>1 DEF Acquire
  <2>2. ASSUME NEW p \in Processes, NEW j \in Jobs, BeginMutation(p, j) PROVE KeyChangesHands(q)
    BY <2>2 DEF BeginMutation
  <2>3. ASSUME NEW p \in Processes, EndMutation(p) PROVE KeyChangesHands(q)
    BY <2>3 DEF EndMutation
  <2>4. ASSUME NEW p \in Processes, NEW j \in Jobs, Release(p, j) PROVE KeyChangesHands(q)
    BY <2>4 DEF Release, Note, StillOwns, Notes, NotedIsStoredOrLapsed
  <2>5. ASSUME NEW p \in Processes, Lapse(p) PROVE KeyChangesHands(q)
    BY <2>5 DEF Lapse
  <2>6. ASSUME NEW p \in Processes, Crash(p) PROVE KeyChangesHands(q)
    BY <2>6 DEF Crash
  <2>7. CASE UNCHANGED vars
    BY <2>7 DEF vars
  <2> QED
    BY <2>1, <2>2, <2>3, <2>4, <2>5, <2>6, <2>7 DEF Next
<1> QED
  BY <1>1, TypeCorrect, LockInvariant, PTL DEF Spec, OnlyHolderReleases
=============================================================================
