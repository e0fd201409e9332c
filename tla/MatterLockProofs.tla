-------------------------- MODULE MatterLockProofs --------------------------
(***************************************************************************)
(* The safety of the matter lock, for any jobs, matters and number of      *)
(* retries.  IInv is inductive; the properties follow from it.             *)
(***************************************************************************)
EXTENDS MatterLock, TLAPS

\* The matter of a job that locks has a key.
LEMMA LockedMatter == \A j \in Jobs : Locked(j) => MatterOf[j] \in Matters
  BY MatterAssumption DEF Locked

\* Nothing is locked and nobody knows a uuid when Redis and the workers start.
LEMMA InitIInv == Init => IInv
  <1> SUFFICES ASSUME Init PROVE IInv
    OBVIOUS
  <1>1. TypeOK
    BY RetryAssumption DEF Init, TypeOK, Phases
  <1>2. WaitersLock /\ IdsInUse /\ UniqueIds /\ KeyKept
    BY DEF Init, WaitersLock, IdsInUse, UniqueIds, KeyKept
  <1> QED
    BY <1>1, <1>2 DEF IInv

\* What each statement of withMatterLock does to the four parts of IInv.
LEMMA EnterIInv == ASSUME IInv, NEW j \in Jobs, Enter(j) PROVE IInv'
  <1>1. TypeOK'
    BY DEF IInv, TypeOK, Enter, Phases
  <1>2. WaitersLock' /\ IdsInUse'
    BY DEF IInv, TypeOK, WaitersLock, IdsInUse, Locked, Enter
  <1>3. UniqueIds'
    BY DEF IInv, UniqueIds, Enter
  <1>4. KeyKept'
    BY DEF IInv, TypeOK, KeyKept, Locked, Enter
  <1> QED
    BY <1>1, <1>2, <1>3, <1>4 DEF IInv

\* Acquiring: the key was free, so no section in progress relied on it, and the
\* uuid is one that no job knows.
LEMMA AcquireIInv == ASSUME IInv, NEW j \in Jobs, Acquire(j) PROVE IInv'
  <1>1. PICK id \in FreshIds : /\ lockKey' = [lockKey EXCEPT ![MatterOf[j]] = id]
                               /\ lockId'  = [lockId EXCEPT ![j] = id]
    BY DEF Acquire
  <1>2. id \in LockIds /\ id # NoId /\ \A i \in Jobs : lockId[i] # id
    BY LockIdAssumption DEF FreshIds
  <1>3. Locked(j) /\ MatterOf[j] \in Matters
    BY LockedMatter DEF IInv, WaitersLock, Acquire
  <1>4. TypeOK'
    <2>1. lockKey' \in [Matters -> LockIds \cup {NoId}]
      BY <1>1, <1>2, <1>3 DEF IInv, TypeOK
    <2>2. lockId' \in [Jobs -> LockIds \cup {NoId}]
      BY <1>1, <1>2 DEF IInv, TypeOK
    <2>3. phase' \in [Jobs -> Phases] /\ attempt' \in [Jobs -> 0..MaxRetries]
      BY RetryAssumption DEF IInv, TypeOK, Acquire, Phases
    <2> QED
      BY <2>1, <2>2, <2>3 DEF TypeOK
  <1>5. WaitersLock' /\ IdsInUse'
    BY <1>1, <1>2, <1>3 DEF IInv, TypeOK, WaitersLock, IdsInUse, Locked, Acquire
  <1>6. UniqueIds'
    BY <1>1, <1>2 DEF IInv, TypeOK, UniqueIds
  <1>7. KeyKept'
    <2> SUFFICES ASSUME NEW i \in Jobs \ Overrunners, phase'[i] = "inside", Locked(i)
                 PROVE  lockKey'[MatterOf[i]] = lockId'[i]
      BY DEF KeyKept, Locked
    <2>1. CASE i = j
      BY <1>1, <1>3, <2>1 DEF IInv, TypeOK
    <2>2. CASE i # j
      <3>1. phase[i] = "inside" /\ lockKey[MatterOf[i]] = lockId[i] /\ lockId[i] # NoId
        BY <2>2 DEF IInv, TypeOK, Acquire, KeyKept, IdsInUse
      <3>2. MatterOf[i] # MatterOf[j]
        BY <3>1 DEF Acquire
      <3> QED
        BY <1>1, <2>2, <3>1, <3>2, LockedMatter DEF IInv, TypeOK
    <2> QED
      BY <2>1, <2>2
  <1> QED
    BY <1>4, <1>5, <1>6, <1>7 DEF IInv

LEMMA RetryIInv == ASSUME IInv, NEW j \in Jobs, Retry(j) PROVE IInv'
  <1>1. TypeOK'
    BY RetryAssumption DEF IInv, TypeOK, Retry
  <1>2. WaitersLock' /\ IdsInUse' /\ UniqueIds' /\ KeyKept'
    BY DEF IInv, WaitersLock, IdsInUse, UniqueIds, KeyKept, Locked, Retry
  <1> QED
    BY <1>1, <1>2 DEF IInv

LEMMA GiveUpIInv == ASSUME IInv, NEW j \in Jobs, GiveUp(j) PROVE IInv'
  <1>1. TypeOK'
    BY RetryAssumption DEF IInv, TypeOK, GiveUp, Phases
  <1>2. WaitersLock' /\ IdsInUse'
    BY DEF IInv, TypeOK, WaitersLock, IdsInUse, Locked, GiveUp
  <1>3. UniqueIds'
    BY DEF IInv, UniqueIds, GiveUp
  <1>4. KeyKept'
    BY DEF IInv, TypeOK, KeyKept, Locked, GiveUp
  <1> QED
    BY <1>1, <1>2, <1>3, <1>4 DEF IInv

LEMMA FinishIInv == ASSUME IInv, NEW j \in Jobs, Finish(j) PROVE IInv'
  <1>1. TypeOK'
    BY DEF IInv, TypeOK, Finish, Phases
  <1>2. WaitersLock' /\ IdsInUse'
    BY DEF IInv, TypeOK, WaitersLock, IdsInUse, Locked, Finish
  <1>3. UniqueIds'
    BY DEF IInv, UniqueIds, Finish
  <1>4. KeyKept'
    BY DEF IInv, TypeOK, KeyKept, Locked, Finish
  <1> QED
    BY <1>1, <1>2, <1>3, <1>4 DEF IInv

\* Releasing: a key that is deleted holds the uuid of the job that leaves, hence
\* not that of a section in progress.
LEMMA ReleaseIInv == ASSUME IInv, NEW j \in Jobs, Release(j) PROVE IInv'
  <1>1. Locked(j) /\ MatterOf[j] \in Matters
    BY LockedMatter DEF IInv, WaitersLock, Release
  <1>2. TypeOK'
    BY <1>1 DEF IInv, TypeOK, Release, Phases
  <1>3. WaitersLock' /\ IdsInUse'
    BY DEF IInv, TypeOK, WaitersLock, IdsInUse, Locked, Release
  <1>4. UniqueIds'
    BY DEF IInv, TypeOK, UniqueIds, Release
  <1>5. KeyKept'
    <2> SUFFICES ASSUME NEW i \in Jobs \ Overrunners, phase'[i] = "inside", Locked(i)
                 PROVE  lockKey'[MatterOf[i]] = lockId'[i]
      BY DEF KeyKept, Locked
    <2>1. i # j /\ phase[i] = "inside" /\ lockId'[i] = lockId[i]
      BY DEF IInv, TypeOK, Release
    <2>2. lockKey[MatterOf[i]] = lockId[i] /\ lockId[i] # NoId
      BY <2>1 DEF IInv, KeyKept, IdsInUse
    <2>3. Owns(j) => MatterOf[i] # MatterOf[j]
      BY <2>1, <2>2 DEF IInv, UniqueIds, Owns
    <2> QED
      BY <1>1, <2>1, <2>2, <2>3, LockedMatter DEF IInv, TypeOK, Release
  <1> QED
    BY <1>2, <1>3, <1>4, <1>5 DEF IInv

LEMMA CrashIInv == ASSUME IInv, NEW j \in Jobs, Crash(j) PROVE IInv'
  <1>1. TypeOK'
    BY RetryAssumption DEF IInv, TypeOK, Crash, Phases
  <1>2. WaitersLock' /\ IdsInUse'
    BY DEF IInv, TypeOK, WaitersLock, IdsInUse, Locked, Crash
  <1>3. UniqueIds'
    BY DEF IInv, TypeOK, UniqueIds, Crash
  <1>4. KeyKept'
    BY DEF IInv, TypeOK, KeyKept, Locked, Crash
  <1> QED
    BY <1>1, <1>2, <1>3, <1>4 DEF IInv

\* A key that expires is not the one of a section in progress, unless that
\* section may overrun.
LEMMA ExpireIInv == ASSUME IInv, NEW m \in Matters, Expire(m) PROVE IInv'
  <1>1. TypeOK'
    BY DEF IInv, TypeOK, Expire
  <1>2. WaitersLock' /\ IdsInUse' /\ UniqueIds'
    BY DEF IInv, WaitersLock, IdsInUse, UniqueIds, Locked, Expire
  <1>3. KeyKept'
    <2> SUFFICES ASSUME NEW i \in Jobs \ Overrunners, phase'[i] = "inside", Locked(i)
                 PROVE  lockKey'[MatterOf[i]] = lockId'[i]
      BY DEF KeyKept, Locked
    <2>1. phase[i] = "inside" /\ lockKey[MatterOf[i]] = lockId[i]
      BY DEF IInv, KeyKept, Expire
    <2>2. MatterOf[i] # m
      BY <2>1 DEF Expire
    <2> QED
      BY <2>1, <2>2, LockedMatter DEF IInv, TypeOK, Expire
  <1> QED
    BY <1>1, <1>2, <1>3 DEF IInv

LEMMA NextIInv == IInv /\ [Next]_vars => IInv'
  <1> SUFFICES ASSUME IInv, [Next]_vars PROVE IInv'
    OBVIOUS
  <1>1. ASSUME NEW j \in Jobs, Step(j) PROVE IInv'
    BY <1>1, EnterIInv, AcquireIInv, RetryIInv, GiveUpIInv, FinishIInv, ReleaseIInv,
       CrashIInv DEF Step
  <1>2. ASSUME NEW m \in Matters, Expire(m) PROVE IInv'
    BY <1>2, ExpireIInv
  <1>3. CASE UNCHANGED vars
    BY <1>3 DEF vars, IInv, TypeOK, WaitersLock, IdsInUse, UniqueIds, KeyKept, Locked
  <1> QED
    BY <1>1, <1>2, <1>3 DEF Next

-----------------------------------------------------------------------------

\* IInv holds of every behaviour of the lock.
THEOREM InductiveInvariant == Spec => []IInv
  BY InitIInv, NextIInv, PTL DEF Spec

\* Redis and the workers keep the lock's state well formed; no job makes more
\* than MAX_RETRIES attempts.
THEOREM TypeCorrect == Spec => []TypeOK
  <1>1. IInv => TypeOK
    BY DEF IInv
  <1> QED
    BY <1>1, InductiveInvariant, PTL

\* withMatterLock serializes the sections of a matter that end within their TTL.
THEOREM MutexTheorem == Spec => []MutexUnlessOverrun
  <1>1. IInv => MutexUnlessOverrun
    <2> SUFFICES ASSUME IInv, NEW i \in Jobs \ Overrunners, NEW j \in Jobs \ Overrunners,
                        phase[i] = "inside", phase[j] = "inside",
                        Locked(i), MatterOf[i] = MatterOf[j]
                 PROVE  i = j
      BY DEF MutexUnlessOverrun
    <2>1. lockId[i] # NoId /\ lockId[i] = lockId[j]
      BY DEF IInv, IdsInUse, KeyKept, Locked
    <2> QED
      BY <2>1 DEF IInv, UniqueIds
  <1> QED
    BY <1>1, InductiveInvariant, PTL

\* Even if sections overrun, Redis takes at most one job for the owner of the
\* lock of a matter.
THEOREM SingleOwnerTheorem == Spec => []SingleOwner
  <1>1. IInv => SingleOwner
    BY DEF IInv, UniqueIds, SingleOwner, Owns
  <1> QED
    BY <1>1, InductiveInvariant, PTL

\* A release deletes only the key of the job that releases: nothing but its TTL
\* takes the lock from a section that owns it.
THEOREM EvictionTheorem == Spec => OnlyExpiryEvicts
  <1> DEFINE Evicted(j) == phase[j] = "inside" /\ Owns(j)
                             /\ lockKey'[MatterOf[j]] # lockKey[MatterOf[j]]
             Allowed(j) == phase'[j] = "inside" /\ Expire(MatterOf[j])
  <1>1. ASSUME IInv, NEW j \in Jobs, Evicted(j), Next PROVE Allowed(j)
    <2>1. MatterOf[j] \in Matters /\ lockId[j] # NoId /\ lockKey[MatterOf[j]] = lockId[j]
      BY <1>1, LockedMatter DEF Owns
    <2>2. ASSUME NEW i \in Jobs, Step(i) PROVE FALSE
      <3>1. CASE Acquire(i)
        BY <1>1, <2>1, <3>1, LockedMatter DEF IInv, TypeOK, WaitersLock, Acquire
      <3>2. CASE Release(i)
        <4>1. Owns(i) /\ MatterOf[i] = MatterOf[j]
          BY <1>1, <2>1, <3>2 DEF IInv, TypeOK, Release
        <4>2. i = j
          BY <2>1, <4>1, <1>1 DEF IInv, UniqueIds, Owns
        <4> QED
          BY <1>1, <3>2, <4>2 DEF Release
      <3> QED
        BY <1>1, <2>2, <3>1, <3>2 DEF Step, Enter, Retry, GiveUp, Finish, Crash
    <2>3. ASSUME NEW m \in Matters, Expire(m) PROVE Allowed(j)
      <3>1. m = MatterOf[j]
        BY <1>1, <2>1, <2>3 DEF IInv, TypeOK, Expire
      <3> QED
        BY <1>1, <2>3, <3>1 DEF Expire
    <2> QED
      BY <1>1, <2>2, <2>3 DEF Next
  <1>2. IInv /\ [Next]_vars => [\A j \in Jobs : Evicted(j) => Allowed(j)]_vars
    BY <1>1
  <1> QED
    BY <1>2, InductiveInvariant, PTL DEF Spec, OnlyExpiryEvicts
=============================================================================
