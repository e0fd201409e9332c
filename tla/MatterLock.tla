------------------------------ MODULE MatterLock ------------------------------
(***************************************************************************)
(* The Redis lock of src/src/registry/locking.ts.  A dedup job about to    *)
(* change the task registry of a matter runs its section under             *)
(* lock:matter:<id>, a key set with NX and EX to a fresh uuid and deleted  *)
(* by a compare-and-delete script.  Each action is one Redis command, or   *)
(* one step of withMatterLock between two of its awaits.                   *)
(*                                                                         *)
(* The key is not renewed while the section runs, so Redis may drop it     *)
(* under a slow holder.  Overrunners are the jobs to which that may happen; *)
(* the sections of all others end within their TTL.                        *)
(***************************************************************************)
EXTENDS FiniteSets, Integers

CONSTANTS
    Jobs,        \* the callers of withMatterLock (concurrent dedup jobs)
    Matters,     \* matter ids, one lock key each
    NoMatter,    \* matter_id is null
    MatterOf,    \* the matter of each job, or NoMatter
    LockIds,     \* the uuids; see FreshIds
    NoId,        \* the key is absent; the caller holds no uuid
    MaxRetries,  \* MAX_RETRIES: attempts before LOCK_TIMEOUT
    Overrunners  \* the jobs whose section may outlive the TTL of its key

ASSUME MatterAssumption ==
    /\ NoMatter \notin Matters
    /\ MatterOf \in [Jobs -> Matters \cup {NoMatter}]
ASSUME LockIdAssumption == NoId \notin LockIds
ASSUME RetryAssumption  == MaxRetries \in Nat \ {0}
ASSUME OverrunAssumption == Overrunners \subseteq Jobs

VARIABLES
    lockKey,   \* lockKey[m]: the value of lock:matter:m in Redis
    phase,     \* phase[j]: where job j is in withMatterLock
    attempt,   \* attempt[j]: failed SET NX so far (0 outside the retry loop)
    lockId     \* lockId[j]: the uuid job j acquired with, in its memory

vars == <<lockKey, phase, attempt, lockId>>

Phases == {"idle", "trying", "inside", "leaving"}

TypeOK ==
    /\ lockKey \in [Matters -> LockIds \cup {NoId}]
    /\ phase   \in [Jobs -> Phases]
    /\ attempt \in [Jobs -> 0..MaxRetries]
    /\ lockId  \in [Jobs -> LockIds \cup {NoId}]

Locked(j) == MatterOf[j] # NoMatter

\* A bug for the mutants: the ids are not unique (those of processes, say).
ReusedIds == LockIds

\* randomUUID returns a value that nobody stores: in the code a value never
\* seen before, which nothing can tell from one that everybody has forgotten.
FreshIds == {id \in LockIds : /\ \A m \in Matters : lockKey[m] # id
                              /\ \A j \in Jobs    : lockId[j] # id}

\* Redis still has the key under the uuid that j acquired with.
Owns(j) == /\ Locked(j)
           /\ lockId[j] # NoId
           /\ lockKey[MatterOf[j]] = lockId[j]

Init ==
    /\ lockKey = [m \in Matters |-> NoId]
    /\ phase   = [j \in Jobs |-> "idle"]
    /\ attempt = [j \in Jobs |-> 0]
    /\ lockId  = [j \in Jobs |-> NoId]

-----------------------------------------------------------------------------
(* Bugs that the protocol must not have; only the mutants use them *)

\* SET without NX.
AcquireWithoutNX(j) ==
    /\ phase[j] = "trying"
    /\ \E id \in FreshIds : /\ lockKey' = [lockKey EXCEPT ![MatterOf[j]] = id]
                            /\ lockId'  = [lockId EXCEPT ![j] = id]
    /\ phase'   = [phase EXCEPT ![j] = "inside"]
    /\ attempt' = [attempt EXCEPT ![j] = 0]

\* The loop does not count.
RetryUncounted(j) ==
    /\ phase[j] = "trying" /\ lockKey[MatterOf[j]] # NoId
    /\ UNCHANGED vars

\* DEL without comparing.
ReleaseAny(j) ==
    /\ phase[j] = "leaving"
    /\ lockKey' = [lockKey EXCEPT ![MatterOf[j]] = NoId]
    /\ lockId'  = [lockId EXCEPT ![j] = NoId]
    /\ phase'   = [phase EXCEPT ![j] = "idle"]
    /\ UNCHANGED attempt

\* SET without EX.
NeverExpire(m) == FALSE /\ m \in Matters /\ UNCHANGED vars

-----------------------------------------------------------------------------
(* withMatterLock, step by step *)

\* The call: without a matter the section runs at once, with no lock.
Enter(j) ==
    /\ phase[j] = "idle"
    /\ phase' = [phase EXCEPT ![j] = IF Locked(j) THEN "trying" ELSE "inside"]
    /\ UNCHANGED <<lockKey, attempt, lockId>>

\* SET NX EX stored the uuid.
Acquire(j) ==
    /\ phase[j] = "trying"
    /\ attempt[j] < MaxRetries
    /\ lockKey[MatterOf[j]] = NoId
    /\ \E id \in FreshIds : /\ lockKey' = [lockKey EXCEPT ![MatterOf[j]] = id]
                            /\ lockId'  = [lockId EXCEPT ![j] = id]
    /\ phase'   = [phase EXCEPT ![j] = "inside"]
    /\ attempt' = [attempt EXCEPT ![j] = 0]

\* SET NX found the key: sleep RETRY_DELAY_MS and go round the loop.
Retry(j) ==
    /\ phase[j] = "trying"
    /\ attempt[j] < MaxRetries
    /\ lockKey[MatterOf[j]] # NoId
    /\ attempt' = [attempt EXCEPT ![j] = @ + 1]
    /\ UNCHANGED <<lockKey, phase, lockId>>

\* LOCK_TIMEOUT is thrown.
GiveUp(j) ==
    /\ phase[j] = "trying"
    /\ attempt[j] = MaxRetries
    /\ phase'   = [phase EXCEPT ![j] = "idle"]
    /\ attempt' = [attempt EXCEPT ![j] = 0]
    /\ UNCHANGED <<lockKey, lockId>>

\* fn returned or threw; under a lock the finally block is still to run.
Finish(j) ==
    /\ phase[j] = "inside"
    /\ phase' = [phase EXCEPT ![j] = IF Locked(j) THEN "leaving" ELSE "idle"]
    /\ UNCHANGED <<lockKey, attempt, lockId>>

\* releaseMatterLock: delete the key if it still holds this job's uuid.
Release(j) ==
    /\ phase[j] = "leaving"
    /\ lockKey' = IF Owns(j) THEN [lockKey EXCEPT ![MatterOf[j]] = NoId] ELSE lockKey
    /\ lockId'  = [lockId EXCEPT ![j] = NoId]
    /\ phase'   = [phase EXCEPT ![j] = "idle"]
    /\ UNCHANGED attempt

-----------------------------------------------------------------------------
(* The environment *)

\* The worker process dies, or its release never reaches Redis: what it kept
\* in memory is gone and the key stays behind.
Crash(j) ==
    /\ phase[j] # "idle"
    /\ phase'   = [phase EXCEPT ![j] = "idle"]
    /\ attempt' = [attempt EXCEPT ![j] = 0]
    /\ lockId'  = [lockId EXCEPT ![j] = NoId]
    /\ UNCHANGED lockKey

\* Redis drops a key whose TTL has run out.
Expire(m) ==
    /\ lockKey[m] # NoId
    /\ \A j \in Jobs \ Overrunners : phase[j] = "inside" => lockId[j] # lockKey[m]
    /\ lockKey' = [lockKey EXCEPT ![m] = NoId]
    /\ UNCHANGED <<phase, attempt, lockId>>

Step(j) == \/ Enter(j) \/ Acquire(j) \/ Retry(j) \/ GiveUp(j)
           \/ Finish(j) \/ Release(j) \/ Crash(j)

Next == \/ \E j \in Jobs : Step(j)
        \/ \E m \in Matters : Expire(m)

Spec == Init /\ [][Next]_vars

\* A running worker executes its next statement, fn ends, Redis honours EX.
Fairness ==
    /\ \A j \in Jobs : WF_vars(Acquire(j) \/ Retry(j) \/ GiveUp(j)
                               \/ Finish(j) \/ Release(j))
    /\ \A m \in Matters : WF_vars(Expire(m))

FairSpec == Spec /\ Fairness

-----------------------------------------------------------------------------
(* Properties *)

\* "serialize registry mutations within the same matter": two sections on the
\* registry of one matter run at the same time only if one of them outlived its
\* TTL.  The jobs that overrun spoil their own exclusion and nobody else's,
\* whatever crashes and late releases happen.
MutexUnlessOverrun ==
    \A i, j \in Jobs \ Overrunners :
        (/\ phase[i] = "inside" /\ phase[j] = "inside"
         /\ Locked(i) /\ MatterOf[i] = MatterOf[j]) => i = j

\* However late jobs run, at most one of them is the owner Redis knows: uuids
\* keep a job whose key expired from passing for the one that followed it.
SingleOwner ==
    \A i, j \in Jobs : (Owns(i) /\ Owns(j) /\ MatterOf[i] = MatterOf[j]) => i = j

\* Nothing but the TTL takes the lock from a section that still owns it; above
\* all, the release of a job that overran does not delete its successor's key.
OnlyExpiryEvicts ==
    [][\A j \in Jobs :
         (phase[j] = "inside" /\ Owns(j) /\ lockKey'[MatterOf[j]] # lockKey[MatterOf[j]])
            => phase'[j] = "inside" /\ Expire(MatterOf[j])]_vars

\* Why it works, in the form of an inductive invariant: only jobs with a matter
\* wait for a lock and release one, exactly the jobs in or leaving a locked
\* section know a uuid, no two of them know the same, and a section that may not
\* overrun still finds its own uuid in the key.
WaitersLock == \A j \in Jobs : phase[j] \in {"trying", "leaving"} => Locked(j)
IdsInUse  == \A j \in Jobs :
                lockId[j] # NoId <=> Locked(j) /\ phase[j] \in {"inside", "leaving"}
UniqueIds == \A i, j \in Jobs : (lockId[i] # NoId /\ lockId[i] = lockId[j]) => i = j
KeyKept   == \A j \in Jobs \ Overrunners :
                (phase[j] = "inside" /\ Locked(j)) => lockKey[MatterOf[j]] = lockId[j]

IInv == TypeOK /\ WaitersLock /\ IdsInUse /\ UniqueIds /\ KeyKept

\* A job waiting for the lock gets it or is told LOCK_TIMEOUT; it does not
\* wait for ever, whoever holds the key.
WaiterAnswered == \A j \in Jobs : (phase[j] = "trying") ~> (phase[j] # "trying")

\* No matter stays locked for good, even when its holder died inside.
LockComesFree == \A m \in Matters : []<>(lockKey[m] = NoId)
=============================================================================
