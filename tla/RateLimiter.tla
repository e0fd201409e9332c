----------------------------- MODULE RateLimiter -----------------------------
(***************************************************************************)
(* The limiter of src/src/clio/rate-limit.ts: one Redis counter per second,*)
(* shared by all processes.  A caller computes the key of the running      *)
(* window, INCRs it, gives it an expiry if it was the first, and passes if *)
(* the count is within the capacity; else it sleeps and starts over with   *)
(* the key of the window then running.                                     *)
(*                                                                         *)
(* Time is relative: "now" is the running window and "last" the one before *)
(* it.  Older windows have no callers, since a command reaches Redis less  *)
(* than a second after its key was computed (the guard of Tick); hence     *)
(* keys that PEXPIRE drops after two seconds are never met again, and      *)
(* neither are those that a failure left without an expiry.                *)
(***************************************************************************)
EXTENDS ClioCallers, Integers

CONSTANT Capacity    \* DEFAULT_CAPACITY

ASSUME CapacityAssumption == Capacity \in Nat \ {0}

VARIABLES
    at,       \* at[c]: where c is in acquire
    keyOf,    \* keyOf[c]: the window whose key c works with
    count,    \* count[w]: the counter of window w; it stops at Capacity + 1
    admitted, \* admitted[w]: calls that the counter of w let through (history)
    passes    \* calls let through since the last tick (history)

limiterVars == <<at, keyOf, count, admitted, passes>>

Windows == {"now", "last"}
\* keyed: about to INCR; first: about to PEXPIRE; asleep: about to try again
LimiterPhases == {"out", "keyed", "first", "asleep", "passed"}

LimiterTypeOK ==
    /\ at       \in [Callers -> LimiterPhases]
    /\ keyOf    \in [Callers -> Windows]
    /\ count    \in [Windows -> 0..(Capacity + 1)]
    /\ admitted \in [Windows -> Nat]
    /\ passes   \in Nat

LimiterInit ==
    /\ at       = [c \in Callers |-> "out"]
    /\ keyOf    = [c \in Callers |-> "now"]
    /\ count    = [w \in Windows |-> 0]
    /\ admitted = [w \in Windows |-> 0]
    /\ passes   = 0

\* tryAcquireInternal begins: the key is that of the running window.
ComputeKey(c) ==
    /\ at'    = [at EXCEPT ![c] = "keyed"]
    /\ keyOf' = [keyOf EXCEPT ![c] = "now"]
    /\ UNCHANGED <<count, admitted, passes>>

\* acquire is called.
Ask(c) == at[c] = "out" /\ ComputeKey(c)

\* A bug for the mutants: who has to wait waits for good.
NeverWake(c) == FALSE /\ ComputeKey(c)

\* The 100 ms are over.
Wake(c) == at[c] = "asleep" /\ ComputeKey(c)

\* count <= this.capacity: the caller may go on.
Pass(c) ==
    /\ at'       = [at EXCEPT ![c] = "passed"]
    /\ keyOf'    = [keyOf EXCEPT ![c] = "now"]
    /\ admitted' = [admitted EXCEPT ![keyOf[c]] = @ + 1]
    /\ passes'   = passes + 1

\* The caller does not pass this time.
Stop(c, phase) ==
    /\ at'    = [at EXCEPT ![c] = phase]
    /\ keyOf' = [keyOf EXCEPT ![c] = "now"]
    /\ UNCHANGED <<admitted, passes>>

Counted(n) == IF n <= Capacity THEN n + 1 ELSE n

\* A bug for the mutants: the counter is compared before it is incremented.
IncrAfterCompare(c) ==
    LET n == count[keyOf[c]] IN
    /\ at[c] = "keyed"
    /\ count' = [count EXCEPT ![keyOf[c]] = Counted(n)]
    /\ \/ n <= Capacity /\ Pass(c)
       \/ n > Capacity /\ Stop(c, "asleep")

\* INCR, which returns the new value.
Incr(c) ==
    LET n == Counted(count[keyOf[c]]) IN
    /\ at[c] = "keyed"
    /\ count' = [count EXCEPT ![keyOf[c]] = n]
    /\ \/ n = 1 /\ at' = [at EXCEPT ![c] = "first"] /\ UNCHANGED <<keyOf, admitted, passes>>
       \/ n # 1 /\ n <= Capacity /\ Pass(c)
       \/ n > Capacity /\ Stop(c, "asleep")

\* PEXPIRE answered; the count was 1, within any capacity.
PExpire(c) == at[c] = "first" /\ Pass(c) /\ UNCHANGED count

\* INCR or PEXPIRE throws, or the process dies: the call is over and its count
\* stays.
LimiterFails(c) ==
    /\ at[c] # "out"
    /\ Stop(c, "out") /\ UNCHANGED count

\* A new second begins.
Tick ==
    /\ \A c \in Callers : at[c] \in {"keyed", "first"} => keyOf[c] = "now"
    /\ keyOf'    = [c \in Callers |-> IF at[c] \in {"keyed", "first"} THEN "last" ELSE "now"]
    /\ count'    = [now |-> 0, last |-> count["now"]]
    /\ admitted' = [now |-> 0, last |-> admitted["now"]]
    /\ passes'   = 0
    /\ UNCHANGED at

\* Capacity "requests per second", whoever sleeps, fails or comes late: the
\* counter of a window lets at most Capacity calls through.  Within one second
\* twice as many may pass, since a call that computed its key in the window
\* before is counted there.
BudgetKept ==
    /\ \A w \in Windows : admitted[w] <= Capacity
    /\ passes <= 2 * Capacity
=============================================================================
