----------------------------- MODULE ClioAccess -----------------------------
(***************************************************************************)
(* How calls reach Clio: ClioClient.request of src/src/clio/clio.client.ts *)
(* takes a slot of the rate limiter, then a token, which it may have to    *)
(* refresh, and then sends its own request.  The status route takes only a *)
(* token, and the callback of an authorization exchanges its code, both    *)
(* past the limiter.                                                       *)
(***************************************************************************)
EXTENDS RateLimiter, ClioAuth

CONSTANTS
    MaxCalls,   \* bound: calls of any kind
    MaxFaults   \* bound: failures and deaths

ASSUME BoundAssumption == MaxCalls \in Nat /\ MaxFaults \in Nat

VARIABLES
    call,    \* call[c]: what c does
    calls,   \* calls begun
    faults

vars == <<limiterVars, authVars, call, calls, faults>>

Calls == {"none", "request", "status", "callback"}

TypeOK ==
    /\ LimiterTypeOK /\ AuthTypeOK
    /\ call \in [Callers -> Calls]
    /\ calls \in 0..MaxCalls /\ faults \in 0..MaxFaults
    /\ \A c \in Callers : /\ at[c] # "out" => call[c] = "request" /\ step[c] = "off"
                          /\ step[c] # "off" => call[c] # "none"

Init ==
    /\ LimiterInit /\ AuthInit
    /\ call = [c \in Callers |-> "none"]
    /\ calls = 0 /\ faults = 0

Begin(c, kind) ==
    /\ call[c] = "none" /\ calls < MaxCalls
    /\ call' = [call EXCEPT ![c] = kind]
    /\ calls' = calls + 1
    /\ UNCHANGED faults

\* The call of c ends if it is past getAccessToken or exchangeCode.
Follow(c) ==
    /\ call' = IF step'[c] = "off" THEN [call EXCEPT ![c] = "none"] ELSE call
    /\ UNCHANGED <<calls, faults>>

\* createTask, updateTask or getTask.
StartRequest(c) == Begin(c, "request") /\ Ask(c) /\ UNCHANGED authVars

\* A new try at the limiter.
TryLimiter(c) ==
    /\ Wake(c) \/ Incr(c) \/ PExpire(c)
    /\ UNCHANGED <<authVars, call, calls, faults>>

\* The slot is used up; the token comes next.
TokenForRequest(c) ==
    /\ call[c] = "request" /\ at[c] = "passed"
    /\ at' = [at EXCEPT ![c] = "out"]
    /\ UNCHANGED <<keyOf, count, admitted, passes>>
    /\ GetToken(c) /\ Follow(c)

\* GET /clio/status: connected if a token can be had.
TokenForStatus(c) ==
    /\ call[c] = "none" /\ calls < MaxCalls
    /\ GetToken(c)
    /\ call' = [call EXCEPT ![c] = IF step'[c] = "off" THEN "none" ELSE "status"]
    /\ calls' = calls + 1
    /\ UNCHANGED <<limiterVars, faults>>

\* GET /clio/callback
StartCallback(c, f) ==
    /\ call[c] = "none" /\ calls < MaxCalls
    /\ Callback(c, f)
    /\ call' = [call EXCEPT ![c] = IF step'[c] = "off" THEN "none" ELSE "callback"]
    /\ calls' = calls + 1
    /\ UNCHANGED <<limiterVars, faults>>

TokenStep(c) ==
    /\ \/ Refresh(c) \/ RefreshRefused(c) \/ StoreToken(c)
       \/ Exchange(c) \/ (step[c] = "exchange" /\ flow[c] \notin codes /\ ExchangeRefused(c))
    /\ Follow(c)
    /\ UNCHANGED limiterVars

\* The request is sent and answered, with success, a conflict or another error;
\* the status route answers.
Send(c) ==
    /\ step[c] = "bearer"
    /\ Leave(c)
    /\ call' = [call EXCEPT ![c] = "none"]
    /\ UNCHANGED <<limiterVars, stored, states, consented, codes, calls, faults>>
    /\ Forget

\* One failure: of a Redis command, of a call to Clio, of a process.
Fault(c) ==
    /\ faults < MaxFaults
    /\ \/ LimiterFails(c) /\ UNCHANGED authVars
       \/ (AuthFails(c) \/ RefreshLost(c) \/ ExchangeRefused(c)) /\ UNCHANGED limiterVars
    /\ call' = [call EXCEPT ![c] = "none"]
    /\ faults' = faults + 1
    /\ UNCHANGED calls

Alone == UNCHANGED <<call, calls, faults>>

Second == Tick /\ UNCHANGED authVars /\ Alone

Elsewhere ==
    /\ \/ \E f \in Flows : Authorize(f) \/ DropState(f)
       \/ \E t \in Tokens : GrowOld(t)
       \/ DropStored
    /\ UNCHANGED limiterVars /\ Alone

Advance(c) == TryLimiter(c) \/ TokenForRequest(c) \/ TokenStep(c) \/ Send(c)

Next ==
    \/ \E c \in Callers : \/ StartRequest(c) \/ TokenForStatus(c) \/ Advance(c) \/ Fault(c)
                          \/ \E f \in Flows : StartCallback(c, f)
    \/ Second \/ Elsewhere

Spec == Init /\ [][Next]_vars

\* A process goes on with the calls it has begun, and time passes.
FairSpec == Spec /\ (\A c \in Callers : WF_vars(Advance(c))) /\ WF_vars(Second)

-----------------------------------------------------------------------------
(* Properties *)

\* StoredUsable holds until something fails: only a failure between Clio's
\* answer and the SET loses a refresh token that Clio has replaced.
UsableUntilFault == faults = 0 => StoredUsable

\* Every call of the client ends, however long the limiter makes it wait and
\* whoever refreshes the token meanwhile: the windows that open are enough for
\* all who wait.
CallsEnd == []<>(\A c \in Callers : call[c] = "none")
=============================================================================
