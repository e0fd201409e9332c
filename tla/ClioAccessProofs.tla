-------------------------- MODULE ClioAccessProofs --------------------------
(***************************************************************************)
(* The rate limiter keeps its budget, for any number of callers and any    *)
(* capacity, whatever the calls do between two tries.  The token a call    *)
(* sends is accepted, and the one in Redis can be refreshed, however many  *)
(* callers take, refresh and overwrite it at once.                         *)
(***************************************************************************)
EXTENDS ClioAccess, TLAPS

\* Why: a window's counter counts all whom it lets through, and the one caller
\* that found it at zero besides, until it has set the expiry.
Counting ==
    /\ \A w \in Windows : admitted[w] <= count[w] /\ admitted[w] <= Capacity
    /\ \A c \in Callers : at[c] = "first" =>
          admitted[keyOf[c]] < count[keyOf[c]] /\ admitted[keyOf[c]] < Capacity
    /\ \A c, d \in Callers :
          (at[c] = "first" /\ at[d] = "first" /\ keyOf[c] = keyOf[d]) => c = d
    /\ passes <= admitted["now"] + admitted["last"]

LimiterInv == LimiterTypeOK /\ Counting

\* Nothing is counted when the limiter starts.
LEMMA InitLimiterInv == LimiterInit => LimiterInv
  BY CapacityAssumption
     DEF LimiterInit, LimiterInv, LimiterTypeOK, Counting, Windows, LimiterPhases

\* A caller that computes a key or stops is not the first of any window.
LEMMA StopLimiterInv ==
  ASSUME LimiterInv, NEW c \in Callers, NEW p \in LimiterPhases, p # "first",
         at' = [at EXCEPT ![c] = p], keyOf' = [keyOf EXCEPT ![c] = "now"],
         UNCHANGED <<count, admitted, passes>>
  PROVE  LimiterInv'
  <1>1. LimiterTypeOK'
    BY DEF LimiterInv, LimiterTypeOK, Windows
  <1>2. Counting'
    BY DEF LimiterInv, LimiterTypeOK, Counting, Windows
  <1> QED
    BY <1>1, <1>2 DEF LimiterInv

\* INCR: the new value tells the first of a window, those within the capacity
\* and the others apart.
LEMMA IncrLimiterInv == ASSUME LimiterInv, NEW c \in Callers, Incr(c) PROVE LimiterInv'
  <1> DEFINE w == keyOf[c]
             n == Counted(count[w])
  <1>1. w \in Windows /\ count[w] \in 0..(Capacity + 1) /\ at[c] = "keyed"
        /\ count' = [count EXCEPT ![w] = n]
    BY DEF LimiterInv, LimiterTypeOK, Incr
  <1>2. n \in 0..(Capacity + 1) /\ count[w] <= n
        /\ (n <= Capacity => n = count[w] + 1)
    BY <1>1, CapacityAssumption DEF Counted
  <1>3. CASE n = 1 /\ at' = [at EXCEPT ![c] = "first"] /\ UNCHANGED <<keyOf, admitted, passes>>
    <2>1. count[w] = 0 /\ admitted[w] = 0
      BY <1>1, <1>2, <1>3, CapacityAssumption DEF LimiterInv, LimiterTypeOK, Counting
    <2>2. \A d \in Callers : at[d] = "first" => keyOf[d] # w
      BY <2>1 DEF LimiterInv, LimiterTypeOK, Counting, Windows
    <2>3. LimiterTypeOK'
      BY <1>1, <1>2, <1>3 DEF LimiterInv, LimiterTypeOK, LimiterPhases
    <2>4. Counting'
      <3>1. \A v \in Windows : admitted'[v] <= count'[v] /\ admitted'[v] <= Capacity
        BY <1>1, <1>2, <1>3 DEF LimiterInv, LimiterTypeOK, Counting
      <3>2. \A d \in Callers : at'[d] = "first" =>
               admitted'[keyOf'[d]] < count'[keyOf'[d]] /\ admitted'[keyOf'[d]] < Capacity
        BY <1>1, <1>2, <1>3, <2>1, <2>2, CapacityAssumption
           DEF LimiterInv, LimiterTypeOK, Counting
      <3>3. \A d, e \in Callers :
               (at'[d] = "first" /\ at'[e] = "first" /\ keyOf'[d] = keyOf'[e]) => d = e
        BY <1>1, <1>3, <2>2 DEF LimiterInv, LimiterTypeOK, Counting
      <3> QED
        BY <1>3, <3>1, <3>2, <3>3 DEF Counting, LimiterInv
    <2> QED
      BY <2>3, <2>4 DEF LimiterInv
  <1>4. CASE n # 1 /\ n <= Capacity /\ Pass(c)
    <2>1. /\ at' = [at EXCEPT ![c] = "passed"] /\ keyOf' = [keyOf EXCEPT ![c] = "now"]
          /\ admitted' = [admitted EXCEPT ![w] = @ + 1] /\ passes' = passes + 1
      BY <1>4 DEF Pass
    <2>2. LimiterTypeOK'
      BY <1>1, <1>2, <2>1 DEF LimiterInv, LimiterTypeOK, LimiterPhases, Windows
    <2>3. \A v \in Windows : admitted'[v] <= count'[v] /\ admitted'[v] <= Capacity
      BY <1>1, <1>2, <1>4, <2>1, CapacityAssumption DEF LimiterInv, LimiterTypeOK, Counting
    <2>4. \A d \in Callers : at'[d] = "first" =>
             /\ at[d] = "first" /\ keyOf'[d] = keyOf[d]
             /\ admitted'[keyOf[d]] < count'[keyOf[d]] /\ admitted'[keyOf[d]] < Capacity
      <3> SUFFICES ASSUME NEW d \in Callers, at'[d] = "first"
                   PROVE  /\ at[d] = "first" /\ keyOf'[d] = keyOf[d]
                          /\ admitted'[keyOf[d]] < count'[keyOf[d]]
                          /\ admitted'[keyOf[d]] < Capacity
        OBVIOUS
      <3>1. d # c /\ at[d] = "first" /\ keyOf'[d] = keyOf[d] /\ keyOf[d] \in Windows
        BY <2>1 DEF LimiterInv, LimiterTypeOK
      <3>2. admitted[keyOf[d]] < count[keyOf[d]] /\ admitted[keyOf[d]] < Capacity
        BY <3>1 DEF LimiterInv, Counting
      <3> QED
        BY <1>1, <1>2, <1>4, <2>1, <3>1, <3>2, CapacityAssumption
           DEF LimiterInv, LimiterTypeOK
    <2>5. passes' <= admitted'["now"] + admitted'["last"]
      BY <1>1, <2>1 DEF LimiterInv, LimiterTypeOK, Counting, Windows
    <2> QED
      BY <2>2, <2>3, <2>4, <2>5 DEF LimiterInv, Counting
  <1>5. CASE n > Capacity /\ Stop(c, "asleep")
    <2>1. LimiterTypeOK'
      BY <1>1, <1>2, <1>5 DEF Stop, LimiterInv, LimiterTypeOK, LimiterPhases, Windows
    <2>2. Counting'
      BY <1>1, <1>2, <1>5, CapacityAssumption
         DEF Stop, LimiterInv, LimiterTypeOK, Counting, Windows
    <2> QED
      BY <2>1, <2>2 DEF LimiterInv
  <1> QED
    BY <1>3, <1>4, <1>5 DEF Incr

\* PEXPIRE answered: the first of a window passes, as it was counted to.
LEMMA PExpireLimiterInv == ASSUME LimiterInv, NEW c \in Callers, PExpire(c) PROVE LimiterInv'
  <1> DEFINE w == keyOf[c]
  <1>1. /\ at[c] = "first" /\ w \in Windows /\ count' = count
        /\ at' = [at EXCEPT ![c] = "passed"] /\ keyOf' = [keyOf EXCEPT ![c] = "now"]
        /\ admitted' = [admitted EXCEPT ![w] = @ + 1] /\ passes' = passes + 1
    BY DEF PExpire, Pass, LimiterInv, LimiterTypeOK
  <1>2. admitted[w] < count[w] /\ admitted[w] < Capacity
    BY <1>1 DEF LimiterInv, Counting
  <1>3. LimiterTypeOK'
    BY <1>1 DEF LimiterInv, LimiterTypeOK, LimiterPhases, Windows
  <1>4. \A v \in Windows : admitted'[v] <= count'[v] /\ admitted'[v] <= Capacity
    BY <1>1, <1>2, CapacityAssumption DEF LimiterInv, LimiterTypeOK, Counting
  <1>5. \A d \in Callers : at'[d] = "first" =>
           /\ at[d] = "first" /\ keyOf'[d] = keyOf[d]
           /\ admitted'[keyOf[d]] < count'[keyOf[d]] /\ admitted'[keyOf[d]] < Capacity
    <2> SUFFICES ASSUME NEW d \in Callers, at'[d] = "first"
                 PROVE  /\ at[d] = "first" /\ keyOf'[d] = keyOf[d]
                        /\ admitted'[keyOf[d]] < count'[keyOf[d]]
                        /\ admitted'[keyOf[d]] < Capacity
      OBVIOUS
    <2>1. d # c /\ at[d] = "first" /\ keyOf'[d] = keyOf[d] /\ keyOf[d] \in Windows
      BY <1>1 DEF LimiterInv, LimiterTypeOK
    <2>2. keyOf[d] # w
      BY <1>1, <2>1 DEF LimiterInv, Counting
    <2> QED
      BY <1>1, <2>1, <2>2 DEF LimiterInv, LimiterTypeOK, Counting
  <1>6. passes' <= admitted'["now"] + admitted'["last"]
    BY <1>1 DEF LimiterInv, LimiterTypeOK, Counting, Windows
  <1> QED
    BY <1>3, <1>4, <1>5, <1>6 DEF LimiterInv, Counting

\* A new second: its counter starts at zero, and nobody is the first of it.
LEMMA TickLimiterInv == ASSUME LimiterInv, Tick PROVE LimiterInv'
  <1>1. LimiterTypeOK'
    BY CapacityAssumption DEF Tick, LimiterInv, LimiterTypeOK, Windows
  <1>2. \A c \in Callers : at'[c] = "first" =>
           at[c] = "first" /\ keyOf[c] = "now" /\ keyOf'[c] = "last"
    BY DEF Tick, LimiterInv, LimiterTypeOK
  <1>3. Counting'
    BY <1>2, CapacityAssumption DEF Tick, LimiterInv, LimiterTypeOK, Counting, Windows
  <1> QED
    BY <1>1, <1>3 DEF LimiterInv

LEMMA NextLimiterInv == LimiterInv /\ [Next]_vars => LimiterInv'
  <1> SUFFICES ASSUME LimiterInv, [Next]_vars PROVE LimiterInv'
    OBVIOUS
  <1>1. ASSUME UNCHANGED limiterVars PROVE LimiterInv'
    BY <1>1 DEF limiterVars, LimiterInv, LimiterTypeOK, Counting
  <1>2. ASSUME NEW c \in Callers, ComputeKey(c) PROVE LimiterInv'
    BY <1>2, StopLimiterInv DEF ComputeKey, LimiterPhases
  <1>3. ASSUME NEW c \in Callers, StartRequest(c) \/ TryLimiter(c) PROVE LimiterInv'
    BY <1>2, <1>3, IncrLimiterInv, PExpireLimiterInv DEF StartRequest, Ask, TryLimiter, Wake
  <1>4. ASSUME NEW c \in Callers, TokenForRequest(c) PROVE LimiterInv'
    <2>1. at' = [at EXCEPT ![c] = "out"] /\ UNCHANGED <<keyOf, count, admitted, passes>>
      BY <1>4 DEF TokenForRequest
    <2>2. LimiterTypeOK'
      BY <2>1 DEF LimiterInv, LimiterTypeOK, LimiterPhases
    <2>3. Counting'
      BY <2>1 DEF LimiterInv, LimiterTypeOK, Counting
    <2> QED
      BY <2>2, <2>3 DEF LimiterInv
  <1>5. ASSUME NEW c \in Callers, Fault(c) PROVE LimiterInv'
    BY <1>1, <1>5, StopLimiterInv DEF Fault, LimiterFails, Stop, LimiterPhases
  <1>6. ASSUME NEW c \in Callers,
               TokenForStatus(c) \/ TokenStep(c) \/ Send(c) \/ \E f \in Flows : StartCallback(c, f)
        PROVE  LimiterInv'
    BY <1>1, <1>6 DEF TokenForStatus, TokenStep, Send, StartCallback
  <1>7. ASSUME Second \/ Elsewhere PROVE LimiterInv'
    BY <1>1, <1>7, TickLimiterInv DEF Second, Elsewhere
  <1>8. CASE UNCHANGED vars
    BY <1>1, <1>8 DEF vars
  <1> QED
    BY <1>3, <1>4, <1>5, <1>6, <1>7, <1>8 DEF Next, Advance

-----------------------------------------------------------------------------

\* The limiter never lets more calls through on the counter of one second than
\* its capacity, nor more than twice as many within one second.
THEOREM BudgetTheorem == Spec => []BudgetKept
  <1>1. Init => LimiterInv
    BY InitLimiterInv DEF Init
  <1>2. LimiterInv => BudgetKept
    BY CapacityAssumption DEF LimiterInv, LimiterTypeOK, Counting, BudgetKept, Windows
  <1> QED
    BY <1>1, <1>2, NextLimiterInv, PTL DEF Spec

-----------------------------------------------------------------------------
(* Tokens                                                                   *)

\* What a caller is about to send was fresh when it took it.
Young == /\ \A c \in Callers : checked[c] = "fresh"
         /\ \A c \in Callers : step[c] \in {"store", "bearer"} =>
               using[c] \in Tokens /\ age[using[c]] # "expired"

\* A token that a caller is about to store is known to nobody else, and Clio
\* accepts its refresh token.
Private == \A c \in Callers : step[c] = "store" =>
              /\ using[c] \in refreshable /\ using[c] # stored
              /\ \A d \in Callers : from[d] # using[c] /\ (d # c => using[d] # using[c])

AuthInv == AuthTypeOK /\ Young /\ Private

\* Forgetting what nobody needs changes nothing for the others.
LEMMA ForgetKnown ==
  ASSUME AuthTypeOK, Forget
  PROVE  /\ age' \in [Tokens -> Ages] /\ \A t \in Tokens : age'[t] = "expired" => age[t] = "expired"
         /\ refreshable' \subseteq refreshable
         /\ \A c \in Callers : using'[c] \in refreshable => using'[c] \in refreshable'
         /\ stored' \in refreshable => stored' \in refreshable'
  <1>1. NoToken \notin refreshable
    BY TokenAssumption DEF AuthTypeOK
  <1>2. /\ \A c \in Callers : using'[c] \in refreshable => using'[c] \in Known'
        /\ stored' \in refreshable => stored' \in Known'
    BY <1>1 DEF Known
  <1>3. age' = [t \in Tokens |-> IF t \in InUse' THEN age[t] ELSE "fresh"]
           /\ refreshable' = refreshable \cap Known'
    BY DEF Forget
  <1>4. age' \in [Tokens -> Ages] /\ \A t \in Tokens : age'[t] = "expired" => age[t] = "expired"
    BY <1>3 DEF AuthTypeOK, Ages
  <1> QED
    BY <1>2, <1>3, <1>4

\* A call ends: the others go on with what they have.
LEMMA LeaveAuthInv ==
  ASSUME AuthInv, NEW c \in Callers, Leave(c), stored' \in {stored, NoToken},
         states' \subseteq Flows, consented' = consented, codes' \subseteq Flows,
         age' \in [Tokens -> Ages], \A t \in Tokens : age'[t] = "expired" => age[t] = "expired",
         refreshable' \subseteq refreshable,
         \A d \in Callers \ {c} : step[d] = "store" => using[d] \in refreshable'
  PROVE  AuthInv'
  <1>1. AuthTypeOK'
    BY DEF AuthInv, AuthTypeOK, Leave, AuthSteps, Ages
  <1>2. \A d \in Callers \ {c} : /\ step'[d] = step[d] /\ using'[d] = using[d] /\ from'[d] = from[d]
                                 /\ checked'[d] = checked[d]
    BY DEF AuthInv, AuthTypeOK, Leave
  <1>3. step'[c] = "off" /\ using'[c] = NoToken /\ from'[c] = NoToken /\ checked'[c] = "fresh"
    BY DEF AuthInv, AuthTypeOK, Leave
  <1>4. Young'
    BY <1>2, <1>3 DEF AuthInv, Young
  <1>5. \A d \in Callers : step[d] = "store" => using[d] # NoToken
    BY TokenAssumption DEF AuthInv, Private, AuthTypeOK
  <1>6. Private'
    BY <1>2, <1>3, <1>5 DEF AuthInv, Private
  <1> QED
    BY <1>1, <1>4, <1>6 DEF AuthInv

\* Clio's answer: a token that nobody knows.
LEMMA MintAuthInv ==
  ASSUME AuthInv, NEW c \in Callers, NEW dead, Mint(c, dead), step' = [step EXCEPT ![c] = "store"],
         step[c] \notin {"store", "bearer"}, UNCHANGED <<stored, states, consented>>, codes' \subseteq Flows,
         flow' = flow, \A d \in Callers : step[d] = "store" => using[d] \notin dead,
         checked' = [checked EXCEPT ![c] = "fresh"] \/ UNCHANGED checked,
         from' = [from EXCEPT ![c] = using[c]] \/ UNCHANGED from
  PROVE  /\ AuthInv' /\ using'[c] \notin refreshable \cap Known
         /\ refreshable' = (refreshable \ dead) \cup {using'[c]}
  <1> DEFINE t == CHOOSE t \in FreshTokens : TRUE
  <1>0. FreshTokens # {} /\ age' = [age EXCEPT ![t] = "fresh"] /\ refreshable' = (refreshable \ dead) \cup {t}
        /\ using' = [using EXCEPT ![c] = t]
    BY DEF Mint
  <1>1. t \in FreshTokens
    BY <1>0
  <1> HIDE DEF t
  <1>2. /\ t \in Tokens /\ t # stored /\ t # NoToken /\ t \notin Known
        /\ \A d \in Callers : using[d] # t /\ from[d] # t
    BY <1>1, TokenAssumption DEF FreshTokens, Known
  <1>3. AuthTypeOK'
    BY <1>0, <1>2 DEF AuthInv, AuthTypeOK, AuthSteps, Ages
  <1>4. /\ step'[c] = "store" /\ using'[c] = t /\ from'[c] \in {from[c], using[c]} /\ checked'[c] = "fresh"
        /\ \A d \in Callers \ {c} : /\ step'[d] = step[d] /\ using'[d] = using[d] /\ from'[d] = from[d]
                                    /\ checked'[d] = checked[d]
    BY <1>0 DEF AuthInv, AuthTypeOK, Young
  <1>5. age'[t] = "fresh" /\ \A u \in Tokens : age'[u] \in {age[u], "fresh"}
    BY <1>0, <1>2 DEF AuthInv, AuthTypeOK
  <1>6. Young'
    BY <1>2, <1>4, <1>5 DEF AuthInv, Young
  <1>7. Private'
    <2>1. /\ using'[c] \in refreshable' /\ using'[c] # stored'
          /\ \A d \in Callers : from'[d] # using'[c] /\ (d # c => using'[d] # using'[c])
      BY <1>0, <1>2, <1>4
    <2>2. ASSUME NEW e \in Callers, e # c, step'[e] = "store"
          PROVE  /\ using'[e] \in refreshable' /\ using'[e] # stored'
                 /\ \A d \in Callers : from'[d] # using'[e] /\ (d # e => using'[d] # using'[e])
      <3>1. step[e] = "store" /\ using'[e] = using[e]
        BY <1>4, <2>2
      <3>2. /\ using[e] \in refreshable /\ using[e] # stored /\ using[e] \notin dead
            /\ \A d \in Callers : from[d] # using[e] /\ (d # e => using[d] # using[e])
        BY <3>1 DEF AuthInv, Private
      <3> QED
        BY <1>0, <1>2, <1>4, <2>2, <3>1, <3>2
    <2> QED
      BY <2>1, <2>2 DEF Private
  <1> QED
    BY <1>0, <1>2, <1>3, <1>4, <1>6, <1>7 DEF AuthInv

\* The SET: what was private is stored, and the caller's no longer to store.
LEMMA StoreAuthInv ==
  ASSUME AuthInv, NEW c \in Callers, StoreToken(c)
  PROVE  AuthInv' /\ stored' \in refreshable'
  <1>1. /\ step[c] = "store" /\ stored' = using[c] /\ using[c] \in Tokens /\ using[c] \in refreshable
        /\ UNCHANGED <<states, consented, codes>>
    BY DEF AuthInv, Young, Private, StoreToken
  <1>2. /\ age' \in [Tokens -> Ages] /\ \A t \in Tokens : age'[t] = "expired" => age[t] = "expired"
        /\ refreshable' \subseteq refreshable
        /\ \A d \in Callers : using'[d] \in refreshable => using'[d] \in refreshable'
        /\ stored' \in refreshable => stored' \in refreshable'
    BY ForgetKnown DEF AuthInv, StoreToken
  <1>3. /\ \A d \in Callers \ {c} : /\ step'[d] = step[d] /\ using'[d] = using[d] /\ from'[d] = from[d]
                                    /\ checked'[d] = checked[d]
        /\ from'[c] = NoToken /\ checked'[c] = "fresh"
        /\ \/ step'[c] = "off" /\ using'[c] = NoToken
           \/ step'[c] = "bearer" /\ using'[c] = using[c]
    BY DEF AuthInv, AuthTypeOK, StoreToken, Leave, Young
  <1>4. AuthTypeOK'
    BY <1>1, <1>2 DEF AuthInv, AuthTypeOK, StoreToken, Leave, AuthSteps, Ages
  <1>5. Young'
    BY <1>1, <1>2, <1>3 DEF AuthInv, Young
  <1>6. Private'
    <2> SUFFICES ASSUME NEW e \in Callers, step'[e] = "store"
                 PROVE  /\ using'[e] \in refreshable' /\ using'[e] # stored'
                        /\ \A d \in Callers : from'[d] # using'[e] /\ (d # e => using'[d] # using'[e])
      BY DEF Private
    <2>1. e # c /\ step[e] = "store" /\ using'[e] = using[e]
      BY <1>3
    <2>2. /\ using[e] \in refreshable /\ using[e] # using[c] /\ using[e] # NoToken
          /\ \A d \in Callers : from[d] # using[e] /\ (d # e => using[d] # using[e])
      BY <1>1, <2>1, TokenAssumption DEF AuthInv, Private, AuthTypeOK
    <2> QED
      BY <1>1, <1>2, <1>3, <2>1, <2>2
  <1> QED
    BY <1>1, <1>2, <1>4, <1>5, <1>6 DEF AuthInv

\* The token is taken from Redis, or looked at to be refreshed.
LEMMA GetAuthInv == ASSUME AuthInv, NEW c \in Callers, GetToken(c) PROVE AuthInv'
  <1>1. step[c] = "off" /\ UNCHANGED <<stored, age, refreshable, states, consented, codes>>
    BY DEF GetToken
  <1>2. CASE NotConnected(c)
    BY <1>1, <1>2, LeaveAuthInv DEF NotConnected, AuthInv, AuthTypeOK, Private
  <1>3. CASE UseStored(c) \/ NeedRefresh(c)
    <2>1. /\ \A d \in Callers \ {c} : step'[d] = step[d] /\ using'[d] = using[d]
          /\ from' = from /\ \A d \in Callers : checked'[d] = "fresh"
          /\ using'[c] = stored /\ stored \in Tokens
          /\ step'[c] = "refresh" \/ (step'[c] = "bearer" /\ age[stored] = "fresh")
      BY <1>3 DEF UseStored, NeedRefresh, Take, AuthInv, AuthTypeOK, Young
    <2>2. AuthTypeOK'
      BY <1>1, <1>3 DEF UseStored, NeedRefresh, Take, AuthInv, AuthTypeOK, AuthSteps, Ages
    <2>3. Young'
      BY <1>1, <2>1 DEF AuthInv, Young
    <2>4. Private'
      BY <1>1, <2>1 DEF AuthInv, Private
    <2> QED
      BY <2>2, <2>3, <2>4 DEF AuthInv
  <1> QED
    BY <1>2, <1>3 DEF GetToken

\* The other steps of a call.
LEMMA CallAuthInv ==
  ASSUME AuthInv, NEW c \in Callers,
         \/ Refresh(c) \/ RefreshRefused(c) \/ Exchange(c) \/ ExchangeRefused(c)
         \/ AuthFails(c) \/ RefreshLost(c) \/ \E f \in Flows : Callback(c, f)
         \/ Leave(c) /\ UNCHANGED <<stored, states, consented, codes>> /\ Forget
  PROVE  AuthInv'
  <1>0. AuthTypeOK /\ \A d \in Callers : step[d] = "store" => using[d] \in refreshable
    BY DEF AuthInv, Private
  <1>1. CASE Refresh(c)
    <2>1. \A d \in Callers : step[d] = "store" => using[d] \notin {} \cup {using[c]}
      BY <1>1 DEF AuthInv, Private, Refresh
    <2> QED
      BY <1>0, <1>1, <2>1, MintAuthInv DEF Refresh, AuthTypeOK
  <1>2. CASE Exchange(c)
    <2>1. /\ Mint(c, {}) /\ step' = [step EXCEPT ![c] = "store"] /\ step[c] \notin {"store", "bearer"}
          /\ UNCHANGED <<stored, from, checked, flow, states, consented>> /\ codes' \subseteq Flows
      BY <1>0, <1>2 DEF Exchange, AuthTypeOK
    <2>2. /\ UNCHANGED <<stored, states, consented>> /\ flow' = flow /\ UNCHANGED checked /\ UNCHANGED from
          /\ \A d \in Callers : step[d] = "store" => using[d] \notin {}
      BY <2>1
    <2>3. /\ AuthInv' /\ using'[c] \notin refreshable \cap Known
          /\ refreshable' = (refreshable \ {}) \cup {using'[c]}
      BY <2>1, <2>2, MintAuthInv
    <2> QED
      BY <2>3
  <1>3. ASSUME Leave(c), UNCHANGED <<stored, states, consented, codes>>, Forget PROVE AuthInv'
    <2>1. \A d \in Callers \ {c} : using'[d] = using[d]
      BY <1>0, <1>3 DEF Leave, AuthTypeOK
    <2>2. /\ age' \in [Tokens -> Ages] /\ \A t \in Tokens : age'[t] = "expired" => age[t] = "expired"
          /\ refreshable' \subseteq refreshable
          /\ \A d \in Callers \ {c} : step[d] = "store" => using[d] \in refreshable'
      BY <1>0, <1>3, <2>1, ForgetKnown
    <2> QED
      BY <1>0, <1>3, <2>2, LeaveAuthInv DEF AuthTypeOK
  <1>4. CASE RefreshRefused(c) \/ AuthFails(c)
    BY <1>3, <1>4 DEF RefreshRefused, AuthFails
  <1>5. CASE ExchangeRefused(c)
    BY <1>0, <1>5, LeaveAuthInv DEF ExchangeRefused, AuthTypeOK
  <1>6. CASE RefreshLost(c)
    <2>1. /\ Leave(c) /\ refreshable' = refreshable \ {using[c]} /\ step[c] = "refresh"
          /\ UNCHANGED <<stored, age, states, consented, codes>>
      BY <1>6 DEF RefreshLost
    <2>2. \A d \in Callers \ {c} : step[d] = "store" => using[d] \in refreshable'
      BY <2>1 DEF AuthInv, Private
    <2> QED
      BY <1>0, <2>1, <2>2, LeaveAuthInv DEF AuthTypeOK
  <1>7. ASSUME NEW f \in Flows, Callback(c, f) PROVE AuthInv'
    <2>1. CASE Leave(c)
      BY <1>0, <1>7, <2>1, LeaveAuthInv DEF Callback, AuthTypeOK
    <2>2. CASE step' = [step EXCEPT ![c] = "exchange"] /\ flow' = [flow EXCEPT ![c] = f]
               /\ UNCHANGED <<using, from, checked>>
      <3>1. UNCHANGED <<stored, age, refreshable, consented, codes>> /\ states' = states \ {f}
        BY <1>7 DEF Callback
      <3>2. AuthTypeOK'
        BY <1>0, <2>2, <3>1 DEF AuthTypeOK, AuthSteps
      <3>3. Young' /\ Private'
        BY <1>0, <2>2, <3>1 DEF AuthInv, AuthTypeOK, Young, Private
      <3> QED
        BY <3>2, <3>3 DEF AuthInv
    <2> QED
      BY <1>7, <2>1, <2>2 DEF Callback
  <1> QED
    BY <1>1, <1>2, <1>3, <1>4, <1>5, <1>6, <1>7

\* Time, and the authorizations that begin.
LEMMA ElsewhereAuthInv == ASSUME AuthInv, Elsewhere PROVE AuthInv'
  <1>0. AuthTypeOK
    BY DEF AuthInv
  <1>1. ASSUME NEW f \in Flows, Authorize(f) \/ DropState(f) PROVE AuthInv'
    <2>1. UNCHANGED <<stored, age, refreshable, callVars>>
      BY <1>1 DEF Authorize, DropState
    <2>2. AuthTypeOK' /\ Young' /\ Private'
      BY <1>0, <1>1, <2>1 DEF Authorize, DropState, AuthInv, AuthTypeOK, Young, Private, callVars
    <2> QED
      BY <2>2 DEF AuthInv
  <1>2. ASSUME NEW t \in Tokens, GrowOld(t) PROVE AuthInv'
    <2>1. UNCHANGED <<stored, refreshable, callVars, states, consented, codes>>
      BY <1>2 DEF GrowOld
    <2>2. /\ age' \in [Tokens -> Ages] /\ \A u \in Tokens \ {t} : age'[u] = age[u]
          /\ age'[t] = "aging" \/ \A c \in Callers : (using[c] = t /\ step[c] \in {"store", "bearer"})
                                                        => checked[c] # "fresh"
      BY <1>0, <1>2 DEF GrowOld, AuthTypeOK, Ages
    <2>3. AuthTypeOK' /\ Private'
      BY <1>0, <2>1, <2>2 DEF AuthInv, AuthTypeOK, Private, callVars
    <2>4. Young'
      BY <2>1, <2>2 DEF AuthInv, Young, callVars
    <2> QED
      BY <2>3, <2>4 DEF AuthInv
  <1>3. CASE DropStored
    <2>1. stored' = NoToken /\ UNCHANGED <<callVars, states, consented, codes>> /\ Forget
      BY <1>3 DEF DropStored
    <2>2. /\ age' \in [Tokens -> Ages] /\ \A t \in Tokens : age'[t] = "expired" => age[t] = "expired"
          /\ refreshable' \subseteq refreshable
          /\ \A d \in Callers : using'[d] \in refreshable => using'[d] \in refreshable'
      BY <1>0, <2>1, ForgetKnown
    <2>3. AuthTypeOK'
      BY <1>0, <2>1, <2>2 DEF AuthTypeOK, callVars
    <2>4. Young'
      BY <2>1, <2>2 DEF AuthInv, Young, callVars
    <2>5. Private'
      BY <1>0, <2>1, <2>2, TokenAssumption DEF AuthInv, Private, AuthTypeOK, callVars
    <2> QED
      BY <2>3, <2>4, <2>5 DEF AuthInv
  <1> QED
    BY <1>1, <1>2, <1>3 DEF Elsewhere

\* Every step of the calls keeps the tokens young and those about to be stored
\* private.
LEMMA NextAuthInv == AuthInv /\ [Next]_vars => AuthInv'
  <1> SUFFICES ASSUME AuthInv, [Next]_vars PROVE AuthInv'
    OBVIOUS
  <1>1. ASSUME UNCHANGED authVars PROVE AuthInv'
    BY <1>1 DEF AuthInv, AuthTypeOK, Young, Private, authVars
  <1>2. ASSUME NEW c \in Callers, StartRequest(c) \/ TryLimiter(c) PROVE AuthInv'
    BY <1>1, <1>2 DEF StartRequest, TryLimiter
  <1>3. ASSUME NEW c \in Callers, TokenForRequest(c) \/ TokenForStatus(c) PROVE AuthInv'
    BY <1>3, GetAuthInv DEF TokenForRequest, TokenForStatus
  <1>4. ASSUME NEW c \in Callers, TokenStep(c) \/ Send(c) \/ \E f \in Flows : StartCallback(c, f)
        PROVE  AuthInv'
    BY <1>4, StoreAuthInv, CallAuthInv DEF TokenStep, Send, StartCallback
  <1>5. ASSUME NEW c \in Callers, Fault(c) PROVE AuthInv'
    BY <1>1, <1>5, CallAuthInv DEF Fault
  <1>6. CASE Second \/ Elsewhere
    BY <1>1, <1>6, ElsewhereAuthInv DEF Second
  <1>7. CASE UNCHANGED vars
    BY <1>1, <1>7 DEF vars
  <1> QED
    BY <1>2, <1>3, <1>4, <1>5, <1>6, <1>7 DEF Next, Advance

\* At the start nobody has a token.
LEMMA InitAuthInv == Init => AuthInv
  <1> SUFFICES ASSUME Init PROVE AuthInv
    OBVIOUS
  <1>1. AuthTypeOK
    BY TokenAssumption DEF Init, AuthInit, AuthTypeOK, AuthSteps, Ages
  <1>2. Young /\ Private
    BY DEF Init, AuthInit, Young, Private
  <1> QED
    BY <1>1, <1>2 DEF AuthInv

\* A token that is about to be sent to Clio has not expired, whoever refreshes it
\* meanwhile (getAccessToken).
THEOREM BearerTheorem == Spec => []BearerAccepted
  <1>1. AuthInv => BearerAccepted
    BY DEF AuthInv, Young, BearerAccepted
  <1> QED
    BY <1>1, InitAuthInv, NextAuthInv, PTL DEF Spec

\* The record stays usable: whoever kills its refresh token is about to replace it.
LEMMA NextUsable ==
  ASSUME AuthInv, faults \in Nat, UsableUntilFault, [Next]_vars
  PROVE  UsableUntilFault'
  <1>0. AuthTypeOK /\ NoToken \notin refreshable
    BY TokenAssumption DEF AuthInv, AuthTypeOK
  <1> SUFFICES ASSUME faults' = 0, stored' # NoToken, stored' \notin refreshable'
               PROVE  \E d \in Callers : step'[d] = "store" /\ from'[d] = stored'
    BY DEF UsableUntilFault, StoredUsable
  <1>1. ASSUME UNCHANGED <<faults, stored, step, from>>, refreshable' = refreshable
        PROVE  \E d \in Callers : step'[d] = "store" /\ from'[d] = stored'
    BY <1>1 DEF UsableUntilFault, StoredUsable
  <1>2. ASSUME faults' = faults, stored' = stored, stored \in refreshable => stored' \in refreshable',
               NEW c \in Callers, step[c] # "store",
               \A d \in Callers \ {c} : step'[d] = step[d] /\ from'[d] = from[d]
        PROVE  \E d \in Callers : step'[d] = "store" /\ from'[d] = stored'
    BY <1>2 DEF UsableUntilFault, StoredUsable
  <1>3. ASSUME NEW c \in Callers, Leave(c)
        PROVE  \A d \in Callers \ {c} : step'[d] = step[d] /\ from'[d] = from[d]
    BY <1>0, <1>3 DEF Leave, AuthTypeOK
  <1>4. ASSUME Forget PROVE stored' \in refreshable => stored' \in refreshable'
    BY <1>0, <1>4, ForgetKnown
  <1>5. ASSUME UNCHANGED authVars, faults' = faults
        PROVE  \E d \in Callers : step'[d] = "store" /\ from'[d] = stored'
    BY <1>1, <1>5 DEF authVars
  <1>6. ASSUME NEW c \in Callers, StartRequest(c) \/ TryLimiter(c)
        PROVE  \E d \in Callers : step'[d] = "store" /\ from'[d] = stored'
    BY <1>5, <1>6 DEF StartRequest, TryLimiter, Begin
  <1>7. ASSUME NEW c \in Callers, TokenForRequest(c) \/ TokenForStatus(c)
        PROVE  \E d \in Callers : step'[d] = "store" /\ from'[d] = stored'
    <2>1. GetToken(c) /\ faults' = faults
      BY <1>7 DEF TokenForRequest, TokenForStatus, Follow
    <2>2. /\ step[c] = "off" /\ stored' = stored /\ refreshable' = refreshable
          /\ \A d \in Callers \ {c} : step'[d] = step[d] /\ from'[d] = from[d]
      BY <1>0, <2>1 DEF GetToken, NotConnected, UseStored, NeedRefresh, Take, Leave, AuthTypeOK
    <2> QED
      BY <1>2, <2>1, <2>2
  <1>8. ASSUME NEW c \in Callers, NEW f \in Flows, StartCallback(c, f)
        PROVE  \E d \in Callers : step'[d] = "store" /\ from'[d] = stored'
    <2>1. Callback(c, f) /\ faults' = faults
      BY <1>8 DEF StartCallback
    <2>2. /\ step[c] = "off" /\ stored' = stored /\ refreshable' = refreshable
          /\ \A d \in Callers \ {c} : step'[d] = step[d] /\ from'[d] = from[d]
      BY <1>0, <2>1 DEF Callback, Leave, AuthTypeOK
    <2> QED
      BY <1>2, <2>1, <2>2
  <1>9. ASSUME NEW c \in Callers, Send(c)
        PROVE  \E d \in Callers : step'[d] = "store" /\ from'[d] = stored'
    BY <1>2, <1>3, <1>4, <1>9 DEF Send
  <1>10. ASSUME NEW c \in Callers, TokenStep(c)
         PROVE  \E d \in Callers : step'[d] = "store" /\ from'[d] = stored'
    <2>0. faults' = faults
      BY <1>10 DEF TokenStep, Follow
    <2>1. CASE Refresh(c)
      <3>1. PICK dead \in {{}, {using[c]}} : refreshable \ dead \subseteq refreshable'
        BY <2>1 DEF Refresh, Mint
      <3>2. /\ step[c] = "refresh" /\ stored' = stored
            /\ step' = [step EXCEPT ![c] = "store"] /\ from' = [from EXCEPT ![c] = using[c]]
        BY <2>1 DEF Refresh
      <3>3. /\ step'[c] = "store" /\ from'[c] = using[c]
            /\ \A d \in Callers \ {c} : step'[d] = step[d] /\ from'[d] = from[d]
        BY <1>0, <3>2 DEF AuthTypeOK
      <3>4. CASE stored = using[c]
        BY <3>2, <3>3, <3>4
      <3>5. CASE stored # using[c]
        BY <1>2, <2>0, <3>1, <3>2, <3>3, <3>5
      <3> QED
        BY <3>4, <3>5
    <2>2. CASE RefreshRefused(c)
      BY <1>2, <1>3, <1>4, <2>0, <2>2 DEF RefreshRefused
    <2>3. CASE StoreToken(c)
      BY <2>3, StoreAuthInv
    <2>4. CASE Exchange(c)
      <3>1. refreshable \subseteq refreshable' /\ step[c] = "exchange" /\ UNCHANGED <<stored, from>>
            /\ step' = [step EXCEPT ![c] = "store"]
        BY <2>4 DEF Exchange, Mint
      <3>2. \A d \in Callers \ {c} : step'[d] = step[d] /\ from'[d] = from[d]
        BY <1>0, <3>1 DEF AuthTypeOK
      <3> QED
        BY <1>2, <2>0, <3>1, <3>2
    <2>5. CASE ExchangeRefused(c)
      BY <1>2, <1>3, <2>0, <2>5 DEF ExchangeRefused
    <2> QED
      BY <1>10, <2>1, <2>2, <2>3, <2>4, <2>5 DEF TokenStep
  <1>11. ASSUME NEW c \in Callers, Fault(c) PROVE FALSE
    <2>1. faults' = faults + 1
      BY <1>11 DEF Fault
    <2> QED
      BY <2>1
  <1>12. CASE Second
    BY <1>5, <1>12 DEF Second, Alone
  <1>13. CASE Elsewhere
    <2>1. CASE DropStored
      BY <2>1 DEF DropStored
    <2>2. CASE (\E f \in Flows : Authorize(f) \/ DropState(f)) \/ \E t \in Tokens : GrowOld(t)
      <3>1. UNCHANGED <<stored, refreshable, callVars>>
        BY <2>2 DEF Authorize, DropState, GrowOld
      <3> QED
        BY <1>1, <1>13, <3>1 DEF callVars, Elsewhere, Alone
    <2> QED
      BY <1>13, <2>1, <2>2 DEF Elsewhere
  <1>14. CASE UNCHANGED vars
    BY <1>5, <1>14 DEF vars
  <1> QED
    BY <1>6, <1>7, <1>8, <1>9, <1>10, <1>11, <1>12, <1>13, <1>14 DEF Next, Advance

\* Faults are counted.
FaultsCounted == faults \in Nat

\* Only a failure between Clio's answer and the SET loses a refresh token that
\* Clio has replaced: until then the record in Redis can be refreshed, or somebody
\* is about to store its successor.
THEOREM UsableTheorem == Spec => []UsableUntilFault
  <1>1. Init => UsableUntilFault /\ FaultsCounted
    <2> SUFFICES ASSUME Init PROVE UsableUntilFault /\ FaultsCounted
      OBVIOUS
    <2> QED
      BY DEF FaultsCounted, Init, AuthInit, UsableUntilFault, StoredUsable
  <1>2. FaultsCounted /\ [Next]_vars => FaultsCounted'
    <2> SUFFICES ASSUME FaultsCounted, [Next]_vars PROVE FaultsCounted'
      OBVIOUS
    <2>1. faults' = faults \/ faults' = faults + 1
      BY DEF Next, Advance, StartRequest, Begin, TryLimiter, TokenForRequest, Follow, TokenForStatus,
             StartCallback, TokenStep, Send, Fault, Second, Alone, Elsewhere, vars
    <2> QED
      BY <2>1 DEF FaultsCounted
  <1>3. AuthInv /\ FaultsCounted /\ UsableUntilFault /\ [Next]_vars => UsableUntilFault'
    BY NextUsable DEF FaultsCounted
  <1> QED
    BY <1>1, <1>2, <1>3, InitAuthInv, NextAuthInv, PTL DEF Spec
=============================================================================
