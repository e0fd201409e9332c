------------------------------ MODULE ClioAuth ------------------------------
(***************************************************************************)
(* The OAuth tokens of src/src/clio/clio.auth.ts, one record in Redis that *)
(* every process reads, refreshes and overwrites without a lock, and the   *)
(* authorization flow of clio.routes.ts that first puts them there.        *)
(*                                                                         *)
(* A token stands for the access token, the refresh token and the expiry   *)
(* that Clio gives out together.  Clio is modelled as the code relies on   *)
(* it: it accepts an access token until it expires, a code once, and a     *)
(* refresh token for as long as it has not replaced it; whether a refresh  *)
(* replaces the refresh token is Clio's choice.                            *)
(***************************************************************************)
EXTENDS ClioCallers, Integers

CONSTANTS
    Tokens,    \* see FreshTokens
    NoToken,   \* the key is absent; the caller has no token
    Flows,     \* the states of authorizations, one random value each
    NoFlow

ASSUME TokenAssumption == NoToken \notin Tokens /\ Tokens # {}
ASSUME FlowAssumption  == NoFlow \notin Flows

VARIABLES
    stored,      \* the token in clio:oauth:tokens
    age,         \* age[t]: Clio's and the stored expires_at; "aging" is the last 300 s
    refreshable, \* the tokens whose refresh token Clio still accepts
    step,        \* step[c]: where c is in getAccessToken or exchangeCode
    using,       \* using[c]: the token in the memory of c
    from,        \* from[c]: the token that c refreshed, until c has stored the new one
    checked,     \* checked[c]: the age that c saw when it took the token (history)
    flow,        \* flow[c]: the authorization that c exchanges
    states,      \* the states in clio:oauth:state:*
    consented,   \* the authorizations Clio has redirected back from, or will
    codes        \* those whose code Clio still exchanges

authVars == <<stored, age, refreshable, step, using, from, checked,
              flow, states, consented, codes>>
callVars == <<step, using, from, checked, flow>>

Ages == {"fresh", "aging", "expired"}
\* refresh, exchange: about to call Clio; store: about to SET; bearer: has a token
AuthSteps == {"off", "refresh", "exchange", "store", "bearer"}

AuthTypeOK ==
    /\ stored \in Tokens \cup {NoToken}
    /\ age \in [Tokens -> Ages]
    /\ refreshable \subseteq Tokens
    /\ step \in [Callers -> AuthSteps]
    /\ using \in [Callers -> Tokens \cup {NoToken}]
    /\ from \in [Callers -> Tokens \cup {NoToken}]
    /\ checked \in [Callers -> Ages]
    /\ flow \in [Callers -> Flows \cup {NoFlow}]
    /\ states \subseteq Flows /\ consented \subseteq Flows /\ codes \subseteq Flows

\* Redis keeps what an earlier run of the program left there.
AuthInit ==
    /\ stored \in {NoToken, CHOOSE t \in Tokens : TRUE}
    /\ age = [t \in Tokens |-> "fresh"]
    /\ refreshable = {stored} \ {NoToken}
    /\ step = [c \in Callers |-> "off"]
    /\ using = [c \in Callers |-> NoToken]
    /\ from = [c \in Callers |-> NoToken]
    /\ checked = [c \in Callers |-> "fresh"]
    /\ flow = [c \in Callers |-> NoFlow]
    /\ states = {} /\ consented = {} /\ codes = {}

\* A token that Clio never gave out before: one that nobody remembers.
Known == ({stored} \cup {using[c] : c \in Callers} \cup {from[c] : c \in Callers}) \ {NoToken}
FreshTokens == Tokens \ Known

\* The access tokens that are still to be used.
InUse == ({stored} \cup {using[c] : c \in {d \in Callers : step[d] \in {"store", "bearer"}}})
            \ {NoToken}

\* The model forgets what it knew of tokens that a step made irrelevant.
Forget ==
    /\ age' = [t \in Tokens |-> IF t \in InUse' THEN age[t] ELSE "fresh"]
    /\ refreshable' = refreshable \cap Known'

\* The call of c is over, with whatever result; its memory is gone.
Leave(c) ==
    /\ step'    = [step EXCEPT ![c] = "off"]
    /\ using'   = [using EXCEPT ![c] = NoToken]
    /\ from'    = [from EXCEPT ![c] = NoToken]
    /\ checked' = [checked EXCEPT ![c] = "fresh"]
    /\ flow'    = [flow EXCEPT ![c] = NoFlow]

\* getAccessToken returns the stored token without more ado.
Take(c, t) ==
    /\ step'    = [step EXCEPT ![c] = "bearer"]
    /\ using'   = [using EXCEPT ![c] = t]
    /\ checked' = [checked EXCEPT ![c] = age[t]]

-----------------------------------------------------------------------------
(* getAccessToken *)

\* No tokens: the call fails.
NotConnected(c) == stored = NoToken /\ Leave(c)

\* The stored token has more than 300 s to live.
UseStored(c) ==
    /\ stored # NoToken /\ age[stored] = "fresh"
    /\ Take(c, stored)
    /\ UNCHANGED <<from, flow>>

\* Otherwise it is refreshed.
NeedRefresh(c) ==
    /\ stored # NoToken /\ age[stored] # "fresh"
    /\ step' = [step EXCEPT ![c] = "refresh"]
    /\ using' = [using EXCEPT ![c] = stored]
    /\ UNCHANGED <<from, checked, flow>>

\* A bug for the mutants: no margin before the expiry.
GetTokenUntilExpired(c) ==
    /\ step[c] = "off"
    /\ \/ NotConnected(c)
       \/ /\ stored # NoToken /\ age[stored] # "expired"
          /\ Take(c, stored)
          /\ UNCHANGED <<from, flow>>
       \/ NeedRefresh(c) /\ age[stored] = "expired"
    /\ UNCHANGED <<stored, age, refreshable, states, consented, codes>>

\* redis.get(TOKEN_KEY) and the check that follows it.
GetToken(c) ==
    /\ step[c] = "off"
    /\ NotConnected(c) \/ UseStored(c) \/ NeedRefresh(c)
    /\ UNCHANGED <<stored, age, refreshable, states, consented, codes>>

\* Clio gives c a token and ceases to accept the refresh tokens in dead.
Mint(c, dead) ==
    /\ FreshTokens # {}
    /\ LET t == CHOOSE t \in FreshTokens : TRUE IN
       /\ age' = [age EXCEPT ![t] = "fresh"]
       /\ refreshable' = (refreshable \ dead) \cup {t}
       /\ using' = [using EXCEPT ![c] = t]

\* refresh: Clio honours the refresh token and may replace it.
Refresh(c) ==
    /\ step[c] = "refresh" /\ using[c] \in refreshable
    /\ \E dead \in {{}, {using[c]}} : Mint(c, dead)
    /\ from' = [from EXCEPT ![c] = using[c]]
    /\ step' = [step EXCEPT ![c] = "store"]
    /\ checked' = [checked EXCEPT ![c] = "fresh"]
    /\ UNCHANGED <<stored, flow, states, consented, codes>>

\* "Token refresh failed"
RefreshRefused(c) ==
    /\ step[c] = "refresh" /\ using[c] \notin refreshable
    /\ Leave(c)
    /\ UNCHANGED <<stored, states, consented, codes>>
    /\ Forget

\* A bug for the mutants: a refresh keeps the record it began with.
StoreOnlyExchanged(c) ==
    /\ step[c] = "store"
    /\ stored' = IF flow[c] # NoFlow THEN using[c] ELSE stored
    /\ IF flow[c] # NoFlow THEN Leave(c)
       ELSE /\ step' = [step EXCEPT ![c] = "bearer"]
            /\ from' = [from EXCEPT ![c] = NoToken]
            /\ UNCHANGED <<using, checked, flow>>
    /\ Forget
    /\ UNCHANGED <<states, consented, codes>>

\* redis.set(TOKEN_KEY); the callback ends with it, other calls have their token.
StoreToken(c) ==
    /\ step[c] = "store"
    /\ stored' = using[c]
    /\ IF flow[c] # NoFlow THEN Leave(c)
       ELSE /\ step' = [step EXCEPT ![c] = "bearer"]
            /\ from' = [from EXCEPT ![c] = NoToken]
            /\ UNCHANGED <<using, checked, flow>>
    /\ Forget
    /\ UNCHANGED <<states, consented, codes>>

-----------------------------------------------------------------------------
(* The authorization flow *)

\* GET /clio/authorize: a state is stored and the browser sent to Clio, where
\* the user consents.  (A refusal comes back as an error and changes nothing.)
Authorize(f) ==
    /\ f \notin consented
    /\ states' = states \cup {f}
    /\ consented' = consented \cup {f}
    /\ codes' = codes \cup {f}
    /\ UNCHANGED <<stored, age, refreshable, callVars>>

\* GET /clio/callback with a code and the state of f, once or again (the page
\* is reloaded).  DEL decides whether the state was still there.
Callback(c, f) ==
    /\ step[c] = "off" /\ f \in consented
    /\ IF f \in states
       THEN /\ step' = [step EXCEPT ![c] = "exchange"]
            /\ flow' = [flow EXCEPT ![c] = f]
            /\ UNCHANGED <<using, from, checked>>
       ELSE Leave(c)
    /\ states' = states \ {f}
    /\ UNCHANGED <<stored, age, refreshable, consented, codes>>

\* exchangeCode
Exchange(c) ==
    /\ step[c] = "exchange" /\ flow[c] \in codes
    /\ Mint(c, {})
    /\ step' = [step EXCEPT ![c] = "store"]
    /\ codes' = codes \ {flow[c]}
    /\ UNCHANGED <<stored, from, checked, flow, states, consented>>

\* "Token exchange failed": the code was used before, or has expired.
ExchangeRefused(c) ==
    /\ step[c] = "exchange"
    /\ Leave(c)
    /\ codes' = codes \ {flow[c]}
    /\ UNCHANGED <<stored, age, refreshable, states, consented>>

-----------------------------------------------------------------------------
(* Time and faults *)

\* An access token nears its expiry, or expires.  A caller uses a token within
\* the 300 s margin: one that was fresh when it was taken does not expire
\* under it.
GrowOld(t) ==
    /\ t \in InUse
    /\ \/ age[t] = "fresh" /\ age' = [age EXCEPT ![t] = "aging"]
       \/ /\ age[t] = "aging"
          /\ \A c \in Callers : (using[c] = t /\ step[c] \in {"store", "bearer"})
                                   => checked[c] # "fresh"
          /\ age' = [age EXCEPT ![t] = "expired"]
    /\ UNCHANGED <<stored, refreshable, callVars, states, consented, codes>>

\* Redis drops the record an hour after the expiry (EX), or a state after 600 s.
DropStored ==
    /\ stored # NoToken /\ age[stored] = "expired"
    /\ stored' = NoToken
    /\ UNCHANGED <<callVars, states, consented, codes>>
    /\ Forget

DropState(f) ==
    /\ f \in states
    /\ states' = states \ {f}
    /\ UNCHANGED <<stored, age, refreshable, callVars, consented, codes>>

\* A command or call of c throws before it has an effect, or the process dies.
AuthFails(c) ==
    /\ step[c] # "off"
    /\ Leave(c)
    /\ UNCHANGED <<stored, states, consented, codes>>
    /\ Forget

\* Clio's answer to a refresh is lost: Clio may have replaced the token.
RefreshLost(c) ==
    /\ step[c] = "refresh" /\ using[c] \in refreshable
    /\ refreshable' = refreshable \ {using[c]}
    /\ Leave(c)
    /\ UNCHANGED <<stored, age, states, consented, codes>>

-----------------------------------------------------------------------------
(* Properties *)

\* The 300 s margin does its work although nobody tells a caller that its token
\* grew old: a token that is about to be sent has not expired.
BearerAccepted ==
    \A c \in Callers : step[c] = "bearer" => age[using[c]] # "expired"

\* Refreshes race without a lock, and Clio may replace the refresh token each
\* of them used.  Still the record in Redis never holds a dead refresh token,
\* which would end the connection until somebody authorizes anew, except while
\* the caller whose refresh killed it is about to store the successor.
StoredUsable ==
    (stored # NoToken /\ stored \notin refreshable) =>
        \E c \in Callers : step[c] = "store" /\ from[c] = stored
=============================================================================
