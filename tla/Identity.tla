------------------------------- MODULE Identity -------------------------------
(***************************************************************************)
(* Identity resolution: the matter and the assignee of every candidate of  *)
(* an evidence event (src/src/resolution).  A reference is looked up in    *)
(* the registry, in the tasks and by the people of the event, tier after   *)
(* tier, and the answer is kept in Redis for an hour under the reference.  *)
(* The candidate's row is overwritten, so a second attempt looks up what   *)
(* the first one found.  The registry is edited at any time, and nobody    *)
(* tells the cache.                                                        *)
(*                                                                         *)
(* Evidence of the same shape arrives again and again (Arrive).            *)
(***************************************************************************)
EXTENDS Integers, Sequences, FiniteSets

CONSTANTS
    Refs,         \* lower-cased texts by which matters are named
    Matters,      \* those that may be a matter_ref of the registry
    Exact,        \* <<r, m>>: r is m or one of its aliases
    Alike,        \* <<r, m>>: m, or the name displayed for it, contains r
    People,       \* contacts, participants, client names
    Names, Users, \* names of assignees; users
    Called,       \* <<n, u>>: u is registered and n in the name or the aliases of u
    Roles,        \* <<n, u>>: a person gave a task to u, and a role that contains n
    Events, Cands,
    CandsOf,      \* CandsOf[e]: the candidates of e, in order
    Extracted,    \* Extracted[c]: the reference normalization found, or Nothing
    Assignee,     \* Assignee[c]: the name it found, or Nothing
    Contact,      \* Contact[e], Participant[e]: a person, or Nothing.  Events
    Participant,  \*   have more of them; one each is a bound of the model
    Nothing,
    Known,        \* matters that are registered before anything else
    MaxEdits,     \* bound: edits of the registry
    MaxFaults     \* bound: failing attempts

ASSUME RefsAssumption ==
    /\ Known \subseteq Matters /\ Matters \subseteq Refs
    /\ Exact \subseteq Refs \X Matters
    /\ \A m \in Matters : <<m, m>> \in Exact
    /\ Alike \subseteq Refs \X Refs
    /\ Called \subseteq Names \X Users /\ Roles \subseteq Names \X Users
    /\ Nothing \notin Refs \cup People \cup Names \cup Users
ASSUME EventsAssumption ==
    /\ CandsOf \in [Events -> Seq(Cands)]
    /\ Extracted \in [Cands -> Refs \cup {Nothing}]
    /\ Assignee \in [Cands -> Names \cup {Nothing}]
    /\ Contact \in [Events -> People \cup {Nothing}]
    /\ Participant \in [Events -> People \cup {Nothing}]
ASSUME CandsAssumption ==   \* a candidate is of one event
    \A e, f \in Events : \A i \in 1..Len(CandsOf[e]), k \in 1..Len(CandsOf[f]) :
        CandsOf[e][i] = CandsOf[f][k] => e = f
ASSUME BoundAssumption == MaxEdits \in Nat /\ MaxFaults \in Nat

VARIABLES
    registered,  \* matters with a row in matter_registry
    client,      \* client[m]: its client_name, or the alias that names a client
    active,      \* users whose row in user_registry is active
    tasks,       \* <<m, e>>: a canonical task of matter m with evidence like e
    matterCache, \* matterCache[r]: identity:matter:r
    userCache,   \* userCache[n]: identity:assignee:n
    matter,      \* matter[c]: candidate_tasks.matter_id
    user,        \* user[c]: candidate_tasks.assignee_user_id
    reviews,     \* candidates with a weak_identity review item
    state,       \* processing_state
    job,         \* job[e]: the identity.resolve job of e
    edits, faults,
    questioned,  \* history: references of candidates that had a review item
    guessed      \* history: candidates that an attempt gave a matter of tier 5

registryVars == <<registered, client, active>>
cacheVars    == <<matterCache, userCache>>
rowVars      == <<matter, user, reviews, questioned, guessed>>
vars == <<registryVars, tasks, cacheVars, rowVars, state, job, edits, faults>>

Answers == [matter : Refs, tier : {1, 2, 4, 5}]

ASSUME AnswersAssumption == Nothing \notin Answers

Steps   == {"idle", "load", "cache", "look", "keep", "weigh",
            "who", "whoLook", "whoKeep", "update"}

TypeOK ==
    /\ registered \subseteq Matters
    /\ client \in [Matters -> People \cup {Nothing}]
    /\ active \subseteq Users
    /\ tasks \subseteq Refs \X Events
    /\ matterCache \in [Refs -> Answers \cup {Nothing}]
    /\ userCache \in [Names -> Users \cup {Nothing}]
    /\ matter \in [Cands -> Refs \cup {Nothing}]
    /\ user \in [Cands -> Users \cup {Nothing}]
    /\ reviews \subseteq Cands /\ guessed \subseteq Cands /\ questioned \subseteq Refs
    /\ state \in [Events -> {"normalized", "resolved"}]
    /\ job \in [Events -> [pc : Steps, i : Nat, ref : Refs \cup {Nothing}, at : Nat,
                           found : Answers \cup {Nothing}, hit : BOOLEAN,
                           had : Users \cup {Nothing}, who : Users \cup {Nothing}]]
    /\ edits \in 0..MaxEdits /\ faults \in 0..MaxFaults

Registered == {t[2] : t \in Called}

NoJob == [pc |-> "idle", i |-> 1, ref |-> Nothing, at |-> 1, found |-> Nothing,
          hit |-> FALSE, had |-> Nothing, who |-> Nothing]

Init ==
    /\ registered = Known /\ active = Registered /\ tasks = {}
    /\ client = [m \in Matters |-> Nothing]
    /\ matterCache = [r \in Refs |-> Nothing]
    /\ userCache = [n \in Names |-> Nothing]
    /\ matter = Extracted
    /\ user = [c \in Cands |-> Nothing]
    /\ reviews = {} /\ questioned = {} /\ guessed = {}
    /\ state = [e \in Events |-> "normalized"]
    /\ job = [e \in Events |-> [NoJob EXCEPT !.pc = "load"]]
    /\ edits = 0 /\ faults = 0

-----------------------------------------------------------------------------
(* Bugs that the resolution must not have; only the mutants use them *)

\* The tasks are not asked for the reference.
LookupsOfRegistry(e) ==
    <<"reference">>
    \o (IF Contact[e] = Nothing THEN <<>> ELSE <<"client", "contactHistory">>)
    \o (IF Participant[e] = Nothing THEN <<>> ELSE <<"participantHistory">>)
    \o <<"alike", "taskAlike">>

\* The fuzzy match comes first.
LookupsGuessFirst(e) ==
    <<"alike", "reference", "taskReference">>
    \o (IF Contact[e] = Nothing THEN <<>> ELSE <<"client", "contactHistory">>)
    \o (IF Participant[e] = Nothing THEN <<>> ELSE <<"participantHistory">>)
    \o <<"taskAlike">>

\* Only guesses are reviewed, only unknown references are.
WeakGuess(answer)   == answer # Nothing /\ answer.tier = 5
WeakUnknown(answer) == answer = Nothing

-----------------------------------------------------------------------------
(* The lookups of resolveMatter, in order.  LIMIT 1 without an order takes *)
(* any of the rows.                                                        *)

TaskMatters == {t[1] : t \in tasks}

Lookups(e) ==
    <<"reference", "taskReference">>
    \o (IF Contact[e] = Nothing THEN <<>> ELSE <<"client", "contactHistory">>)
    \o (IF Participant[e] = Nothing THEN <<>> ELSE <<"participantHistory">>)
    \o <<"alike", "taskAlike">>

Tier(lookup) == CASE lookup \in {"reference", "taskReference"} -> 1
                  [] lookup \in {"client", "contactHistory"}   -> 2
                  [] lookup = "participantHistory"             -> 4
                  [] lookup \in {"alike", "taskAlike"}         -> 5

\* Matters of tasks whose evidence has person p as a contact or participant.
History(people, p) == {t[1] : t \in {t \in tasks : people[t[2]] = p}}

Rows(lookup, e, r) ==
    CASE lookup = "reference"          -> {m \in registered : <<r, m>> \in Exact}
      [] lookup = "taskReference"      -> TaskMatters \cap {r}
      [] lookup = "client"             -> {m \in registered : client[m] = Contact[e]}
      [] lookup = "contactHistory"     -> History(Contact, Contact[e])
      [] lookup = "participantHistory" -> History(Participant, Participant[e])
      [] lookup = "alike"              -> {m \in registered : <<r, m>> \in Alike}
      [] lookup = "taskAlike"          -> {m \in TaskMatters : <<r, m>> \in Alike}

\* TIER_CONFIDENCE is below MATTER_CONFIDENCE_MIN for tier 5 only; what no
\* tier finds is reviewed as well.
Weak(answer) == answer = Nothing \/ answer.tier = 5

\* The candidate in hand, and what comes after its matter: a review item if the
\* answer is weak, then the assignee, if it has a name and no user yet.
Cand(e) == CandsOf[e][job[e].i]

Go(e, pc) == job' = [job EXCEPT ![e].pc = pc]

ForUser(c, had) == IF Assignee[c] # Nothing /\ had = Nothing THEN "who" ELSE "update"

Onward(e, answer) == IF Weak(answer) THEN "weigh" ELSE ForUser(Cand(e), job[e].had)

\* A failing attempt begins again for ever.
FailUncounted(e) ==
    /\ job[e].pc # "idle"
    /\ job' = [job EXCEPT ![e] = [NoJob EXCEPT !.pc = "load"]]
    /\ UNCHANGED <<registryVars, tasks, cacheVars, rowVars, state, edits, faults>>

-----------------------------------------------------------------------------
(* The job: IdentityService.resolve, candidate by candidate *)

\* The row of the next candidate is read; without a matter the lookup is left
\* out.  (The guard of the worker never turns a job away here: only the job itself
\* takes its event on; Pipeline has the replays.)
Load(e) ==
    /\ job[e].pc = "load" /\ job[e].i <= Len(CandsOf[e])
    /\ LET c == Cand(e) IN
       job' = [job EXCEPT ![e] = [NoJob EXCEPT
                   !.i = job[e].i, !.ref = matter[c], !.had = user[c], !.who = user[c],
                   !.pc = IF matter[c] = Nothing THEN ForUser(c, user[c]) ELSE "cache"]]
    /\ UNCHANGED <<registryVars, tasks, cacheVars, rowVars, state, edits, faults>>

ReadCache(e) ==
    /\ job[e].pc = "cache"
    /\ LET hit == matterCache[job[e].ref] IN
       job' = [job EXCEPT ![e].found = hit, ![e].hit = hit # Nothing,
                          ![e].pc = IF hit = Nothing THEN "look" ELSE Onward(e, hit)]
    /\ UNCHANGED <<registryVars, tasks, cacheVars, rowVars, state, edits, faults>>

\* One query.  If the last one finds nothing that is tier 6, which is not cached.
Look(e) ==
    /\ job[e].pc = "look"
    /\ LET lookup == Lookups(e)[job[e].at]
           rows   == Rows(lookup, e, job[e].ref)
       IN  \/ \E m \in rows :
                job' = [job EXCEPT ![e].found = [matter |-> m, tier |-> Tier(lookup)],
                                   ![e].at = 1, ![e].pc = "keep"]
           \/ /\ rows = {}
              /\ IF job[e].at < Len(Lookups(e)) THEN job' = [job EXCEPT ![e].at = @ + 1]
                 ELSE job' = [job EXCEPT ![e].at = 1, ![e].pc = Onward(e, Nothing)]
    /\ UNCHANGED <<registryVars, tasks, cacheVars, rowVars, state, edits, faults>>

\* SETEX, under the reference alone.
KeepMatter(e) ==
    /\ job[e].pc = "keep"
    /\ matterCache' = [matterCache EXCEPT ![job[e].ref] = job[e].found]
    /\ Go(e, Onward(e, job[e].found))
    /\ UNCHANGED <<registryVars, tasks, userCache, rowVars, state, edits, faults>>

\* A weak answer goes to review, with another item at every attempt.
Weigh(e) ==
    /\ job[e].pc = "weigh"
    /\ reviews' = reviews \cup {Cand(e)}
    /\ questioned' = questioned \cup ({Extracted[Cand(e)]} \ {Nothing})
    /\ Go(e, ForUser(Cand(e), job[e].had))
    /\ UNCHANGED <<registryVars, tasks, cacheVars, matter, user, guessed, state, edits, faults>>

\* resolveAssignee: the cache, the registry, the tasks.
ReadUserCache(e) ==
    /\ job[e].pc = "who"
    /\ LET hit == userCache[Assignee[Cand(e)]] IN
       job' = [job EXCEPT ![e].who = hit,
                          ![e].pc = IF hit = Nothing THEN "whoLook" ELSE "update"]
    /\ UNCHANGED <<registryVars, tasks, cacheVars, rowVars, state, edits, faults>>

UserRows(n) == {u \in active : <<n, u>> \in Called}

LookForUser(e) ==
    /\ job[e].pc = "whoLook"
    /\ LET name == Assignee[Cand(e)]
           rows == IF job[e].at = 1 THEN UserRows(name) ELSE {u \in Users : <<name, u>> \in Roles}
       IN  \/ \E u \in rows :
                job' = [job EXCEPT ![e].who = u, ![e].at = 1, ![e].pc = "whoKeep"]
           \/ /\ rows = {}
              /\ IF job[e].at = 1 THEN job' = [job EXCEPT ![e].at = 2]
                 ELSE job' = [job EXCEPT ![e].at = 1, ![e].pc = "update"]
    /\ UNCHANGED <<registryVars, tasks, cacheVars, rowVars, state, edits, faults>>

KeepUser(e) ==
    /\ job[e].pc = "whoKeep"
    /\ userCache' = [userCache EXCEPT ![Assignee[Cand(e)]] = job[e].who]
    /\ Go(e, "update")
    /\ UNCHANGED <<registryVars, tasks, matterCache, rowVars, state, edits, faults>>

\* updateResolution overwrites the row; an unknown reference stays as it is.
Update(e) ==
    /\ job[e].pc = "update"
    /\ LET c == Cand(e) IN
       /\ matter' = [matter EXCEPT ![c] = IF job[e].found = Nothing THEN job[e].ref
                                          ELSE job[e].found.matter]
       /\ user' = [user EXCEPT ![c] = job[e].who]
       /\ guessed' = IF job[e].found # Nothing /\ job[e].found.tier = 5
                     THEN guessed \cup {c} ELSE guessed
    /\ job' = [job EXCEPT ![e] = [NoJob EXCEPT !.i = job[e].i + 1, !.pc = "load"]]
    /\ UNCHANGED <<registryVars, tasks, cacheVars, reviews, questioned, state, edits, faults>>

\* updateState, after which the candidates go to dedup.
WriteState(e) ==
    /\ job[e].pc = "load" /\ job[e].i > Len(CandsOf[e])
    /\ state' = [state EXCEPT ![e] = "resolved"]
    /\ job' = [job EXCEPT ![e] = NoJob]
    /\ UNCHANGED <<registryVars, tasks, cacheVars, rowVars, edits, faults>>

\* A query fails or the worker dies; the job is retried from its start.  The faults are
\* bounded, not the attempts of a job: after the third an operator may retry it
\* (pipeline.routes.ts).
Fail(e) ==
    /\ job[e].pc # "idle" /\ faults < MaxFaults
    /\ job' = [job EXCEPT ![e] = [NoJob EXCEPT !.pc = "load"]]
    /\ faults' = faults + 1
    /\ UNCHANGED <<registryVars, tasks, cacheVars, rowVars, state, edits>>

-----------------------------------------------------------------------------
(* Everybody else *)

Edit == edits < MaxEdits /\ edits' = edits + 1

\* POST /matters; matter_ref is UNIQUE.
CreateMatter(m, p) ==
    /\ Edit /\ m \notin registered
    /\ registered' = registered \cup {m}
    /\ client' = [client EXCEPT ![m] = p]
    /\ UNCHANGED <<active, tasks, cacheVars, rowVars, state, job, faults>>

\* PATCH /matters/:id
UpdateMatter(m, p) ==
    /\ Edit /\ m \in registered /\ p # client[m]
    /\ client' = [client EXCEPT ![m] = p]
    /\ UNCHANGED <<registered, active, tasks, cacheVars, rowVars, state, job, faults>>

\* PATCH /users/:id with active; POST /users makes active ones.
UpdateUser(u) ==
    /\ Edit /\ u \in Registered
    /\ active' = IF u \in active THEN active \ {u} ELSE active \cup {u}
    /\ UNCHANGED <<registered, client, tasks, cacheVars, rowVars, state, job, faults>>

\* Dedup makes a task of a resolved candidate.
CreateTask(e, c) ==
    /\ state[e] = "resolved" /\ c \in {CandsOf[e][i] : i \in 1..Len(CandsOf[e])}
    /\ matter[c] # Nothing /\ <<matter[c], e>> \notin tasks
    /\ tasks' = tasks \cup {<<matter[c], e>>}
    /\ UNCHANGED <<registryVars, cacheVars, rowVars, state, job, edits, faults>>

\* The next event of the shape of e: other rows, the same references and people.
Arrive(e) ==
    LET mine == {CandsOf[e][i] : i \in 1..Len(CandsOf[e])} IN
    /\ state[e] = "resolved" /\ job[e].pc = "idle"
    /\ state' = [state EXCEPT ![e] = "normalized"]
    /\ job' = [job EXCEPT ![e] = [NoJob EXCEPT !.pc = "load"]]
    /\ matter' = [c \in Cands |-> IF c \in mine THEN Extracted[c] ELSE matter[c]]
    /\ user' = [c \in Cands |-> IF c \in mine THEN Nothing ELSE user[c]]
    /\ reviews' = reviews \ mine /\ guessed' = guessed \ mine
    /\ UNCHANGED <<registryVars, tasks, cacheVars, questioned, edits, faults>>

\* The hour is over.
ExpireMatter(r) ==
    /\ matterCache[r] # Nothing
    /\ matterCache' = [matterCache EXCEPT ![r] = Nothing]
    /\ UNCHANGED <<registryVars, tasks, userCache, rowVars, state, job, edits, faults>>

ExpireUser(n) ==
    /\ userCache[n] # Nothing
    /\ userCache' = [userCache EXCEPT ![n] = Nothing]
    /\ UNCHANGED <<registryVars, tasks, matterCache, rowVars, state, job, edits, faults>>

-----------------------------------------------------------------------------

Step(e) == \/ Load(e) \/ ReadCache(e) \/ Look(e) \/ KeepMatter(e) \/ Weigh(e)
           \/ ReadUserCache(e) \/ LookForUser(e) \/ KeepUser(e) \/ Update(e) \/ WriteState(e)

Next ==
    \/ \E e \in Events : \/ Step(e) \/ Fail(e) \/ Arrive(e)
                         \/ \E c \in Cands : CreateTask(e, c)
    \/ \E m \in Matters, p \in People : CreateMatter(m, p) \/ UpdateMatter(m, p)
    \/ \E u \in Users : UpdateUser(u)
    \/ \E r \in Refs : ExpireMatter(r)
    \/ \E n \in Names : ExpireUser(n)

Spec == Init /\ [][Next]_vars

\* Workers go on with their jobs and Redis drops what is past its time.
Fairness ==
    /\ \A e \in Events : WF_vars(Step(e))
    /\ \A r \in Refs : WF_vars(ExpireMatter(r))
    /\ \A n \in Names : WF_vars(ExpireUser(n))

FairSpec == Spec /\ Fairness

-----------------------------------------------------------------------------
(* Properties *)

\* A task of a matter that nobody registered stands behind a question: some
\* candidate with that reference was put before a reviewer, though later ones
\* find the reference among the tasks, at tier 1, and pass without one.
UnknownWasQuestioned == TaskMatters \subseteq registered \cup questioned

\* A candidate that was once given a guessed matter has a review item, also
\* when a later attempt takes the guess for an exact reference.
GuessWasQuestioned == guessed \subseteq reviews

\* What an attempt found, the next one finds again, though it asks for the matter
\* found and not for the reference.  The row moves on only to a matter of which the
\* matter found is an alias (registered since, or two matters share the name, which
\* nothing forbids), or if the cache has kept a guess for it from before it was known.
MovedOnlyByStaleGuess ==
    [][\A e \in Events :
          LET c == Cand(e) IN
          (job[e].pc = "update" /\ matter[c] # Extracted[c] /\ matter'[c] # matter[c])
              => \/ <<matter[c], matter'[c]>> \in Exact
                 \/ job[e].hit /\ job[e].found.tier # 1]_vars

\* The caches forget, though nobody tells them anything and however much evidence
\* arrives: once a matter is registered, guesses for its reference disappear and
\* do not come back, and so do users who stay inactive, unless tasks name them.
CacheForgets ==
    /\ \A r \in Matters :
         <>[](r \in registered => matterCache[r] = Nothing \/ matterCache[r].tier = 1)
    /\ \A n \in Names, u \in Users :
         <>[](u \notin active /\ <<n, u>> \notin Roles => userCache[n] # u)

\* Every job ends, whatever the registry and the cache answer meanwhile.
JobsSettle == \A e \in Events : []<>(job[e].pc = "idle")
=============================================================================
