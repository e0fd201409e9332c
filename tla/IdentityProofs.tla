---------------------------- MODULE IdentityProofs ----------------------------
(***************************************************************************)
(* What holds of identity resolution for any evidence, registry, candidates *)
(* and people, however often jobs fail and whatever the cache still keeps: *)
(* unknown matters and guessed ones have been put before a reviewer, and a *)
(* retry finds what the attempt before it found.                           *)
(***************************************************************************)
EXTENDS Identity, SequenceTheorems, TLAPS

\* A matter that a query can find, and one that is no surprise to a reviewer.
Findable == registered \cup TaskMatters
Answered == registered \cup questioned

\* The steps after the matter of the candidate is settled.
Later == {"who", "whoLook", "whoKeep", "update"}

\* Answer a for reference q still stands: its matter can be found, and if it was
\* an exact one, q is the matter or one of its aliases.
Sound(q, a) ==
    /\ a.matter \in Findable
    /\ a.tier = 1 => a.matter = q \/ <<q, a.matter>> \in Exact

\* A job that is at work has a candidate, and asks for what the row says.
Shape(e) ==
    /\ job[e].i # 0
    /\ job[e].pc = "idle" <=> state[e] = "resolved"
    /\ job[e].pc \notin {"idle", "load"} =>
          job[e].i \in 1..Len(CandsOf[e]) /\ job[e].ref = matter[Cand(e)]
    /\ job[e].pc \in {"cache", "look", "keep"} => job[e].ref # Nothing
    /\ job[e].pc = "cache" => job[e].at = 1
    /\ job[e].pc = "look" =>
          job[e].at \in 1..Len(Lookups(e)) /\ job[e].found = Nothing /\ ~job[e].hit
    /\ job[e].pc = "keep" => job[e].found # Nothing
    /\ job[e].pc \in {"who", "whoLook", "whoKeep"} => Assignee[Cand(e)] # Nothing

\* Why a retry finds again what was found: the first two queries do.
FindsAgain(e) ==
    job[e].pc \notin {"idle", "load"} =>
      /\ job[e].found # Nothing => Sound(job[e].ref, job[e].found)
      /\ job[e].ref # Extracted[Cand(e)] =>
           /\ job[e].pc = "look" =>
                 job[e].at = 1 \/ (job[e].at = 2 /\ job[e].ref \in TaskMatters)
           /\ job[e].found # Nothing => job[e].hit \/ job[e].found.tier = 1

\* Why nothing slips by the reviewers: Weigh comes before the row is written, and
\* the rows behind the job, all of them once it is over, are unsurprising.
Asked(e) ==
    /\ job[e].pc \in Later =>
          /\ job[e].found = Nothing => job[e].ref \in Answered \cup {Nothing}
          /\ job[e].found # Nothing /\ job[e].found.tier = 5 => Cand(e) \in reviews
    /\ \A k \in 1..Len(CandsOf[e]) :
          (k < job[e].i \/ state[e] = "resolved") =>
              matter[CandsOf[e][k]] \in Answered \cup {Nothing}

\* The cache may be an hour behind, but what it says can still be found; and so can
\* what the rows say, unless it is what normalization wrote there.
CacheSound  == \A q \in Refs : matterCache[q] # Nothing => Sound(q, matterCache[q])
RowsSound   == \A c \in Cands : matter[c] = Extracted[c] \/ matter[c] \in Findable

JobInv(e) == Shape(e) /\ FindsAgain(e) /\ Asked(e)

IdInv ==
    /\ TypeOK /\ CacheSound /\ RowsSound
    /\ \A e \in Events : JobInv(e)
    /\ UnknownWasQuestioned /\ GuessWasQuestioned

-----------------------------------------------------------------------------
(* The lookups *)

LookupNames == {"reference", "taskReference", "client", "contactHistory",
                "participantHistory", "alike", "taskAlike"}

\* The registry and the tasks are asked for the reference before anything else.
LEMMA LookupsKnown ==
  ASSUME NEW e \in Events
  PROVE  /\ Lookups(e) \in Seq(LookupNames) /\ Len(Lookups(e)) \in Nat \ {0, 1}
         /\ Lookups(e)[1] = "reference" /\ Lookups(e)[2] = "taskReference"
  <1> DEFINE first  == <<"reference", "taskReference">>
             byC    == IF Contact[e] = Nothing THEN <<>> ELSE <<"client", "contactHistory">>
             byP    == IF Participant[e] = Nothing THEN <<>> ELSE <<"participantHistory">>
             last   == <<"alike", "taskAlike">>
  <1>1. first \in Seq(LookupNames) /\ last \in Seq(LookupNames)
    BY DEF LookupNames
  <1>2. byC \in Seq(LookupNames)
    <2>1. <<>> \in Seq(LookupNames) /\ <<"client", "contactHistory">> \in Seq(LookupNames)
      BY DEF LookupNames
    <2> QED
      BY <2>1
  <1>3. byP \in Seq(LookupNames)
    <2>1. <<>> \in Seq(LookupNames) /\ <<"participantHistory">> \in Seq(LookupNames)
      BY DEF LookupNames
    <2> QED
      BY <2>1
  <1>4. Len(first) \in Nat \ {0, 1} /\ first[1] = "reference" /\ first[2] = "taskReference"
    OBVIOUS
  <1>5. Lookups(e) = first \o byC \o byP \o last
    BY DEF Lookups
  <1> HIDE DEF first, byC, byP, last
  <1>6. \A s, t \in Seq(LookupNames) : Len(s) \in Nat \ {0, 1} =>
          /\ s \o t \in Seq(LookupNames) /\ Len(s \o t) \in Nat \ {0, 1}
          /\ (s \o t)[1] = s[1] /\ (s \o t)[2] = s[2]
    <2> SUFFICES ASSUME NEW s \in Seq(LookupNames), NEW t \in Seq(LookupNames),
                        Len(s) \in Nat \ {0, 1}
                 PROVE  /\ s \o t \in Seq(LookupNames) /\ Len(s \o t) \in Nat \ {0, 1}
                        /\ (s \o t)[1] = s[1] /\ (s \o t)[2] = s[2]
      OBVIOUS
    <2>1. /\ s \o t \in Seq(LookupNames) /\ Len(s \o t) = Len(s) + Len(t)
          /\ \A i \in 1..Len(s) + Len(t) : (s \o t)[i] = IF i <= Len(s) THEN s[i] ELSE t[i - Len(s)]
      BY ConcatProperties
    <2>2. Len(s) \in Nat /\ Len(t) \in Nat
      BY LenProperties
    <2>3. /\ 1 \in 1..Len(s) + Len(t) /\ 2 \in 1..Len(s) + Len(t) /\ 1 <= Len(s) /\ 2 <= Len(s)
          /\ Len(s) + Len(t) \in Nat \ {0, 1}
      <3>1. \A a, b \in Nat : a \notin {0, 1} =>
              /\ 1 \in 1..a + b /\ 2 \in 1..a + b /\ 1 <= a /\ 2 <= a
              /\ a + b \in Nat \ {0, 1}
        OBVIOUS
      <3> QED
        BY <2>2, <3>1
    <2>4. (s \o t)[1] = s[1] /\ (s \o t)[2] = s[2]
      BY <2>1, <2>3
    <2> QED
      BY <2>1, <2>3, <2>4
  <1>7. /\ first \o byC \in Seq(LookupNames) /\ Len(first \o byC) \in Nat \ {0, 1}
        /\ (first \o byC)[1] = "reference" /\ (first \o byC)[2] = "taskReference"
    BY <1>1, <1>2, <1>4, <1>6
  <1>8. /\ first \o byC \o byP \in Seq(LookupNames) /\ Len(first \o byC \o byP) \in Nat \ {0, 1}
        /\ (first \o byC \o byP)[1] = "reference" /\ (first \o byC \o byP)[2] = "taskReference"
    BY <1>3, <1>6, <1>7
  <1> QED
    BY <1>1, <1>5, <1>6, <1>8

\* What a query finds can be found again, and what an exact one finds is the
\* reference or has it as an alias.
LEMMA RowsFindable ==
  ASSUME TypeOK, NEW e \in Events, NEW l \in LookupNames, NEW q, NEW m \in Rows(l, e, q)
  PROVE  /\ m \in Findable /\ m \in Refs /\ Tier(l) \in {1, 2, 4, 5}
         /\ Tier(l) = 1 => m = q \/ <<q, m>> \in Exact
  <1>1. registered \subseteq Refs /\ TaskMatters \subseteq Refs
    BY RefsAssumption DEF TypeOK, TaskMatters
  <1>2. \A people, p : History(people, p) \subseteq TaskMatters
    BY DEF History, TaskMatters
  <1>3. m \in registered \cup TaskMatters
    BY <1>2 DEF Rows, LookupNames
  <1>4. Tier(l) \in {1, 2, 4, 5}
    BY DEF Tier, LookupNames
  <1>5. Tier(l) = 1 => l = "reference" \/ l = "taskReference"
    BY DEF Tier, LookupNames
  <1>6. (l = "reference" => <<q, m>> \in Exact) /\ (l = "taskReference" => m = q)
    BY DEF Rows
  <1> QED
    BY <1>1, <1>3, <1>4, <1>5, <1>6 DEF Findable

-----------------------------------------------------------------------------
(* Types *)

\* A job, field by field.
LEMMA JobFields ==
  ASSUME TypeOK, NEW e \in Events
  PROVE  /\ job[e] \in [pc : Steps, i : Nat, ref : Refs \cup {Nothing}, at : Nat,
                        found : Answers \cup {Nothing}, hit : BOOLEAN,
                        had : Users \cup {Nothing}, who : Users \cup {Nothing}]
         /\ job[e].pc \in Steps /\ job[e].i \in Nat /\ job[e].at \in Nat /\ job[e].hit \in BOOLEAN
         /\ job[e].ref \in Refs \cup {Nothing} /\ job[e].found \in Answers \cup {Nothing}
         /\ job[e].had \in Users \cup {Nothing} /\ job[e].who \in Users \cup {Nothing}
  BY DEF TypeOK

\* The candidate in hand is a row.
LEMMA CandInCands ==
  ASSUME NEW e \in Events
  PROVE  /\ Len(CandsOf[e]) \in Nat
         /\ \A k \in 1..Len(CandsOf[e]) : CandsOf[e][k] \in Cands
         /\ job[e].i \in 1..Len(CandsOf[e]) => Cand(e) \in Cands
  <1>1. CandsOf[e] \in Seq(Cands)
    BY EventsAssumption
  <1> QED
    BY <1>1, LenProperties DEF Cand

\* Where a job goes after the matter of its candidate.
LEMMA OnwardSteps ==
  ASSUME NEW e \in Events, NEW answer
  PROVE  /\ ForUser(Cand(e), job[e].had) \in {"who", "update"}
         /\ ForUser(Cand(e), job[e].had) = "who" => Assignee[Cand(e)] # Nothing
         /\ Onward(e, answer) = "who" => Assignee[Cand(e)] # Nothing
         /\ Weak(answer) => Onward(e, answer) = "weigh"
         /\ ~Weak(answer) => Onward(e, answer) \in {"who", "update"}
         /\ Onward(e, answer) \in {"weigh", "who", "update"}
  BY DEF Onward, ForUser

\* What a step may write: one job, some rows.
LEMMA TypesKept ==
  ASSUME TypeOK, NEW e \in Events, NEW j, job' = [job EXCEPT ![e] = j],
         j \in [pc : Steps, i : Nat, ref : Refs \cup {Nothing}, at : Nat,
                found : Answers \cup {Nothing}, hit : BOOLEAN,
                had : Users \cup {Nothing}, who : Users \cup {Nothing}]
  PROVE  /\ job' \in [Events -> [pc : Steps, i : Nat, ref : Refs \cup {Nothing}, at : Nat,
                                 found : Answers \cup {Nothing}, hit : BOOLEAN,
                                 had : Users \cup {Nothing}, who : Users \cup {Nothing}]]
         /\ job'[e] = j
         /\ \A f \in Events \ {e} : job'[f] = job[f]
  BY DEF TypeOK

-----------------------------------------------------------------------------
(* What a step leaves alone *)

\* More can be found, more is answered: what was sound stays so.
LEMMA Grown ==
  ASSUME registered \subseteq registered', tasks \subseteq tasks', questioned \subseteq questioned'
  PROVE  /\ Findable \subseteq Findable' /\ Answered \subseteq Answered'
         /\ TaskMatters \subseteq TaskMatters'
         /\ \A q, a : Sound(q, a) => Sound(q, a)'
  BY DEF Findable, Answered, TaskMatters, Sound

\* An event that has no part in a step keeps its promises.
LEMMA Frame ==
  ASSUME TypeOK, NEW f \in Events, JobInv(f), job'[f] = job[f], state'[f] = state[f],
         registered \subseteq registered', tasks \subseteq tasks', questioned \subseteq questioned',
         \A k \in 1..Len(CandsOf[f]) :
            /\ matter'[CandsOf[f][k]] = matter[CandsOf[f][k]]
            /\ CandsOf[f][k] \in reviews => CandsOf[f][k] \in reviews'
  PROVE  JobInv(f)'
  <1>0. /\ TaskMatters \subseteq TaskMatters' /\ Answered \subseteq Answered'
        /\ \A q, a : Sound(q, a) => Sound(q, a)'
    BY Grown
  <1>1. Cand(f)' = Cand(f)
    BY DEF Cand
  <1>2. job[f].pc \notin {"idle", "load"} =>
           matter'[Cand(f)] = matter[Cand(f)] /\ (Cand(f) \in reviews => Cand(f) \in reviews')
    BY DEF JobInv, Shape, Cand
  <1>3. Shape(f)'
    BY <1>1, <1>2 DEF JobInv, Shape
  <1>4. FindsAgain(f)'
    BY <1>0, <1>1 DEF JobInv, FindsAgain
  <1>5. Asked(f)'
    <2>1. job[f].pc \in Later => job[f].pc \notin {"idle", "load"}
      BY DEF Later
    <2> QED
      BY <1>0, <1>1, <1>2, <2>1 DEF JobInv, Asked
  <1> QED
    BY <1>3, <1>4, <1>5 DEF JobInv

\* Two events have no candidate in common.
LEMMA Apart ==
  ASSUME NEW e \in Events, NEW f \in Events, e # f,
         NEW i \in 1..Len(CandsOf[e]), NEW k \in 1..Len(CandsOf[f])
  PROVE  CandsOf[e][i] # CandsOf[f][k]
  BY CandsAssumption

\* A step of a job that writes nothing but the job itself.
LEMMA OwnStep ==
  ASSUME IdInv, NEW e \in Events, TypeOK', JobInv(e)',
         \A f \in Events \ {e} : job'[f] = job[f] /\ state'[f] = state[f],
         UNCHANGED <<registered, tasks, matterCache, matter, reviews, questioned, guessed>>
  PROVE  IdInv'
  <1>1. \A f \in Events : JobInv(f)'
    BY Frame DEF IdInv
  <1>2. CacheSound' /\ RowsSound' /\ UnknownWasQuestioned' /\ GuessWasQuestioned'
    BY DEF IdInv, CacheSound, RowsSound, UnknownWasQuestioned, GuessWasQuestioned, Sound, Findable,
           TaskMatters
  <1> QED
    BY <1>1, <1>2 DEF IdInv

-----------------------------------------------------------------------------
(* The steps of a job *)

\* The variables that types speak of and a step of a job hardly touches.
LEMMA OwnTypes ==
  ASSUME TypeOK, NEW e \in Events, NEW j, job' = [job EXCEPT ![e] = j],
         j \in [pc : Steps, i : Nat, ref : Refs \cup {Nothing}, at : Nat,
                found : Answers \cup {Nothing}, hit : BOOLEAN,
                had : Users \cup {Nothing}, who : Users \cup {Nothing}],
         UNCHANGED <<registryVars, tasks, edits>>,
         UNCHANGED faults \/ faults' \in 0..MaxFaults,
         matterCache' \in [Refs -> Answers \cup {Nothing}],
         userCache' \in [Names -> Users \cup {Nothing}],
         matter' \in [Cands -> Refs \cup {Nothing}], user' \in [Cands -> Users \cup {Nothing}],
         reviews' \subseteq Cands, guessed' \subseteq Cands, questioned' \subseteq Refs,
         state' \in [Events -> {"normalized", "resolved"}]
  PROVE  TypeOK' /\ job'[e] = j /\ \A f \in Events \ {e} : job'[f] = job[f]
  BY TypesKept DEF TypeOK, registryVars

\* The same, of a step that writes nothing but the job.
LEMMA LoneTypes ==
  ASSUME TypeOK, NEW e \in Events, NEW j, job' = [job EXCEPT ![e] = j],
         j \in [pc : Steps, i : Nat, ref : Refs \cup {Nothing}, at : Nat,
                found : Answers \cup {Nothing}, hit : BOOLEAN,
                had : Users \cup {Nothing}, who : Users \cup {Nothing}],
         UNCHANGED <<registryVars, tasks, cacheVars, rowVars, state, edits>>,
         UNCHANGED faults \/ faults' \in 0..MaxFaults
  PROVE  /\ TypeOK' /\ job'[e] = j
         /\ \A f \in Events \ {e} : job'[f] = job[f] /\ state'[f] = state[f]
         /\ UNCHANGED <<registered, tasks, matterCache, matter, reviews, questioned, guessed, state>>
  <1>1. UNCHANGED <<registered, tasks, matterCache, userCache, matter, user, reviews, questioned,
                    guessed, state>>
    BY DEF registryVars, cacheVars, rowVars
  <1>2. /\ matterCache' \in [Refs -> Answers \cup {Nothing}]
        /\ userCache' \in [Names -> Users \cup {Nothing}]
        /\ matter' \in [Cands -> Refs \cup {Nothing}] /\ user' \in [Cands -> Users \cup {Nothing}]
        /\ reviews' \subseteq Cands /\ guessed' \subseteq Cands /\ questioned' \subseteq Refs
        /\ state' \in [Events -> {"normalized", "resolved"}]
    BY <1>1 DEF TypeOK
  <1>3. TypeOK' /\ job'[e] = j /\ \A f \in Events \ {e} : job'[f] = job[f]
    BY <1>2, OwnTypes
  <1> QED
    BY <1>1, <1>3

LEMMA NoJobType ==
  NoJob \in [pc : Steps, i : Nat, ref : Refs \cup {Nothing}, at : Nat,
             found : Answers \cup {Nothing}, hit : BOOLEAN,
             had : Users \cup {Nothing}, who : Users \cup {Nothing}]
  BY DEF NoJob, Steps

\* The row of the next candidate is read.
LEMMA LoadInv == ASSUME IdInv, NEW e \in Events, Load(e) PROVE IdInv'
  <1> DEFINE c == Cand(e)
             j == [NoJob EXCEPT
                     !.i = job[e].i, !.ref = matter[c], !.had = user[c], !.who = user[c],
                     !.pc = IF matter[c] = Nothing THEN ForUser(c, user[c]) ELSE "cache"]
  <1>1. TypeOK /\ JobInv(e) /\ RowsSound
    BY DEF IdInv
  <1>2. job[e].i \in 1..Len(CandsOf[e]) /\ c \in Cands
    BY <1>1, JobFields, CandInCands DEF Load, JobInv, Shape
  <1>3. /\ matter[c] \in Refs \cup {Nothing} /\ user[c] \in Users \cup {Nothing}
        /\ ForUser(c, user[c]) \in {"who", "update"}
        /\ ForUser(c, user[c]) = "who" => Assignee[c] # Nothing
    BY <1>1, <1>2 DEF TypeOK, ForUser
  <1>4. /\ j \in [pc : Steps, i : Nat, ref : Refs \cup {Nothing}, at : Nat,
                  found : Answers \cup {Nothing}, hit : BOOLEAN,
                  had : Users \cup {Nothing}, who : Users \cup {Nothing}]
        /\ j.i = job[e].i /\ j.ref = matter[c] /\ j.at = 1 /\ j.found = Nothing
        /\ \/ j.pc = "cache" /\ matter[c] # Nothing
           \/ j.pc \in {"who", "update"} /\ matter[c] = Nothing
        /\ j.pc = "who" => Assignee[c] # Nothing
    BY <1>1, <1>2, <1>3, JobFields DEF NoJob, Steps
  <1>5. job' = [job EXCEPT ![e] = j]
    BY DEF Load
  <1> HIDE DEF j
  <1>6. /\ TypeOK' /\ job'[e] = j
        /\ \A f \in Events \ {e} : job'[f] = job[f] /\ state'[f] = state[f]
        /\ UNCHANGED <<registered, tasks, matterCache, matter, reviews, questioned, guessed, state>>
    BY <1>1, <1>4, <1>5, LoneTypes DEF Load
  <1>7. Cand(e)' = c
    BY <1>4, <1>6 DEF Cand
  <1>8. Shape(e)'
    BY <1>1, <1>2, <1>4, <1>6, <1>7 DEF Load, JobInv, Shape
  <1>9. FindsAgain(e)'
    BY <1>4, <1>6, <1>7 DEF FindsAgain
  <1>10. Asked(e)'
    BY <1>1, <1>4, <1>6, <1>7 DEF JobInv, Asked, Later, Answered
  <1> QED
    BY <1>6, <1>8, <1>9, <1>10, OwnStep DEF JobInv

\* What the cache says is still sound.
LEMMA ReadCacheInv == ASSUME IdInv, NEW e \in Events, ReadCache(e) PROVE IdInv'
  <1> DEFINE hit == matterCache[job[e].ref]
             j == [job[e] EXCEPT !.found = hit, !.hit = hit # Nothing,
                                 !.pc = IF hit = Nothing THEN "look" ELSE Onward(e, hit)]
  <1>1. TypeOK /\ JobInv(e) /\ CacheSound /\ job[e].pc = "cache"
    BY DEF IdInv, ReadCache
  <1>2. job[e].ref \in Refs /\ hit \in Answers \cup {Nothing} /\ job[e].at = 1
    BY <1>1, JobFields DEF JobInv, Shape, TypeOK
  <1>3. Onward(e, hit) \in {"weigh", "who", "update"}
        /\ (Onward(e, hit) # "weigh" => hit # Nothing /\ hit.tier # 5)
        /\ (Onward(e, hit) = "who" => Assignee[Cand(e)] # Nothing)
    BY OnwardSteps DEF Weak
  <1>4. /\ j \in [pc : Steps, i : Nat, ref : Refs \cup {Nothing}, at : Nat,
                  found : Answers \cup {Nothing}, hit : BOOLEAN,
                  had : Users \cup {Nothing}, who : Users \cup {Nothing}]
        /\ j.i = job[e].i /\ j.ref = job[e].ref /\ j.at = 1 /\ j.found = hit
        /\ \/ j.pc = "look" /\ hit = Nothing /\ ~j.hit
           \/ j.pc = "weigh" /\ hit # Nothing /\ j.hit
           \/ j.pc \in {"who", "update"} /\ hit # Nothing /\ hit.tier # 5 /\ j.hit
        /\ j.pc = "who" => Assignee[Cand(e)] # Nothing
    BY <1>1, <1>2, <1>3, JobFields DEF Steps
  <1>5. job' = [job EXCEPT ![e] = j]
    BY DEF ReadCache
  <1> HIDE DEF j
  <1>6. /\ TypeOK' /\ job'[e] = j
        /\ \A f \in Events \ {e} : job'[f] = job[f] /\ state'[f] = state[f]
        /\ UNCHANGED <<registered, tasks, matterCache, matter, reviews, questioned, guessed, state>>
    BY <1>1, <1>4, <1>5, LoneTypes DEF ReadCache
  <1>7. Cand(e)' = Cand(e)
    BY <1>4, <1>6 DEF Cand
  <1>8. 1 \in 1..Len(Lookups(e))
    BY LookupsKnown
  <1>9. Shape(e)'
    BY <1>1, <1>4, <1>6, <1>7, <1>8 DEF JobInv, Shape
  <1>10. hit # Nothing => Sound(job[e].ref, hit)
    BY <1>1, <1>2 DEF CacheSound
  <1>11. FindsAgain(e)'
    BY <1>4, <1>6, <1>7, <1>10 DEF FindsAgain, Sound, Findable, TaskMatters
  <1>12. Asked(e)'
    BY <1>1, <1>4, <1>6, <1>7 DEF JobInv, Asked, Later, Answered
  <1> QED
    BY <1>6, <1>9, <1>11, <1>12, OwnStep DEF JobInv

\* A query that finds something: at the second at the latest, if the reference is
\* what an attempt found.
LEMMA LookInv == ASSUME IdInv, NEW e \in Events, Look(e) PROVE IdInv'
  <1> DEFINE lookup == Lookups(e)[job[e].at]
             rows   == Rows(lookup, e, job[e].ref)
  <1>1. TypeOK /\ JobInv(e) /\ RowsSound /\ job[e].pc = "look"
    BY DEF IdInv, Look
  <1>2. /\ job[e].at \in 1..Len(Lookups(e)) /\ job[e].found = Nothing /\ ~job[e].hit
        /\ job[e].i \in 1..Len(CandsOf[e]) /\ job[e].ref = matter[Cand(e)] /\ job[e].ref \in Refs
        /\ job[e].ref # Nothing /\ job[e].i # 0 /\ state[e] # "resolved"
    BY <1>1, JobFields DEF JobInv, Shape
  <1>3. lookup \in LookupNames
    BY <1>2, LookupsKnown
  <1>4. Cand(e) \in Cands
    BY <1>2, CandInCands
  <1>5. \A m \in rows : /\ m \in Findable /\ m \in Refs /\ Tier(lookup) \in {1, 2, 4, 5}
                        /\ Tier(lookup) = 1 => m = job[e].ref \/ <<job[e].ref, m>> \in Exact
    BY <1>1, <1>3, RowsFindable
  <1>6. job[e].ref # Extracted[Cand(e)] =>
           /\ job[e].at = 1 \/ (job[e].at = 2 /\ job[e].ref \in TaskMatters)
           /\ job[e].ref \in Findable
    BY <1>1, <1>2, <1>4 DEF JobInv, FindsAgain, RowsSound
  <1>7. ASSUME NEW m \in rows,
               job' = [job EXCEPT ![e].found = [matter |-> m, tier |-> Tier(lookup)],
                                  ![e].at = 1, ![e].pc = "keep"]
        PROVE  IdInv'
    <2> DEFINE a == [matter |-> m, tier |-> Tier(lookup)]
               j == [job[e] EXCEPT !.found = a, !.at = 1, !.pc = "keep"]
    <2>0. m \in Refs /\ Tier(lookup) \in {1, 2, 4, 5}
      BY <1>5
    <2>a. a \in Answers
      BY <2>0 DEF Answers
    <2>1. a \in Answers /\ a # Nothing /\ a.matter = m /\ a.tier = Tier(lookup)
      BY <2>a, AnswersAssumption
    <2>2. job' = [job EXCEPT ![e] = j]
      BY <1>7
    <2>3. Sound(job[e].ref, a)
      BY <1>5, <2>1 DEF Sound
    <2>4. job[e].ref # Extracted[Cand(e)] => a.tier = 1
      BY <1>6, <2>1, LookupsKnown DEF Tier
    <2> HIDE DEF a
    <2>5. /\ j \in [pc : Steps, i : Nat, ref : Refs \cup {Nothing}, at : Nat,
                    found : Answers \cup {Nothing}, hit : BOOLEAN,
                    had : Users \cup {Nothing}, who : Users \cup {Nothing}]
          /\ j.i = job[e].i /\ j.ref = job[e].ref /\ j.found = a /\ j.pc = "keep"
      BY <1>1, <2>1, JobFields DEF Steps
    <2> HIDE DEF j
    <2>6. /\ TypeOK' /\ job'[e] = j
          /\ \A f \in Events \ {e} : job'[f] = job[f] /\ state'[f] = state[f]
          /\ UNCHANGED <<registered, tasks, matterCache, matter, reviews, questioned, guessed, state>>
      BY <1>1, <2>2, <2>5, LoneTypes DEF Look
    <2>7. Cand(e)' = Cand(e)
      BY <2>5, <2>6 DEF Cand
    <2>8. Shape(e)'
      BY <1>2, <2>1, <2>5, <2>6, <2>7 DEF Shape
    <2>9. FindsAgain(e)'
      BY <2>3, <2>4, <2>5, <2>6, <2>7 DEF FindsAgain, Sound, Findable, TaskMatters
    <2>10. Asked(e)'
      BY <1>1, <2>5, <2>6, <2>7 DEF JobInv, Asked, Later, Answered
    <2> QED
      BY <2>6, <2>8, <2>9, <2>10, OwnStep DEF JobInv
  <1>8. ASSUME rows = {}, job[e].at < Len(Lookups(e)), job' = [job EXCEPT ![e].at = @ + 1]
        PROVE  IdInv'
    <2> DEFINE j == [job[e] EXCEPT !.at = @ + 1]
    <2>1. job' = [job EXCEPT ![e] = j]
      BY <1>8
    <2>2. job[e].at \in Nat /\ job[e].at + 1 \in 1..Len(Lookups(e)) /\ job[e].at + 1 \in Nat
      BY <1>1, <1>2, <1>8, LookupsKnown, JobFields
    <2>3. /\ j \in [pc : Steps, i : Nat, ref : Refs \cup {Nothing}, at : Nat,
                    found : Answers \cup {Nothing}, hit : BOOLEAN,
                    had : Users \cup {Nothing}, who : Users \cup {Nothing}]
          /\ j.i = job[e].i /\ j.ref = job[e].ref /\ j.found = Nothing /\ j.pc = "look" /\ ~j.hit
          /\ j.at = job[e].at + 1
      BY <1>1, <1>2, <2>2, JobFields
    <2>4. job[e].ref # Extracted[Cand(e)] => job[e].at + 1 = 2 /\ job[e].ref \in TaskMatters
      <3> SUFFICES ASSUME job[e].ref # Extracted[Cand(e)]
                   PROVE  job[e].at = 1 /\ job[e].ref \in TaskMatters
        BY <2>2
      <3>1. CASE job[e].at = 1
        <4>1. {m \in registered : <<job[e].ref, m>> \in Exact} = {}
          BY <1>8, <3>1, LookupsKnown DEF Rows
        <4>2. job[e].ref \notin registered
          BY <1>1, <4>1, RefsAssumption DEF TypeOK
        <4> QED
          BY <1>6, <3>1, <4>2 DEF Findable
      <3>2. CASE job[e].at = 2 /\ job[e].ref \in TaskMatters
        <4>1. TaskMatters \cap {job[e].ref} = {}
          BY <1>8, <3>2, LookupsKnown DEF Rows
        <4> QED
          BY <3>2, <4>1
      <3> QED
        BY <1>6, <3>1, <3>2
    <2> HIDE DEF j
    <2>5. /\ TypeOK' /\ job'[e] = j
          /\ \A f \in Events \ {e} : job'[f] = job[f] /\ state'[f] = state[f]
          /\ UNCHANGED <<registered, tasks, matterCache, matter, reviews, questioned, guessed, state>>
      BY <1>1, <2>1, <2>3, LoneTypes DEF Look
    <2>6. Cand(e)' = Cand(e)
      BY <2>3, <2>5 DEF Cand
    <2>7. Shape(e)'
      BY <1>2, <2>2, <2>3, <2>5, <2>6 DEF Shape
    <2>8. FindsAgain(e)'
      BY <2>3, <2>4, <2>5, <2>6 DEF FindsAgain, TaskMatters
    <2>9. Asked(e)'
      BY <1>1, <2>3, <2>5, <2>6 DEF JobInv, Asked, Later, Answered
    <2> QED
      BY <2>5, <2>7, <2>8, <2>9, OwnStep DEF JobInv
  <1>9. ASSUME rows = {}, ~(job[e].at < Len(Lookups(e))),
               job' = [job EXCEPT ![e].at = 1, ![e].pc = Onward(e, Nothing)]
        PROVE  IdInv'
    <2> DEFINE j == [job[e] EXCEPT !.at = 1, !.pc = Onward(e, Nothing)]
    <2>1. job' = [job EXCEPT ![e] = j] /\ Onward(e, Nothing) = "weigh"
      BY <1>9, OnwardSteps DEF Weak
    <2>2. /\ j \in [pc : Steps, i : Nat, ref : Refs \cup {Nothing}, at : Nat,
                    found : Answers \cup {Nothing}, hit : BOOLEAN,
                    had : Users \cup {Nothing}, who : Users \cup {Nothing}]
          /\ j.i = job[e].i /\ j.ref = job[e].ref /\ j.found = Nothing /\ j.pc = "weigh"
      BY <1>1, <1>2, <2>1, JobFields DEF Steps
    <2> HIDE DEF j
    <2>3. /\ TypeOK' /\ job'[e] = j
          /\ \A f \in Events \ {e} : job'[f] = job[f] /\ state'[f] = state[f]
          /\ UNCHANGED <<registered, tasks, matterCache, matter, reviews, questioned, guessed, state>>
      BY <1>1, <2>1, <2>2, LoneTypes DEF Look
    <2>4. Cand(e)' = Cand(e)
      BY <2>2, <2>3 DEF Cand
    <2>5. Shape(e)'
      BY <1>2, <2>2, <2>3, <2>4 DEF Shape
    <2>6. FindsAgain(e)'
      BY <2>2, <2>3 DEF FindsAgain
    <2>7. Asked(e)'
      BY <1>1, <2>2, <2>3, <2>4 DEF JobInv, Asked, Later, Answered
    <2> QED
      BY <2>3, <2>5, <2>6, <2>7, OwnStep DEF JobInv
  <1> QED
    BY <1>7, <1>8, <1>9 DEF Look

\* SETEX of what was found.
LEMMA KeepMatterInv == ASSUME IdInv, NEW e \in Events, KeepMatter(e) PROVE IdInv'
  <1> DEFINE to == Onward(e, job[e].found)
             j  == [job[e] EXCEPT !.pc = to]
  <1>1. TypeOK /\ JobInv(e) /\ CacheSound /\ job[e].pc = "keep"
    BY DEF IdInv, KeepMatter
  <1>2. /\ job[e].ref \in Refs /\ job[e].found \in Answers /\ Sound(job[e].ref, job[e].found)
        /\ job[e].i \in 1..Len(CandsOf[e]) /\ job[e].ref = matter[Cand(e)]
    BY <1>1, JobFields DEF JobInv, Shape, FindsAgain
  <1>3. /\ to \in {"weigh", "who", "update"}
        /\ to # "weigh" => job[e].found # Nothing /\ job[e].found.tier # 5
        /\ to = "who" => Assignee[Cand(e)] # Nothing
    BY OnwardSteps DEF Weak
  <1>4. /\ job' = [job EXCEPT ![e] = j]
        /\ matterCache' = [matterCache EXCEPT ![job[e].ref] = job[e].found]
        /\ UNCHANGED <<registered, tasks, matter, reviews, questioned, guessed, state>>
    BY DEF KeepMatter, Go, registryVars, rowVars
  <1> HIDE DEF to
  <1>5. /\ j \in [pc : Steps, i : Nat, ref : Refs \cup {Nothing}, at : Nat,
                  found : Answers \cup {Nothing}, hit : BOOLEAN,
                  had : Users \cup {Nothing}, who : Users \cup {Nothing}]
        /\ j.i = job[e].i /\ j.ref = job[e].ref /\ j.found = job[e].found /\ j.hit = job[e].hit
        /\ j.pc = to
    BY <1>1, <1>3, JobFields DEF Steps
  <1> HIDE DEF j
  <1>6. matterCache' \in [Refs -> Answers \cup {Nothing}]
    BY <1>1, <1>2, <1>4 DEF TypeOK
  <1>7. /\ userCache' \in [Names -> Users \cup {Nothing}]
        /\ matter' \in [Cands -> Refs \cup {Nothing}] /\ user' \in [Cands -> Users \cup {Nothing}]
        /\ reviews' \subseteq Cands /\ guessed' \subseteq Cands /\ questioned' \subseteq Refs
        /\ state' \in [Events -> {"normalized", "resolved"}]
    BY <1>1 DEF KeepMatter, TypeOK, rowVars
  <1>8. TypeOK' /\ job'[e] = j /\ \A f \in Events \ {e} : job'[f] = job[f]
    BY <1>1, <1>4, <1>5, <1>6, <1>7, OwnTypes DEF KeepMatter
  <1>9. \A f \in Events \ {e} : JobInv(f)'
    BY <1>1, <1>4, <1>8, Frame DEF IdInv
  <1>10. Cand(e)' = Cand(e)
    BY <1>5, <1>8 DEF Cand
  <1>11. Shape(e)'
    BY <1>1, <1>2, <1>3, <1>4, <1>5, <1>8, <1>10 DEF JobInv, Shape
  <1>12. FindsAgain(e)'
    BY <1>1, <1>3, <1>4, <1>5, <1>8, <1>10 DEF JobInv, FindsAgain, Sound, Findable, TaskMatters
  <1>13. Asked(e)'
    BY <1>1, <1>3, <1>4, <1>5, <1>8, <1>10 DEF JobInv, Asked, Later, Answered
  <1>14. CacheSound'
    BY <1>1, <1>2, <1>4 DEF TypeOK, CacheSound, Sound, Findable, TaskMatters
  <1>15. RowsSound' /\ UnknownWasQuestioned' /\ GuessWasQuestioned'
    BY <1>4 DEF IdInv, RowsSound, UnknownWasQuestioned, GuessWasQuestioned, Findable, TaskMatters
  <1>16. \A f \in Events : JobInv(f)'
    BY <1>9, <1>11, <1>12, <1>13 DEF JobInv
  <1> QED
    BY <1>8, <1>14, <1>15, <1>16 DEF IdInv

\* A weak answer is put before a reviewer, with the reference.
LEMMA WeighInv == ASSUME IdInv, NEW e \in Events, Weigh(e) PROVE IdInv'
  <1> DEFINE to == ForUser(Cand(e), job[e].had)
             j  == [job[e] EXCEPT !.pc = to]
  <1>1. TypeOK /\ JobInv(e) /\ RowsSound /\ job[e].pc = "weigh"
    BY DEF IdInv, Weigh
  <1>2. job[e].i \in 1..Len(CandsOf[e]) /\ job[e].ref = matter[Cand(e)] /\ Cand(e) \in Cands
    BY <1>1, CandInCands DEF JobInv, Shape
  <1>3. to \in {"who", "update"} /\ (to = "who" => Assignee[Cand(e)] # Nothing)
    BY OnwardSteps
  <1>4. /\ job' = [job EXCEPT ![e] = j] /\ reviews' = reviews \cup {Cand(e)}
        /\ questioned' = questioned \cup ({Extracted[Cand(e)]} \ {Nothing})
        /\ UNCHANGED <<registered, tasks, matter, matterCache, guessed, state>>
    BY DEF Weigh, Go, registryVars, cacheVars
  <1> HIDE DEF to
  <1>5. /\ j \in [pc : Steps, i : Nat, ref : Refs \cup {Nothing}, at : Nat,
                  found : Answers \cup {Nothing}, hit : BOOLEAN,
                  had : Users \cup {Nothing}, who : Users \cup {Nothing}]
        /\ j.i = job[e].i /\ j.ref = job[e].ref /\ j.found = job[e].found /\ j.hit = job[e].hit
        /\ j.pc = to
    BY <1>1, <1>3, JobFields DEF Steps
  <1> HIDE DEF j
  <1>6. /\ matterCache' \in [Refs -> Answers \cup {Nothing}]
        /\ userCache' \in [Names -> Users \cup {Nothing}]
        /\ matter' \in [Cands -> Refs \cup {Nothing}] /\ user' \in [Cands -> Users \cup {Nothing}]
        /\ guessed' \subseteq Cands /\ state' \in [Events -> {"normalized", "resolved"}]
    BY <1>1 DEF Weigh, TypeOK, cacheVars
  <1>7. reviews' \subseteq Cands /\ questioned' \subseteq Refs
    BY <1>1, <1>2, <1>4, EventsAssumption DEF TypeOK
  <1>8. TypeOK' /\ job'[e] = j /\ \A f \in Events \ {e} : job'[f] = job[f]
    BY <1>1, <1>4, <1>5, <1>6, <1>7, OwnTypes DEF Weigh
  <1>9. \A f \in Events \ {e} : JobInv(f)'
    BY <1>1, <1>4, <1>8, Frame DEF IdInv
  <1>10. Cand(e)' = Cand(e)
    BY <1>5, <1>8 DEF Cand
  <1>11. Shape(e)'
    BY <1>1, <1>3, <1>4, <1>5, <1>8, <1>10 DEF JobInv, Shape
  <1>12. FindsAgain(e)'
    BY <1>1, <1>3, <1>4, <1>5, <1>8, <1>10 DEF JobInv, FindsAgain, Sound, Findable, TaskMatters
  <1>13. job[e].ref \in Answered' \cup {Nothing}
    <2>1. job[e].ref = Extracted[Cand(e)] \/ job[e].ref \in registered \cup TaskMatters
      BY <1>1, <1>2 DEF RowsSound, Findable
    <2>2. TaskMatters \subseteq registered \cup questioned
      BY DEF IdInv, UnknownWasQuestioned
    <2> QED
      BY <1>4, <2>1, <2>2 DEF Answered
  <1>14. \A k \in 1..Len(CandsOf[e]) : (k < job[e].i \/ state[e] = "resolved") =>
            matter[CandsOf[e][k]] \in Answered' \cup {Nothing}
    BY <1>1, <1>4 DEF JobInv, Asked, Answered
  <1>15. Asked(e)'
    BY <1>4, <1>5, <1>8, <1>10, <1>13, <1>14 DEF Asked
  <1>16. CacheSound' /\ RowsSound' /\ UnknownWasQuestioned' /\ GuessWasQuestioned'
    BY <1>4 DEF IdInv, CacheSound, RowsSound, UnknownWasQuestioned, GuessWasQuestioned, Sound,
                Findable, TaskMatters
  <1>17. \A f \in Events : JobInv(f)'
    BY <1>9, <1>11, <1>12, <1>15 DEF JobInv
  <1> QED
    BY <1>8, <1>16, <1>17 DEF IdInv

\* Who does it: steps that leave the matter of the candidate alone.
LEMMA AssigneeInv ==
  ASSUME IdInv, NEW e \in Events, ReadUserCache(e) \/ LookForUser(e) \/ KeepUser(e)
  PROVE  IdInv'
  <1> DEFINE name == Assignee[Cand(e)]
             JobType == [pc : Steps, i : Nat, ref : Refs \cup {Nothing}, at : Nat,
                         found : Answers \cup {Nothing}, hit : BOOLEAN,
                         had : Users \cup {Nothing}, who : Users \cup {Nothing}]
             Goes(j) == /\ j.pc \in {"whoLook", "whoKeep", "update"} /\ j.i = job[e].i
                        /\ j.ref = job[e].ref /\ j.found = job[e].found /\ j.hit = job[e].hit
  <1>1. TypeOK /\ JobInv(e) /\ job[e].pc \in {"who", "whoLook", "whoKeep"}
    BY DEF IdInv, ReadUserCache, LookForUser, KeepUser
  <1>2. name # Nothing /\ job[e].i \in 1..Len(CandsOf[e])
    BY <1>1 DEF JobInv, Shape
  <1>3. name \in Names /\ userCache \in [Names -> Users \cup {Nothing}]
    BY <1>1, <1>2, CandInCands, EventsAssumption DEF TypeOK
  <1>4. job[e] \in JobType /\ job[e].who \in Users \cup {Nothing}
    BY <1>1, JobFields
  <1>5. ASSUME NEW j \in JobType, job' = [job EXCEPT ![e] = j], Goes(j),
               UNCHANGED <<registryVars, tasks, matterCache, rowVars, state, edits, faults>>,
               userCache' \in [Names -> Users \cup {Nothing}]
        PROVE  IdInv'
    <2>1. UNCHANGED <<registered, tasks, matterCache, matter, user, reviews, questioned, guessed, state>>
      BY <1>5 DEF registryVars, rowVars
    <2>2. /\ matterCache' \in [Refs -> Answers \cup {Nothing}]
          /\ matter' \in [Cands -> Refs \cup {Nothing}] /\ user' \in [Cands -> Users \cup {Nothing}]
          /\ reviews' \subseteq Cands /\ guessed' \subseteq Cands /\ questioned' \subseteq Refs
          /\ state' \in [Events -> {"normalized", "resolved"}]
      BY <1>1, <2>1 DEF TypeOK
    <2>3. TypeOK' /\ job'[e] = j /\ \A f \in Events \ {e} : job'[f] = job[f]
      BY <1>1, <1>5, <2>2, OwnTypes
    <2>4. \A f \in Events \ {e} : job'[f] = job[f] /\ state'[f] = state[f]
      BY <2>1, <2>3
    <2>5. Cand(e)' = Cand(e)
      BY <1>5, <2>3 DEF Cand
    <2>6. Shape(e)'
      BY <1>1, <1>2, <1>5, <2>1, <2>3, <2>5 DEF JobInv, Shape
    <2>7. FindsAgain(e)'
      BY <1>1, <1>5, <2>1, <2>3, <2>5 DEF JobInv, FindsAgain, Sound, Findable, TaskMatters
    <2>8. Asked(e)'
      BY <1>1, <1>5, <2>1, <2>3, <2>5 DEF JobInv, Asked, Later, Answered
    <2> QED
      BY <2>1, <2>3, <2>4, <2>6, <2>7, <2>8, OwnStep DEF JobInv
  <1>6. CASE ReadUserCache(e)
    <2> DEFINE hit == userCache[name]
               j   == [job[e] EXCEPT !.who = hit, !.pc = IF hit = Nothing THEN "whoLook" ELSE "update"]
    <2>1. hit \in Users \cup {Nothing}
      BY <1>3
    <2>2. j \in JobType /\ Goes(j)
      BY <1>4, <2>1 DEF Steps
    <2>3. job' = [job EXCEPT ![e] = j] /\ userCache' = userCache
          /\ UNCHANGED <<registryVars, tasks, matterCache, rowVars, state, edits, faults>>
      BY <1>6 DEF ReadUserCache, cacheVars
    <2> HIDE DEF j, JobType, Goes
    <2> QED
      BY <1>3, <1>5, <2>2, <2>3
  <1>7. CASE LookForUser(e)
    <2>1. UNCHANGED userCache /\ UNCHANGED <<registryVars, tasks, matterCache, rowVars, state, edits, faults>>
      BY <1>7 DEF LookForUser, cacheVars
    <2>2. \E j \in JobType : Goes(j) /\ job' = [job EXCEPT ![e] = j]
      <3>1. ASSUME NEW u \in Users,
                   job' = [job EXCEPT ![e].who = u, ![e].at = 1, ![e].pc = "whoKeep"]
            PROVE  \E j \in JobType : Goes(j) /\ job' = [job EXCEPT ![e] = j]
        <4> DEFINE j == [job[e] EXCEPT !.who = u, !.at = 1, !.pc = "whoKeep"]
        <4>1. j \in JobType /\ Goes(j)
          BY <1>4 DEF Steps
        <4>2. job' = [job EXCEPT ![e] = j]
          BY <3>1
        <4> HIDE DEF j, JobType, Goes
        <4> QED
          BY <4>1, <4>2
      <3>2. ASSUME job' = [job EXCEPT ![e].at = 2]
            PROVE  \E j \in JobType : Goes(j) /\ job' = [job EXCEPT ![e] = j]
        <4> DEFINE j == [job[e] EXCEPT !.at = 2]
        <4>1. job[e].pc = "whoLook"
          BY <1>7 DEF LookForUser
        <4>2. j \in JobType /\ Goes(j)
          BY <1>4, <4>1 DEF Steps
        <4>3. job' = [job EXCEPT ![e] = j]
          BY <3>2
        <4> HIDE DEF j, JobType, Goes
        <4> QED
          BY <4>2, <4>3
      <3>3. ASSUME job' = [job EXCEPT ![e].at = 1, ![e].pc = "update"]
            PROVE  \E j \in JobType : Goes(j) /\ job' = [job EXCEPT ![e] = j]
        <4> DEFINE j == [job[e] EXCEPT !.at = 1, !.pc = "update"]
        <4>1. j \in JobType /\ Goes(j)
          BY <1>4 DEF Steps
        <4>2. job' = [job EXCEPT ![e] = j]
          BY <3>3
        <4> HIDE DEF j, JobType, Goes
        <4> QED
          BY <4>1, <4>2
      <3>4. active \subseteq Users
        BY <1>1 DEF TypeOK
      <3> QED
        BY <1>7, <3>1, <3>2, <3>3, <3>4 DEF LookForUser, UserRows
    <2> HIDE DEF JobType, Goes
    <2> QED
      BY <1>3, <1>5, <2>1, <2>2
  <1>8. CASE KeepUser(e)
    <2> DEFINE j == [job[e] EXCEPT !.pc = "update"]
    <2>1. j \in JobType /\ Goes(j)
      BY <1>4 DEF Steps
    <2>2. /\ job' = [job EXCEPT ![e] = j] /\ userCache' = [userCache EXCEPT ![name] = job[e].who]
          /\ UNCHANGED <<registryVars, tasks, matterCache, rowVars, state, edits, faults>>
      BY <1>8 DEF KeepUser, Go
    <2>3. userCache' \in [Names -> Users \cup {Nothing}]
      BY <1>3, <1>4, <2>2
    <2> HIDE DEF j, JobType, Goes
    <2> QED
      BY <1>5, <2>1, <2>2, <2>3
  <1> QED
    BY <1>6, <1>7, <1>8

\* The row is overwritten: with what was found, or with what it had.
LEMMA UpdateInv == ASSUME IdInv, NEW e \in Events, Update(e) PROVE IdInv'
  <1> DEFINE c   == Cand(e)
             new == IF job[e].found = Nothing THEN job[e].ref ELSE job[e].found.matter
             j   == [NoJob EXCEPT !.i = job[e].i + 1, !.pc = "load"]
  <1>1. TypeOK /\ JobInv(e) /\ job[e].pc = "update"
    BY DEF IdInv, Update
  <1>2. /\ job[e].i \in 1..Len(CandsOf[e]) /\ job[e].ref = matter[c] /\ c \in Cands
        /\ job[e].i \in Nat /\ state[e] # "resolved"
    BY <1>1, CandInCands, JobFields DEF JobInv, Shape
  <1>3. /\ new \in Refs \cup {Nothing} /\ job[e].who \in Users \cup {Nothing}
        /\ job[e].found # Nothing => new \in Findable
    BY <1>1, JobFields DEF JobInv, FindsAgain, Sound, Answers
  <1>4. new \in Answered \cup {Nothing}
    <2>1. Findable \subseteq Answered
      BY DEF IdInv, UnknownWasQuestioned, Findable, Answered
    <2> QED
      BY <1>1, <1>3, <2>1 DEF JobInv, Asked, Later
  <1>5. /\ job' = [job EXCEPT ![e] = j] /\ matter' = [matter EXCEPT ![c] = new]
        /\ user' = [user EXCEPT ![c] = job[e].who]
        /\ guessed' \in {guessed, guessed \cup {c}}
        /\ guessed' # guessed => job[e].found # Nothing /\ job[e].found.tier = 5
        /\ UNCHANGED <<registered, tasks, matterCache, userCache, reviews, questioned, state>>
        /\ UNCHANGED <<registryVars, tasks, edits>> /\ UNCHANGED faults
    BY DEF Update, registryVars, cacheVars
  <1> HIDE DEF new
  <1>6. /\ j \in [pc : Steps, i : Nat, ref : Refs \cup {Nothing}, at : Nat,
                  found : Answers \cup {Nothing}, hit : BOOLEAN,
                  had : Users \cup {Nothing}, who : Users \cup {Nothing}]
        /\ j.i = job[e].i + 1 /\ j.i # 0 /\ j.pc = "load"
    <2>1. job[e].i + 1 \in Nat /\ job[e].i + 1 # 0
      <3>1. \A n \in Nat : n + 1 \in Nat /\ n + 1 # 0
        OBVIOUS
      <3> QED
        BY <1>2, <3>1
    <2>2. Nothing \in Refs \cup {Nothing} /\ "load" \in Steps
      BY DEF Steps
    <2> QED
      BY <2>1, <2>2 DEF NoJob
  <1> HIDE DEF j
  <1>7. /\ matterCache' \in [Refs -> Answers \cup {Nothing}]
        /\ userCache' \in [Names -> Users \cup {Nothing}]
        /\ matter' \in [Cands -> Refs \cup {Nothing}] /\ user' \in [Cands -> Users \cup {Nothing}]
        /\ reviews' \subseteq Cands /\ guessed' \subseteq Cands /\ questioned' \subseteq Refs
        /\ state' \in [Events -> {"normalized", "resolved"}]
    BY <1>1, <1>2, <1>3, <1>5 DEF TypeOK
  <1>8. TypeOK' /\ job'[e] = j /\ \A f \in Events \ {e} : job'[f] = job[f]
    BY <1>1, <1>5, <1>6, <1>7, OwnTypes
  <1>9. matter'[c] = new /\ \A d \in Cands \ {c} : matter'[d] = matter[d]
    BY <1>1, <1>2, <1>5 DEF TypeOK
  <1>10. \A f \in Events \ {e} : JobInv(f)'
    <2> SUFFICES ASSUME NEW f \in Events \ {e} PROVE JobInv(f)'
      OBVIOUS
    <2>1. \A k \in 1..Len(CandsOf[f]) : CandsOf[f][k] \in Cands /\ CandsOf[f][k] # c
      BY <1>2, CandInCands, Apart DEF Cand
    <2> QED
      BY <1>1, <1>5, <1>8, <1>9, <2>1, Frame DEF IdInv
  <1>11. Shape(e)'
    BY <1>1, <1>2, <1>5, <1>6, <1>8 DEF JobInv, Shape
  <1>12. FindsAgain(e)'
    BY <1>6, <1>8 DEF FindsAgain
  <1>13. Asked(e)'
    <2>1. ASSUME NEW k \in 1..Len(CandsOf[e]), k < job[e].i + 1
          PROVE  matter'[CandsOf[e][k]] \in Answered \cup {Nothing}
      <3>1. CASE CandsOf[e][k] = c
        BY <1>4, <1>9, <3>1
      <3>2. CASE CandsOf[e][k] # c
        <4>1. k # job[e].i
          BY <3>2 DEF Cand
        <4>2. k < job[e].i
          BY <1>2, <2>1, <4>1
        <4>3. CandsOf[e][k] \in Cands
          BY CandInCands
        <4> QED
          BY <1>1, <1>9, <3>2, <4>2, <4>3 DEF JobInv, Asked
      <3> QED
        BY <3>1, <3>2
    <2> QED
      BY <1>2, <1>5, <1>6, <1>8, <2>1 DEF Asked, Later, Answered
  <1>14. CacheSound' /\ UnknownWasQuestioned'
    BY <1>5 DEF IdInv, CacheSound, UnknownWasQuestioned, Sound, Findable, TaskMatters
  <1>15. RowsSound'
    <2>1. RowsSound /\ Findable' = Findable
      BY <1>5 DEF IdInv, Findable, TaskMatters
    <2>2. new = matter[c] \/ new \in Findable
      BY <1>2, <1>3 DEF new
    <2> QED
      BY <1>2, <1>9, <2>1, <2>2 DEF RowsSound
  <1>16. GuessWasQuestioned'
    BY <1>1, <1>5 DEF IdInv, GuessWasQuestioned, JobInv, Asked, Later
  <1>17. \A f \in Events : JobInv(f)'
    BY <1>10, <1>11, <1>12, <1>13 DEF JobInv
  <1> QED
    BY <1>8, <1>14, <1>15, <1>16, <1>17 DEF IdInv

\* The job is over, or begins anew.
LEMMA EndInv == ASSUME IdInv, NEW e \in Events, WriteState(e) \/ Fail(e) PROVE IdInv'
  <1> DEFINE again == [NoJob EXCEPT !.pc = "load"]
  <1>1. TypeOK /\ JobInv(e) /\ Len(CandsOf[e]) \in Nat /\ job[e].i \in Nat
    BY CandInCands, JobFields DEF IdInv
  <1>2. /\ again \in [pc : Steps, i : Nat, ref : Refs \cup {Nothing}, at : Nat,
                      found : Answers \cup {Nothing}, hit : BOOLEAN,
                      had : Users \cup {Nothing}, who : Users \cup {Nothing}]
        /\ again.i = 1 /\ again.pc = "load" /\ NoJob.i = 1 /\ NoJob.pc = "idle"
    BY DEF NoJob, Steps
  <1>3. CASE Fail(e)
    <2>1. job' = [job EXCEPT ![e] = again] /\ faults' \in 0..MaxFaults
          /\ UNCHANGED <<registryVars, tasks, cacheVars, rowVars, state, edits>>
      BY <1>1, <1>3, BoundAssumption DEF Fail, TypeOK
    <2> HIDE DEF again
    <2>2. /\ TypeOK' /\ job'[e] = again
          /\ \A f \in Events \ {e} : job'[f] = job[f] /\ state'[f] = state[f]
          /\ UNCHANGED <<registered, tasks, matterCache, matter, reviews, questioned, guessed, state>>
      BY <1>1, <1>2, <2>1, LoneTypes
    <2>3. Shape(e)' /\ FindsAgain(e)'
      BY <1>1, <1>2, <1>3, <2>2 DEF JobInv, Shape, FindsAgain, Fail
    <2>4. Asked(e)'
      <3>1. state[e] # "resolved"
        BY <1>1, <1>3 DEF JobInv, Shape, Fail
      <3>2. \A k \in 1..Len(CandsOf[e]) : ~(k < 1)
        BY <1>1
      <3> QED
        BY <1>2, <2>2, <3>1, <3>2 DEF Asked, Later
    <2> QED
      BY <2>2, <2>3, <2>4, OwnStep DEF JobInv
  <1>4. CASE WriteState(e)
    <2>1. job' = [job EXCEPT ![e] = NoJob] /\ state' = [state EXCEPT ![e] = "resolved"]
          /\ UNCHANGED <<registered, tasks, matterCache, userCache, matter, user, reviews, questioned, guessed>>
      BY <1>4 DEF WriteState, registryVars, cacheVars, rowVars
    <2>2. /\ matterCache' \in [Refs -> Answers \cup {Nothing}]
          /\ userCache' \in [Names -> Users \cup {Nothing}]
          /\ matter' \in [Cands -> Refs \cup {Nothing}] /\ user' \in [Cands -> Users \cup {Nothing}]
          /\ reviews' \subseteq Cands /\ guessed' \subseteq Cands /\ questioned' \subseteq Refs
          /\ state' \in [Events -> {"normalized", "resolved"}]
      BY <1>1, <2>1 DEF TypeOK
    <2>3. TypeOK' /\ job'[e] = NoJob /\ \A f \in Events \ {e} : job'[f] = job[f]
      BY <1>1, <1>4, <2>1, <2>2, NoJobType, OwnTypes DEF WriteState
    <2>4. state'[e] = "resolved" /\ \A f \in Events \ {e} : state'[f] = state[f]
      BY <1>1, <2>1 DEF TypeOK
    <2>5. Shape(e)' /\ FindsAgain(e)'
      BY <1>2, <2>3, <2>4 DEF Shape, FindsAgain
    <2>6. \A k \in 1..Len(CandsOf[e]) : k < job[e].i
      BY <1>1, <1>4 DEF WriteState
    <2>7. Asked(e)'
      BY <1>1, <1>2, <2>1, <2>3, <2>6 DEF JobInv, Asked, Later, Answered
    <2> QED
      BY <2>1, <2>3, <2>4, <2>5, <2>7, OwnStep DEF JobInv
  <1> QED
    BY <1>3, <1>4

-----------------------------------------------------------------------------
(* Everybody else *)

\* The next event of the shape brings rows of its own.
LEMMA ArriveInv == ASSUME IdInv, NEW e \in Events, Arrive(e) PROVE IdInv'
  <1> DEFINE mine  == {CandsOf[e][i] : i \in 1..Len(CandsOf[e])}
             again == [NoJob EXCEPT !.pc = "load"]
  <1>1. TypeOK /\ JobInv(e)
    BY DEF IdInv
  <1>2. /\ again \in [pc : Steps, i : Nat, ref : Refs \cup {Nothing}, at : Nat,
                      found : Answers \cup {Nothing}, hit : BOOLEAN,
                      had : Users \cup {Nothing}, who : Users \cup {Nothing}]
        /\ again.i = 1 /\ again.pc = "load"
    BY DEF NoJob, Steps
  <1>3. /\ job' = [job EXCEPT ![e] = again] /\ state' = [state EXCEPT ![e] = "normalized"]
        /\ matter' = [c \in Cands |-> IF c \in mine THEN Extracted[c] ELSE matter[c]]
        /\ user' = [c \in Cands |-> IF c \in mine THEN Nothing ELSE user[c]]
        /\ reviews' = reviews \ mine /\ guessed' = guessed \ mine
        /\ UNCHANGED <<registryVars, tasks, edits>> /\ UNCHANGED faults
        /\ UNCHANGED <<registered, matterCache, userCache, questioned>>
    BY DEF Arrive, registryVars, cacheVars
  <1> HIDE DEF again
  <1>4. /\ matterCache' \in [Refs -> Answers \cup {Nothing}]
        /\ userCache' \in [Names -> Users \cup {Nothing}]
        /\ matter' \in [Cands -> Refs \cup {Nothing}] /\ user' \in [Cands -> Users \cup {Nothing}]
        /\ reviews' \subseteq Cands /\ guessed' \subseteq Cands /\ questioned' \subseteq Refs
        /\ state' \in [Events -> {"normalized", "resolved"}]
        /\ state'[e] = "normalized" /\ \A f \in Events \ {e} : state'[f] = state[f]
    BY <1>1, <1>3, EventsAssumption DEF TypeOK
  <1>5. TypeOK' /\ job'[e] = again /\ \A f \in Events \ {e} : job'[f] = job[f]
    BY <1>1, <1>2, <1>3, <1>4, OwnTypes
  <1>6. \A f \in Events \ {e} : JobInv(f)'
    <2> SUFFICES ASSUME NEW f \in Events \ {e} PROVE JobInv(f)'
      OBVIOUS
    <2>1. \A k \in 1..Len(CandsOf[f]) : CandsOf[f][k] \in Cands /\ CandsOf[f][k] \notin mine
      BY CandInCands, Apart
    <2>2. \A k \in 1..Len(CandsOf[f]) :
            /\ matter'[CandsOf[f][k]] = matter[CandsOf[f][k]]
            /\ CandsOf[f][k] \in reviews => CandsOf[f][k] \in reviews'
      BY <1>3, <2>1
    <2> QED
      BY <1>1, <1>3, <1>4, <1>5, <2>2, Frame DEF IdInv
  <1>7. Shape(e)' /\ FindsAgain(e)'
    BY <1>2, <1>4, <1>5 DEF Shape, FindsAgain
  <1>8. Asked(e)'
    <2>1. Len(CandsOf[e]) \in Nat /\ \A k \in 1..Len(CandsOf[e]) : ~(k < 1)
      BY CandInCands
    <2> QED
      BY <1>2, <1>4, <1>5, <2>1 DEF Asked, Later
  <1>9. CacheSound' /\ RowsSound' /\ UnknownWasQuestioned' /\ GuessWasQuestioned'
    BY <1>3 DEF IdInv, CacheSound, RowsSound, UnknownWasQuestioned, GuessWasQuestioned, Sound, Findable,
                TaskMatters
  <1>10. \A f \in Events : JobInv(f)'
    BY <1>6, <1>7, <1>8 DEF JobInv
  <1> QED
    BY <1>5, <1>9, <1>10 DEF IdInv

\* Dedup, the administrators and Redis touch no job and no row.
LEMMA OthersStep ==
  ASSUME IdInv, TypeOK', UNCHANGED <<matter, reviews, guessed, questioned, state, job>>,
         registered \subseteq registered', tasks \subseteq tasks',
         \A r \in Refs : matterCache'[r] = matterCache[r] \/ matterCache'[r] = Nothing,
         UnknownWasQuestioned'
  PROVE  IdInv'
  <1>1. \A f \in Events : JobInv(f)'
    BY Frame DEF IdInv
  <1>2. Findable \subseteq Findable' /\ \A q, a : Sound(q, a) => Sound(q, a)'
    BY Grown
  <1>3. CacheSound'
    BY <1>2 DEF IdInv, CacheSound, Sound
  <1>4. RowsSound' /\ GuessWasQuestioned'
    BY <1>2 DEF IdInv, RowsSound, GuessWasQuestioned
  <1> QED
    BY <1>1, <1>3, <1>4 DEF IdInv

\* A task of an unknown matter is made of a row that a reviewer was asked about.
LEMMA CreateTaskInv ==
  ASSUME IdInv, NEW e \in Events, NEW c \in Cands, CreateTask(e, c) PROVE IdInv'
  <1>1. TypeOK /\ JobInv(e)
    BY DEF IdInv
  <1>2. PICK k \in 1..Len(CandsOf[e]) : c = CandsOf[e][k]
    BY DEF CreateTask
  <1>3. matter[c] \in Refs /\ matter[c] \in registered \cup questioned
    BY <1>1, <1>2 DEF CreateTask, TypeOK, JobInv, Asked, Answered
  <1>4. tasks' = tasks \cup {<<matter[c], e>>}
        /\ UNCHANGED <<registryVars, cacheVars, rowVars, state, job, edits, faults>>
    BY DEF CreateTask
  <1>5. TypeOK'
    BY <1>1, <1>3, <1>4 DEF TypeOK, registryVars, cacheVars, rowVars
  <1>6. UnknownWasQuestioned'
    BY <1>3, <1>4 DEF IdInv, UnknownWasQuestioned, TaskMatters, registryVars, rowVars
  <1> QED
    BY <1>4, <1>5, <1>6, OthersStep DEF registryVars, cacheVars, rowVars

\* The registry grows, and changes its mind about clients and users.
LEMMA RegistryInv ==
  ASSUME IdInv,
         \/ \E m \in Matters, p \in People : CreateMatter(m, p) \/ UpdateMatter(m, p)
         \/ \E u \in Users : UpdateUser(u)
  PROVE  IdInv'
  <1>1. TypeOK /\ edits' \in 0..MaxEdits
    <2>1. edits < MaxEdits /\ edits' = edits + 1
      BY DEF CreateMatter, UpdateMatter, UpdateUser, Edit
    <2> QED
      BY <2>1, BoundAssumption DEF IdInv, TypeOK
  <1>2. UNCHANGED <<tasks, cacheVars, rowVars, state, job, faults>>
    BY DEF CreateMatter, UpdateMatter, UpdateUser
  <1>3. /\ registered \subseteq registered' /\ registered' \subseteq Matters /\ active' \subseteq Users
        /\ client' \in [Matters -> People \cup {Nothing}]
    BY <1>1 DEF CreateMatter, UpdateMatter, UpdateUser, TypeOK
  <1>4. TypeOK'
    BY <1>1, <1>2, <1>3 DEF TypeOK, cacheVars, rowVars
  <1>5. UnknownWasQuestioned'
    BY <1>2, <1>3 DEF IdInv, UnknownWasQuestioned, TaskMatters, rowVars
  <1> QED
    BY <1>2, <1>3, <1>4, <1>5, OthersStep DEF cacheVars, rowVars

\* The hour is over.
LEMMA ExpireInv ==
  ASSUME IdInv, (\E r \in Refs : ExpireMatter(r)) \/ \E n \in Names : ExpireUser(n)
  PROVE  IdInv'
  <1>1. TypeOK
    BY DEF IdInv
  <1>2. UNCHANGED <<registryVars, tasks, rowVars, state, job, edits, faults>>
    BY DEF ExpireMatter, ExpireUser
  <1>3. /\ matterCache' \in [Refs -> Answers \cup {Nothing}]
        /\ userCache' \in [Names -> Users \cup {Nothing}]
        /\ \A r \in Refs : matterCache'[r] = matterCache[r] \/ matterCache'[r] = Nothing
    BY <1>1 DEF ExpireMatter, ExpireUser, TypeOK
  <1>4. TypeOK'
    BY <1>1, <1>2, <1>3 DEF TypeOK, registryVars, rowVars
  <1>5. UnknownWasQuestioned'
    BY <1>2 DEF IdInv, UnknownWasQuestioned, TaskMatters, registryVars, rowVars
  <1> QED
    BY <1>2, <1>3, <1>4, <1>5, OthersStep DEF registryVars, rowVars

LEMMA NextIdInv == IdInv /\ [Next]_vars => IdInv'
  <1> SUFFICES ASSUME IdInv, [Next]_vars PROVE IdInv'
    OBVIOUS
  <1>1. ASSUME NEW e \in Events, Step(e) PROVE IdInv'
    BY <1>1, LoadInv, ReadCacheInv, LookInv, KeepMatterInv, WeighInv, AssigneeInv, UpdateInv, EndInv
       DEF Step
  <1>2. ASSUME NEW e \in Events, Fail(e) \/ Arrive(e) \/ \E c \in Cands : CreateTask(e, c)
        PROVE  IdInv'
    BY <1>2, EndInv, ArriveInv, CreateTaskInv
  <1>3. CASE UNCHANGED vars
    <2>1. /\ UNCHANGED <<registered, client, active, tasks, matterCache, userCache>>
          /\ UNCHANGED <<matter, user, reviews, questioned, guessed, state, job, edits, faults>>
      BY <1>3 DEF vars, registryVars, cacheVars, rowVars
    <2>2. TypeOK' /\ UnknownWasQuestioned'
      BY <2>1 DEF IdInv, TypeOK, UnknownWasQuestioned, TaskMatters
    <2> QED
      BY <2>1, <2>2, OthersStep
  <1> QED
    BY <1>1, <1>2, <1>3, RegistryInv, ExpireInv DEF Next

\* At the start nothing has been looked up.
LEMMA InitIdInv == Init => IdInv
  <1> SUFFICES ASSUME Init PROVE IdInv
    OBVIOUS
  <1> DEFINE again == [NoJob EXCEPT !.pc = "load"]
  <1>1. /\ again \in [pc : Steps, i : Nat, ref : Refs \cup {Nothing}, at : Nat,
                      found : Answers \cup {Nothing}, hit : BOOLEAN,
                      had : Users \cup {Nothing}, who : Users \cup {Nothing}]
        /\ again.i = 1 /\ again.pc = "load"
    BY DEF NoJob, Steps
  <1>2. \A e \in Events : job[e] = again /\ state[e] = "normalized"
    BY DEF Init
  <1>3. job = [e \in Events |-> again]
    BY DEF Init
  <1> HIDE DEF again
  <1>4. TypeOK
    <2>1. /\ registered \subseteq Matters /\ active \subseteq Users /\ tasks = {}
          /\ client \in [Matters -> People \cup {Nothing}]
      BY RefsAssumption DEF Init, Registered
    <2>2. /\ matterCache \in [Refs -> Answers \cup {Nothing}]
          /\ userCache \in [Names -> Users \cup {Nothing}]
          /\ matter \in [Cands -> Refs \cup {Nothing}] /\ user \in [Cands -> Users \cup {Nothing}]
      BY EventsAssumption DEF Init
    <2>3. /\ reviews = {} /\ guessed = {} /\ questioned = {}
          /\ state \in [Events -> {"normalized", "resolved"}]
          /\ edits \in 0..MaxEdits /\ faults \in 0..MaxFaults
      BY BoundAssumption DEF Init
    <2> QED
      BY <1>1, <1>3, <2>1, <2>2, <2>3 DEF TypeOK
  <1>5. \A e \in Events : Shape(e) /\ FindsAgain(e)
    BY <1>1, <1>2 DEF Shape, FindsAgain
  <1>6. \A e \in Events : Asked(e)
    <2> SUFFICES ASSUME NEW e \in Events PROVE Asked(e)
      OBVIOUS
    <2>1. Len(CandsOf[e]) \in Nat /\ \A k \in 1..Len(CandsOf[e]) : ~(k < 1)
      BY CandInCands
    <2> QED
      BY <1>1, <1>2, <2>1 DEF Asked, Later
  <1>7. CacheSound /\ RowsSound /\ UnknownWasQuestioned /\ GuessWasQuestioned
    BY DEF Init, CacheSound, RowsSound, UnknownWasQuestioned, GuessWasQuestioned, TaskMatters
  <1> QED
    BY <1>4, <1>5, <1>6, <1>7 DEF IdInv, JobInv

-----------------------------------------------------------------------------
(* The theorems *)

\* Jobs, cache and rows hold what their columns and keys are for, whatever fails: a
\* row names a matter or nobody, and a cached answer has a tier that is cached.
THEOREM TypeTheorem == Spec => []TypeOK
  <1>1. IdInv => TypeOK
    BY DEF IdInv
  <1> QED
    BY <1>1, InitIdInv, NextIdInv, PTL DEF Spec

\* Behind every task of a matter that nobody registered there is a review item with
\* its reference (createReviewItem in identity.service.ts), though the tasks answer
\* for it ever after, at tier 1.
THEOREM UnknownTheorem == Spec => []UnknownWasQuestioned
  <1>1. IdInv => UnknownWasQuestioned
    BY DEF IdInv
  <1> QED
    BY <1>1, InitIdInv, NextIdInv, PTL DEF Spec

\* A matter that is a guess (tier 5) is put before a reviewer by the attempt that gives
\* it to a candidate, whichever attempt writes it or takes it over from the cache
\* (identity.service.ts).  Users get no review item, however their names matched.
THEOREM GuessTheorem == Spec => []GuessWasQuestioned
  <1>1. IdInv => GuessWasQuestioned
    BY DEF IdInv
  <1> QED
    BY <1>1, InitIdInv, NextIdInv, PTL DEF Spec

\* One step of the jobs moves a row only as the property says.
LEMMA MovedByStep ==
  ASSUME IdInv, [Next]_vars, NEW e \in Events, job[e].pc = "update",
         matter[Cand(e)] # Extracted[Cand(e)], matter'[Cand(e)] # matter[Cand(e)]
  PROVE  \/ <<matter[Cand(e)], matter'[Cand(e)]>> \in Exact
         \/ job[e].hit /\ job[e].found.tier # 1
  <1>1. TypeOK /\ Shape(e) /\ FindsAgain(e)
    BY DEF IdInv, JobInv
  <1>2. job[e].i \in 1..Len(CandsOf[e]) /\ job[e].ref = matter[Cand(e)] /\ Cand(e) \in Cands
    BY <1>1, CandInCands DEF Shape
  <1>3. Update(e)
    <2>1. ASSUME NEW f \in Events, Step(f), ~Update(f) PROVE matter' = matter
      BY <2>1 DEF Step, Load, ReadCache, Look, KeepMatter, Weigh, ReadUserCache, LookForUser, KeepUser,
                  WriteState, rowVars
    <2>2. ASSUME NEW f \in Events \ {e}, Update(f) PROVE matter'[Cand(e)] = matter[Cand(e)]
      <3>1. JobInv(f) /\ job[f].i \in 1..Len(CandsOf[f])
        BY <2>2 DEF IdInv, JobInv, Shape, Update
      <3>2. Cand(f) # Cand(e)
        BY <1>2, <3>1, Apart DEF Cand
      <3> QED
        BY <1>1, <1>2, <2>2, <3>2 DEF Update, TypeOK
    <2>3. ASSUME NEW f \in Events, Arrive(f) PROVE matter'[Cand(e)] = matter[Cand(e)]
      <3>1. f # e
        BY <2>3 DEF Arrive
      <3>2. Cand(e) \notin {CandsOf[f][i] : i \in 1..Len(CandsOf[f])}
        BY <1>2, <3>1, Apart DEF Cand
      <3> QED
        BY <1>2, <2>3, <3>2 DEF Arrive
    <2>4. ASSUME NEW f \in Events, Fail(f) \/ \E c \in Cands : CreateTask(f, c) PROVE matter' = matter
      BY <2>4 DEF Fail, CreateTask, rowVars
    <2>5. ASSUME \/ \E m \in Matters, p \in People : CreateMatter(m, p) \/ UpdateMatter(m, p)
                 \/ \E u \in Users : UpdateUser(u)
                 \/ \E r \in Refs : ExpireMatter(r)
                 \/ \E n \in Names : ExpireUser(n)
                 \/ UNCHANGED vars
          PROVE  matter' = matter
      BY <2>5 DEF CreateMatter, UpdateMatter, UpdateUser, ExpireMatter, ExpireUser, vars, rowVars
    <2> QED
      BY <2>1, <2>2, <2>3, <2>4, <2>5 DEF Next
  <1>4. matter'[Cand(e)] = IF job[e].found = Nothing THEN job[e].ref ELSE job[e].found.matter
    BY <1>1, <1>2, <1>3 DEF Update, TypeOK
  <1>5. /\ job[e].found # Nothing /\ matter'[Cand(e)] = job[e].found.matter
        /\ Sound(job[e].ref, job[e].found) /\ (job[e].hit \/ job[e].found.tier = 1)
    BY <1>1, <1>2, <1>4 DEF FindsAgain
  <1> QED
    BY <1>2, <1>5 DEF Sound

\* What an attempt wrote, the next one finds again, at the first or second query
\* (resolveMatterExact), unless an alias or a stale guess in the cache misleads it.
THEOREM MovedTheorem == Spec => MovedOnlyByStaleGuess
  <1>1. IdInv /\ [Next]_vars =>
          [\A e \in Events :
             LET c == Cand(e) IN
             (job[e].pc = "update" /\ matter[c] # Extracted[c] /\ matter'[c] # matter[c])
                 => \/ <<matter[c], matter'[c]>> \in Exact
                    \/ job[e].hit /\ job[e].found.tier # 1]_vars
    BY MovedByStep
  <1> QED
    BY <1>1, InitIdInv, NextIdInv, PTL DEF Spec, MovedOnlyByStaleGuess
=============================================================================
