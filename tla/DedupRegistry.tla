---------------------------- MODULE DedupRegistry ----------------------------
(***************************************************************************)
(* The dedup.check stage: each job takes one candidate task, decides what  *)
(* it is (dedup.service.ts) and changes the canonical task registry        *)
(* (registry.service.ts) under the matter lock, while people edit tasks    *)
(* through PATCH /tasks/:id, which takes no lock.                          *)
(*                                                                         *)
(* No write is in a transaction: every query is a step of its own, and a   *)
(* job may throw or its worker may die between any two of them, after      *)
(* which BullMQ runs the job again from the start.  The embedding scores   *)
(* and the adjudicator's answer are data: the model takes any verdict the  *)
(* code could reach on the rows it has read.                               *)
(***************************************************************************)
EXTENDS FiniteSets, Integers, Sequences

CONSTANTS
    Candidates,  \* candidate tasks, one dedup.check job each
    Cand,        \* their rows: matter, print, evidence, due and conf below
    Matters, NoMatter, LockIds, NoId, MaxRetries, Overrunners,   \* see MatterLock
    MaxTries,    \* attempts of a job (defaultJobOptions: 3)
    MaxStalls,   \* times BullMQ re-queues the job of a dead worker
    MaxEdits,    \* bound on the human edits of a behaviour
    NoTask       \* no canonical task selected

(* matter:   the matter's id as it is written in the row                    *)
(* print:    the fingerprint, in which the matter's id is in lower case      *)
(* evidence: the evidence event the candidate was extracted from            *)
(* due:      whether it has a due date, standing for the sensitive fields   *)
(* conf:     combined confidence: low (< DISCARD_MIN), moderate             *)
(*           (< SENSITIVE_FIELD_MIN_CONFIDENCE) or high                     *)
ASSUME CandAssumption ==
    /\ IsFiniteSet(Candidates)
    /\ \A c \in Candidates :
          /\ Cand[c].matter \in Matters \cup {NoMatter}
          /\ Cand[c].due \in BOOLEAN
          /\ Cand[c].conf \in {"low", "moderate", "high"}
          /\ \A b \in Candidates : Cand[b].print = Cand[c].print =>
                (Cand[b].matter = NoMatter <=> Cand[c].matter = NoMatter)
ASSUME LockAssumption ==
    /\ NoMatter \notin Matters /\ NoId \notin LockIds
    /\ MaxRetries \in Nat \ {0} /\ Overrunners \subseteq Candidates
ASSUME BoundAssumption ==
    /\ MaxTries \in Nat \ {0}
    /\ MaxStalls \in Nat
    /\ MaxEdits \in Nat
    /\ NoTask \notin Nat

VARIABLES
    lockKey, phase, attempt, lockId,   \* the matter lock
    job,        \* job[c]: BullMQ state of the job, and how its section ended
    tries,      \* tries[c]: failed attempts
    stalls,     \* stalls[c]: re-queues after a worker's death
    todo,       \* todo[c]: the queries the running section has still to make
    plan,       \* plan[c]: its verdict, the selected task, whether to fill it
    tasks,      \* canonical_tasks, in insertion order
    links,      \* task_evidence_links: <<task, evidence>>, UNIQUE
    decisions,  \* merge_decisions
    reviews,    \* candidates with an ambiguous_dedup review item
    evState,    \* processing_state of each evidence event
    assignQ,    \* jobIds ever added to assignment.assign
    edits       \* human edits so far

lockVars == <<lockKey, phase, attempt, lockId>>
queueVars == <<job, tries, stalls>>
db == <<tasks, links, decisions, reviews, evState, assignQ, edits>>
vars == <<lockVars, queueVars, todo, plan, db>>

Lock == INSTANCE MatterLock WITH
            Jobs <- Candidates, MatterOf <- [c \in Candidates |-> Cand[c].matter]

Evidence == {Cand[c].evidence : c \in Candidates}
Kinds    == {"discard", "merge", "enrich", "create", "followup", "review"}
NoPlan   == [kind |-> "none", task |-> NoTask, fill |-> FALSE]
TaskIds  == DOMAIN tasks

TypeOK ==
    /\ Lock!TypeOK
    /\ job \in [Candidates -> {"wait", "active", "decided", "threw", "done", "failed"}]
    /\ tries \in [Candidates -> 0..MaxTries]
    /\ stalls \in [Candidates -> 0..MaxStalls]
    /\ todo \in [Candidates -> Seq({"exact", "similar", "read", "fill", "insert", "link",
                                    "count", "decide", "review", "evidence"})]
    /\ plan \in [Candidates -> [kind : Kinds \cup {"none"}, task : TaskIds \cup {NoTask},
                                fill : BOOLEAN]]
    /\ tasks \in Seq([matter : Matters \cup {NoMatter}, print : {Cand[c].print : c \in Candidates},
                      open : BOOLEAN, human : BOOLEAN, due : {"none", "pipeline", "human"},
                      count : Nat])
    /\ links \subseteq TaskIds \X Evidence
    /\ decisions \subseteq [cand : Candidates, outcome : Kinds, task : TaskIds \cup {NoTask}]
    /\ reviews \subseteq Candidates
    /\ evState \in [Evidence -> {"resolved", "decided", "failed"}]
    /\ assignQ \subseteq TaskIds \X Evidence
    /\ edits \in 0..MaxEdits

Init ==
    /\ Lock!Init
    /\ job    = [c \in Candidates |-> "wait"]
    /\ tries  = [c \in Candidates |-> 0]
    /\ stalls = [c \in Candidates |-> 0]
    /\ todo   = [c \in Candidates |-> <<>>]
    /\ plan   = [c \in Candidates |-> NoPlan]
    /\ tasks  = <<>>
    /\ links = {} /\ decisions = {} /\ reviews = {} /\ assignQ = {}
    /\ evState = [e \in Evidence |-> "resolved"]
    /\ edits = 0

-----------------------------------------------------------------------------
(* Bugs that the stage must not have; only the mutants use them *)

\* The service runs the section without withMatterLock.
StartUnlocked(c) ==
    /\ job[c] = "wait" /\ phase[c] = "idle"
    /\ phase' = [phase EXCEPT ![c] = "inside"]
    /\ job'   = [job EXCEPT ![c] = "active"]
    /\ todo'  = [todo EXCEPT ![c] = <<"exact">>]
    /\ UNCHANGED <<lockKey, attempt, lockId, tries, stalls, plan, db>>

\* The release deletes the key of the matter, whoever has it.
UnlockAny(c) ==
    /\ Lock!ReleaseAny(c)
    /\ UNCHANGED <<queueVars, todo, plan, db>>

\* Only a created task is queued for assignment.
EnqueueCreated(c) ==
    /\ job[c] = "decided" /\ phase[c] = "idle"
    /\ job' = [job EXCEPT ![c] = "done"]
    /\ assignQ' = IF plan[c].kind \in {"create", "followup"}
                  THEN assignQ \cup {<<plan[c].task, Cand[c].evidence>>}
                  ELSE assignQ
    /\ UNCHANGED <<lockVars, tries, stalls, todo, plan, tasks, links, decisions,
                   reviews, evState, edits>>

\* Attempts are not counted.
RetryForever(c) ==
    /\ job[c] = "threw" /\ phase[c] = "idle"
    /\ job' = [job EXCEPT ![c] = "wait"]
    /\ UNCHANGED <<lockVars, tries, stalls, todo, plan, db>>

\* A job that runs again is taken to have counted already.
IncrementOnFirstTry(c) ==
    /\ phase[c] = "inside" /\ todo[c] # <<>> /\ Head(todo[c]) = "count"
    /\ tasks' = IF tries[c] + stalls[c] = 0
                THEN [tasks EXCEPT ![plan[c].task].count = @ + 1] ELSE tasks
    /\ todo' = [todo EXCEPT ![c] = Tail(@)]
    /\ UNCHANGED <<lockVars, queueVars, plan, links, decisions, reviews, evState, assignQ, edits>>

\* At most one decision per candidate, the first one.
InsertDecisionOnce(c) ==
    /\ phase[c] = "inside" /\ todo[c] # <<>> /\ Head(todo[c]) = "decide"
    /\ decisions' = IF \E d \in decisions : d.cand = c THEN decisions
                    ELSE decisions \cup {[cand |-> c, outcome |-> plan[c].kind,
                                          task |-> plan[c].task]}
    /\ todo' = [todo EXCEPT ![c] = Tail(@)]
    /\ UNCHANGED <<lockVars, queueVars, plan, tasks, links, reviews, evState, assignQ, edits>>

-----------------------------------------------------------------------------
(* The job around the section *)

\* What a job knew is gone when it throws or its worker dies.
Forget(c) == /\ todo' = [todo EXCEPT ![c] = <<>>]
             /\ plan' = [plan EXCEPT ![c] = NoPlan]

Start(c) ==
    /\ job[c] = "wait"
    /\ Lock!Enter(c)
    /\ job'  = [job EXCEPT ![c] = "active"]
    /\ todo' = [todo EXCEPT ![c] = <<"exact">>]
    /\ UNCHANGED <<tries, stalls, plan, db>>

AwaitLock(c) ==
    /\ Lock!Acquire(c) \/ Lock!Retry(c)
    /\ UNCHANGED <<queueVars, todo, plan, db>>

LockTimeout(c) ==
    /\ Lock!GiveUp(c)
    /\ job' = [job EXCEPT ![c] = "threw"]
    /\ Forget(c)
    /\ UNCHANGED <<tries, stalls, db>>

Unlock(c) ==
    /\ Lock!Release(c)
    /\ UNCHANGED <<queueVars, todo, plan, db>>

\* The worker, back from the service, queues the assignment.  Adding a jobId
\* the queue already has changes nothing.
Enqueue(c) ==
    /\ job[c] = "decided" /\ phase[c] = "idle"
    /\ job' = [job EXCEPT ![c] = "done"]
    /\ assignQ' = IF plan[c].kind \in {"merge", "create", "followup"}
                  THEN assignQ \cup {<<plan[c].task, Cand[c].evidence>>}
                  ELSE assignQ
    /\ UNCHANGED <<lockVars, tries, stalls, todo, plan, tasks, links, decisions,
                   reviews, evState, edits>>

\* A job that threw is tried again until its attempts are used up.
RetryJob(c) ==
    /\ job[c] = "threw" /\ phase[c] = "idle"
    /\ tries' = [tries EXCEPT ![c] = @ + 1]
    /\ job'   = [job EXCEPT ![c] = IF tries'[c] < MaxTries THEN "wait" ELSE "failed"]
    /\ UNCHANGED <<lockVars, stalls, todo, plan, db>>

\* The worker dies; BullMQ finds the job stalled.
Kill(c) ==
    /\ job[c] \in {"active", "decided", "threw"}
    /\ IF phase[c] = "idle" THEN UNCHANGED lockVars ELSE Lock!Crash(c)
    /\ job' = [job EXCEPT ![c] = IF stalls[c] < MaxStalls THEN "wait" ELSE "failed"]
    /\ stalls' = [stalls EXCEPT ![c] = IF @ < MaxStalls THEN @ + 1 ELSE @]
    /\ Forget(c)
    /\ UNCHANGED <<tries, db>>

\* Redis drops an expired lock key.
ExpireKey(m) ==
    /\ Lock!Expire(m)
    /\ UNCHANGED <<queueVars, todo, plan, db>>

-----------------------------------------------------------------------------
(* The verdict *)

At(c, query) == phase[c] = "inside" /\ todo[c] # <<>> /\ Head(todo[c]) = query

\* What the section does for each verdict, in the order of its awaits.
QueriesOf(kind) ==
    CASE kind = "discard" -> <<"decide", "evidence">>
      [] kind = "merge"   -> <<"link", "count", "decide", "evidence">>
      [] kind = "enrich"  -> <<"read", "fill", "link", "count", "decide", "evidence">>
      [] kind = "review"  -> <<"decide", "review", "evidence">>
      [] kind \in {"create", "followup"} -> <<"insert", "link", "decide", "evidence">>

Plan(c, kind, t) ==
    /\ plan' = [plan EXCEPT ![c] = [kind |-> kind, task |-> t, fill |-> FALSE]]
    /\ todo' = [todo EXCEPT ![c] = QueriesOf(kind)]

\* A match is merged into, unless it is terminal: then follow-up (D3).
MergeOrFollowUp(c, t) == Plan(c, IF tasks[t].open THEN "merge" ELSE "followup", t)

\* findByFingerprint: any row with the fingerprint, LIMIT 1 without an order.
SameFingerprint(c) == {t \in TaskIds : tasks[t].print = Cand[c].print}

\* findSimilarByEmbedding: within the matter, or anywhere without one.
Comparable(c) ==
    {t \in TaskIds : Cand[c].matter = NoMatter \/ tasks[t].matter = Cand[c].matter}

\* The discard check, then tier 1.
FindExact(c) ==
    /\ At(c, "exact")
    /\ \/ Cand[c].conf = "low" /\ Plan(c, "discard", NoTask)
       \/ /\ Cand[c].conf # "low"
          /\ \E t \in SameFingerprint(c) : MergeOrFollowUp(c, t)
       \/ /\ Cand[c].conf # "low"
          /\ SameFingerprint(c) = {}
          /\ todo' = [todo EXCEPT ![c] = <<"similar">>]
          /\ UNCHANGED plan
    /\ UNCHANGED <<lockVars, queueVars, db>>

\* Tiers 2 and 3.  The verdict rests on the statuses read here, however much
\* later the adjudicator answers.
FindSimilar(c) ==
    /\ At(c, "similar")
    /\ \/ Plan(c, "create", NoTask)
       \/ \E t \in Comparable(c) : \/ MergeOrFollowUp(c, t)
                                   \/ Plan(c, "enrich", t)
                                   \/ Plan(c, "followup", t)
       \/ Comparable(c) # {} /\ Plan(c, "review", NoTask)
    /\ UNCHANGED <<lockVars, queueVars, db>>

-----------------------------------------------------------------------------
(* The queries of a section.  Only the last one ends it. *)

Advance(c) == todo' = [todo EXCEPT ![c] = Tail(@)]

Offered(c) == IF Cand[c].due THEN "pipeline" ELSE "none"

InsertTask(c) ==
    /\ At(c, "insert")
    /\ tasks' = Append(tasks, [matter |-> Cand[c].matter, print |-> Cand[c].print,
                               open |-> TRUE, human |-> FALSE, due |-> Offered(c), count |-> 0])
    /\ plan' = [plan EXCEPT ![c].task = Len(tasks) + 1]
    /\ Advance(c)
    /\ UNCHANGED <<lockVars, queueVars, links, decisions, reviews, evState, assignQ, edits>>

\* enrichTask reads the row; enrichTaskInner works out from it, and from the
\* D11 gate, whether the sensitive field will be filled.
ReadForEnrich(c) ==
    /\ At(c, "read")
    /\ LET row == tasks[plan[c].task]
       IN  plan' = [plan EXCEPT ![c].fill = /\ row.due = "none" /\ ~row.human
                                            /\ Cand[c].due /\ Cand[c].conf = "high"]
    /\ Advance(c)
    /\ UNCHANGED <<lockVars, queueVars, db>>

FillFields(c) ==
    /\ At(c, "fill")
    /\ tasks' = IF plan[c].fill
                THEN [tasks EXCEPT ![plan[c].task].due = "pipeline"] ELSE tasks
    /\ Advance(c)
    /\ UNCHANGED <<lockVars, queueVars, plan, links, decisions, reviews, evState, assignQ, edits>>

\* INSERT ... ON CONFLICT DO UPDATE.
AddLink(c) ==
    /\ At(c, "link")
    /\ links' = links \cup {<<plan[c].task, Cand[c].evidence>>}
    /\ Advance(c)
    /\ UNCHANGED <<lockVars, queueVars, plan, tasks, decisions, reviews, evState, assignQ, edits>>

IncrementCount(c) ==
    /\ At(c, "count")
    /\ tasks' = [tasks EXCEPT ![plan[c].task].count = @ + 1]
    /\ Advance(c)
    /\ UNCHANGED <<lockVars, queueVars, plan, links, decisions, reviews, evState, assignQ, edits>>

InsertDecision(c) ==
    /\ At(c, "decide")
    /\ decisions' = decisions \cup {[cand |-> c, outcome |-> plan[c].kind, task |-> plan[c].task]}
    /\ Advance(c)
    /\ UNCHANGED <<lockVars, queueVars, plan, tasks, links, reviews, evState, assignQ, edits>>

CreateReview(c) ==
    /\ At(c, "review")
    /\ reviews' = reviews \cup {c}
    /\ Advance(c)
    /\ UNCHANGED <<lockVars, queueVars, plan, tasks, links, decisions, evState, assignQ, edits>>

\* updateState, after which the section returns.
SetEvidence(c) ==
    /\ At(c, "evidence")
    /\ Lock!Finish(c)
    /\ evState' = [evState EXCEPT ![Cand[c].evidence] =
                     IF plan[c].kind = "review" THEN "failed" ELSE "decided"]
    /\ job' = [job EXCEPT ![c] = "decided"]
    /\ Advance(c)
    /\ UNCHANGED <<tries, stalls, plan, tasks, links, decisions, reviews, assignQ, edits>>

\* A query, the embedding or the adjudicator call throws.
Throw(c) ==
    /\ Lock!Finish(c)
    /\ job' = [job EXCEPT ![c] = "threw"]
    /\ Forget(c)
    /\ UNCHANGED <<tries, stalls, db>>

-----------------------------------------------------------------------------
(* PATCH /tasks/:id, by a person *)

Patch(t, row) ==
    /\ edits < MaxEdits
    /\ edits' = edits + 1
    /\ tasks' = [tasks EXCEPT ![t] = [row EXCEPT !.human = TRUE]]
    /\ UNCHANGED <<lockVars, queueVars, todo, plan, links, decisions, reviews, evState, assignQ>>

HumanSetStatus(t, open) == Patch(t, [tasks[t] EXCEPT !.open = open])
HumanSetDue(t)          == Patch(t, [tasks[t] EXCEPT !.due = "human"])

-----------------------------------------------------------------------------

Work(c) ==
    \/ AwaitLock(c) \/ LockTimeout(c) \/ Unlock(c) \/ Enqueue(c) \/ RetryJob(c)
    \/ FindExact(c) \/ FindSimilar(c) \/ InsertTask(c) \/ ReadForEnrich(c) \/ FillFields(c)
    \/ AddLink(c) \/ IncrementCount(c) \/ InsertDecision(c) \/ CreateReview(c) \/ SetEvidence(c)

Next ==
    \/ \E c \in Candidates : Start(c) \/ Work(c) \/ Throw(c) \/ Kill(c)
    \/ \E m \in Matters : ExpireKey(m)
    \/ \E t \in TaskIds : HumanSetDue(t) \/ \E open \in BOOLEAN : HumanSetStatus(t, open)

Spec == Init /\ [][Next]_vars

\* The workers keep taking jobs and executing them; Redis honours EX.
Fairness == /\ \A c \in Candidates : WF_vars(Start(c) \/ Work(c))
            /\ \A m \in Matters : WF_vars(ExpireKey(m))

FairSpec == Spec /\ Fairness

-----------------------------------------------------------------------------
(* Properties *)

\* The stage uses the lock as MatterLock says, so what holds of the lock holds
\* here, and nothing but the protocol touches lock:matter:<id>.
LockSpec == Lock!Spec

\* Fingerprints that agree come from rows that write the matter in one way.
OneSpelling == \A b, c \in Candidates :
                  Cand[b].print = Cand[c].print => Cand[b].matter = Cand[c].matter

\* "No dedup match found" is true when the row is inserted, not only when the
\* lookup ran: in a known matter no other job slips a task with the same
\* fingerprint in between, as long as sections fit their TTL and the matter is
\* always written in the same way.
CreatedOnlyIfAbsent ==
    [][\A c \in Candidates :
         (/\ InsertTask(c) /\ plan[c].kind = "create" /\ Cand[c].matter # NoMatter
          /\ Overrunners = {} /\ OneSpelling) => SameFingerprint(c) = {}]_vars

\* A job that completed left all that its verdict calls for, whatever was
\* retried on the way: its merge decision, the evidence on the selected task,
\* the processed evidence event, and the review item or the assignment job.
DoneIsRecorded ==
    \A c \in Candidates : job[c] = "done" =>
        LET p == plan[c]
            e == Cand[c].evidence
        IN  /\ [cand |-> c, outcome |-> p.kind, task |-> p.task] \in decisions
            /\ evState[e] # "resolved"
            /\ p.task # NoTask => <<p.task, e>> \in links
            /\ p.kind = "review" => c \in reviews
            /\ p.kind \in {"merge", "create", "followup"} => <<p.task, e>> \in assignQ

\* No task is lost between its insertion and the assignment stage: when all
\* jobs completed, every task of a known matter was queued for assignment, also
\* the ones an attempt that died left behind: the next attempt finds them by
\* their fingerprint.  (A person who completes such a task in between makes the
\* next attempt create a follow-up of it instead, hence the condition on edits.)
NoTaskUnassigned ==
    (Overrunners = {} /\ OneSpelling /\ edits = 0 /\ \A c \in Candidates : job[c] = "done") =>
        \A t \in TaskIds : tasks[t].matter # NoMatter => \E e \in Evidence : <<t, e>> \in assignQ

\* Reports of one and the same work: only fingerprints decide.
OneWork == \A b, c \in Candidates : /\ Cand[b].print = Cand[c].print
                                    /\ Cand[b].matter = Cand[c].matter
                                    /\ Cand[c].matter # NoMatter

\* For such reports open_evidence_count never falls behind the links (the link
\* a task is created with is not counted), whatever attempt died between the
\* two queries: the retry reaches the same verdict and counts again.
CountCoversLinks ==
    (OneWork /\ Overrunners = {} /\ edits = 0 /\ \A c \in Candidates : job[c] = "done") =>
        \A t \in TaskIds :
            tasks[t].count >= Cardinality({l \in links : l[1] = t}) - 1

\* Every dedup job is completed or failed in the end: neither a dead lock
\* holder nor a busy matter keeps one running for ever.
JobsSettle == \A c \in Candidates : <>[](job[c] \in {"done", "failed"})

\* "If a human has edited the task, sensitive fields are not overwritten."
HumanEditKept ==
    [][\A t \in TaskIds : tasks[t].due = "human" => tasks'[t].due = "human"]_vars
=============================================================================
