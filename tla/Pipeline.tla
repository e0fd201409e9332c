------------------------------- MODULE Pipeline -------------------------------
(***************************************************************************)
(* An evidence event on its way through the BullMQ queues: evidence.ingest,*)
(* extraction.extract, normalization.normalize, identity.resolve and one   *)
(* dedup.check per candidate (DedupRegistry models what that one decides). *)
(*                                                                         *)
(* A worker reads processing_state, skips the job if it is not the one the *)
(* stage starts from, does the stage's work, writes the next state and     *)
(* adds the job of the next stage, each with an await of its own.  Jobs    *)
(* have deterministic ids and BullMQ ignores an add whose id it still      *)
(* keeps (finished jobs are kept: removeOnComplete 1000, removeOnFail      *)
(* 5000).  Operators replay evidence and retry failed jobs.                *)
(***************************************************************************)
EXTENDS Integers, FiniteSets

CONSTANTS
    Evidence,       \* evidence events
    MaxCands,       \* bound on the candidates extracted from one event
    MaxTries,       \* attempts of a job (defaultJobOptions: 3)
    MaxOps,         \* bound on the operators' replays and retries
    LateFailures    \* may a handler fail after its state write

ASSUME BoundAssumption ==
    /\ MaxCands \in Nat \ {0}
    /\ MaxTries \in Nat \ {0}
    /\ MaxOps \in Nat
ASSUME LateAssumption == LateFailures \in BOOLEAN

Linear == {"ingest", "extract", "normalize", "resolve"}
Runs   == 0..MaxOps      \* 0: the id the pipeline gives; r > 0: of the r-th replay

\* A job, named as its jobId names it: extract-<ev>, replay-dedup-<ev>-<ts>-<idx>...
Jobs == [ev : Evidence, stage : Linear, idx : {0}, run : Runs]
          \cup [ev : Evidence, stage : {"dedup"}, idx : 1..MaxCands, run : Runs]

VARIABLES
    state,     \* processing_state of each event, "none" before it is submitted
    cleaned,   \* events with cleaned_text
    spans,     \* events with rows in action_spans
    cands,     \* number of rows in candidate_tasks, counted up to MaxCands
    calls,     \* API handlers between their two writes: <<event, run>>
    queue,     \* queue[j]: what BullMQ knows of job j
    tries,     \* tries[j]: failed attempts
    pc,        \* pc[j]: the next step of the worker that has job j
    items,     \* items[j]: ids in the job's data; then those the work returned
    sent,      \* sent[j]: jobs of the next stage added so far
    ops        \* replays and retries by operators so far

evidenceVars == <<state, cleaned, spans, cands>>
vars == <<evidenceVars, calls, queue, tries, pc, items, sent, ops>>

States == {"received", "extracted", "normalized", "resolved", "decided", "failed"}

TypeOK ==
    /\ state \in [Evidence -> States \cup {"none"}]
    /\ cleaned \subseteq Evidence
    /\ spans \subseteq Evidence
    /\ cands \in [Evidence -> 0..MaxCands]
    /\ calls \subseteq Evidence \X Runs
    /\ queue \in [Jobs -> {"absent", "wait", "active", "done", "failed"}]
    /\ tries \in [Jobs -> 0..MaxTries]
    /\ pc \in [Jobs -> {"none", "guard", "work", "state", "enqueue"}]
    /\ items \in [Jobs -> 0..MaxCands]
    /\ sent \in [Jobs -> 0..MaxCands]
    /\ ops \in 0..MaxOps

Init ==
    /\ state = [e \in Evidence |-> "none"]
    /\ cleaned = {} /\ spans = {} /\ calls = {}
    /\ cands = [e \in Evidence |-> 0]
    /\ queue = [j \in Jobs |-> "absent"]
    /\ tries = [j \in Jobs |-> 0]
    /\ pc    = [j \in Jobs |-> "none"]
    /\ items = [j \in Jobs |-> 0]
    /\ sent  = [j \in Jobs |-> 0]
    /\ ops = 0

-----------------------------------------------------------------------------
(* The stages *)

\* The state a stage starts from, and the one its service writes.
Before(stage) == CASE stage \in {"ingest", "extract"} -> "received"
                   [] stage = "normalize" -> "extracted"
                   [] stage = "resolve"   -> "normalized"

After(stage) == CASE stage = "extract"   -> "extracted"
                  [] stage = "normalize" -> "normalized"
                  [] stage = "resolve"   -> "resolved"

Job(e, stage, idx, run) == [ev |-> e, stage |-> stage, idx |-> idx, run |-> run]

\* The k-th job a stage adds for the next one.
NextJob(j, k) == CASE j.stage = "ingest"    -> Job(j.ev, "extract", 0, 0)
                   [] j.stage = "extract"   -> Job(j.ev, "normalize", 0, 0)
                   [] j.stage = "normalize" -> Job(j.ev, "resolve", 0, 0)
                   [] j.stage = "resolve"   -> Job(j.ev, "dedup", k, 0)

\* Only resolve adds a job per item; the others hand all items to one job.
JobsToSend(j) == IF j.stage = "resolve" THEN items[j] ELSE IF items[j] = 0 THEN 0 ELSE 1

\* Queue.add of jobs with n items: ids that the queue already has are ignored.
Add(js, n) ==
    LET new == {j \in js : queue[j] = "absent"}
    IN  /\ queue' = [j \in Jobs |-> IF j \in new THEN "wait" ELSE queue[j]]
        /\ items' = [j \in Jobs |-> IF j \in new THEN n ELSE items[j]]

-----------------------------------------------------------------------------
(* Bugs that the pipeline must not have; only the mutants use them *)

\* The next stage is queued without awaiting the state write.
SendEarly(j) ==
    /\ pc[j] \in {"state", "enqueue"} /\ j.stage # "dedup" /\ sent[j] < JobsToSend(j)
    /\ sent' = [sent EXCEPT ![j] = @ + 1]
    /\ Add({NextJob(j, sent[j] + 1)}, IF j.stage = "resolve" THEN 1 ELSE items[j])
    /\ UNCHANGED <<evidenceVars, calls, tries, pc, ops>>

\* The worker forgets the evidence in which no spans were found.
ReturnSilently(j) ==
    /\ pc[j] = "enqueue" /\ sent[j] = JobsToSend(j)
    /\ sent'  = [sent EXCEPT ![j] = 0]
    /\ queue' = [queue EXCEPT ![j] = "done"]
    /\ pc'    = [pc EXCEPT ![j] = "none"]
    /\ UNCHANGED <<evidenceVars, calls, tries, items, ops>>

\* Attempts are counted beyond their number, or not at all.
FailCounting(j) ==
    /\ queue[j] = "active"
    /\ LateFailures \/ pc[j] # "enqueue" \/ j.stage = "ingest"
    /\ tries' = [tries EXCEPT ![j] = @ + 1]
    /\ queue' = [queue EXCEPT ![j] = IF tries[j] + 1 < MaxTries THEN "wait" ELSE "failed"]
    /\ pc'    = [pc EXCEPT ![j] = "none"]
    /\ sent'  = [sent EXCEPT ![j] = 0]
    /\ UNCHANGED <<evidenceVars, calls, items, ops>>

FailForever(j) ==
    /\ queue[j] = "active"
    /\ queue' = [queue EXCEPT ![j] = "wait"]
    /\ pc'    = [pc EXCEPT ![j] = "none"]
    /\ sent'  = [sent EXCEPT ![j] = 0]
    /\ UNCHANGED <<evidenceVars, calls, tries, items, ops>>

\* A stage is replayed without looking for the rows it needs.
ReplayUnchecked(e, stage) ==
    /\ state[e] # "none" /\ ops < MaxOps
    /\ ops' = ops + 1
    /\ IF stage = "dedup"
       THEN Add({Job(e, stage, i, ops + 1) : i \in 1..cands[e]}, 1)
       ELSE Add({Job(e, stage, 0, ops + 1)}, IF stage = "resolve" THEN cands[e] ELSE 1)
    /\ UNCHANGED <<evidenceVars, calls, tries, pc, sent>>

-----------------------------------------------------------------------------
(* Submission *)

\* EvidenceService.ingest: the insert, where a known idempotency key ends it.
Submit(e) ==
    /\ state[e] = "none"
    /\ state' = [state EXCEPT ![e] = "received"]
    /\ calls' = calls \cup {<<e, 0>>}
    /\ UNCHANGED <<cleaned, spans, cands, queue, tries, pc, items, sent, ops>>

\* ... and the enqueue.  A replay from the start ends in the same way.
EnqueueCall(e, run) ==
    /\ <<e, run>> \in calls
    /\ calls' = calls \ {<<e, run>>}
    /\ Add({Job(e, "ingest", 0, run)}, 1)
    /\ UNCHANGED <<evidenceVars, tries, pc, sent, ops>>

\* The API server dies, or Redis refuses the add.
LoseCall(e, run) ==
    /\ LateFailures
    /\ <<e, run>> \in calls
    /\ calls' = calls \ {<<e, run>>}
    /\ UNCHANGED <<evidenceVars, queue, tries, pc, items, sent, ops>>

-----------------------------------------------------------------------------
(* The worker *)

Take(j) ==
    /\ queue[j] = "wait"
    /\ queue' = [queue EXCEPT ![j] = "active"]
    /\ pc'    = [pc EXCEPT ![j] = IF j.stage = "dedup" THEN "state" ELSE "guard"]
    /\ UNCHANGED <<evidenceVars, calls, tries, items, sent, ops>>

Complete(j) == /\ queue' = [queue EXCEPT ![j] = "done"]
               /\ pc'    = [pc EXCEPT ![j] = "none"]

\* Idempotency guard: skip if the event is not where this stage starts.
Guard(j) ==
    /\ pc[j] = "guard"
    /\ IF state[j.ev] = Before(j.stage)
       THEN pc' = [pc EXCEPT ![j] = "work"] /\ UNCHANGED queue
       ELSE Complete(j)
    /\ UNCHANGED <<evidenceVars, calls, tries, items, sent, ops>>

WorkDone(j, step, n) == /\ pc'    = [pc EXCEPT ![j] = step]
                        /\ items' = [items EXCEPT ![j] = n]

\* cleanEvidence, unless an earlier attempt did it.
Clean(j) ==
    /\ pc[j] = "work" /\ j.stage = "ingest"
    /\ cleaned' = cleaned \cup {j.ev}
    /\ WorkDone(j, "enqueue", 1)
    /\ UNCHANGED <<state, spans, cands, calls, queue, tries, sent, ops>>

\* The spans that Claude finds are inserted; there may be none.
Extract(j) ==
    /\ pc[j] = "work" /\ j.stage = "extract"
    /\ \E n \in 0..1 :
         /\ WorkDone(j, "state", n)
         /\ spans' = IF n = 0 THEN spans ELSE spans \cup {j.ev}
    /\ UNCHANGED <<state, cleaned, cands, calls, queue, tries, sent, ops>>

\* So are the candidates, next to those of an attempt that failed.
Normalize(j) ==
    /\ pc[j] = "work" /\ j.stage = "normalize"
    /\ \E n \in 0..MaxCands :
         /\ WorkDone(j, "state", n)
         /\ cands' = [cands EXCEPT ![j.ev] = IF @ + n > MaxCands THEN MaxCands ELSE @ + n]
    /\ UNCHANGED <<state, cleaned, spans, calls, queue, tries, sent, ops>>

\* Matters and assignees are looked up for the candidates in the job's data.
Resolve(j) ==
    /\ pc[j] = "work" /\ j.stage = "resolve"
    /\ WorkDone(j, "state", items[j])
    /\ UNCHANGED <<evidenceVars, calls, queue, tries, sent, ops>>

\* The service's updateState.
WriteState(j) ==
    /\ pc[j] = "state" /\ j.stage # "dedup"
    /\ state' = [state EXCEPT ![j.ev] = After(j.stage)]
    /\ pc'    = [pc EXCEPT ![j] = "enqueue"]
    /\ UNCHANGED <<cleaned, spans, cands, calls, queue, tries, items, sent, ops>>

\* The dedup job: decided, or failed when a person has to review it.
Decide(j) ==
    /\ pc[j] = "state" /\ j.stage = "dedup"
    /\ \E s \in {"decided", "failed"} : state' = [state EXCEPT ![j.ev] = s]
    /\ Complete(j)
    /\ UNCHANGED <<cleaned, spans, cands, calls, tries, items, sent, ops>>

\* Add the (next) job of the next stage.
Send(j) ==
    /\ pc[j] = "enqueue" /\ sent[j] < JobsToSend(j)
    /\ sent' = [sent EXCEPT ![j] = @ + 1]
    /\ Add({NextJob(j, sent[j] + 1)}, IF j.stage = "resolve" THEN 1 ELSE items[j])
    /\ UNCHANGED <<evidenceVars, calls, tries, pc, ops>>

\* The handler returns; without spans the pipeline ends here.
Return(j) ==
    /\ pc[j] = "enqueue" /\ sent[j] = JobsToSend(j)
    /\ state' = IF j.stage = "extract" /\ items[j] = 0
                THEN [state EXCEPT ![j.ev] = "decided"] ELSE state
    /\ sent' = [sent EXCEPT ![j] = 0]
    /\ Complete(j)
    /\ UNCHANGED <<cleaned, spans, cands, calls, tries, items, ops>>

\* The handler throws or its worker dies: the job starts again from the guard
\* until its attempts are used up.
Fail(j) ==
    /\ queue[j] = "active"
    /\ LateFailures \/ pc[j] # "enqueue" \/ j.stage = "ingest"
    /\ tries' = [tries EXCEPT ![j] = IF @ < MaxTries THEN @ + 1 ELSE @]
    /\ queue' = [queue EXCEPT ![j] = IF tries[j] + 1 < MaxTries THEN "wait" ELSE "failed"]
    /\ pc'    = [pc EXCEPT ![j] = "none"]
    /\ sent'  = [sent EXCEPT ![j] = 0]
    /\ UNCHANGED <<evidenceVars, calls, items, ops>>

-----------------------------------------------------------------------------
(* Operators *)

\* replayFromStart: the state is reset, then the job is added (EnqueueCall).
ReplayFromStart(e) ==
    /\ state[e] # "none" /\ ops < MaxOps
    /\ ops' = ops + 1
    /\ state' = [state EXCEPT ![e] = "received"]
    /\ calls' = calls \cup {<<e, ops + 1>>}
    /\ UNCHANGED <<cleaned, spans, cands, queue, tries, pc, items, sent>>

\* replayFromStage leaves the state alone; it needs the rows of the stage before.
ReplayFromStage(e, stage) ==
    /\ state[e] # "none" /\ ops < MaxOps
    /\ stage = "normalize" => e \in spans
    /\ stage \in {"resolve", "dedup"} => cands[e] > 0
    /\ ops' = ops + 1
    /\ IF stage = "dedup"
       THEN Add({Job(e, stage, i, ops + 1) : i \in 1..cands[e]}, 1)
       ELSE Add({Job(e, stage, 0, ops + 1)}, IF stage = "resolve" THEN cands[e] ELSE 1)
    /\ UNCHANGED <<evidenceVars, calls, tries, pc, sent>>

\* retry-failed: job.retry() puts a failed job back, for one more attempt.
RetryFailed(j) ==
    /\ queue[j] = "failed" /\ ops < MaxOps
    /\ ops' = ops + 1
    /\ queue' = [queue EXCEPT ![j] = "wait"]
    /\ UNCHANGED <<evidenceVars, calls, tries, pc, items, sent>>

-----------------------------------------------------------------------------

Step(j) == \/ Take(j) \/ Guard(j) \/ Clean(j) \/ Extract(j) \/ Normalize(j)
           \/ Resolve(j) \/ WriteState(j) \/ Decide(j) \/ Send(j) \/ Return(j)

Next ==
    \/ \E e \in Evidence :
         \/ Submit(e)
         \/ \E run \in Runs : EnqueueCall(e, run) \/ LoseCall(e, run)
         \/ ReplayFromStart(e)
         \/ \E stage \in Linear \cup {"dedup"} : ReplayFromStage(e, stage)
    \/ \E j \in Jobs : Step(j) \/ Fail(j) \/ RetryFailed(j)

Spec == Init /\ [][Next]_vars

\* Workers take and execute jobs, an API handler goes on to its next await.
Fairness ==
    /\ \A j \in Jobs : WF_vars(Step(j))
    /\ \A e \in Evidence, run \in Runs : WF_vars(EnqueueCall(e, run))

FairSpec == Spec /\ Fairness

-----------------------------------------------------------------------------
(* Properties *)

Rank(s) == CASE s = "none" -> 0 [] s = "received" -> 1 [] s = "extracted" -> 2
             [] s = "normalized" -> 3 [] s = "resolved" -> 4 [] OTHER -> 5

\* Nothing of the event is waiting, running or about to be queued.
Quiet(e) == /\ \A run \in Runs : <<e, run>> \notin calls
            /\ \A j \in Jobs : j.ev = e => queue[j] \notin {"wait", "active"}

\* The jobs that stage of j is there to add were added (or it had none to add).
HandedOver(j) ==
    IF j.stage = "extract" /\ state[j.ev] = "decided" THEN TRUE
    ELSE \A k \in 1..(IF j.stage = "resolve" THEN items[j] ELSE 1) :
            queue[NextJob(j, k)] # "absent"

\* As long as nobody replays, processing_state only moves forward, though the
\* jobs of the next stage run while a handler is still finishing and siblings
\* of one event are decided in any order.
StateAdvances ==
    [][ops' = 0 => \A e \in Evidence : Rank(state'[e]) >= Rank(state[e])]_vars

\* The guard never turns a job away on its first attempt: its event has reached
\* the state the stage starts from before the job can run.
FirstAttemptRuns ==
    \A j \in Jobs :
        (ops = 0 /\ pc[j] = "guard" /\ tries[j] = 0) => state[j.ev] = Before(j.stage)

\* An accepted event is accounted for when its jobs are over: decided, up for
\* review, normalized to no candidates, or visible as a failed job.  Nothing is
\* lost without a trace unless a handler fails after its state write.
NothingLost ==
    (~LateFailures /\ ops = 0) =>
        \A e \in Evidence : (state[e] # "none" /\ Quiet(e)) =>
            \/ state[e] \in {"decided", "failed"}
            \/ state[e] = "normalized" /\ items[Job(e, "normalize", 0, 0)] = 0
            \/ \E j \in Jobs : j.ev = e /\ queue[j] = "failed"

\* Whatever operators replay, an event is not taken to a state for which it has
\* no rows: normalized needs spans, resolved needs candidates.
RowsBehindState ==
    \A e \in Evidence : /\ state[e] \in {"normalized", "resolved"} => e \in spans
                        /\ state[e] = "resolved" => cands[e] > 0

\* All that was ever queued for an event is over in the end.
JobsSettle == \A e \in Evidence : []<>Quiet(e)

\* "Skip if already past [the] stage": a retried job that its guard skips has
\* handed the event over to the next stage.
SkippedIsPast ==
    [][\A j \in Jobs : (ops = 0 /\ tries[j] > 0 /\ Guard(j) /\ queue'[j] = "done")
                          => HandedOver(j)]_vars
=============================================================================
