---------------------------- MODULE PipelineProofs ----------------------------
(***************************************************************************)
(* What holds of the pipeline for any number of events, candidates,        *)
(* attempts and operations: rows are behind every state, whatever          *)
(* operators replay; while nobody does, events only go forward, no first   *)
(* attempt is turned away and, unless a handler fails late, nothing is     *)
(* lost.                                                                   *)
(***************************************************************************)
EXTENDS Pipeline, TLAPS

\* A worker has only jobs that are active, ingest has no state to write, and dedup
\* nothing else.
Steps ==
    \A j \in Jobs : /\ pc[j] # "none" => queue[j] = "active"
                    /\ j.stage = "ingest" => pc[j] # "state"
                    /\ j.stage = "dedup" => pc[j] \in {"none", "state"}

\* A job is there, or about to be added, only if the rows it works on are.
RowsBehindJobs ==
    /\ \A e \in Evidence : cands[e] > 0 => e \in spans
    /\ \A j \in Jobs :
          /\ j.stage = "normalize" /\ queue[j] # "absent" => j.ev \in spans
          /\ j.stage = "resolve" /\ queue[j] # "absent" => cands[j.ev] > 0
          /\ pc[j] \in {"state", "enqueue"} /\ items[j] > 0 =>
                /\ j.stage = "extract" => j.ev \in spans
                /\ j.stage = "normalize" => cands[j.ev] > 0

PipeInv == TypeOK /\ Steps /\ RowsBehindJobs /\ RowsBehindState

\* A job, taken apart.
LEMMA JobShape ==
  ASSUME NEW j \in Jobs
  PROVE  j.ev \in Evidence /\ j.stage \in Linear \cup {"dedup"}
  BY DEF Jobs, Linear

\* Jobs that are added have rows behind them, and leave the others alone.
LEMMA AddTypes ==
  ASSUME TypeOK, NEW js, NEW n \in 0..MaxCands, Add(js, n)
  PROVE  /\ queue' \in [Jobs -> {"absent", "wait", "active", "done", "failed"}]
         /\ items' \in [Jobs -> 0..MaxCands]
         /\ \A j \in Jobs : \/ queue'[j] = queue[j] /\ items'[j] = items[j]
                            \/ j \in js /\ queue[j] = "absent" /\ queue'[j] = "wait"
  BY DEF TypeOK, Add

LEMMA InitTypeOK == Init => TypeOK
  BY BoundAssumption DEF Init, TypeOK, Runs

\* Calls, and what operators do.
LEMMA CallsTypeOK ==
  ASSUME TypeOK, NEW e \in Evidence,
         \/ Submit(e) \/ ReplayFromStart(e)
         \/ \E run \in Runs : EnqueueCall(e, run) \/ LoseCall(e, run)
         \/ \E stage \in Linear \cup {"dedup"} : ReplayFromStage(e, stage)
  PROVE  TypeOK'
  <1>0. MaxOps \in Nat /\ MaxCands \in Nat \ {0} /\ 1 \in 0..MaxCands
    BY BoundAssumption
  <1>1. CASE Submit(e)
    BY <1>0, <1>1 DEF Submit, TypeOK, States, Runs
  <1>2. CASE ReplayFromStart(e)
    BY <1>0, <1>2 DEF ReplayFromStart, TypeOK, States, Runs
  <1>3. ASSUME NEW run \in Runs, EnqueueCall(e, run) PROVE TypeOK'
    BY <1>0, <1>3, AddTypes DEF EnqueueCall, TypeOK, evidenceVars
  <1>4. ASSUME NEW run \in Runs, LoseCall(e, run) PROVE TypeOK'
    BY <1>4 DEF LoseCall, TypeOK, evidenceVars
  <1>5. ASSUME NEW stage \in Linear \cup {"dedup"}, ReplayFromStage(e, stage) PROVE TypeOK'
    <2>1. cands[e] \in 0..MaxCands
      BY DEF TypeOK
    <2>2. \E n \in 0..MaxCands : \E js : Add(js, n)
      BY <1>0, <1>5, <2>1 DEF ReplayFromStage
    <2>3. /\ queue' \in [Jobs -> {"absent", "wait", "active", "done", "failed"}]
          /\ items' \in [Jobs -> 0..MaxCands]
      BY <2>2, AddTypes
    <2>4. ops' \in 0..MaxOps
      BY <1>0, <1>5 DEF ReplayFromStage, TypeOK
    <2> QED
      BY <1>5, <2>3, <2>4 DEF ReplayFromStage, TypeOK, evidenceVars
  <1> QED
    BY <1>1, <1>2, <1>3, <1>4, <1>5

\* The steps of the worker, its failures and retries.
LEMMA WorkerTypeOK ==
  ASSUME TypeOK, Steps, NEW j \in Jobs, Step(j) \/ Fail(j) \/ RetryFailed(j)
  PROVE  TypeOK'
  <1>0. /\ MaxOps \in Nat /\ MaxCands \in Nat \ {0} /\ {0, 1} \subseteq 0..MaxCands
        /\ MaxTries \in Nat \ {0} /\ j.ev \in Evidence
        /\ items[j] \in 0..MaxCands /\ sent[j] \in 0..MaxCands /\ tries[j] \in 0..MaxTries
        /\ ops \in 0..MaxOps /\ cands[j.ev] \in 0..MaxCands
    BY BoundAssumption, JobShape DEF TypeOK
  <1>1. CASE Take(j)
    BY <1>1 DEF Take, TypeOK, evidenceVars
  <1>2. CASE Guard(j)
    BY <1>2 DEF Guard, Complete, TypeOK, evidenceVars
  <1>3. CASE Clean(j)
    BY <1>0, <1>3 DEF Clean, WorkDone, TypeOK
  <1>4. CASE Extract(j)
    <2>1. PICK n \in 0..1 : /\ WorkDone(j, "state", n)
                            /\ spans' = IF n = 0 THEN spans ELSE spans \cup {j.ev}
      BY <1>4 DEF Extract
    <2>2. n \in 0..MaxCands /\ spans' \subseteq Evidence
      BY <1>0, <2>1 DEF TypeOK
    <2> QED
      BY <1>4, <2>1, <2>2 DEF Extract, WorkDone, TypeOK
  <1>5. CASE Normalize(j)
    <2>1. PICK n \in 0..MaxCands :
            /\ WorkDone(j, "state", n)
            /\ cands' = [cands EXCEPT ![j.ev] = IF @ + n > MaxCands THEN MaxCands ELSE @ + n]
      BY <1>5 DEF Normalize
    <2>2. cands' \in [Evidence -> 0..MaxCands]
      BY <1>0, <2>1 DEF TypeOK
    <2> QED
      BY <1>5, <2>1, <2>2 DEF Normalize, WorkDone, TypeOK
  <1>6. CASE Resolve(j)
    BY <1>0, <1>6 DEF Resolve, WorkDone, TypeOK, evidenceVars
  <1>7. CASE WriteState(j)
    <2>1. After(j.stage) \in States
      BY <1>7, JobShape DEF WriteState, Steps, After, States, Linear
    <2> QED
      BY <1>0, <1>7, <2>1 DEF WriteState, TypeOK
  <1>8. CASE Decide(j)
    BY <1>0, <1>8 DEF Decide, Complete, TypeOK, States
  <1>9. CASE Send(j)
    <2>1. sent[j] + 1 \in 0..MaxCands
      BY <1>0, <1>9 DEF Send, JobsToSend
    <2>2. \E n \in 0..MaxCands : \E js : Add(js, n)
      BY <1>0, <1>9 DEF Send
    <2>3. /\ queue' \in [Jobs -> {"absent", "wait", "active", "done", "failed"}]
          /\ items' \in [Jobs -> 0..MaxCands]
      BY <2>2, AddTypes
    <2> QED
      BY <1>9, <2>1, <2>3 DEF Send, TypeOK, evidenceVars
  <1>10. CASE Return(j)
    BY <1>0, <1>10 DEF Return, Complete, TypeOK, States
  <1>11. CASE Fail(j)
    BY <1>0, <1>11 DEF Fail, TypeOK, evidenceVars
  <1>12. CASE RetryFailed(j)
    BY <1>0, <1>12 DEF RetryFailed, TypeOK, evidenceVars
  <1> QED
    BY <1>1, <1>2, <1>3, <1>4, <1>5, <1>6, <1>7, <1>8, <1>9, <1>10, <1>11, <1>12 DEF Step

LEMMA InitPipeInv == Init => PipeInv
  <1> SUFFICES ASSUME Init PROVE PipeInv
    OBVIOUS
  <1>1. Steps /\ RowsBehindJobs /\ RowsBehindState
    BY JobShape DEF Init, Steps, RowsBehindJobs, RowsBehindState
  <1> QED
    BY <1>1, InitTypeOK DEF PipeInv

\* What the parts of the invariant need of a step that adds jobs: rows behind them.
LEMMA AddInv ==
  ASSUME PipeInv, NEW js, NEW n \in 0..MaxCands, Add(js, n), UNCHANGED <<spans, cands, pc>>,
         \A j \in js : /\ j.stage = "normalize" => j.ev \in spans
                       /\ j.stage = "resolve" => cands[j.ev] > 0
  PROVE  Steps' /\ RowsBehindJobs'
  <1>1. \A j \in Jobs : \/ queue'[j] = queue[j] /\ items'[j] = items[j]
                        \/ j \in js /\ queue[j] = "absent" /\ queue'[j] = "wait"
    BY AddTypes DEF PipeInv
  <1>2. \A j \in Jobs : queue[j] = "absent" => pc[j] = "none"
    BY DEF PipeInv, Steps
  <1>3. Steps'
    BY <1>1, <1>2 DEF PipeInv, Steps
  <1>4. RowsBehindJobs'
    BY <1>1, <1>2 DEF PipeInv, RowsBehindJobs
  <1> QED
    BY <1>3, <1>4

\* A job moves on, and so may the rows, which only grow.
LEMMA MoveInv ==
  ASSUME PipeInv, NEW j \in Jobs, spans \subseteq spans',
         \A e \in Evidence : cands'[e] > 0 => cands[e] > 0 \/ e \in spans',
         \A e \in Evidence : cands[e] > 0 => cands'[e] > 0,
         \A o \in Jobs : o # j => pc'[o] = pc[o] /\ queue'[o] = queue[o] /\ items'[o] = items[o],
         pc'[j] # "none" => queue'[j] = "active",
         j.stage = "ingest" => pc'[j] # "state",
         j.stage = "dedup" => pc'[j] \in {"none", "state"},
         queue[j] # "absent",
         pc'[j] \in {"state", "enqueue"} /\ items'[j] > 0 =>
             /\ j.stage = "extract" => j.ev \in spans'
             /\ j.stage = "normalize" => cands'[j.ev] > 0
  PROVE  Steps' /\ RowsBehindJobs'
  <1>1. Steps'
    BY DEF PipeInv, Steps
  <1>2. RowsBehindJobs'
    BY JobShape DEF PipeInv, RowsBehindJobs
  <1> QED
    BY <1>1, <1>2

LEMMA CallsInv ==
  ASSUME PipeInv, NEW e \in Evidence,
         \/ Submit(e) \/ ReplayFromStart(e)
         \/ \E run \in Runs : EnqueueCall(e, run) \/ LoseCall(e, run)
         \/ \E stage \in Linear \cup {"dedup"} : ReplayFromStage(e, stage)
  PROVE  PipeInv'
  <1>1. TypeOK'
    BY CallsTypeOK DEF PipeInv
  <1>2. RowsBehindState'
    <2>1. UNCHANGED <<spans, cands>> /\ (UNCHANGED state \/ state' = [state EXCEPT ![e] = "received"])
      BY DEF Submit, ReplayFromStart, EnqueueCall, LoseCall, ReplayFromStage, evidenceVars
    <2> QED
      BY <2>1 DEF PipeInv, TypeOK, RowsBehindState
  <1>3. Steps' /\ RowsBehindJobs'
    <2>1. CASE Submit(e) \/ ReplayFromStart(e) \/ \E run \in Runs : LoseCall(e, run)
      <3>1. UNCHANGED <<spans, cands, queue, pc, items>>
        BY <2>1 DEF Submit, ReplayFromStart, LoseCall, evidenceVars
      <3> QED
        BY <3>1 DEF PipeInv, Steps, RowsBehindJobs
    <2>2. ASSUME NEW run \in Runs, EnqueueCall(e, run) PROVE Steps' /\ RowsBehindJobs'
      <3> DEFINE job == Job(e, "ingest", 0, run)
      <3>1. Add({job}, 1) /\ UNCHANGED <<spans, cands, pc>> /\ 1 \in 0..MaxCands
        BY <2>2, BoundAssumption DEF EnqueueCall, evidenceVars
      <3>2. job.stage = "ingest"
        BY DEF Job
      <3> HIDE DEF job
      <3> QED
        BY <3>1, <3>2, AddInv
    <2>3. ASSUME NEW stage \in Linear, ReplayFromStage(e, stage) PROVE Steps' /\ RowsBehindJobs'
      <3> DEFINE job == Job(e, stage, 0, ops + 1)
                 n   == IF stage = "resolve" THEN cands[e] ELSE 1
      <3>1. Add({job}, n) /\ UNCHANGED <<spans, cands, pc>>
        BY <2>3 DEF ReplayFromStage, Linear, evidenceVars
      <3>2. n \in 0..MaxCands
        BY BoundAssumption DEF PipeInv, TypeOK
      <3>3. /\ job.ev = e /\ job.stage = stage
            /\ stage = "normalize" => e \in spans
            /\ stage = "resolve" => cands[e] > 0
        BY <2>3 DEF Job, ReplayFromStage
      <3> HIDE DEF job, n
      <3> QED
        BY <3>1, <3>2, <3>3, AddInv
    <2>4. CASE ReplayFromStage(e, "dedup")
      <3> DEFINE jobs == {Job(e, "dedup", i, ops + 1) : i \in 1..cands[e]}
      <3>1. Add(jobs, 1) /\ UNCHANGED <<spans, cands, pc>> /\ 1 \in 0..MaxCands
        BY <2>4, BoundAssumption DEF ReplayFromStage, evidenceVars
      <3>2. \A j \in jobs : j.stage = "dedup"
        BY DEF Job
      <3> HIDE DEF jobs
      <3> QED
        BY <3>1, <3>2, AddInv
    <2> QED
      BY <2>1, <2>2, <2>3, <2>4
  <1> QED
    BY <1>1, <1>2, <1>3 DEF PipeInv

\* The guard, the work, the state write and the end of a job.
LEMMA WorkerInv ==
  ASSUME PipeInv, NEW j \in Jobs, Step(j) \/ Fail(j) \/ RetryFailed(j)
  PROVE  PipeInv'
  <1>0. TypeOK'
    BY WorkerTypeOK DEF PipeInv
  <1>a. /\ MaxCands \in Nat \ {0} /\ j.ev \in Evidence /\ j.stage \in Linear \cup {"dedup"}
        /\ items[j] \in 0..MaxCands /\ cands[j.ev] \in 0..MaxCands
        /\ DOMAIN pc = Jobs /\ DOMAIN queue = Jobs /\ DOMAIN items = Jobs
        /\ DOMAIN cands = Evidence /\ DOMAIN state = Evidence
    BY BoundAssumption, JobShape DEF PipeInv, TypeOK
  <1>b. pc[j] # "none" => queue[j] = "active"
    BY DEF PipeInv, Steps
  <1>c. queue[j] # "absent"
    BY <1>b DEF Step, Take, Guard, Clean, Extract, Normalize, Resolve, WriteState, Decide, Send,
       Return, Fail, RetryFailed
  <1>d. j.stage = "dedup" => pc[j] \in {"none", "state"}
    BY DEF PipeInv, Steps
  <1>1. CASE Take(j) \/ Fail(j) \/ RetryFailed(j)
    <2>1. UNCHANGED <<state, spans, cands, items>>
      BY <1>1 DEF Take, Fail, RetryFailed, evidenceVars
    <2>2. Steps' /\ RowsBehindJobs'
      <3>1. CASE Take(j)
        <4>1. CASE j.stage = "dedup"
          BY <1>a, <1>c, <2>1, <3>1, <4>1, MoveInv DEF Take
        <4>2. CASE j.stage # "dedup"
          BY <1>a, <1>c, <2>1, <3>1, <4>2, MoveInv DEF Take
        <4> QED
          BY <4>1, <4>2
      <3>2. CASE Fail(j)
        BY <1>a, <1>c, <2>1, <3>2, MoveInv DEF Fail
      <3>3. CASE RetryFailed(j)
        <4>1. pc[j] = "none"
          BY <1>b, <3>3 DEF RetryFailed
        <4> QED
          BY <1>a, <1>c, <2>1, <3>3, <4>1, MoveInv DEF RetryFailed
      <3> QED
        BY <1>1, <3>1, <3>2, <3>3
    <2> QED
      BY <1>0, <2>1, <2>2 DEF PipeInv, RowsBehindState
  <1>2. CASE Guard(j)
    <2>1. UNCHANGED <<state, spans, cands, items>> /\ pc'[j] \in {"none", "work"}
          /\ (pc'[j] = "work" => UNCHANGED queue)
          /\ \A o \in Jobs : o # j => pc'[o] = pc[o] /\ queue'[o] = queue[o]
      BY <1>a, <1>2 DEF Guard, Complete, evidenceVars
    <2>2. Steps' /\ RowsBehindJobs'
      BY <1>b, <1>c, <1>d, <1>2, <2>1, MoveInv DEF Guard
    <2> QED
      BY <1>0, <2>1, <2>2 DEF PipeInv, RowsBehindState
  <1>3. CASE Clean(j)
    <2>1. UNCHANGED <<state, spans, cands, queue>> /\ j.stage = "ingest" /\ pc'[j] = "enqueue"
          /\ \A o \in Jobs : o # j => pc'[o] = pc[o] /\ items'[o] = items[o]
      BY <1>a, <1>3 DEF Clean, WorkDone
    <2>2. Steps' /\ RowsBehindJobs'
      BY <1>b, <1>c, <1>d, <1>3, <2>1, MoveInv DEF Clean
    <2> QED
      BY <1>0, <2>1, <2>2 DEF PipeInv, RowsBehindState
  <1>4. CASE Extract(j)
    <2>1. PICK n \in 0..1 : /\ WorkDone(j, "state", n)
                            /\ spans' = IF n = 0 THEN spans ELSE spans \cup {j.ev}
      BY <1>4 DEF Extract
    <2>2. UNCHANGED <<state, cands, queue>> /\ j.stage = "extract" /\ items'[j] = n
          /\ spans \subseteq spans' /\ (n > 0 => j.ev \in spans')
          /\ \A o \in Jobs : o # j => pc'[o] = pc[o] /\ items'[o] = items[o]
      BY <1>a, <1>4, <2>1 DEF Extract, WorkDone
    <2>3. Steps' /\ RowsBehindJobs'
      BY <1>b, <1>c, <1>d, <1>4, <2>2, MoveInv DEF Extract
    <2> QED
      BY <1>0, <2>2, <2>3 DEF PipeInv, RowsBehindState
  <1>5. CASE Normalize(j)
    <2>1. PICK n \in 0..MaxCands :
            /\ WorkDone(j, "state", n)
            /\ cands' = [cands EXCEPT ![j.ev] = IF @ + n > MaxCands THEN MaxCands ELSE @ + n]
      BY <1>5 DEF Normalize
    <2>2. UNCHANGED <<state, spans, queue>> /\ j.stage = "normalize" /\ items'[j] = n
          /\ \A o \in Jobs : o # j => pc'[o] = pc[o] /\ items'[o] = items[o]
      BY <1>a, <1>5, <2>1 DEF Normalize, WorkDone
    <2>3. /\ n > 0 => cands'[j.ev] > 0
          /\ cands[j.ev] > 0 => cands'[j.ev] > 0
          /\ \A e \in Evidence : e # j.ev => cands'[e] = cands[e]
      BY <1>a, <2>1
    <2>4. j.ev \in spans
      BY <1>c, <2>2 DEF PipeInv, RowsBehindJobs
    <2>5. Steps' /\ RowsBehindJobs'
      BY <1>b, <1>c, <1>d, <1>5, <2>2, <2>3, <2>4, MoveInv DEF Normalize
    <2> QED
      BY <1>0, <2>2, <2>3, <2>5 DEF PipeInv, RowsBehindState
  <1>6. CASE Resolve(j)
    <2>1. UNCHANGED <<state, spans, cands, queue>> /\ j.stage = "resolve"
          /\ \A o \in Jobs : o # j => pc'[o] = pc[o] /\ items'[o] = items[o]
      BY <1>a, <1>6 DEF Resolve, WorkDone, evidenceVars
    <2>2. Steps' /\ RowsBehindJobs'
      BY <1>b, <1>c, <1>d, <1>6, <2>1, MoveInv DEF Resolve
    <2> QED
      BY <1>0, <2>1, <2>2 DEF PipeInv, RowsBehindState
  <1>7. CASE WriteState(j)
    <2>1. /\ UNCHANGED <<spans, cands, queue, items>> /\ pc[j] = "state" /\ pc'[j] = "enqueue"
          /\ state' = [state EXCEPT ![j.ev] = After(j.stage)] /\ j.stage # "dedup"
          /\ \A o \in Jobs : o # j => pc'[o] = pc[o]
      BY <1>a, <1>7 DEF WriteState
    <2>2. Steps' /\ RowsBehindJobs'
      <3>1. items'[j] > 0 => /\ j.stage = "extract" => j.ev \in spans
                             /\ j.stage = "normalize" => cands[j.ev] > 0
        BY <2>1 DEF PipeInv, RowsBehindJobs
      <3> QED
        BY <1>b, <1>c, <2>1, <3>1, MoveInv
    <2>3. /\ After(j.stage) \in {"normalized", "resolved"} => j.ev \in spans
          /\ After(j.stage) = "resolved" => cands[j.ev] > 0
      <3>1. j.stage \in {"extract", "normalize", "resolve"}
        BY <1>a, <2>1 DEF PipeInv, Steps, Linear
      <3> QED
        BY <1>a, <1>c, <3>1 DEF PipeInv, RowsBehindJobs, After
    <2>4. RowsBehindState'
      BY <1>a, <2>1, <2>3 DEF PipeInv, RowsBehindState
    <2> QED
      BY <1>0, <2>2, <2>4 DEF PipeInv
  <1>8. CASE Decide(j) \/ Return(j)
    <2>1. /\ UNCHANGED <<spans, cands, items>> /\ pc'[j] = "none"
          /\ \A o \in Jobs : o # j => pc'[o] = pc[o] /\ queue'[o] = queue[o]
          /\ UNCHANGED state \/ state' = [state EXCEPT ![j.ev] = "decided"]
             \/ state' = [state EXCEPT ![j.ev] = "failed"]
      BY <1>a, <1>8 DEF Decide, Return, Complete
    <2>2. Steps' /\ RowsBehindJobs'
      BY <1>c, <2>1, MoveInv
    <2>3. RowsBehindState'
      BY <1>a, <2>1 DEF PipeInv, RowsBehindState
    <2> QED
      BY <1>0, <2>2, <2>3 DEF PipeInv
  <1>9. CASE Send(j)
    <2> DEFINE job == NextJob(j, sent[j] + 1)
               n   == IF j.stage = "resolve" THEN 1 ELSE items[j]
    <2>1. /\ Add({job}, n) /\ n \in 0..MaxCands /\ pc[j] = "enqueue"
          /\ UNCHANGED <<state, spans, cands, pc>> /\ sent[j] \in 0..MaxCands
      BY <1>a, <1>9 DEF Send, evidenceVars, PipeInv, TypeOK
    <2>2. j.stage \in {"extract", "normalize"} => items[j] > 0
      BY <1>a, <1>9, <2>1 DEF Send, JobsToSend
    <2>3. /\ job.stage = "normalize" => job.ev = j.ev /\ j.stage = "extract"
          /\ job.stage = "resolve" => job.ev = j.ev /\ j.stage = "normalize"
      <3>1. j.stage \in Linear
        BY <1>a, <1>d, <2>1
      <3> QED
        BY <3>1 DEF NextJob, Job, Linear
    <2>4. Steps' /\ RowsBehindJobs'
      <3>1. /\ job.stage = "normalize" => job.ev \in spans
            /\ job.stage = "resolve" => cands[job.ev] > 0
        BY <2>1, <2>2, <2>3 DEF PipeInv, RowsBehindJobs
      <3> HIDE DEF job, n
      <3> QED
        BY <2>1, <3>1, AddInv
    <2> QED
      BY <1>0, <2>1, <2>4 DEF PipeInv, RowsBehindState
  <1> QED
    BY <1>1, <1>2, <1>3, <1>4, <1>5, <1>6, <1>7, <1>8, <1>9 DEF Step

LEMMA NextPipeInv == PipeInv /\ [Next]_vars => PipeInv'
  <1> SUFFICES ASSUME PipeInv, [Next]_vars PROVE PipeInv'
    OBVIOUS
  <1>1. CASE UNCHANGED vars
    BY <1>1 DEF vars, evidenceVars, PipeInv, TypeOK, Steps, RowsBehindJobs, RowsBehindState
  <1>2. CASE Next
    BY <1>2, CallsInv, WorkerInv DEF Next
  <1> QED
    BY <1>1, <1>2

\* Operators may replay from any stage (replay.service.ts) and retry what failed, at
\* any time: no event reaches a state without the rows that belong to it.
THEOREM RowsTheorem == Spec => []RowsBehindState
  <1>1. PipeInv => RowsBehindState
    BY DEF PipeInv
  <1> QED
    BY <1>1, InitPipeInv, NextPipeInv, PTL DEF Spec

\* Whatever operators replay, every variable keeps its type: a replay writes no
\* state the pipeline does not have, and no job is attempted beyond its limit.
THEOREM TypeTheorem == Spec => []TypeOK
  <1>1. PipeInv => TypeOK
    BY DEF PipeInv
  <1> QED
    BY <1>1, InitPipeInv, NextPipeInv, PTL DEF Spec

-----------------------------------------------------------------------------
(* As long as nobody replays: which job may be where in an event's life.    *)

Start(stage) == IF stage = "dedup" THEN "resolved" ELSE Before(stage)
Writers      == {"extract", "normalize", "resolve"}
First(j)     == tries[j] = 0 /\ (queue[j] = "wait" \/ pc[j] = "guard")
Follows(j, o) ==
    /\ o.ev = j.ev /\ o.run = 0
    /\ \/ j.stage = "ingest" /\ o.stage = "extract"
       \/ j.stage = "extract" /\ o.stage = "normalize"
       \/ j.stage = "normalize" /\ o.stage = "resolve"

\* No job is there before its event has reached the state it starts from.
Reached ==
    \A j \in Jobs : queue[j] # "absent" =>
        j.run = 0 /\ Rank(state[j.ev]) >= Rank(Start(j.stage))

\* Nobody takes the event on under a job that is at work, or about to begin.
InStep ==
    \A j \in Jobs :
        /\ j.stage \in Writers /\ pc[j] \in {"work", "state"} => state[j.ev] = Before(j.stage)
        /\ j.stage \in Linear /\ First(j) => state[j.ev] = Before(j.stage)

\* A handler that has still to add the next job finds the event where it left it.
Front ==
    \A j, o \in Jobs :
        (Follows(j, o) /\ queue[o] = "absent"
            /\ (pc[j] = "enqueue" \/ (j.stage = "ingest" /\ queue[j] # "absent")))
            => state[j.ev] = Before(o.stage)

\* extract is added by ingest, and normalize only for spans.
Added ==
    /\ \A j, o \in Jobs : Follows(j, o) /\ j.stage = "ingest" /\ First(j) => queue[o] = "absent"
    /\ \A j, o \in Jobs :
          Follows(j, o) /\ j.stage = "extract" /\ pc[j] = "enqueue" /\ items[j] = 0
              => queue[o] = "absent"
    /\ \A j \in Jobs : j.stage = "resolve" /\ pc[j] = "enqueue" => Rank(state[j.ev]) >= 4

\* A submission that is not queued yet has no jobs.
Called ==
    \A e \in Evidence, run \in Runs : <<e, run>> \in calls =>
        /\ run = 0 /\ state[e] = "received"
        /\ \A j \in Jobs : j.ev = e => queue[j] = "absent"

Order    == Reached /\ InStep /\ Front /\ Added /\ Called
OrderInv == PipeInv /\ (ops = 0 => Order)

LEMMA RankValues ==
  /\ Rank("none") = 0 /\ Rank("received") = 1 /\ Rank("extracted") = 2
  /\ Rank("normalized") = 3 /\ Rank("resolved") = 4 /\ Rank("decided") = 5 /\ Rank("failed") = 5
  BY DEF Rank

LEMMA StartRanks ==
  /\ Start("ingest") = "received" /\ Start("extract") = "received"
  /\ Start("normalize") = "extracted" /\ Start("resolve") = "normalized"
  /\ Start("dedup") = "resolved"
  /\ Before("ingest") = "received" /\ Before("extract") = "received"
  /\ Before("normalize") = "extracted" /\ Before("resolve") = "normalized"
  /\ After("extract") = "extracted" /\ After("normalize") = "normalized"
  /\ After("resolve") = "resolved"
  BY DEF Start, Before, After

\* A stage has one job of an event, until it is replayed.
LEMMA OneJob ==
  ASSUME NEW j \in Jobs, NEW o \in Jobs, j.stage \in Linear, j.stage = o.stage,
         j.ev = o.ev, j.run = o.run
  PROVE  j = o
  BY DEF Jobs, Linear

\* A job goes on, and its event stays where it is.
LEMMA QuietMove ==
  ASSUME PipeInv, Order, NEW j \in Jobs, UNCHANGED <<state, calls>>,
         \A o \in Jobs : o # j => /\ pc'[o] = pc[o] /\ queue'[o] = queue[o]
                                  /\ items'[o] = items[o] /\ tries'[o] = tries[o],
         queue[j] # "absent", queue'[j] # "absent",
         First(j)' => First(j),
         j.stage \in Writers /\ pc'[j] \in {"work", "state"} => state[j.ev] = Before(j.stage),
         pc'[j] = "enqueue" => j.stage = "ingest"
  PROVE  Order'
  <1>1. Reached'
    BY DEF Order, Reached
  <1>2. InStep'
    BY DEF Order, InStep, First
  <1>3. Front'
    BY DEF Order, Front, Follows
  <1>4. Added'
    BY DEF Order, Added, Follows, First
  <1>5. Called'
    BY DEF Order, Called
  <1> QED
    BY <1>1, <1>2, <1>3, <1>4, <1>5 DEF Order

LEMMA InitOrder == Init => Order
  BY JobShape DEF Init, Order, Reached, InStep, Front, Added, Called, First

\* A submission, its job, and the loss of one.
LEMMA CallsOrder ==
  ASSUME PipeInv, Order, NEW e \in Evidence,
         Submit(e) \/ \E run \in Runs : EnqueueCall(e, run) \/ LoseCall(e, run)
  PROVE  Order'
  <1>0. DOMAIN state = Evidence /\ state[e] \in States \cup {"none"}
    BY DEF PipeInv, TypeOK
  <1>1. CASE Submit(e)
    <2>1. /\ state[e] = "none" /\ state' = [state EXCEPT ![e] = "received"]
          /\ calls' = calls \cup {<<e, 0>>} /\ UNCHANGED <<queue, tries, pc, items>>
      BY <1>1 DEF Submit
    <2>2. \A j \in Jobs : j.ev = e => queue[j] = "absent" /\ pc[j] = "none"
      <3>1. ASSUME NEW j \in Jobs, j.ev = e, queue[j] # "absent" PROVE FALSE
        BY <2>1, <3>1, JobShape, RankValues, StartRanks DEF Order, Reached, Linear
      <3> QED
        BY <3>1 DEF PipeInv, Steps
    <2>3. \A d \in Evidence : d # e => state'[d] = state[d]
      BY <1>0, <2>1
    <2>4. state'[e] = "received"
      BY <1>0, <2>1
    <2>5. Reached'
      BY <2>1, <2>2, <2>3, JobShape DEF Order, Reached
    <2>6. InStep'
      BY <2>1, <2>2, <2>3, JobShape DEF Order, InStep, First
    <2>7. Front'
      BY <2>1, <2>2, <2>3, JobShape DEF Order, Front, Follows
    <2>8. Added'
      BY <2>1, <2>2, <2>3, JobShape DEF Order, Added, Follows, First
    <2>9. Called'
      BY <2>1, <2>2, <2>3, <2>4, JobShape DEF Order, Called
    <2> QED
      BY <2>5, <2>6, <2>7, <2>8, <2>9 DEF Order
  <1>2. ASSUME NEW run \in Runs, LoseCall(e, run) PROVE Order'
    <2>1. calls' \subseteq calls /\ UNCHANGED <<state, queue, tries, pc, items>>
      BY <1>2 DEF LoseCall, evidenceVars
    <2> QED
      BY <2>1 DEF Order, Reached, InStep, Front, Added, Called, First
  <1>3. ASSUME NEW run \in Runs, EnqueueCall(e, run) PROVE Order'
    <2> DEFINE job == Job(e, "ingest", 0, 0)
    <2>1. /\ run = 0 /\ state[e] = "received" /\ \A j \in Jobs : j.ev = e => queue[j] = "absent"
      BY <1>3 DEF EnqueueCall, Order, Called
    <2>2. /\ calls' = calls \ {<<e, 0>>} /\ Add({job}, 1) /\ UNCHANGED <<state, tries, pc, sent>>
      BY <1>3, <2>1 DEF EnqueueCall, evidenceVars
    <2>3. job.ev = e /\ job.stage = "ingest" /\ job.run = 0
      BY DEF Job
    <2> HIDE DEF job
    <2>4. \A j \in Jobs : \/ queue'[j] = queue[j] /\ items'[j] = items[j]
                          \/ j = job /\ queue[j] = "absent" /\ queue'[j] = "wait"
      BY <2>2, BoundAssumption, AddTypes DEF PipeInv
    <2>5. \A j \in Jobs : queue[j] = "absent" => pc[j] = "none"
      BY DEF PipeInv, Steps
    <2>6. Reached'
      BY <2>1, <2>2, <2>3, <2>4, RankValues, StartRanks DEF Order, Reached
    <2>7. InStep'
      BY <2>1, <2>2, <2>3, <2>4, StartRanks DEF Order, InStep, First, Writers
    <2>8. Front'
      BY <2>1, <2>2, <2>3, <2>4, <2>5, StartRanks DEF Order, Front, Follows
    <2>9. Added'
      BY <2>1, <2>2, <2>3, <2>4, <2>5 DEF Order, Added, Follows, First
    <2>10. Called'
      <3>1. ASSUME NEW d \in Evidence, NEW r \in Runs, <<d, r>> \in calls'
            PROVE  r = 0 /\ d # e /\ state[d] = "received"
                   /\ \A j \in Jobs : j.ev = d => queue[j] = "absent"
        BY <2>2, <3>1 DEF Order, Called
      <3> QED
        BY <2>2, <2>3, <2>4, <3>1 DEF Called
    <2> QED
      BY <2>6, <2>7, <2>8, <2>9, <2>10 DEF Order
  <1> QED
    BY <1>1, <1>2, <1>3

\* Steps of a job that leave its event where it is and add no other.
LEMMA QuietOrder ==
  ASSUME PipeInv, Order, NEW j \in Jobs,
         \/ Take(j) \/ Guard(j) \/ Clean(j) \/ Extract(j) \/ Normalize(j) \/ Resolve(j) \/ Fail(j)
  PROVE  Order'
  <1>0. /\ DOMAIN pc = Jobs /\ DOMAIN queue = Jobs /\ DOMAIN items = Jobs /\ DOMAIN tries = Jobs
        /\ tries[j] \in Nat /\ MaxTries \in Nat \ {0} /\ j.stage \in Linear \cup {"dedup"}
        /\ j.ev \in Evidence
    BY BoundAssumption, JobShape DEF PipeInv, TypeOK
  <1>1. /\ UNCHANGED <<state, calls>>
        /\ \A o \in Jobs : o # j => /\ pc'[o] = pc[o] /\ queue'[o] = queue[o]
                                    /\ items'[o] = items[o] /\ tries'[o] = tries[o]
    BY <1>0 DEF Take, Guard, Clean, Extract, Normalize, Resolve, Fail, WorkDone, Complete, evidenceVars
  <1>2. pc[j] # "none" => queue[j] = "active"
    BY DEF PipeInv, Steps
  <1>3. queue[j] # "absent" /\ queue'[j] # "absent"
    BY <1>0, <1>2 DEF Take, Guard, Clean, Extract, Normalize, Resolve, Fail, Complete
  <1>4. pc[j] = "work" /\ j.stage \in Writers => state[j.ev] = Before(j.stage)
    BY DEF Order, InStep
  <1>5. CASE Take(j)
    BY <1>0, <1>1, <1>3, <1>5, QuietMove DEF Take, First, Writers
  <1>6. CASE Guard(j)
    BY <1>0, <1>1, <1>2, <1>3, <1>6, QuietMove DEF Guard, Complete, First
  <1>7. CASE Clean(j)
    BY <1>0, <1>1, <1>2, <1>3, <1>7, QuietMove DEF Clean, WorkDone, First, Writers
  <1>8. CASE Extract(j) \/ Normalize(j) \/ Resolve(j)
    <2>1. pc[j] = "work" /\ pc'[j] = "state" /\ UNCHANGED <<queue, tries>> /\ j.stage \in Writers
      BY <1>0, <1>8 DEF Extract, Normalize, Resolve, WorkDone, Writers
    <2> QED
      BY <1>1, <1>2, <1>3, <1>4, <2>1, QuietMove DEF First
  <1>9. CASE Fail(j)
    <2>1. pc'[j] = "none" /\ tries'[j] # 0
      BY <1>0, <1>9 DEF Fail
    <2> QED
      BY <1>1, <1>3, <2>1, QuietMove DEF First
  <1> QED
    BY <1>5, <1>6, <1>7, <1>8, <1>9

\* The next job is added, where its event has just arrived.
LEMMA SendOrder ==
  ASSUME PipeInv, Order, NEW j \in Jobs, Send(j)
  PROVE  Order'
  <1> DEFINE job == NextJob(j, sent[j] + 1)
             n   == IF j.stage = "resolve" THEN 1 ELSE items[j]
  <1>0. /\ MaxCands \in Nat \ {0} /\ j.ev \in Evidence /\ j.stage \in Linear
        /\ items[j] \in 0..MaxCands /\ sent[j] \in 0..MaxCands
    BY BoundAssumption, JobShape DEF PipeInv, TypeOK, Steps, Send
  <1>1. /\ Add({job}, n) /\ n \in 0..MaxCands /\ pc[j] = "enqueue"
        /\ UNCHANGED <<state, calls, pc, tries>>
    BY <1>0 DEF Send, evidenceVars
  <1>2. j.stage # "resolve" => items[j] > 0
    BY <1>0 DEF Send, JobsToSend
  <1>3. /\ job.run = 0 /\ job.ev = j.ev
        /\ \/ Follows(j, job)
           \/ j.stage = "resolve" /\ job.stage = "dedup"
    BY <1>0 DEF NextJob, Job, Linear, Follows
  <1> HIDE DEF job, n
  <1>4. \A o \in Jobs : \/ queue'[o] = queue[o] /\ items'[o] = items[o]
                        \/ o = job /\ queue[o] = "absent" /\ queue'[o] = "wait"
    BY <1>1, AddTypes DEF PipeInv
  <1>5. \A o \in Jobs : queue[o] = "absent" => pc[o] = "none"
    BY DEF PipeInv, Steps
  <1>6. queue[j] # "absent" /\ j.run = 0 /\ ~First(j)
    BY <1>1, <1>5 DEF Order, Reached, First, PipeInv, Steps
  <1>7. ASSUME Follows(j, job), job \in Jobs, queue[job] = "absent"
        PROVE  state[j.ev] = Before(job.stage) /\ job.stage \in Writers
    BY <1>1, <1>7 DEF Order, Front, Follows, Writers
  <1>8. Reached'
    <2>1. ASSUME job \in Jobs, queue[job] = "absent"
          PROVE  Rank(state[job.ev]) >= Rank(Start(job.stage))
      <3>1. CASE Follows(j, job)
        BY <1>3, <1>7, <2>1, <3>1, RankValues, StartRanks DEF Writers
      <3>2. CASE j.stage = "resolve" /\ job.stage = "dedup"
        BY <1>1, <1>3, <3>2, RankValues, StartRanks DEF Order, Added
      <3> QED
        BY <1>3, <3>1, <3>2
    <2> QED
      BY <1>1, <1>3, <1>4, <2>1 DEF Order, Reached
  <1>9. InStep'
    <2>1. job.stage = "dedup" => job.stage \notin Linear
      BY DEF Linear
    <2> QED
      BY <1>1, <1>3, <1>4, <1>5, <1>7, <2>1 DEF Order, InStep, First
  <1>10. Front'
    <2>1. job.stage # "ingest"
      BY <1>3 DEF Follows
    <2> QED
      BY <1>1, <1>4, <2>1 DEF Order, Front, Follows
  <1>11. Added'
    <2>1. job.stage # "ingest"
      BY <1>3 DEF Follows
    <2>2. \A o \in Jobs : Follows(o, job) => o.stage = j.stage /\ o.ev = j.ev
      BY <1>3 DEF Follows
    <2>3. \A o \in Jobs : Follows(o, job) /\ queue[o] # "absent" => o = j
      BY <1>0, <1>6, <2>2, OneJob DEF Order, Reached
    <2>4. ASSUME NEW o \in Jobs, NEW q \in Jobs, Follows(o, q), o.stage = "ingest", First(o)'
          PROVE  queue'[q] = "absent"
      <3>1. First(o)
        BY <1>1, <1>4, <2>1, <2>4 DEF First
      <3>2. queue[q] = "absent" /\ queue[o] # "absent"
        BY <1>5, <2>4, <3>1 DEF Order, Added, First
      <3>3. q # job
        BY <1>6, <2>3, <2>4, <3>1, <3>2
      <3> QED
        BY <1>4, <3>2, <3>3
    <2>5. ASSUME NEW o \in Jobs, NEW q \in Jobs, Follows(o, q), o.stage = "extract",
                 pc'[o] = "enqueue", items'[o] = 0
          PROVE  queue'[q] = "absent"
      <3>1. queue[o] # "absent" /\ items[o] = 0
        BY <1>1, <1>4, <1>5, <2>5
      <3>2. queue[q] = "absent"
        BY <1>1, <2>5, <3>1 DEF Order, Added
      <3>3. q # job
        BY <1>2, <2>3, <2>5, <3>1
      <3> QED
        BY <1>4, <3>2, <3>3
    <2>6. \A o \in Jobs : o.stage = "resolve" /\ pc'[o] = "enqueue" => Rank(state'[o.ev]) >= 4
      BY <1>1 DEF Order, Added
    <2>7. \A o, q \in Jobs : Follows(o, q)' <=> Follows(o, q)
      BY DEF Follows
    <2> QED
      BY <2>4, <2>5, <2>6, <2>7 DEF Added
  <1>12. Called'
    <2>1. \A e \in Evidence, run \in Runs : <<e, run>> \in calls => e # j.ev
      BY <1>6 DEF Order, Called
    <2> QED
      BY <1>1, <1>3, <1>4, <2>1 DEF Order, Called
  <1> QED
    BY <1>8, <1>9, <1>10, <1>11, <1>12 DEF Order

\* No job of an event but j counts on the state the event is in.
Relies(o) ==
    \/ o.stage \in Writers /\ pc[o] \in {"work", "state"}
    \/ o.stage \in Linear /\ First(o)
    \/ \E q \in Jobs : /\ Follows(o, q) /\ queue[q] = "absent"
                       /\ pc[o] = "enqueue" \/ (o.stage = "ingest" /\ queue[o] # "absent")

\* Job j takes its event on, while no other relies on the state it was in.
LEMMA StateOrder ==
  ASSUME PipeInv, Order, NEW j \in Jobs, NEW s \in States, j.stage # "ingest",
         state' = [state EXCEPT ![j.ev] = s], Rank(s) >= Rank(state[j.ev]),
         UNCHANGED <<calls, items, tries>>,
         \A o \in Jobs : o # j => pc'[o] = pc[o] /\ queue'[o] = queue[o],
         queue[j] # "absent", queue'[j] \in {"active", "done"}, pc'[j] \in {"none", "enqueue"},
         \A o \in Jobs : o.ev = j.ev /\ Relies(o) => o = j,
         pc'[j] = "enqueue" =>
             /\ \A q \in Jobs : Follows(j, q) => queue[q] = "absent" /\ s = Before(q.stage)
             /\ j.stage = "resolve" => Rank(s) >= 4
  PROVE  Order'
  <1>1. /\ j.ev \in Evidence /\ state'[j.ev] = s
        /\ \A e \in Evidence : e # j.ev => state'[e] = state[e]
    BY JobShape DEF PipeInv, TypeOK
  <1>2. \A o, q \in Jobs : Follows(o, q)' <=> Follows(o, q)
    BY DEF Follows
  <1>3. \A o \in Jobs : queue'[o] = "absent" <=> queue[o] = "absent"
    OBVIOUS
  <1>4. ~First(j)' /\ \A o \in Jobs : o # j => (First(o)' <=> First(o))
    BY DEF First
  <1>5. \A o \in Jobs : o.ev \in Evidence
    BY JobShape
  <1>6. Reached'
    BY <1>1, <1>3, <1>5 DEF Order, Reached, States, Rank
  <1>7. InStep'
    BY <1>1, <1>4, <1>5 DEF Order, InStep, Relies
  <1>8. Front'
    <2>1. ASSUME NEW o \in Jobs, NEW q \in Jobs, Follows(o, q), queue[q] = "absent",
                 pc'[o] = "enqueue" \/ (o.stage = "ingest" /\ queue[o] # "absent")
          PROVE  state'[o.ev] = Before(q.stage)
      <3>1. CASE o = j
        BY <1>1, <2>1, <3>1
      <3>2. CASE o # j /\ o.ev = j.ev
        BY <2>1, <3>2 DEF Relies
      <3>3. CASE o # j /\ o.ev # j.ev
        BY <1>1, <1>5, <2>1, <3>3 DEF Order, Front
      <3> QED
        BY <3>1, <3>2, <3>3
    <2> QED
      BY <1>2, <1>3, <2>1 DEF Front
  <1>9. Added'
    <2>1. \A o, q \in Jobs : Follows(o, q) /\ o.stage = "ingest" /\ First(o)' => queue'[q] = "absent"
      BY <1>3, <1>4 DEF Order, Added
    <2>2. \A o, q \in Jobs : Follows(o, q) /\ o.stage = "extract" /\ pc'[o] = "enqueue" /\ items'[o] = 0
                                => queue'[q] = "absent"
      BY <1>3 DEF Order, Added
    <2>3. ASSUME NEW o \in Jobs, o.stage = "resolve", pc'[o] = "enqueue"
          PROVE  Rank(state'[o.ev]) >= 4
      <3>1. CASE o = j
        BY <1>1, <2>3, <3>1
      <3>2. CASE o # j
        <4>1. Rank(state[o.ev]) >= 4
          BY <2>3, <3>2 DEF Order, Added
        <4> QED
          BY <1>1, <1>5, <4>1 DEF Rank
      <3> QED
        BY <3>1, <3>2
    <2> QED
      BY <1>2, <2>1, <2>2, <2>3 DEF Added
  <1>10. Called'
    BY <1>1, <1>3 DEF Order, Called
  <1> QED
    BY <1>6, <1>7, <1>8, <1>9, <1>10 DEF Order

\* Whoever relies on a state is told it by the invariant.
LEMMA Relied ==
  ASSUME PipeInv, Order, NEW o \in Jobs, Relies(o)
  PROVE  /\ o.run = 0 /\ queue[o] # "absent" /\ o.stage \in Linear
         /\ \/ o.stage \in Writers /\ state[o.ev] = Before(o.stage)
            \/ o.stage = "ingest" /\ First(o) /\ state[o.ev] = "received"
            \/ \E q \in Jobs : Follows(o, q) /\ queue[q] = "absent" /\ state[o.ev] = Before(q.stage)
  <1>1. queue[o] # "absent"
    BY DEF Relies, First, PipeInv, Steps
  <1>2. o.run = 0
    BY <1>1 DEF Order, Reached
  <1>3. o.stage \in Linear
    BY DEF Relies, Writers, Linear, Follows
  <1>4. CASE o.stage \in Writers /\ pc[o] \in {"work", "state"}
    BY <1>1, <1>2, <1>3, <1>4 DEF Order, InStep
  <1>5. CASE o.stage \in Linear /\ First(o)
    BY <1>1, <1>2, <1>3, <1>5, StartRanks DEF Order, InStep, Writers, Linear
  <1>6. CASE \E q \in Jobs : /\ Follows(o, q) /\ queue[q] = "absent"
                             /\ pc[o] = "enqueue" \/ (o.stage = "ingest" /\ queue[o] # "absent")
    BY <1>1, <1>2, <1>3, <1>6 DEF Order, Front
  <1> QED
    BY <1>4, <1>5, <1>6 DEF Relies

\* The state is written by the job whose turn it is.
LEMMA WriteOrder ==
  ASSUME PipeInv, Order, NEW j \in Jobs, WriteState(j)
  PROVE  Order' /\ Rank(state'[j.ev]) >= Rank(state[j.ev])
  <1>1. /\ pc[j] = "state" /\ pc'[j] = "enqueue" /\ queue[j] = "active"
        /\ UNCHANGED <<calls, queue, items, tries>>
        /\ state' = [state EXCEPT ![j.ev] = After(j.stage)]
        /\ \A o \in Jobs : o # j => pc'[o] = pc[o]
    BY DEF WriteState, PipeInv, Steps, TypeOK
  <1>2. j.stage \in Writers /\ j.ev \in Evidence /\ j.run = 0 /\ state[j.ev] = Before(j.stage)
    <2>1. j.stage \in Writers
      BY <1>1, JobShape DEF WriteState, PipeInv, Steps, Writers, Linear
    <2> QED
      BY <1>1, <2>1, JobShape DEF Order, InStep, Reached
  <1>3. \A o \in Jobs : o.ev = j.ev /\ Relies(o) => o = j
    <2> SUFFICES ASSUME NEW o \in Jobs, o.ev = j.ev, Relies(o) PROVE o = j
      OBVIOUS
    <2>1. CASE o.stage \in Writers /\ state[o.ev] = Before(o.stage)
      <3>1. o.stage = j.stage /\ o.run = j.run /\ j.stage \in Linear
        BY <1>2, <2>1, Relied, StartRanks DEF Writers, Linear
      <3> QED
        BY <3>1, OneJob
    <2>2. CASE o.stage = "ingest" /\ First(o) /\ state[o.ev] = "received"
      <3>1. Follows(o, j)
        BY <1>2, <2>2, StartRanks DEF Writers, Follows
      <3> QED
        BY <1>1, <2>2, <3>1 DEF Order, Added
    <2>3. ASSUME NEW q \in Jobs, Follows(o, q), queue[q] = "absent", state[o.ev] = Before(q.stage)
          PROVE  FALSE
      <3>1. q.stage = j.stage /\ q.ev = j.ev /\ q.run = j.run /\ j.stage \in Linear
        BY <1>2, <2>3, StartRanks DEF Writers, Follows, Linear
      <3> QED
        BY <1>1, <2>3, <3>1, OneJob
    <2> QED
      BY <2>1, <2>2, <2>3, Relied
  <1>4. After(j.stage) \in States /\ Rank(After(j.stage)) > Rank(state[j.ev])
    BY <1>2, StartRanks, RankValues DEF Writers, States
  <1>5. Rank(After(j.stage)) \in Nat /\ Rank(state[j.ev]) \in Nat
    BY <1>2, StartRanks, RankValues DEF Writers
  <1>6. \A q \in Jobs : Follows(j, q) => queue[q] = "absent" /\ After(j.stage) = Before(q.stage)
    <2> SUFFICES ASSUME NEW q \in Jobs, Follows(j, q)
                 PROVE  queue[q] = "absent" /\ After(j.stage) = Before(q.stage)
      OBVIOUS
    <2>1. After(j.stage) = Before(q.stage) /\ Start(q.stage) = Before(q.stage)
      BY <1>2, StartRanks DEF Follows, Writers
    <2>2. q.ev = j.ev
      BY DEF Follows
    <2> QED
      BY <1>4, <1>5, <2>1, <2>2 DEF Order, Reached
  <1>7. j.stage = "resolve" => Rank(After(j.stage)) >= 4
    BY StartRanks, RankValues
  <1>8. Order'
    <2> DEFINE s == After(j.stage)
    <2>1. s \in States /\ Rank(s) >= Rank(state[j.ev]) /\ state' = [state EXCEPT ![j.ev] = s]
      BY <1>1, <1>4, <1>5
    <2>2. j.stage # "ingest"
      BY <1>2 DEF Writers
    <2>3. pc'[j] = "enqueue" =>
             /\ \A q \in Jobs : Follows(j, q) => queue[q] = "absent" /\ s = Before(q.stage)
             /\ j.stage = "resolve" => Rank(s) >= 4
      BY <1>6, <1>7
    <2>4. /\ queue[j] # "absent" /\ queue'[j] \in {"active", "done"}
          /\ pc'[j] \in {"none", "enqueue"}
          /\ \A o \in Jobs : o # j => pc'[o] = pc[o] /\ queue'[o] = queue[o]
      BY <1>1
    <2> HIDE DEF s
    <2> QED
      BY <1>1, <1>3, <2>1, <2>2, <2>3, <2>4, StateOrder
  <1> QED
    BY <1>1, <1>2, <1>4, <1>5, <1>8 DEF PipeInv, TypeOK

\* A dedup job decides, when nobody before it has anything left to do.
LEMMA DecideOrder ==
  ASSUME PipeInv, Order, NEW j \in Jobs, Decide(j)
  PROVE  Order' /\ Rank(state'[j.ev]) >= Rank(state[j.ev])
  <1>1. PICK s \in {"decided", "failed"} : state' = [state EXCEPT ![j.ev] = s]
    BY DEF Decide
  <1>2. /\ pc[j] = "state" /\ j.stage = "dedup" /\ pc'[j] = "none" /\ queue'[j] = "done"
        /\ queue[j] # "absent" /\ UNCHANGED <<calls, items, tries>>
        /\ \A o \in Jobs : o # j => pc'[o] = pc[o] /\ queue'[o] = queue[o]
    BY DEF Decide, Complete, PipeInv, Steps, TypeOK
  <1>3. Rank(state[j.ev]) >= 4 /\ j.ev \in Evidence /\ state[j.ev] \in States \cup {"none"}
    BY <1>2, JobShape, RankValues, StartRanks DEF Order, Reached, PipeInv, TypeOK
  <1>4. s \in States /\ Rank(s) >= Rank(state[j.ev])
    BY <1>3, RankValues DEF States
  <1>5. \A o \in Jobs : o.ev = j.ev => ~Relies(o)
    <2> SUFFICES ASSUME NEW o \in Jobs, o.ev = j.ev, Relies(o) PROVE FALSE
      OBVIOUS
    <2>1. state[o.ev] \in {"received", "extracted", "normalized"}
      BY Relied, StartRanks DEF Writers, Follows
    <2> QED
      BY <1>3, <2>1, RankValues
  <1>6. Order'
    BY <1>1, <1>2, <1>4, <1>5, StateOrder
  <1> QED
    BY <1>1, <1>3, <1>4, <1>6 DEF PipeInv, TypeOK

\* A handler returns; one that found no spans ends the pipeline of its event.
LEMMA ReturnOrder ==
  ASSUME PipeInv, Order, NEW j \in Jobs, Return(j)
  PROVE  Order' /\ Rank(state'[j.ev]) >= Rank(state[j.ev])
  <1>1. /\ pc[j] = "enqueue" /\ pc'[j] = "none" /\ queue'[j] = "done"
        /\ queue[j] # "absent" /\ UNCHANGED <<calls, items, tries>>
        /\ \A o \in Jobs : o # j => pc'[o] = pc[o] /\ queue'[o] = queue[o]
    BY DEF Return, Complete, PipeInv, Steps, TypeOK
  <1>2. j.ev \in Evidence /\ state[j.ev] \in States \cup {"none"} /\ j.run = 0
    BY <1>1, JobShape DEF PipeInv, TypeOK, Order, Reached
  <1>3. CASE UNCHANGED state
    <2>1. Order'
      BY <1>1, <1>3, QuietMove DEF First
    <2> QED
      BY <1>2, <1>3, <2>1, RankValues DEF States
  <1>4. CASE j.stage = "extract" /\ items[j] = 0 /\ state' = [state EXCEPT ![j.ev] = "decided"]
    <2> DEFINE next == Job(j.ev, "normalize", 0, 0)
    <2>1. /\ next \in Jobs /\ next.ev = j.ev /\ next.stage = "normalize" /\ next.run = 0
          /\ Follows(j, next)
      BY <1>2, <1>4, BoundAssumption DEF Job, Jobs, Linear, Runs, Follows
    <2> HIDE DEF next
    <2>2. queue[next] = "absent" /\ state[j.ev] = "extracted"
      BY <1>1, <1>4, <2>1, StartRanks DEF Order, Added, Front
    <2>3. \A o \in Jobs : o.ev = j.ev /\ Relies(o) => o = j
      <3> SUFFICES ASSUME NEW o \in Jobs, o.ev = j.ev, Relies(o) PROVE o = j
        OBVIOUS
      <3>1. CASE o.stage \in Writers /\ state[o.ev] = Before(o.stage)
        <4>1. o.stage = "normalize" /\ o.run = 0 /\ queue[o] # "absent"
          BY <2>2, <3>1, Relied, StartRanks DEF Writers
        <4> QED
          BY <2>1, <2>2, <4>1, OneJob DEF Linear
      <3>2. CASE o.stage = "ingest" /\ First(o) /\ state[o.ev] = "received"
        BY <2>2, <3>2
      <3>3. ASSUME NEW q \in Jobs, Follows(o, q), state[o.ev] = Before(q.stage) PROVE o = j
        <4>1. o.stage = "extract" /\ o.run = 0
          BY <2>2, <3>3, Relied, StartRanks DEF Follows
        <4> QED
          BY <1>2, <1>4, <4>1, OneJob DEF Linear
      <3> QED
        BY <3>1, <3>2, <3>3, Relied
    <2>4. "decided" \in States /\ Rank("decided") >= Rank(state[j.ev])
      BY <2>2, RankValues DEF States
    <2>5. Order'
      BY <1>1, <1>4, <2>3, <2>4, StateOrder
    <2> QED
      BY <1>2, <1>4, <2>4, <2>5 DEF PipeInv, TypeOK
  <1> QED
    BY <1>3, <1>4 DEF Return

\* A step of anybody, while nobody has replayed.
LEMMA NextOrder ==
  ASSUME OrderInv, Next, ops' = 0
  PROVE  Order' /\ \A e \in Evidence : Rank(state'[e]) >= Rank(state[e])
  <1>1. PipeInv /\ ops \in Nat
    BY BoundAssumption DEF OrderInv, PipeInv, TypeOK
  <1>2. \A e \in Evidence : Rank(state[e]) \in Nat
    BY <1>1, RankValues DEF PipeInv, TypeOK, States
  <1>3. ASSUME UNCHANGED state PROVE \A e \in Evidence : Rank(state'[e]) >= Rank(state[e])
    BY <1>2, <1>3
  <1>4. ASSUME NEW e \in Evidence, ReplayFromStart(e) \/ \E s : ReplayFromStage(e, s) PROVE FALSE
    <2>1. ops' = ops + 1
      <3>1. ASSUME NEW s, ReplayFromStage(e, s) PROVE ops' = ops + 1
        BY <3>1, Zenon DEF ReplayFromStage
      <3> QED
        BY <1>4, <3>1 DEF ReplayFromStart
    <2> QED
      BY <1>1, <2>1
  <1>5. ASSUME NEW j \in Jobs, RetryFailed(j) PROVE FALSE
    BY <1>1, <1>5 DEF RetryFailed
  <1>6. ops = 0 /\ Order
    <2>1. UNCHANGED ops
      BY <1>4, <1>5 DEF Next, Step, Submit, EnqueueCall, LoseCall, Take, Guard, Clean, Extract,
         Normalize, Resolve, WriteState, Decide, Send, Return, Fail
    <2> QED
      BY <2>1 DEF OrderInv
  <1>7. ASSUME NEW e \in Evidence, Submit(e) \/ \E run \in Runs : EnqueueCall(e, run) \/ LoseCall(e, run)
        PROVE  Order' /\ \A d \in Evidence : Rank(state'[d]) >= Rank(state[d])
    <2>1. Order'
      BY <1>1, <1>6, <1>7, CallsOrder
    <2>2. UNCHANGED state \/ (state[e] = "none" /\ state' = [state EXCEPT ![e] = "received"])
      BY <1>7 DEF Submit, EnqueueCall, LoseCall, evidenceVars
    <2> QED
      BY <1>1, <1>2, <1>3, <2>1, <2>2, RankValues DEF PipeInv, TypeOK
  <1>8. ASSUME NEW j \in Jobs, \/ Take(j) \/ Guard(j) \/ Clean(j) \/ Extract(j)
                                \/ Normalize(j) \/ Resolve(j) \/ Fail(j) \/ Send(j)
        PROVE  Order' /\ \A e \in Evidence : Rank(state'[e]) >= Rank(state[e])
    <2>1. UNCHANGED state
      BY <1>8 DEF Take, Guard, Clean, Extract, Normalize, Resolve, Fail, Send, evidenceVars
    <2>2. Order'
      BY <1>1, <1>6, <1>8, QuietOrder, SendOrder
    <2> QED
      BY <1>3, <2>1, <2>2
  <1>9. ASSUME NEW j \in Jobs, WriteState(j) \/ Decide(j) \/ Return(j)
        PROVE  Order' /\ \A e \in Evidence : Rank(state'[e]) >= Rank(state[e])
    <2>1. Order' /\ Rank(state'[j.ev]) >= Rank(state[j.ev])
      BY <1>1, <1>6, <1>9, WriteOrder, DecideOrder, ReturnOrder
    <2>2. \A e \in Evidence : e # j.ev => state'[e] = state[e]
      BY <1>1, <1>9 DEF WriteState, Decide, Return, PipeInv, TypeOK
    <2> QED
      BY <1>2, <2>1, <2>2
  <1> QED
    BY <1>4, <1>5, <1>7, <1>8, <1>9 DEF Next, Step

\* Every step keeps the order.
LEMMA OrderInductive == Spec => []OrderInv
  <1>1. Init => OrderInv
    BY InitPipeInv, InitOrder DEF OrderInv
  <1>2. OrderInv /\ [Next]_vars => OrderInv'
    <2> SUFFICES ASSUME OrderInv, [Next]_vars PROVE OrderInv'
      OBVIOUS
    <2>1. PipeInv'
      BY NextPipeInv DEF OrderInv
    <2>2. CASE UNCHANGED vars
      BY <2>1, <2>2 DEF vars, evidenceVars, OrderInv, Order, Reached, InStep, Front, Added,
         Called, First, Follows
    <2>3. CASE Next
      BY <2>1, <2>3, NextOrder DEF OrderInv
    <2> QED
      BY <2>2, <2>3
  <1> QED
    BY <1>1, <1>2, PTL DEF Spec

\* As long as nobody replays, no first attempt finds its event elsewhere than where
\* the stage starts from (the idempotency guards of the workers): the state is
\* written before the next job is added, and nobody else moves the event.
THEOREM FirstAttemptTheorem == Spec => []FirstAttemptRuns
  <1>1. OrderInv => FirstAttemptRuns
    <2> SUFFICES ASSUME OrderInv, NEW j \in Jobs, ops = 0, pc[j] = "guard", tries[j] = 0
                 PROVE  state[j.ev] = Before(j.stage)
      BY DEF FirstAttemptRuns
    <2>1. j.stage \in Linear
      BY JobShape DEF OrderInv, PipeInv, Steps
    <2> QED
      BY <2>1 DEF OrderInv, Order, InStep, First
  <1> QED
    BY <1>1, OrderInductive, PTL

\* Nor does processing_state ever go back, whatever fails and is retried.
THEOREM AdvanceTheorem == Spec => StateAdvances
  <1>1. OrderInv /\ [Next]_vars =>
          [ops' = 0 => \A e \in Evidence : Rank(state'[e]) >= Rank(state[e])]_vars
    BY NextOrder
  <1> QED
    BY <1>1, OrderInductive, PTL DEF Spec, StateAdvances

-----------------------------------------------------------------------------
(* As long as no handler fails after its state write, either: what a job    *)
(* that is over has left behind.                                            *)

Over == {"decided", "failed"}

\* The next stage has its job, or there is nothing left to do.
Passed(j) ==
    /\ j.stage \in {"ingest", "resolve"} => queue[NextJob(j, 1)] # "absent"
    /\ j.stage = "extract" => queue[NextJob(j, 1)] # "absent" \/ state[j.ev] \in Over
    /\ j.stage = "normalize" =>
          queue[NextJob(j, 1)] # "absent" \/ (items[j] = 0 /\ state[j.ev] = "normalized")
    /\ j.stage = "dedup" => state[j.ev] \in Over

\* Retried jobs, too, find their event where the stage starts from.
OnTime ==
    \A j \in Jobs : j.stage \in Writers /\ (queue[j] = "wait" \/ pc[j] = "guard")
        => state[j.ev] = Before(j.stage)

Trail ==
    /\ OnTime
    /\ \A j \in Jobs :
          /\ queue[j] = "done" => Passed(j)
          /\ queue[j] = "active" => pc[j] # "none"
          /\ j.stage \in Linear /\ sent[j] > 0 => queue[NextJob(j, 1)] # "absent"
          /\ j.stage = "ingest" /\ pc[j] = "enqueue" => items[j] = 1
          /\ j.stage = "resolve" /\ queue[j] # "absent" => items[j] > 0
    /\ \A e \in Evidence : state[e] # "none" =>
          <<e, 0>> \in calls \/ queue[Job(e, "ingest", 0, 0)] # "absent"

TrailInv == OrderInv /\ (~LateFailures /\ ops = 0 => Trail)

LEMMA NextJobShape ==
  ASSUME NEW j \in Jobs, j.stage \in Linear
  PROVE  /\ NextJob(j, 1) \in Jobs /\ NextJob(j, 1).ev = j.ev /\ NextJob(j, 1).run = 0
         /\ Follows(j, NextJob(j, 1)) \/ (j.stage = "resolve" /\ NextJob(j, 1).stage = "dedup")
  <1>1. j.ev \in Evidence /\ 1 \in 1..MaxCands /\ 0 \in Runs
    BY JobShape, BoundAssumption DEF Runs
  <1> QED
    BY <1>1 DEF NextJob, Job, Jobs, Linear, Follows

LEMMA InitTrail == Init => Trail
  BY JobShape DEF Init, Trail, OnTime

\* A job goes on, and perhaps its event.
LEMMA MoveTrail ==
  ASSUME PipeInv, Trail, NEW j \in Jobs, UNCHANGED calls,
         \A o \in Jobs : o # j => /\ pc'[o] = pc[o] /\ queue'[o] = queue[o]
                                  /\ items'[o] = items[o] /\ sent'[o] = sent[o],
         queue[j] # "absent", queue'[j] # "absent",
         \A e \in Evidence : e # j.ev => state'[e] = state[e],
         state'[j.ev] # "none" => state[j.ev] # "none",
         state[j.ev] \in Over => state'[j.ev] \in Over,
         \A o \in Jobs : /\ o # j /\ o.ev = j.ev
                         /\ \/ o.stage \in Writers /\ (queue[o] = "wait" \/ pc[o] = "guard")
                            \/ /\ o.stage = "normalize" /\ queue[o] = "done"
                               /\ queue[NextJob(o, 1)] = "absent" /\ state[o.ev] = "normalized"
                         => state'[o.ev] = state[o.ev],
         j.stage \in Writers /\ (queue'[j] = "wait" \/ pc'[j] = "guard")
             => state'[j.ev] = Before(j.stage),
         queue'[j] = "done" => Passed(j)',
         queue'[j] = "active" => pc'[j] # "none",
         j.stage \in Linear /\ sent'[j] > 0 => sent[j] > 0,
         j.stage = "ingest" /\ pc'[j] = "enqueue" => items'[j] = 1,
         j.stage = "resolve" => items'[j] > 0
  PROVE  Trail'
  <1>1. \A o \in Jobs : queue'[o] = "absent" <=> queue[o] = "absent"
    OBVIOUS
  <1>2. \A o \in Jobs : o.stage \in Linear => NextJob(o, 1) \in Jobs
    BY NextJobShape
  <1>3. \A o \in Jobs : o.ev \in Evidence /\ o.stage \in Linear \cup {"dedup"}
    BY JobShape
  <1>4. OnTime'
    BY <1>3 DEF Trail, OnTime
  <1>5. ASSUME NEW o \in Jobs, queue'[o] = "done" PROVE Passed(o)'
    <2>1. CASE o = j
      BY <1>5, <2>1
    <2>2. CASE o # j
      <3>1. Passed(o) /\ queue[o] = "done" /\ items'[o] = items[o]
        BY <1>5, <2>2 DEF Trail
      <3>2. state[o.ev] \in Over => state'[o.ev] \in Over
        BY <1>3
      <3>3. o.stage \in Linear => (queue'[NextJob(o, 1)] = "absent" <=> queue[NextJob(o, 1)] = "absent")
        BY <1>1, <1>2
      <3>4. o.stage = "normalize" /\ queue[NextJob(o, 1)] = "absent" => state'[o.ev] = state[o.ev]
        BY <1>3, <2>2, <3>1 DEF Passed
      <3> QED
        BY <1>3, <3>1, <3>2, <3>3, <3>4 DEF Passed, NextJob, Job, Linear
    <2> QED
      BY <2>1, <2>2
  <1>6. \A o \in Jobs : /\ queue'[o] = "active" => pc'[o] # "none"
                        /\ o.stage = "ingest" /\ pc'[o] = "enqueue" => items'[o] = 1
                        /\ o.stage = "resolve" /\ queue'[o] # "absent" => items'[o] > 0
    BY DEF Trail
  <1>7. ASSUME NEW o \in Jobs, o.stage \in Linear, sent'[o] > 0
        PROVE  queue'[NextJob(o, 1)] # "absent"
    BY <1>1, <1>2, <1>7 DEF Trail
  <1>8. ASSUME NEW e \in Evidence, state'[e] # "none"
        PROVE  <<e, 0>> \in calls' \/ queue'[Job(e, "ingest", 0, 0)] # "absent"
    <2>1. Job(e, "ingest", 0, 0) \in Jobs
      BY BoundAssumption DEF Job, Jobs, Linear, Runs
    <2>2. state[e] # "none"
      BY <1>8
    <2> QED
      BY <1>1, <2>1, <2>2 DEF Trail
  <1>9. \A o \in Jobs : NextJob(o, 1)' = NextJob(o, 1)
    BY DEF NextJob, Job
  <1> QED
    BY <1>4, <1>5, <1>6, <1>7, <1>8, <1>9 DEF Trail, Job

\* Jobs are added: others see more of them.
LEMMA AddTrail ==
  ASSUME PipeInv, Trail, NEW job \in Jobs, NEW n \in 0..MaxCands, Add({job}, n),
         UNCHANGED <<state, pc>>,
         job.stage \in Writers => state[job.ev] = Before(job.stage),
         job.stage = "resolve" => n > 0,
         NEW j \in Jobs, \A o \in Jobs : o # j => sent'[o] = sent[o],
         j.stage \in Linear /\ sent'[j] > 0 => queue'[NextJob(j, 1)] # "absent",
         \A e \in Evidence : <<e, 0>> \in calls =>
             <<e, 0>> \in calls' \/ queue'[Job(e, "ingest", 0, 0)] # "absent"
  PROVE  Trail'
  <1>1. \A o \in Jobs : \/ queue'[o] = queue[o] /\ items'[o] = items[o]
                        \/ o = job /\ queue[o] = "absent" /\ queue'[o] = "wait"
    BY AddTypes DEF PipeInv
  <1>2. /\ queue'[job] # "absent"
        /\ queue[job] = "absent" => items'[job] = n /\ pc[job] = "none"
    BY DEF Add, PipeInv, Steps
  <1>3. \A o \in Jobs : o.stage \in Linear => NextJob(o, 1) \in Jobs
    BY NextJobShape
  <1>4. OnTime'
    BY <1>1 DEF Trail, OnTime
  <1>5. ASSUME NEW o \in Jobs, queue'[o] = "done" PROVE Passed(o)'
    <2>1. Passed(o) /\ items'[o] = items[o]
      BY <1>1, <1>5 DEF Trail
    <2>2. o.stage \in Linear /\ queue[NextJob(o, 1)] # "absent" => queue'[NextJob(o, 1)] # "absent"
      BY <1>1, <1>3
    <2> QED
      BY <2>1, <2>2 DEF Passed, NextJob, Job, Linear
  <1>6. \A o \in Jobs : /\ queue'[o] = "active" => pc'[o] # "none"
                        /\ o.stage = "ingest" /\ pc'[o] = "enqueue" => items'[o] = 1
                        /\ o.stage = "resolve" /\ queue'[o] # "absent" => items'[o] > 0
    BY <1>1, <1>2 DEF Trail
  <1>7. ASSUME NEW o \in Jobs, o.stage \in Linear, sent'[o] > 0
        PROVE  queue'[NextJob(o, 1)] # "absent"
    BY <1>1, <1>3, <1>7 DEF Trail
  <1>8. ASSUME NEW e \in Evidence, state'[e] # "none"
        PROVE  <<e, 0>> \in calls' \/ queue'[Job(e, "ingest", 0, 0)] # "absent"
    <2>1. Job(e, "ingest", 0, 0) \in Jobs
      BY BoundAssumption DEF Job, Jobs, Linear, Runs
    <2> QED
      BY <1>1, <1>8, <2>1 DEF Trail
  <1>9. \A o \in Jobs : NextJob(o, 1)' = NextJob(o, 1)
    BY DEF NextJob, Job
  <1> QED
    BY <1>4, <1>5, <1>6, <1>7, <1>8, <1>9 DEF Trail, Job

LEMMA CallsTrail ==
  ASSUME PipeInv, Order, Trail, ~LateFailures, NEW e \in Evidence,
         Submit(e) \/ \E run \in Runs : EnqueueCall(e, run) \/ LoseCall(e, run)
  PROVE  Trail'
  <1>1. CASE Submit(e)
    <2>1. /\ state[e] = "none" /\ state' = [state EXCEPT ![e] = "received"]
          /\ calls' = calls \cup {<<e, 0>>} /\ UNCHANGED <<queue, sent, pc, items>>
      BY <1>1 DEF Submit
    <2>2. \A j \in Jobs : j.ev = e => queue[j] = "absent" /\ pc[j] = "none"
      <3>1. ASSUME NEW j \in Jobs, j.ev = e, queue[j] # "absent" PROVE FALSE
        BY <2>1, <3>1, JobShape, RankValues, StartRanks DEF Order, Reached, Linear
      <3> QED
        BY <3>1 DEF PipeInv, Steps
    <2>3. \A d \in Evidence : d # e => state'[d] = state[d]
      BY <2>1 DEF PipeInv, TypeOK
    <2>4. OnTime'
      BY <2>1, <2>2, <2>3, JobShape DEF Trail, OnTime
    <2>5. \A j \in Jobs : queue[j] = "done" => Passed(j)'
      BY <2>1, <2>2, <2>3, JobShape DEF Trail, Passed, NextJob, Job
    <2> QED
      BY <2>1, <2>3, <2>4, <2>5 DEF Trail, NextJob, Job
  <1>2. ASSUME NEW run \in Runs, EnqueueCall(e, run) PROVE Trail'
    <2> DEFINE job == Job(e, "ingest", 0, 0)
    <2>1. /\ run = 0 /\ \A j \in Jobs : j.ev = e => queue[j] = "absent"
      BY <1>2 DEF EnqueueCall, Order, Called
    <2>2. /\ calls' = calls \ {<<e, 0>>} /\ Add({job}, 1) /\ UNCHANGED <<state, pc, sent>>
      BY <1>2, <2>1 DEF EnqueueCall, evidenceVars
    <2>3. job \in Jobs /\ job.ev = e /\ job.stage = "ingest" /\ 1 \in 0..MaxCands
      BY BoundAssumption DEF Job, Jobs, Linear, Runs
    <2>4. queue'[job] # "absent" /\ \A o \in Jobs : queue[o] # "absent" => queue'[o] # "absent"
      BY <2>2, <2>3 DEF Add
    <2>5. \A d \in Evidence : <<d, 0>> \in calls =>
             <<d, 0>> \in calls' \/ queue'[Job(d, "ingest", 0, 0)] # "absent"
      BY <2>2, <2>4
    <2>6. job.stage \in Linear /\ sent'[job] > 0 => queue'[NextJob(job, 1)] # "absent"
      BY <2>2, <2>3, <2>4, NextJobShape DEF Trail
    <2> HIDE DEF job
    <2> QED
      BY <2>2, <2>3, <2>5, <2>6, AddTrail DEF Writers
  <1> QED
    BY <1>1, <1>2 DEF LoseCall

\* Steps of a job that leave its event where it is and add no other.
LEMMA QuietTrail ==
  ASSUME PipeInv, Order, Trail, ~LateFailures, NEW j \in Jobs,
         \/ Take(j) \/ Guard(j) \/ Clean(j) \/ Extract(j) \/ Normalize(j) \/ Resolve(j) \/ Fail(j)
  PROVE  Trail'
  <1>0. /\ DOMAIN pc = Jobs /\ DOMAIN queue = Jobs /\ DOMAIN items = Jobs /\ DOMAIN sent = Jobs
        /\ j.stage \in Linear \cup {"dedup"} /\ j.ev \in Evidence /\ sent[j] \in Nat
    BY BoundAssumption, JobShape DEF PipeInv, TypeOK
  <1>1. /\ UNCHANGED <<state, calls>>
        /\ \A o \in Jobs : o # j => /\ pc'[o] = pc[o] /\ queue'[o] = queue[o]
                                    /\ items'[o] = items[o] /\ sent'[o] = sent[o]
    BY <1>0 DEF Take, Guard, Clean, Extract, Normalize, Resolve, Fail, WorkDone, Complete, evidenceVars
  <1>2. /\ pc[j] # "none" => queue[j] = "active"
        /\ j.stage = "ingest" => pc[j] # "state"
        /\ j.stage = "dedup" => pc[j] \in {"none", "state"}
    BY DEF PipeInv, Steps
  <1>3. queue[j] # "absent" /\ queue'[j] # "absent"
    BY <1>0, <1>2 DEF Take, Guard, Clean, Extract, Normalize, Resolve, Fail, Complete
  <1>4. j.stage \in Writers /\ (queue[j] = "wait" \/ pc[j] \in {"guard", "work", "state"})
            => state[j.ev] = Before(j.stage)
    BY DEF Order, InStep, Trail, OnTime
  <1>5. /\ queue[j] = "active" => pc[j] # "none"
        /\ j.stage = "ingest" /\ pc[j] = "enqueue" => items[j] = 1
        /\ j.stage = "resolve" => items[j] > 0
        /\ sent'[j] > 0 => sent[j] > 0
    BY <1>0, <1>3 DEF Trail, Take, Guard, Clean, Extract, Normalize, Resolve, Fail
  <1>6. CASE Take(j)
    <2>1. /\ queue[j] = "wait" /\ queue'[j] = "active" /\ pc'[j] \in {"guard", "state"}
          /\ UNCHANGED items
      BY <1>0, <1>6 DEF Take
    <2> QED
      BY <1>1, <1>3, <1>4, <1>5, <2>1, MoveTrail
  <1>7. CASE Guard(j)
    <2>1. pc[j] = "guard" /\ UNCHANGED items /\ j.stage \in Linear
      BY <1>0, <1>2, <1>7 DEF Guard
    <2>2. CASE state[j.ev] = Before(j.stage)
      <3>1. pc'[j] = "work" /\ queue'[j] = "active"
        BY <1>0, <1>2, <1>7, <2>2 DEF Guard
      <3> QED
        BY <1>1, <1>3, <1>4, <1>5, <2>1, <3>1, MoveTrail
    <2>3. CASE state[j.ev] # Before(j.stage)
      <3>1. j.stage = "ingest"
        BY <1>4, <2>1, <2>3 DEF Writers, Linear
      <3>2. pc'[j] = "none" /\ queue'[j] = "done"
        BY <1>0, <1>7, <2>3 DEF Guard, Complete
      <3>3. NextJob(j, 1) \in Jobs /\ Follows(j, NextJob(j, 1)) /\ NextJob(j, 1).stage = "extract"
        BY <2>1, <3>1, NextJobShape DEF NextJob, Job
      <3>4. queue[NextJob(j, 1)] # "absent"
        BY <1>3, <2>3, <3>1, <3>3, StartRanks DEF Order, Front
      <3>5. NextJob(j, 1) # j
        BY <3>1, <3>3
      <3>6. Passed(j)'
        BY <1>1, <3>1, <3>3, <3>4, <3>5 DEF Passed, NextJob, Job
      <3> QED
        BY <1>1, <1>3, <1>5, <2>1, <3>1, <3>2, <3>6, MoveTrail DEF Writers
    <2> QED
      BY <2>2, <2>3
  <1>8. CASE Clean(j)
    <2>1. /\ pc'[j] = "enqueue" /\ queue'[j] = "active" /\ j.stage = "ingest" /\ items'[j] = 1
      BY <1>0, <1>2, <1>8 DEF Clean, WorkDone
    <2> QED
      BY <1>1, <1>3, <1>5, <2>1, MoveTrail DEF Writers
  <1>9. CASE Extract(j) \/ Normalize(j) \/ Resolve(j)
    <2>1. /\ pc'[j] = "state" /\ queue'[j] = "active"
          /\ j.stage = "resolve" => items'[j] = items[j]
      BY <1>0, <1>2, <1>9 DEF Extract, Normalize, Resolve, WorkDone
    <2> QED
      BY <1>1, <1>3, <1>5, <2>1, MoveTrail
  <1>10. CASE Fail(j)
    <2>1. /\ queue[j] = "active" /\ queue'[j] \in {"wait", "failed"} /\ pc'[j] = "none"
          /\ UNCHANGED items /\ (pc[j] # "enqueue" \/ j.stage = "ingest")
      BY <1>0, <1>10 DEF Fail
    <2>2. pc[j] \in {"guard", "work", "state", "enqueue"}
      BY <1>5, <2>1 DEF PipeInv, TypeOK
    <2>3. j.stage \in Writers => state[j.ev] = Before(j.stage)
      BY <1>4, <2>1, <2>2 DEF Writers
    <2> QED
      BY <1>1, <1>3, <1>5, <2>1, <2>3, MoveTrail
  <1> QED
    BY <1>6, <1>7, <1>8, <1>9, <1>10

\* The next job is added.
LEMMA SendTrail ==
  ASSUME PipeInv, Order, Trail, NEW j \in Jobs, Send(j)
  PROVE  Trail'
  <1> DEFINE k   == sent[j] + 1
             job == NextJob(j, k)
             n   == IF j.stage = "resolve" THEN 1 ELSE items[j]
  <1>0. /\ MaxCands \in Nat \ {0} /\ j.ev \in Evidence /\ j.stage \in Linear
        /\ items[j] \in 0..MaxCands /\ sent[j] \in 0..MaxCands
    BY BoundAssumption, JobShape DEF PipeInv, TypeOK, Steps, Send
  <1>1. /\ Add({job}, n) /\ n \in 0..MaxCands /\ pc[j] = "enqueue"
        /\ sent' = [sent EXCEPT ![j] = k] /\ UNCHANGED <<state, calls, pc>>
    BY <1>0 DEF Send, evidenceVars
  <1>2. (j.stage # "resolve" => items[j] > 0) /\ k \in 1..MaxCands
    BY <1>0 DEF Send, JobsToSend
  <1>3. job \in Jobs /\ (Follows(j, job) \/ (j.stage = "resolve" /\ job.stage = "dedup"))
    BY <1>0, <1>2, BoundAssumption DEF NextJob, Job, Jobs, Linear, Runs, Follows
  <1>4. queue'[job] # "absent" /\ \A o \in Jobs : queue[o] # "absent" => queue'[o] # "absent"
    BY <1>1, <1>3 DEF Add
  <1>5. NextJob(j, 1) = job \/ (sent[j] > 0 /\ j.stage = "resolve")
    BY <1>0, <1>2 DEF NextJob, Job, Linear
  <1>6. queue'[NextJob(j, 1)] # "absent"
    BY <1>0, <1>4, <1>5, NextJobShape DEF Trail
  <1>7. \A o \in Jobs : o # j => sent'[o] = sent[o]
    BY <1>1 DEF PipeInv, TypeOK
  <1>8. job.stage = "resolve" => n > 0
    BY <1>2, <1>3 DEF Follows
  <1> HIDE DEF job, n, k
  <1>9. CASE queue[job] = "absent"
    <2>1. job.stage \in Writers => state[job.ev] = Before(job.stage)
      BY <1>1, <1>3, <1>9 DEF Order, Front, Follows, Writers
    <2> QED
      BY <1>1, <1>3, <1>6, <1>7, <1>8, <2>1, AddTrail
  <1>10. CASE queue[job] # "absent"
    <2>1. UNCHANGED <<queue, items>>
      BY <1>1, <1>10 DEF Add, PipeInv, TypeOK
    <2> QED
      BY <1>1, <1>6, <1>7, <2>1 DEF Trail, OnTime, Passed, NextJob, Job
  <1> QED
    BY <1>9, <1>10

\* The state is written: nobody else of the event starts from the one before.
LEMMA WriteTrail ==
  ASSUME PipeInv, Order, Trail, NEW j \in Jobs, WriteState(j)
  PROVE  Trail'
  <1>1. /\ pc[j] = "state" /\ pc'[j] = "enqueue" /\ queue[j] = "active" /\ queue'[j] = "active"
        /\ UNCHANGED <<calls, queue, items, sent>>
        /\ state' = [state EXCEPT ![j.ev] = After(j.stage)]
        /\ \A o \in Jobs : o # j => pc'[o] = pc[o]
    BY DEF WriteState, PipeInv, Steps, TypeOK
  <1>2. j.stage \in Writers /\ j.ev \in Evidence /\ j.run = 0 /\ state[j.ev] = Before(j.stage)
    <2>1. j.stage \in Writers
      BY <1>1, JobShape DEF WriteState, PipeInv, Steps, Writers, Linear
    <2> QED
      BY <1>1, <2>1, JobShape DEF Order, InStep, Reached
  <1>3. state[j.ev] # "none" /\ state[j.ev] \notin Over
    BY <1>2, StartRanks DEF Writers, Over
  <1>4. ASSUME NEW o \in Jobs, o # j, o.ev = j.ev,
               o.stage \in Writers, queue[o] = "wait" \/ pc[o] = "guard"
        PROVE  FALSE
    <2>1. o.run = 0 /\ state[o.ev] = Before(o.stage)
      BY <1>4 DEF Trail, OnTime, Order, Reached, PipeInv, Steps
    <2>2. o.stage = j.stage /\ j.stage \in Linear
      BY <1>2, <1>4, <2>1, StartRanks DEF Writers, Linear
    <2> QED
      BY <1>2, <1>4, <2>1, <2>2, OneJob
  <1>5. ASSUME NEW o \in Jobs, o.ev = j.ev, o.stage = "normalize",
               queue[NextJob(o, 1)] = "absent", state[o.ev] = "normalized"
        PROVE  FALSE
    <2>1. /\ NextJob(o, 1) \in Jobs /\ NextJob(o, 1).ev = j.ev /\ NextJob(o, 1).run = 0
          /\ NextJob(o, 1).stage = "resolve"
      BY <1>5, NextJobShape DEF Linear, NextJob, Job
    <2>2. j.stage = "resolve"
      BY <1>2, <1>5, StartRanks DEF Writers
    <2> QED
      BY <1>1, <1>2, <1>5, <2>1, <2>2, OneJob DEF Linear
  <1>6. \A e \in Evidence : e # j.ev => state'[e] = state[e]
    BY <1>1 DEF PipeInv, TypeOK
  <1>7. /\ j.stage = "resolve" => items'[j] > 0
        /\ j.stage # "ingest"
        /\ sent'[j] > 0 => sent[j] > 0
    BY <1>1, <1>2 DEF Trail, Writers
  <1> QED
    BY <1>1, <1>2, <1>3, <1>4, <1>5, <1>6, <1>7, MoveTrail

\* A decision is for an event that all stages have left.
LEMMA DecideTrail ==
  ASSUME PipeInv, Order, Trail, NEW j \in Jobs, Decide(j)
  PROVE  Trail'
  <1>1. PICK s \in {"decided", "failed"} : state' = [state EXCEPT ![j.ev] = s]
    BY DEF Decide
  <1>2. /\ pc[j] = "state" /\ j.stage = "dedup" /\ pc'[j] = "none" /\ queue'[j] = "done"
        /\ queue[j] # "absent" /\ UNCHANGED <<calls, items, sent>>
        /\ \A o \in Jobs : o # j => pc'[o] = pc[o] /\ queue'[o] = queue[o]
    BY DEF Decide, Complete, PipeInv, Steps, TypeOK
  <1>3. Rank(state[j.ev]) >= 4 /\ j.ev \in Evidence
    BY <1>2, JobShape, StartRanks, RankValues DEF Order, Reached
  <1>4. state[j.ev] \notin {"none", "received", "extracted", "normalized"}
    BY <1>3, RankValues
  <1>5. \A o \in Jobs : o.ev = j.ev /\ o.stage \in Writers => state[o.ev] # Before(o.stage)
    BY <1>4, StartRanks DEF Writers
  <1>6. \A e \in Evidence : e # j.ev => state'[e] = state[e]
    BY <1>1 DEF PipeInv, TypeOK
  <1>7. state'[j.ev] \in Over
    BY <1>1, <1>3 DEF PipeInv, TypeOK, Over
  <1>8. Passed(j)'
    BY <1>2, <1>7 DEF Passed
  <1>9. j.stage \notin Linear /\ j.stage \notin Writers
    BY <1>2 DEF Linear, Writers
  <1>10. \A o \in Jobs : o.stage \in Writers /\ (queue[o] = "wait" \/ pc[o] = "guard")
            => o.ev # j.ev
    BY <1>5 DEF Trail, OnTime
  <1> QED
    BY <1>2, <1>4, <1>6, <1>7, <1>8, <1>9, <1>10, MoveTrail

\* A handler that returns has added what there was to add.
LEMMA ReturnTrail ==
  ASSUME PipeInv, Order, Trail, NEW j \in Jobs, Return(j)
  PROVE  Trail'
  <1> DEFINE next == NextJob(j, 1)
  <1>1. /\ pc[j] = "enqueue" /\ pc'[j] = "none" /\ queue'[j] = "done"
        /\ queue[j] # "absent" /\ UNCHANGED <<calls, items>> /\ sent'[j] = 0
        /\ sent[j] = JobsToSend(j)
        /\ \A o \in Jobs : o # j => /\ pc'[o] = pc[o] /\ queue'[o] = queue[o]
                                     /\ sent'[o] = sent[o]
    BY DEF Return, Complete, PipeInv, Steps, TypeOK
  <1>2. /\ j.ev \in Evidence /\ j.stage \in Linear /\ items[j] \in Nat /\ DOMAIN state = Evidence
        /\ j.run = 0 /\ (j.stage = "ingest" => items[j] = 1) /\ (j.stage = "resolve" => items[j] > 0)
    BY <1>1, JobShape, BoundAssumption DEF PipeInv, TypeOK, Steps, Order, Reached, Trail
  <1>3. /\ next \in Jobs /\ next.ev = j.ev /\ next.run = 0 /\ next' = next /\ next # j
        /\ Follows(j, next) \/ j.stage = "resolve"
        /\ next.stage = CASE j.stage = "ingest" -> "extract" [] j.stage = "extract" -> "normalize"
                           [] j.stage = "normalize" -> "resolve" [] j.stage = "resolve" -> "dedup"
    BY <1>2, NextJobShape DEF NextJob, Job, Linear
  <1>4. items[j] > 0 => queue'[next] # "absent"
    <2> SUFFICES ASSUME items[j] > 0 PROVE queue'[next] # "absent"
      OBVIOUS
    <2>1. sent[j] > 0
      BY <1>1, <1>2 DEF JobsToSend
    <2>2. queue[next] # "absent"
      BY <1>2, <2>1 DEF Trail
    <2> QED
      BY <1>1, <1>3, <2>2
  <1> HIDE DEF next
  <1>5. CASE j.stage = "extract" /\ items[j] = 0
    <2>1. state' = [state EXCEPT ![j.ev] = "decided"]
      BY <1>5 DEF Return
    <2>2. queue[next] = "absent" /\ state[j.ev] = "extracted" /\ next.stage = "normalize"
      BY <1>1, <1>3, <1>5, StartRanks DEF Order, Added, Front
    <2>3. ASSUME NEW o \in Jobs, o # j, o.ev = j.ev,
                 o.stage \in Writers, queue[o] = "wait" \/ pc[o] = "guard"
          PROVE  FALSE
      <3>1. o.run = 0 /\ queue[o] # "absent" /\ state[o.ev] = Before(o.stage)
        BY <2>3 DEF Trail, OnTime, Order, Reached, PipeInv, Steps
      <3>2. o.stage = "normalize"
        BY <2>2, <2>3, <3>1, StartRanks DEF Writers
      <3> QED
        BY <1>3, <2>2, <2>3, <3>1, <3>2, OneJob DEF Linear
    <2>4. state'[j.ev] \in Over /\ \A e \in Evidence : e # j.ev => state'[e] = state[e]
      BY <1>2, <2>1 DEF Over
    <2>5. Passed(j)'
      BY <1>5, <2>4 DEF Passed
    <2> QED
      BY <1>1, <1>2, <1>5, <2>2, <2>3, <2>4, <2>5, MoveTrail
  <1>6. CASE j.stage # "extract" \/ items[j] # 0
    <2>1. UNCHANGED state
      BY <1>6 DEF Return
    <2>2. j.stage = "normalize" /\ queue[next] = "absent" => state[j.ev] = "normalized"
      BY <1>1, <1>3, StartRanks DEF Order, Front
    <2>3. Passed(j)'
      <3>1. CASE items[j] > 0
        BY <1>2, <1>3, <1>4, <3>1 DEF Passed, next, Linear
      <3>2. CASE items[j] = 0
        <4>1. j.stage = "normalize"
          BY <1>2, <1>6, <3>2 DEF Linear
        <4>2. queue'[next] = queue[next]
          BY <1>1, <1>3
        <4> QED
          BY <1>1, <1>3, <2>1, <2>2, <3>2, <4>1, <4>2 DEF Passed, next
      <3> QED
        BY <1>2, <3>1, <3>2
    <2>4. pc'[j] # "guard" /\ queue'[j] # "wait" /\ queue'[j] # "active" /\ ~(sent'[j] > 0)
      BY <1>1
    <2> QED
      BY <1>1, <1>2, <2>1, <2>3, <2>4, MoveTrail
  <1> QED
    BY <1>5, <1>6

\* A step of anybody, while nobody has replayed and no handler fails late.
LEMMA NextTrail ==
  ASSUME TrailInv, Next, ops' = 0, ~LateFailures
  PROVE  Trail'
  <1>1. PipeInv /\ ops \in Nat
    BY BoundAssumption DEF TrailInv, OrderInv, PipeInv, TypeOK
  <1>2. ASSUME NEW e \in Evidence, ReplayFromStart(e) \/ \E s : ReplayFromStage(e, s) PROVE FALSE
    <2>1. ops' = ops + 1
      <3>1. ASSUME NEW s, ReplayFromStage(e, s) PROVE ops' = ops + 1
        BY <3>1, Zenon DEF ReplayFromStage
      <3> QED
        BY <1>2, <3>1 DEF ReplayFromStart
    <2> QED
      BY <1>1, <2>1
  <1>3. ASSUME NEW j \in Jobs, RetryFailed(j) PROVE FALSE
    BY <1>1, <1>3 DEF RetryFailed
  <1>4. Order /\ Trail
    <2>1. UNCHANGED ops
      BY <1>2, <1>3 DEF Next, Step, Submit, EnqueueCall, LoseCall, Take, Guard, Clean, Extract,
         Normalize, Resolve, WriteState, Decide, Send, Return, Fail
    <2> QED
      BY <2>1 DEF TrailInv, OrderInv
  <1>5. ASSUME NEW e \in Evidence,
               Submit(e) \/ \E run \in Runs : EnqueueCall(e, run) \/ LoseCall(e, run)
        PROVE  Trail'
    BY <1>1, <1>4, <1>5, CallsTrail
  <1>6. ASSUME NEW j \in Jobs, Step(j) \/ Fail(j) PROVE Trail'
    BY <1>1, <1>4, <1>6, QuietTrail, SendTrail, WriteTrail, DecideTrail, ReturnTrail DEF Step
  <1> QED
    BY <1>2, <1>3, <1>5, <1>6 DEF Next

\* Every step keeps the trail.
LEMMA TrailInductive == Spec => []TrailInv
  <1>1. Init => TrailInv
    BY InitPipeInv, InitOrder, InitTrail DEF TrailInv, OrderInv
  <1>2. OrderInv /\ OrderInv' /\ TrailInv /\ [Next]_vars => TrailInv'
    <2> SUFFICES ASSUME OrderInv, OrderInv', TrailInv, [Next]_vars, ~LateFailures, ops' = 0
                 PROVE  Trail'
      BY DEF TrailInv
    <2>1. CASE UNCHANGED vars
      BY <2>1 DEF vars, evidenceVars, TrailInv, Trail, OnTime, Passed, NextJob, Job
    <2>2. CASE Next
      BY <2>2, NextTrail
    <2> QED
      BY <2>1, <2>2
  <1> QED
    BY <1>1, <1>2, OrderInductive, PTL DEF Spec

\* Every event accepted by EvidenceService.ingest is accounted for once its jobs are
\* over, if no handler fails after its state write and nobody replays: the trail of
\* jobs that are done leads to a decision, to a failed job or to no candidates.
THEOREM NothingLostTheorem == Spec => []NothingLost
  <1>1. TrailInv => NothingLost
    <2> SUFFICES ASSUME TrailInv, ~LateFailures, ops = 0, NEW e \in Evidence,
                        state[e] # "none", Quiet(e), state[e] \notin Over,
                        \A j \in Jobs : j.ev = e => queue[j] # "failed"
                 PROVE  state[e] = "normalized" /\ items[Job(e, "normalize", 0, 0)] = 0
      BY DEF NothingLost, Over
    <2>1. PipeInv /\ Trail /\ 0 \in Runs /\ 1 \in 1..MaxCands
      BY BoundAssumption DEF TrailInv, OrderInv, Runs
    <2>2. \A j \in Jobs : j.ev = e /\ queue[j] # "absent" => Passed(j)
      BY <2>1 DEF Quiet, PipeInv, TypeOK, Trail
    <2> DEFINE ingest    == Job(e, "ingest", 0, 0)
               extract   == Job(e, "extract", 0, 0)
               normalize == Job(e, "normalize", 0, 0)
               resolve   == Job(e, "resolve", 0, 0)
               dedup     == Job(e, "dedup", 1, 0)
    <2>3. {ingest, extract, normalize, resolve, dedup} \subseteq Jobs
      BY <2>1 DEF Job, Jobs, Linear
    <2>4. queue[ingest] # "absent"
      BY <2>1 DEF Trail, Quiet
    <2>5. queue[extract] # "absent"
      BY <2>2, <2>3, <2>4 DEF Passed, NextJob, Job
    <2>6. queue[normalize] # "absent"
      BY <2>2, <2>3, <2>5 DEF Passed, NextJob, Job
    <2>7. ~(queue[dedup] # "absent")
      BY <2>2, <2>3 DEF Passed, Job
    <2>8. queue[resolve] = "absent"
      BY <2>2, <2>3, <2>7 DEF Passed, NextJob, Job
    <2> QED
      BY <2>2, <2>3, <2>6, <2>8 DEF Passed, NextJob, Job
  <1> QED
    BY <1>1, TrailInductive, PTL
=============================================================================
