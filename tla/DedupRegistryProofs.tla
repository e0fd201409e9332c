------------------------ MODULE DedupRegistryProofs ------------------------
(***************************************************************************)
(* The dedup stage, for any candidates.  It uses the matter lock as        *)
(* MatterLock says, so that what is proved of the lock holds of the stage; *)
(* a completed job has left what its verdict calls for, whoever died and   *)
(* retried on the way; and where sections exclude each other, a task is    *)
(* made only if there is none, none is lost before assignment, and         *)
(* open_evidence_count keeps up with the links.                            *)
(***************************************************************************)
EXTENDS DedupRegistry, FiniteSetTheorems, SequenceTheorems, TLAPS

\* The lock, with its theorems.
LockP == INSTANCE MatterLockProofs WITH
            Jobs <- Candidates, MatterOf <- [c \in Candidates |-> Cand[c].matter]

\* What a job does apart from the lock leaves the lock alone; the rest are the
\* steps of the lock.
LEMMA NextLock == [Next]_vars => [Lock!Next]_(Lock!vars)
  <1> SUFFICES ASSUME [Next]_vars PROVE Lock!Next \/ UNCHANGED Lock!vars
    BY DEF Lock!vars
  <1> USE DEF lockVars, Lock!vars
  <1>1. ASSUME NEW c \in Candidates, Start(c) \/ LockTimeout(c) \/ Unlock(c) \/ Kill(c)
        PROVE  Lock!Next \/ UNCHANGED Lock!vars
    BY <1>1 DEF Start, LockTimeout, Unlock, Kill, Lock!Next, Lock!Step
  <1>2. ASSUME NEW c \in Candidates, AwaitLock(c) \/ SetEvidence(c) \/ Throw(c)
        PROVE  Lock!Next
    BY <1>2 DEF AwaitLock, SetEvidence, Throw, Lock!Next, Lock!Step
  <1>3. ASSUME NEW c \in Candidates, Work(c), ~LockTimeout(c), ~Unlock(c),
                                     ~AwaitLock(c), ~SetEvidence(c)
        PROVE  UNCHANGED Lock!vars
    BY <1>3 DEF Work, Enqueue, RetryJob, FindExact, FindSimilar, InsertTask, ReadForEnrich,
                FillFields, AddLink, IncrementCount, InsertDecision, CreateReview
  <1>4. ASSUME NEW m \in Matters, ExpireKey(m) PROVE Lock!Next
    BY <1>4 DEF ExpireKey, Lock!Next
  <1>5. ASSUME NEW t \in TaskIds, HumanSetDue(t) \/ \E open \in BOOLEAN : HumanSetStatus(t, open)
        PROVE  UNCHANGED Lock!vars
    BY <1>5 DEF HumanSetDue, HumanSetStatus, Patch
  <1>6. CASE UNCHANGED vars
    BY <1>6 DEF vars
  <1> QED
    BY <1>1, <1>2, <1>3, <1>4, <1>5, <1>6 DEF Next, Work

\* The dedup stage implements the matter lock.
THEOREM Refinement == Spec => LockSpec
  <1>1. Init => Lock!Init
    BY DEF Init
  <1> QED
    BY <1>1, NextLock, PTL DEF Spec, LockSpec, Lock!Spec

\* The proofs about the lock are about this one.
LEMMA SameLock ==
  /\ LockP!MatterAssumption /\ LockP!LockIdAssumption /\ LockP!RetryAssumption /\ LockP!OverrunAssumption
  /\ Spec => LockP!Spec
  <1>1. LockP!MatterAssumption /\ LockP!LockIdAssumption
           /\ LockP!RetryAssumption /\ LockP!OverrunAssumption
    BY CandAssumption, LockAssumption
       DEF LockP!MatterAssumption, LockP!LockIdAssumption, LockP!RetryAssumption,
           LockP!OverrunAssumption
  <1>2. Lock!Init => LockP!Init
    BY DEF Lock!Init, LockP!Init
  <1>3. [Lock!Next]_(Lock!vars) => [LockP!Next]_(LockP!vars)
    BY DEF Lock!Next, Lock!Step, Lock!vars, Lock!Enter, Lock!Acquire, Lock!Retry,
           Lock!GiveUp, Lock!Finish, Lock!Release, Lock!Crash, Lock!Expire, Lock!Locked,
           Lock!FreshIds, Lock!Owns,
           LockP!Next, LockP!Step, LockP!vars, LockP!Enter, LockP!Acquire, LockP!Retry,
           LockP!GiveUp, LockP!Finish, LockP!Release, LockP!Crash, LockP!Expire,
           LockP!Locked, LockP!FreshIds, LockP!Owns
  <1> QED
    BY <1>1, <1>2, <1>3, Refinement, PTL DEF LockSpec, Lock!Spec, LockP!Spec

\* In known matters, no two jobs whose sections fit the TTL of the key are in
\* their sections at the same time.
THEOREM SectionsSerialized == Spec => []Lock!MutexUnlessOverrun
  <1>1. LockP!Spec => []LockP!MutexUnlessOverrun
    BY SameLock, LockP!MutexTheorem
  <1>2. LockP!MutexUnlessOverrun => Lock!MutexUnlessOverrun
    BY DEF LockP!MutexUnlessOverrun, Lock!MutexUnlessOverrun,
           LockP!Locked, Lock!Locked
  <1> QED
    BY <1>1, <1>2, SameLock, PTL

\* The lock variables keep their types.
LEMMA LockTypes == Spec => []Lock!TypeOK
  <1>1. LockP!Spec => []LockP!TypeOK
    BY SameLock, LockP!TypeCorrect
  <1>2. LockP!TypeOK => Lock!TypeOK
    BY DEF LockP!TypeOK, Lock!TypeOK, LockP!Phases, Lock!Phases
  <1> QED
    BY <1>1, <1>2, SameLock, PTL

-----------------------------------------------------------------------------
(* What a job has no more to do has been done *)

Queries == {"exact", "similar", "read", "fill", "insert", "link", "count", "decide", "review",
            "evidence"}
Plans   == [kind : Kinds, task : TaskIds \cup {NoTask}, fill : BOOLEAN]
AnyPlan == [kind : Kinds \cup {"none"}, task : TaskIds \cup {NoTask}, fill : BOOLEAN]
Rows    == [matter : Matters \cup {NoMatter}, print : {Cand[c].print : c \in Candidates},
            open : BOOLEAN, human : BOOLEAN, due : {"none", "pipeline", "human"}, count : Nat]

\* The queries of a verdict that are left after the first n of them.
Rest(kind, n) == SubSeq(QueriesOf(kind), n + 1, Len(QueriesOf(kind)))

\* What query q of candidate c has left behind.
Effected(c, q) ==
    /\ q = "insert"   => /\ plan[c].task \in TaskIds
                         /\ tasks[plan[c].task].print = Cand[c].print
                         /\ tasks[plan[c].task].matter = Cand[c].matter
    /\ q = "link"     => <<plan[c].task, Cand[c].evidence>> \in links
    /\ q = "decide"   => [cand |-> c, outcome |-> plan[c].kind, task |-> plan[c].task] \in decisions
    /\ q = "review"   => c \in reviews
    /\ q = "evidence" => evState[Cand[c].evidence] # "resolved"

\* The task a verdict is about, once n of its queries are made.
Targeted(c, n) ==
    /\ plan[c].kind \in {"merge", "enrich", "followup"} => plan[c].task \in TaskIds
    /\ plan[c].kind = "create" => IF n = 0 THEN plan[c].task = NoTask ELSE plan[c].task \in TaskIds
    /\ plan[c].kind \in {"discard", "review"} => plan[c].task = NoTask
    /\ plan[c].kind = "discard" <=> Cand[c].conf = "low"

\* A job that has made n queries of its verdict.
Made(c, n) ==
    /\ plan[c] \in Plans /\ n \in 0..Len(QueriesOf(plan[c].kind)) /\ todo[c] = Rest(plan[c].kind, n)
    /\ \A i \in 1..n : Effected(c, QueriesOf(plan[c].kind)[i])
    /\ Targeted(c, n)

\* Such a job is in its section until it has made them all; then it returns, and
\* the worker queues the assignment.
JobAt(c, n) ==
    /\ n < Len(QueriesOf(plan[c].kind)) => job[c] = "active" /\ phase[c] = "inside"
    /\ n = Len(QueriesOf(plan[c].kind)) =>
          \/ job[c] = "decided" /\ phase[c] \in {"idle", "leaving"}
          \/ /\ job[c] = "done" /\ phase[c] = "idle"
             /\ plan[c].kind \in {"merge", "create", "followup"} =>
                   <<plan[c].task, Cand[c].evidence>> \in assignQ

Undecided(c) ==
    /\ plan[c] = NoPlan
    /\ \/ job[c] \in {"wait", "failed"} /\ phase[c] = "idle" /\ todo[c] = <<>>
       \/ job[c] = "threw" /\ phase[c] \in {"idle", "leaving"} /\ todo[c] = <<>>
       \/ job[c] = "active" /\ phase[c] \in {"trying", "inside"} /\ todo[c] = <<"exact">>
       \/ job[c] = "active" /\ phase[c] = "inside" /\ todo[c] = <<"similar">>
          /\ Cand[c].conf # "low"

Consistent(c) == Undecided(c) \/ \E n \in Nat : Made(c, n) /\ JobAt(c, n)

\* Every task is from a candidate.
FromCandidates == \A t \in TaskIds : \E c \in Candidates : /\ tasks[t].print = Cand[c].print
                                                           /\ tasks[t].matter = Cand[c].matter

\* A job that has not failed has attempts left.
TriesLeft == \A c \in Candidates : job[c] # "failed" => tries[c] < MaxTries

RegInv == TypeOK /\ (\A c \in Candidates : Consistent(c)) /\ FromCandidates /\ TriesLeft

\* What the sections of the verdicts have in common.
LEMMA QueryFacts ==
  ASSUME NEW k \in Kinds
  PROVE  /\ QueriesOf(k) \in Seq(Queries) /\ Len(QueriesOf(k)) \in 2..6
         /\ \A i \in 1..Len(QueriesOf(k)) :
               /\ QueriesOf(k)[i] = "evidence" <=> i = Len(QueriesOf(k))
               /\ QueriesOf(k)[i] = "insert" <=> i = 1 /\ k \in {"create", "followup"}
               /\ QueriesOf(k)[i] \in {"read", "fill"} => k = "enrich"
               /\ QueriesOf(k)[i] = "link" => k \in {"merge", "enrich", "create", "followup"}
               /\ QueriesOf(k)[i] = "count" => k \in {"merge", "enrich"}
               /\ k = "merge" => (QueriesOf(k)[i] = "count" <=> i = 2)
               /\ QueriesOf(k)[i] = "review" => k = "review"
               /\ QueriesOf(k)[i] \notin {"exact", "similar"}
         /\ \E i \in 1..Len(QueriesOf(k)) : QueriesOf(k)[i] = "decide"
         /\ k \in {"merge", "enrich", "create", "followup"} =>
               \E i \in 1..Len(QueriesOf(k)) : QueriesOf(k)[i] = "link"
         /\ k = "review" => \E i \in 1..Len(QueriesOf(k)) : QueriesOf(k)[i] = "review"
  <1> USE DEF Queries
  <1>1. CASE k \in {"discard"}
    <2> DEFINE s == <<"decide", "evidence">>
    <2>1. QueriesOf(k) = s
      BY <1>1 DEF QueriesOf
    <2>2. s \in Seq(Queries) /\ Len(s) = 2 /\ s[1] = "decide" /\ s[2] = "evidence"
      OBVIOUS
    <2> HIDE DEF s
    <2> QED
      BY <1>1, <2>1, <2>2
  <1>2. CASE k \in {"merge"}
    <2> DEFINE s == <<"link", "count", "decide", "evidence">>
    <2>1. QueriesOf(k) = s
      BY <1>2 DEF QueriesOf
    <2>2. s \in Seq(Queries) /\ Len(s) = 4 /\ s[1] = "link" /\ s[2] = "count" /\ s[3] = "decide" /\ s[4] = "evidence"
      OBVIOUS
    <2> HIDE DEF s
    <2> QED
      BY <1>2, <2>1, <2>2
  <1>3. CASE k \in {"enrich"}
    <2> DEFINE s == <<"read", "fill", "link", "count", "decide", "evidence">>
    <2>1. QueriesOf(k) = s
      BY <1>3 DEF QueriesOf
    <2>2. s \in Seq(Queries) /\ Len(s) = 6 /\ s[1] = "read" /\ s[2] = "fill" /\ s[3] = "link" /\ s[4] = "count" /\ s[5] = "decide" /\ s[6] = "evidence"
      OBVIOUS
    <2> HIDE DEF s
    <2> QED
      BY <1>3, <2>1, <2>2
  <1>4. CASE k \in {"review"}
    <2> DEFINE s == <<"decide", "review", "evidence">>
    <2>1. QueriesOf(k) = s
      BY <1>4 DEF QueriesOf
    <2>2. s \in Seq(Queries) /\ Len(s) = 3 /\ s[1] = "decide" /\ s[2] = "review" /\ s[3] = "evidence"
      OBVIOUS
    <2> HIDE DEF s
    <2> QED
      BY <1>4, <2>1, <2>2
  <1>5. CASE k \in {"create", "followup"}
    <2>1. QueriesOf(k) = <<"insert", "link", "decide", "evidence">>
      BY <1>5 DEF QueriesOf
    <2> QED
      BY <1>5, <2>1
  <1> QED
    BY <1>1, <1>2, <1>3, <1>4, <1>5 DEF Kinds

\* What is left of a verdict after n queries begins with the next one.
LEMMA RestFacts ==
  ASSUME NEW k \in Kinds, NEW n \in 0..Len(QueriesOf(k))
  PROVE  /\ Rest(k, n) \in Seq(Queries) /\ Len(Rest(k, n)) = Len(QueriesOf(k)) - n
         /\ n < Len(QueriesOf(k)) => /\ Rest(k, n) # <<>>
                                     /\ Head(Rest(k, n)) = QueriesOf(k)[n + 1]
                                     /\ Tail(Rest(k, n)) = Rest(k, n + 1)
         /\ n = Len(QueriesOf(k)) => Rest(k, n) = <<>>
         /\ Rest(k, 0) = QueriesOf(k)
  <1> DEFINE Q == QueriesOf(k)
  <1>1. Q \in Seq(Queries) /\ Len(Q) \in Nat /\ n \in 0..Len(Q)
    BY QueryFacts
  <1>2. \A i \in (n + 1)..Len(Q) : Q[i] \in Queries
    BY <1>1
  <1> HIDE DEF Q
  <1>3. SubSeq(Q, n + 1, Len(Q)) \in Seq(Queries) /\ Len(SubSeq(Q, n + 1, Len(Q))) = Len(Q) - n
    BY <1>1, <1>2, SubSeqProperties DEF Q
  <1>4. ASSUME n < Len(Q)
        PROVE  /\ Head(SubSeq(Q, n + 1, Len(Q))) = Q[n + 1]
               /\ Tail(SubSeq(Q, n + 1, Len(Q))) = SubSeq(Q, (n + 1) + 1, Len(Q))
    <2>1. n + 1 \in 1..Len(Q) /\ Len(Q) \in (n + 1)..Len(Q)
      BY <1>1, <1>4 DEF Q
    <2> QED
      BY <1>1, <2>1, HeadTailOfSubSeq
  <1>5. n = Len(Q) => SubSeq(Q, n + 1, Len(Q)) = <<>>
    BY <1>1, SubSeqEmpty
  <1>6. SubSeq(Q, 1, Len(Q)) = Q
    BY <1>1, SubSeqFull
  <1>7. n < Len(Q) => SubSeq(Q, n + 1, Len(Q)) # <<>>
    <2> SUFFICES ASSUME n < Len(Q), SubSeq(Q, n + 1, Len(Q)) = <<>> PROVE FALSE
      OBVIOUS
    <2>1. Len(SubSeq(Q, n + 1, Len(Q))) = 0
      BY EmptySeq
    <2> QED
      BY <1>1, <1>3, <2>1
  <1>8. /\ Rest(k, n) = SubSeq(Q, n + 1, Len(Q)) /\ Rest(k, n + 1) = SubSeq(Q, (n + 1) + 1, Len(Q))
        /\ Rest(k, 0) = SubSeq(Q, 1, Len(Q))
    BY DEF Rest, Q
  <1> QED
    BY <1>3, <1>4, <1>5, <1>6, <1>7, <1>8 DEF Q

\* Nobody takes back what a query has left behind.
Grows ==
    /\ links \subseteq links' /\ decisions \subseteq decisions' /\ reviews \subseteq reviews'
    /\ assignQ \subseteq assignQ'
    /\ \A e \in Evidence : evState[e] # "resolved" => evState'[e] # "resolved"
    /\ TaskIds \subseteq TaskIds'
    /\ \A t \in TaskIds : tasks'[t].print = tasks[t].print /\ tasks'[t].matter = tasks[t].matter

\* Nothing happens to the other jobs.
Others(c) ==
    \A b \in Candidates \ {c} : /\ job'[b] = job[b] /\ phase'[b] = phase[b]
                                /\ todo'[b] = todo[b] /\ plan'[b] = plan[b]

Act(c) == Start(c) \/ Work(c) \/ Throw(c) \/ Kill(c)

\* The state variables one by one, without the lock's.
RegTypes ==
    /\ job \in [Candidates -> {"wait", "active", "decided", "threw", "done", "failed"}]
    /\ tries \in [Candidates -> 0..MaxTries]
    /\ stalls \in [Candidates -> 0..MaxStalls]
    /\ todo \in [Candidates -> Seq(Queries)]
    /\ plan \in [Candidates -> AnyPlan]
    /\ tasks \in Seq(Rows)
    /\ links \subseteq TaskIds \X Evidence
    /\ decisions \subseteq [cand : Candidates, outcome : Kinds, task : TaskIds \cup {NoTask}]
    /\ reviews \subseteq Candidates
    /\ evState \in [Evidence -> {"resolved", "decided", "failed"}]
    /\ assignQ \subseteq TaskIds \X Evidence
    /\ edits \in 0..MaxEdits

\* The type invariant, with the lock's part and the queries named.
LEMMA Types == TypeOK <=> Lock!TypeOK /\ RegTypes
  BY DEF TypeOK, RegTypes, Queries, AnyPlan, Rows

\* The phases a job can be in.
LEMMA PhaseType == TypeOK => phase \in [Candidates -> {"idle", "trying", "inside", "leaving"}]
  BY DEF TypeOK, Lock!TypeOK, Lock!Phases

\* The rows have the numbers from 1 on; NoTask is none of them.
LEMMA TasksType ==
  ASSUME TypeOK
  PROVE  /\ tasks \in Seq(Rows) /\ Len(tasks) \in Nat /\ TaskIds = 1..Len(tasks)
         /\ NoTask \notin TaskIds /\ \A t \in TaskIds : tasks[t] \in Rows
  <1>1. tasks \in Seq(Rows)
    BY Types DEF RegTypes
  <1>2. Len(tasks) \in Nat /\ TaskIds = 1..Len(tasks)
    BY <1>1, LenProperties DEF TaskIds
  <1> QED
    BY <1>1, <1>2, ElementOfSeq, BoundAssumption

\* The step of one job leaves the others where they are.
LEMMA Frame ==
  ASSUME TypeOK, NEW c \in Candidates, Act(c)
  PROVE  Others(c)
  <1>1. /\ job \in [Candidates -> {"wait", "active", "decided", "threw", "done", "failed"}]
        /\ todo \in [Candidates -> Seq(Queries)] /\ plan \in [Candidates -> AnyPlan]
        /\ phase \in [Candidates -> {"idle", "trying", "inside", "leaving"}]
    BY Types, PhaseType DEF RegTypes
  <1>2. CASE Start(c) \/ AwaitLock(c) \/ LockTimeout(c) \/ Unlock(c) \/ Throw(c) \/ Kill(c)
    BY <1>1, <1>2 DEF Others, Start, AwaitLock, LockTimeout, Unlock, Throw, Kill, Forget, queueVars,
       lockVars, Lock!Enter, Lock!Acquire, Lock!Retry, Lock!GiveUp, Lock!Release, Lock!Finish, Lock!Crash
  <1>3. CASE Enqueue(c) \/ RetryJob(c) \/ SetEvidence(c)
    BY <1>1, <1>3 DEF Others, Enqueue, RetryJob, SetEvidence, Advance, lockVars, Lock!Finish
  <1>4. CASE FindExact(c) \/ FindSimilar(c)
    BY <1>1, <1>4 DEF Others, FindExact, FindSimilar, MergeOrFollowUp, Plan, lockVars, queueVars
  <1>5. CASE \/ InsertTask(c) \/ ReadForEnrich(c) \/ FillFields(c) \/ AddLink(c)
             \/ IncrementCount(c) \/ InsertDecision(c) \/ CreateReview(c)
    BY <1>1, <1>5 DEF Others, InsertTask, ReadForEnrich, FillFields, AddLink, IncrementCount,
       InsertDecision, CreateReview, Advance, lockVars, queueVars
  <1> QED
    BY <1>2, <1>3, <1>4, <1>5 DEF Act, Work

\* An updated row keeps its print and its matter.
LEMMA RowUpdate ==
  ASSUME TypeOK, NEW t \in TaskIds, NEW row \in Rows, tasks' = [tasks EXCEPT ![t] = row],
         row.print = tasks[t].print, row.matter = tasks[t].matter
  PROVE  /\ tasks' \in Seq(Rows) /\ TaskIds' = TaskIds
         /\ \A u \in TaskIds : tasks'[u].print = tasks[u].print /\ tasks'[u].matter = tasks[u].matter
         /\ \A u \in TaskIds : u # t => tasks'[u] = tasks[u]
         /\ tasks'[t] = row
  <1>1. tasks \in Seq(Rows) /\ t \in 1..Len(tasks) /\ TaskIds = 1..Len(tasks)
    BY TasksType
  <1>2. /\ tasks' \in Seq(Rows) /\ Len(tasks') = Len(tasks)
        /\ \A u \in 1..Len(tasks) : tasks'[u] = IF u = t THEN row ELSE tasks[u]
    BY <1>1, ExceptSeq
  <1>3. TaskIds' = TaskIds
    BY <1>1, <1>2, LenProperties DEF TaskIds
  <1> QED
    BY <1>1, <1>2, <1>3

\* A new row is the last one.
LEMMA RowAppended ==
  ASSUME TypeOK, NEW row \in Rows, tasks' = Append(tasks, row)
  PROVE  /\ tasks' \in Seq(Rows) /\ TaskIds' = TaskIds \cup {Len(tasks) + 1}
         /\ Len(tasks) + 1 \notin TaskIds
         /\ tasks'[Len(tasks) + 1] = row
         /\ \A u \in TaskIds : tasks'[u] = tasks[u]
  <1>1. tasks \in Seq(Rows) /\ TaskIds = 1..Len(tasks) /\ Len(tasks) \in Nat
    BY TasksType
  <1>2. /\ tasks' \in Seq(Rows) /\ Len(tasks') = Len(tasks) + 1
        /\ \A u \in 1..Len(tasks) : tasks'[u] = tasks[u]
        /\ tasks'[Len(tasks) + 1] = row
    BY <1>1, AppendProperties
  <1>3. TaskIds' = 1..(Len(tasks) + 1)
    BY <1>2, LenProperties DEF TaskIds
  <1> QED
    BY <1>1, <1>2, <1>3

\* A job about to make a query of its verdict has made the ones before it.
LEMMA AtQuery ==
  ASSUME TypeOK, NEW c \in Candidates, Consistent(c), NEW q, At(c, q), q \notin {"exact", "similar"}
  PROVE  \E n \in Nat : /\ Made(c, n) /\ job[c] = "active" /\ n < Len(QueriesOf(plan[c].kind))
                        /\ QueriesOf(plan[c].kind)[n + 1] = q
                        /\ Tail(todo[c]) = Rest(plan[c].kind, n + 1)
                        /\ plan[c].kind \in Kinds /\ Len(QueriesOf(plan[c].kind)) \in Nat
  <1>1. todo[c] # <<>> /\ Head(todo[c]) = q
    BY DEF At
  <1>2. ~Undecided(c)
    BY <1>1 DEF Undecided
  <1>3. PICK n \in Nat : Made(c, n) /\ JobAt(c, n)
    BY <1>2 DEF Consistent
  <1>4. plan[c].kind \in Kinds /\ n \in 0..Len(QueriesOf(plan[c].kind)) /\ todo[c] = Rest(plan[c].kind, n)
    BY <1>3 DEF Made, Plans
  <1>5. Len(QueriesOf(plan[c].kind)) \in Nat
    BY <1>4, QueryFacts
  <1>6. n < Len(QueriesOf(plan[c].kind))
    BY <1>1, <1>4, <1>5, RestFacts
  <1>7. /\ QueriesOf(plan[c].kind)[n + 1] = q /\ Tail(todo[c]) = Rest(plan[c].kind, n + 1)
        /\ job[c] = "active"
    BY <1>1, <1>3, <1>4, <1>6, RestFacts DEF JobAt
  <1> QED
    BY <1>3, <1>4, <1>5, <1>6, <1>7

\* Before it, it is undecided.
LEMMA AtLookup ==
  ASSUME TypeOK, NEW c \in Candidates, Consistent(c), NEW q \in {"exact", "similar"}, At(c, q)
  PROVE  /\ plan[c] = NoPlan /\ job[c] = "active" /\ phase[c] = "inside" /\ todo[c] = <<q>>
         /\ q = "similar" => Cand[c].conf # "low"
  <1>1. todo[c] # <<>> /\ Head(todo[c]) = q /\ phase[c] = "inside"
    BY DEF At
  <1>2. ASSUME NEW n \in Nat, Made(c, n) PROVE FALSE
    <2>1. plan[c].kind \in Kinds /\ n \in 0..Len(QueriesOf(plan[c].kind)) /\ todo[c] = Rest(plan[c].kind, n)
      BY <1>2 DEF Made, Plans
    <2>2. Len(QueriesOf(plan[c].kind)) \in Nat
      BY <2>1, QueryFacts
    <2>3. n < Len(QueriesOf(plan[c].kind))
      BY <1>1, <2>1, <2>2, RestFacts
    <2>4. QueriesOf(plan[c].kind)[n + 1] = q /\ n + 1 \in 1..Len(QueriesOf(plan[c].kind))
      BY <1>1, <2>1, <2>2, <2>3, RestFacts
    <2> QED
      BY <2>1, <2>4, QueryFacts
  <1>3. Undecided(c)
    BY <1>2 DEF Consistent
  <1> QED
    BY <1>1, <1>3 DEF Undecided

\* The queries on a task have one.
LEMMA AtTask ==
  ASSUME TypeOK, NEW c \in Candidates, Consistent(c), NEW q \in {"read", "fill", "link", "count"}, At(c, q)
  PROVE  plan[c].task \in TaskIds /\ Cand[c].conf # "low"
  <1>1. PICK n \in Nat : /\ Made(c, n) /\ n < Len(QueriesOf(plan[c].kind))
                         /\ QueriesOf(plan[c].kind)[n + 1] = q
                         /\ plan[c].kind \in Kinds /\ Len(QueriesOf(plan[c].kind)) \in Nat
    BY AtQuery
  <1>2. n + 1 \in 1..Len(QueriesOf(plan[c].kind))
    BY <1>1
  <1>3. plan[c].kind \in {"merge", "enrich", "create", "followup"}
    BY <1>1, <1>2, QueryFacts
  <1>4. plan[c].kind = "create" => n # 0
    BY <1>1, <1>2, QueryFacts
  <1> QED
    BY <1>1, <1>3, <1>4 DEF Made, Targeted

\* A job about to insert has made no query of its verdict.
LEMMA AtInsert ==
  ASSUME TypeOK, NEW c \in Candidates, Consistent(c), At(c, "insert")
  PROVE  /\ plan[c].kind \in {"create", "followup"} /\ Made(c, 0) /\ job[c] = "active"
         /\ todo[c] = QueriesOf(plan[c].kind) /\ Tail(todo[c]) = Rest(plan[c].kind, 1)
         /\ plan[c] \in Plans /\ Cand[c].conf # "low"
  <1>1. PICK n \in Nat : /\ Made(c, n) /\ job[c] = "active" /\ n < Len(QueriesOf(plan[c].kind))
                         /\ QueriesOf(plan[c].kind)[n + 1] = "insert"
                         /\ Tail(todo[c]) = Rest(plan[c].kind, n + 1)
                         /\ plan[c].kind \in Kinds /\ Len(QueriesOf(plan[c].kind)) \in Nat
    BY AtQuery
  <1>2. n = 0 /\ plan[c].kind \in {"create", "followup"}
    BY <1>1, QueryFacts
  <1>3. todo[c] = Rest(plan[c].kind, 0) /\ plan[c] \in Plans /\ Cand[c].conf # "low"
    BY <1>1, <1>2 DEF Made, Targeted
  <1> QED
    BY <1>1, <1>2, <1>3, RestFacts

\* A query does not change the length of what is left but by one.
LEMMA TailType ==
  ASSUME TypeOK, NEW c \in Candidates, NEW q, At(c, q), Advance(c)
  PROVE  todo' \in [Candidates -> Seq(Queries)] /\ todo'[c] = Tail(todo[c])
  <1>1. todo \in [Candidates -> Seq(Queries)]
    BY Types DEF RegTypes
  <1>2. Tail(todo[c]) \in Seq(Queries)
    BY <1>1, HeadTailProperties DEF At
  <1> QED
    BY <1>1, <1>2 DEF Advance

\* The steps that leave the database alone.
LEMMA JobTypes ==
  ASSUME RegInv, NEW c \in Candidates,
         \/ Start(c) \/ AwaitLock(c) \/ LockTimeout(c) \/ Unlock(c) \/ RetryJob(c) \/ Throw(c)
         \/ Kill(c) \/ FindExact(c) \/ FindSimilar(c) \/ ReadForEnrich(c)
  PROVE  RegTypes' /\ Grows
  <1>0. TypeOK /\ RegTypes /\ Consistent(c)
    BY Types DEF RegInv
  <1>1. UNCHANGED db
    BY DEF Start, AwaitLock, LockTimeout, Unlock, RetryJob, Throw, Kill, FindExact, FindSimilar, ReadForEnrich
  <1>2. TaskIds' = TaskIds /\ AnyPlan' = AnyPlan /\ Grows
    BY <1>1 DEF db, TaskIds, AnyPlan, Grows
  <1>3. /\ <<"exact">> \in Seq(Queries) /\ <<"similar">> \in Seq(Queries) /\ <<>> \in Seq(Queries)
        /\ NoPlan \in AnyPlan /\ MaxTries \in Nat \ {0} /\ MaxStalls \in Nat
    BY BoundAssumption DEF Queries, NoPlan, AnyPlan
  <1>4. job' \in [Candidates -> {"wait", "active", "decided", "threw", "done", "failed"}]
    BY <1>0 DEF RegTypes, Start, AwaitLock, LockTimeout, Unlock, RetryJob, Throw, Kill, FindExact,
       FindSimilar, ReadForEnrich, queueVars
  <1>5. tries' \in [Candidates -> 0..MaxTries]
    <2>1. CASE RetryJob(c)
      <3>1. tries[c] \in 0..MaxTries /\ tries[c] < MaxTries /\ tries' = [tries EXCEPT ![c] = tries[c] + 1]
        BY <1>0, <2>1 DEF RegTypes, RetryJob, RegInv, TriesLeft
      <3>2. tries[c] + 1 \in 0..MaxTries
        BY <1>3, <3>1
      <3> QED
        BY <1>0, <3>1, <3>2 DEF RegTypes
    <2>2. CASE ~RetryJob(c)
      BY <1>0, <2>2 DEF RegTypes, Start, AwaitLock, LockTimeout, Unlock, Throw, Kill, FindExact,
         FindSimilar, ReadForEnrich, queueVars
    <2> QED
      BY <2>1, <2>2
  <1>6. stalls' \in [Candidates -> 0..MaxStalls]
    <2>1. CASE Kill(c)
      <3> DEFINE n == IF stalls[c] < MaxStalls THEN stalls[c] + 1 ELSE stalls[c]
      <3>1. stalls' = [stalls EXCEPT ![c] = n] /\ stalls[c] \in 0..MaxStalls
        BY <1>0, <2>1 DEF Kill, RegTypes
      <3>2. n \in 0..MaxStalls
        BY <1>3, <3>1
      <3> HIDE DEF n
      <3> QED
        BY <1>0, <3>1, <3>2 DEF RegTypes
    <2>2. CASE ~Kill(c)
      BY <1>0, <2>2 DEF RegTypes, Start, AwaitLock, LockTimeout, Unlock, Throw, RetryJob, FindExact,
         FindSimilar, ReadForEnrich, queueVars
    <2> QED
      BY <2>1, <2>2
  <1>7. todo' \in [Candidates -> Seq(Queries)] /\ plan' \in [Candidates -> AnyPlan]
    <2>1. CASE Start(c) \/ AwaitLock(c) \/ Unlock(c) \/ RetryJob(c)
      <3>1. CASE Start(c)
        BY <1>0, <1>3, <3>1 DEF RegTypes, Start
      <3>2. CASE AwaitLock(c) \/ Unlock(c) \/ RetryJob(c)
        BY <1>0, <3>2 DEF RegTypes, AwaitLock, Unlock, RetryJob
      <3> QED
        BY <2>1, <3>1, <3>2
    <2>6. CASE LockTimeout(c) \/ Throw(c) \/ Kill(c)
      <3>1. Forget(c)
        BY <2>6 DEF LockTimeout, Throw, Kill
      <3> QED
        BY <1>0, <1>3, <3>1 DEF RegTypes, Forget
    <2>2. ASSUME NEW k \in Kinds, NEW t \in TaskIds \cup {NoTask}, Plan(c, k, t)
          PROVE  todo' \in [Candidates -> Seq(Queries)] /\ plan' \in [Candidates -> AnyPlan]
      <3>1. QueriesOf(k) \in Seq(Queries) /\ [kind |-> k, task |-> t, fill |-> FALSE] \in AnyPlan
        BY QueryFacts DEF AnyPlan
      <3> QED
        BY <1>0, <2>2, <3>1 DEF RegTypes, Plan
    <2>3. CASE FindExact(c)
      <3>1. CASE \E k \in Kinds, t \in TaskIds \cup {NoTask} : Plan(c, k, t)
        BY <2>2, <3>1
      <3>2. CASE todo' = [todo EXCEPT ![c] = <<"similar">>] /\ UNCHANGED plan
        BY <1>0, <1>3, <3>2 DEF RegTypes
      <3> QED
        BY <2>3, <3>1, <3>2 DEF FindExact, MergeOrFollowUp, Kinds, SameFingerprint
    <2>4. CASE FindSimilar(c)
      <3>1. \E k \in Kinds, t \in TaskIds \cup {NoTask} : Plan(c, k, t)
        BY <2>4 DEF FindSimilar, MergeOrFollowUp, Kinds, Comparable
      <3> QED
        BY <2>2, <3>1
    <2>5. CASE ReadForEnrich(c)
      <3>1. todo' \in [Candidates -> Seq(Queries)]
        BY <1>0, <2>5, TailType DEF ReadForEnrich
      <3>2. PICK b \in BOOLEAN : plan' = [plan EXCEPT ![c].fill = b]
        BY <2>5 DEF ReadForEnrich
      <3>3. [plan[c] EXCEPT !.fill = b] \in AnyPlan
        BY <1>0, <3>2 DEF RegTypes, AnyPlan
      <3> QED
        BY <1>0, <3>1, <3>2, <3>3 DEF RegTypes
    <2> QED
      BY <2>1, <2>3, <2>4, <2>5, <2>6
  <1>8. RegTypes'
    BY <1>0, <1>1, <1>2, <1>4, <1>5, <1>6, <1>7 DEF RegTypes, db
  <1> QED
    BY <1>2, <1>8

\* The steps that write to it.
LEMMA WriteTypes ==
  ASSUME RegInv, NEW c \in Candidates,
         \/ Enqueue(c) \/ InsertTask(c) \/ FillFields(c) \/ AddLink(c)
         \/ IncrementCount(c) \/ InsertDecision(c) \/ CreateReview(c) \/ SetEvidence(c)
  PROVE  RegTypes' /\ Grows
  <1>0. TypeOK /\ RegTypes /\ Consistent(c) /\ plan[c] \in AnyPlan /\ Cand[c].evidence \in Evidence
    BY Types DEF RegInv, RegTypes, Evidence
  <1>1. UNCHANGED <<tries, stalls, edits>>
    BY DEF Enqueue, InsertTask, FillFields, AddLink, IncrementCount, InsertDecision, CreateReview,
       SetEvidence, queueVars
  <1>2. job' \in [Candidates -> {"wait", "active", "decided", "threw", "done", "failed"}]
    BY <1>0 DEF RegTypes, Enqueue, InsertTask, FillFields, AddLink, IncrementCount, InsertDecision,
       CreateReview, SetEvidence, queueVars
  <1>3. todo' \in [Candidates -> Seq(Queries)]
    <2>1. CASE Enqueue(c)
      BY <1>0, <2>1 DEF RegTypes, Enqueue
    <2>2. CASE ~Enqueue(c)
      <3>1. Advance(c) /\ \E q : At(c, q)
        BY <2>2 DEF InsertTask, FillFields, AddLink, IncrementCount, InsertDecision, CreateReview, SetEvidence
      <3> QED
        BY <1>0, <3>1, TailType
    <2> QED
      BY <2>1, <2>2
  <1>4. CASE Enqueue(c) \/ AddLink(c) \/ InsertDecision(c) \/ CreateReview(c) \/ SetEvidence(c)
    <2>1. UNCHANGED <<tasks, plan>> /\ TaskIds' = TaskIds /\ AnyPlan' = AnyPlan
      BY <1>4 DEF Enqueue, AddLink, InsertDecision, CreateReview, SetEvidence, TaskIds, AnyPlan
    <2>2. links' \subseteq TaskIds \X Evidence /\ links \subseteq links'
      <3>1. CASE AddLink(c)
        <4>1. plan[c].task \in TaskIds
          BY <1>0, <3>1, AtTask DEF AddLink
        <4> QED
          BY <1>0, <3>1, <4>1 DEF AddLink, RegTypes
      <3> QED
        BY <1>0, <1>4, <3>1 DEF Enqueue, InsertDecision, CreateReview, SetEvidence, RegTypes
    <2>3. /\ decisions' \subseteq [cand : Candidates, outcome : Kinds, task : TaskIds \cup {NoTask}]
          /\ decisions \subseteq decisions'
      <3>1. CASE InsertDecision(c)
        <4>1. plan[c].kind \in Kinds /\ plan[c].task \in TaskIds \cup {NoTask}
          BY <1>0, <3>1, AtQuery DEF InsertDecision, AnyPlan
        <4> QED
          BY <1>0, <3>1, <4>1 DEF InsertDecision, RegTypes
      <3> QED
        BY <1>0, <1>4, <3>1 DEF Enqueue, AddLink, CreateReview, SetEvidence, RegTypes
    <2>4. reviews' \subseteq Candidates /\ reviews \subseteq reviews'
      BY <1>0, <1>4 DEF Enqueue, AddLink, CreateReview, InsertDecision, SetEvidence, RegTypes
    <2>5. /\ evState' \in [Evidence -> {"resolved", "decided", "failed"}]
          /\ \A e \in Evidence : evState[e] # "resolved" => evState'[e] # "resolved"
      BY <1>0, <1>4 DEF Enqueue, AddLink, CreateReview, InsertDecision, SetEvidence, RegTypes
    <2>6. assignQ' \subseteq TaskIds \X Evidence /\ assignQ \subseteq assignQ'
      <3>1. CASE Enqueue(c)
        <4>1. PICK n \in Nat : Made(c, n) /\ JobAt(c, n)
          BY <1>0, <3>1 DEF Enqueue, Consistent, Undecided
        <4>2. plan[c].kind \in Kinds /\ n \in 0..Len(QueriesOf(plan[c].kind)) /\ job[c] = "decided"
          BY <3>1, <4>1 DEF Made, Plans, Enqueue
        <4>3. n # 0
          BY <4>1, <4>2, QueryFacts DEF JobAt
        <4>4. plan[c].kind \in {"merge", "create", "followup"} => plan[c].task \in TaskIds
          BY <4>1, <4>3 DEF Made, Targeted
        <4> QED
          BY <1>0, <3>1, <4>4 DEF Enqueue, RegTypes
      <3> QED
        BY <1>0, <1>4, <3>1 DEF AddLink, CreateReview, InsertDecision, SetEvidence, RegTypes
    <2>7. RegTypes'
      BY <1>0, <1>1, <1>2, <1>3, <2>1, <2>2, <2>3, <2>4, <2>5, <2>6 DEF RegTypes
    <2> QED
      BY <2>1, <2>2, <2>3, <2>4, <2>5, <2>6, <2>7 DEF Grows
  <1>5. CASE FillFields(c) \/ IncrementCount(c)
    <2>1. UNCHANGED <<plan, links, decisions, reviews, evState, assignQ>>
      BY <1>5 DEF FillFields, IncrementCount
    <2>2. plan[c].task \in TaskIds
      BY <1>0, <1>5, AtTask DEF FillFields, IncrementCount
    <2>3. PICK row \in Rows : /\ tasks' = [tasks EXCEPT ![plan[c].task] = row]
                              /\ row.print = tasks[plan[c].task].print
                              /\ row.matter = tasks[plan[c].task].matter
      <3> DEFINE old == tasks[plan[c].task]
      <3>1. old \in Rows /\ tasks = [tasks EXCEPT ![plan[c].task] = old]
        BY <1>0, <2>2, TasksType
      <3>2. [old EXCEPT !.due = "pipeline"] \in Rows /\ [old EXCEPT !.count = old.count + 1] \in Rows
        BY <3>1 DEF Rows
      <3>3. /\ [old EXCEPT !.due = "pipeline"].print = old.print
            /\ [old EXCEPT !.due = "pipeline"].matter = old.matter
            /\ [old EXCEPT !.count = old.count + 1].print = old.print
            /\ [old EXCEPT !.count = old.count + 1].matter = old.matter
        BY <3>1 DEF Rows
      <3>4. \/ tasks' = [tasks EXCEPT ![plan[c].task] = old]
            \/ tasks' = [tasks EXCEPT ![plan[c].task] = [old EXCEPT !.due = "pipeline"]]
            \/ tasks' = [tasks EXCEPT ![plan[c].task] = [old EXCEPT !.count = old.count + 1]]
        BY <1>5, <3>1 DEF FillFields, IncrementCount
      <3> HIDE DEF old
      <3>5. old = tasks[plan[c].task]
        BY DEF old
      <3> QED
        BY <3>1, <3>2, <3>3, <3>4, <3>5
    <2>4. /\ tasks' \in Seq(Rows) /\ TaskIds' = TaskIds
          /\ \A u \in TaskIds : tasks'[u].print = tasks[u].print /\ tasks'[u].matter = tasks[u].matter
      BY <1>0, <2>2, <2>3, RowUpdate
    <2>5. RegTypes'
      BY <1>0, <1>1, <1>2, <1>3, <2>1, <2>4 DEF RegTypes, AnyPlan
    <2> QED
      BY <2>1, <2>4, <2>5 DEF Grows
  <1>6. CASE InsertTask(c)
    <2>1. UNCHANGED <<links, decisions, reviews, evState, assignQ>>
      BY <1>6 DEF InsertTask
    <2>2. PICK row \in Rows : tasks' = Append(tasks, row)
      <3>1. [matter |-> Cand[c].matter, print |-> Cand[c].print, open |-> TRUE, human |-> FALSE,
             due |-> Offered(c), count |-> 0] \in Rows
        BY CandAssumption DEF Rows, Offered
      <3> QED
        BY <1>6, <3>1 DEF InsertTask
    <2>3. /\ tasks' \in Seq(Rows) /\ TaskIds' = TaskIds \cup {Len(tasks) + 1}
          /\ \A u \in TaskIds : tasks'[u] = tasks[u]
      BY <1>0, <2>2, RowAppended
    <2>4. AnyPlan \subseteq AnyPlan' /\ Len(tasks) + 1 \in TaskIds'
      BY <2>3 DEF AnyPlan
    <2>5. plan' \in [Candidates -> AnyPlan']
      <3>1. [plan[c] EXCEPT !.task = Len(tasks) + 1] \in AnyPlan'
        BY <1>0, <2>4 DEF AnyPlan
      <3> QED
        BY <1>0, <1>6, <2>4, <3>1 DEF InsertTask, RegTypes
    <2>6. RegTypes'
      BY <1>0, <1>1, <1>2, <1>3, <2>1, <2>3, <2>5 DEF RegTypes
    <2> QED
      BY <2>1, <2>3, <2>6 DEF Grows
  <1> QED
    BY <1>4, <1>5, <1>6

\* What has been done stays done.
LEMMA MadeStays ==
  ASSUME RegInv, Grows, NEW c \in Candidates, NEW n \in Nat, Made(c, n),
         todo'[c] = todo[c], plan'[c] = plan[c]
  PROVE  Made(c, n)'
  <1>1. Plans \subseteq Plans' /\ Cand[c].evidence \in Evidence
    BY DEF Grows, Plans, Evidence
  <1>2. \A q : Effected(c, q) => Effected(c, q)'
    BY <1>1 DEF Effected, Grows
  <1>3. Targeted(c, n)'
    BY DEF Made, Targeted, Grows
  <1> QED
    BY <1>1, <1>2, <1>3 DEF Made

\* A job that does not move stays consistent with a database that only grows.
LEMMA OtherConsistent ==
  ASSUME RegInv, Grows, NEW c \in Candidates,
         job'[c] = job[c], phase'[c] = phase[c], todo'[c] = todo[c], plan'[c] = plan[c]
  PROVE  Consistent(c)'
  <1>1. CASE Undecided(c)
    BY <1>1 DEF Undecided, Consistent
  <1>2. ASSUME NEW n \in Nat, Made(c, n), JobAt(c, n) PROVE Consistent(c)'
    <2>1. Made(c, n)'
      BY <1>2, MadeStays
    <2>2. JobAt(c, n)'
      BY <1>2 DEF JobAt, Grows
    <2> QED
      BY <2>1, <2>2 DEF Consistent
  <1> QED
    BY <1>1, <1>2 DEF RegInv, Consistent

\* One more query has been made, of the same task.
LEMMA OneMore ==
  ASSUME RegInv, Grows, NEW c \in Candidates, NEW q, At(c, q), q \notin {"exact", "similar", "insert"},
         todo'[c] = Tail(todo[c]), plan'[c] \in AnyPlan', plan'[c].kind = plan[c].kind,
         plan'[c].task = plan[c].task, Effected(c, q)'
  PROVE  \E n \in Nat : Made(c, n)' /\ n \in 0..Len(QueriesOf(plan[c].kind))
                        /\ (n = Len(QueriesOf(plan[c].kind)) <=> q = "evidence")
  <1>1. PICK n \in Nat : /\ Made(c, n) /\ n < Len(QueriesOf(plan[c].kind))
                         /\ QueriesOf(plan[c].kind)[n + 1] = q
                         /\ Tail(todo[c]) = Rest(plan[c].kind, n + 1)
                         /\ plan[c].kind \in Kinds /\ Len(QueriesOf(plan[c].kind)) \in Nat
    BY AtQuery DEF RegInv
  <1>2. n + 1 \in 1..Len(QueriesOf(plan[c].kind)) /\ n + 1 \in 0..Len(QueriesOf(plan[c].kind))
    BY <1>1
  <1>3. n + 1 = Len(QueriesOf(plan[c].kind)) <=> q = "evidence"
    BY <1>1, <1>2, QueryFacts
  <1>4. plan'[c] \in Plans'
    BY <1>1 DEF AnyPlan, Plans
  <1>5. \A p : Effected(c, p) => Effected(c, p)'
    BY DEF Effected, Grows, Evidence
  <1>6. \A i \in 1..(n + 1) : Effected(c, QueriesOf(plan[c].kind)[i])'
    <2>1. ASSUME NEW i \in 1..(n + 1) PROVE i \in 1..n \/ i = n + 1
      OBVIOUS
    <2> QED
      BY <1>1, <1>5, <2>1 DEF Made
  <1>7. Targeted(c, n + 1)'
    <2>1. plan[c].kind = "create" => n # 0
      <3>1. plan[c].kind = "create" /\ n = 0 => q = "insert"
        BY <1>1, <1>2, QueryFacts
      <3> QED
        BY <3>1
    <2> QED
      BY <1>1, <2>1 DEF Made, Targeted, Grows
  <1>8. Made(c, n + 1)'
    BY <1>1, <1>2, <1>4, <1>6, <1>7 DEF Made
  <1> QED
    BY <1>2, <1>3, <1>8

\* The steps of a job keep it consistent.
LEMMA ActConsistent ==
  ASSUME RegInv, Grows, RegTypes', Lock!TypeOK', NEW c \in Candidates, Act(c)
  PROVE  Consistent(c)'
  <1>0. /\ TypeOK /\ RegTypes /\ Consistent(c) /\ TypeOK' /\ Cand[c].evidence \in Evidence
        /\ plan[c] \in AnyPlan /\ plan'[c] \in AnyPlan'
    <2>1. TypeOK /\ RegTypes /\ Consistent(c)
      BY Types DEF RegInv
    <2>2. TypeOK'
      BY DEF TypeOK, RegTypes, Queries, AnyPlan, Rows
    <2> QED
      BY <2>1, <2>2 DEF RegTypes, Evidence
  <1>1. phase \in [Candidates -> {"idle", "trying", "inside", "leaving"}]
    BY <1>0, PhaseType
  <1>2. CASE Start(c)
    <2>1. plan[c] = NoPlan /\ phase'[c] \in {"trying", "inside"} /\ job'[c] = "active"
          /\ todo'[c] = <<"exact">> /\ plan'[c] = plan[c]
      <3>1. plan[c] = NoPlan
        BY <1>0, <1>2 DEF Start, Consistent, Undecided, JobAt, Made, Plans
      <3> QED
        BY <1>0, <1>1, <1>2, <3>1 DEF Start, Lock!Enter, RegTypes
    <2> QED
      BY <2>1 DEF Consistent, Undecided
  <1>3. CASE AwaitLock(c)
    <2>1. /\ phase[c] = "trying" /\ phase'[c] \in {"trying", "inside"}
          /\ job' = job /\ todo' = todo /\ plan' = plan
      BY <1>1, <1>3 DEF AwaitLock, Lock!Acquire, Lock!Retry, queueVars
    <2>2. plan[c] = NoPlan /\ job[c] = "active" /\ todo[c] = <<"exact">>
      <3>1. ~\E n \in Nat : Made(c, n) /\ JobAt(c, n)
        BY <2>1, QueryFacts DEF Made, JobAt, Plans
      <3> QED
        BY <1>0, <2>1, <3>1 DEF Consistent, Undecided
    <2> QED
      BY <2>1, <2>2 DEF Consistent, Undecided
  <1>4. CASE LockTimeout(c) \/ Throw(c) \/ Kill(c)
    <2>1. /\ plan'[c] = NoPlan /\ todo'[c] = <<>>
          /\ \/ job'[c] = "threw" /\ phase'[c] \in {"idle", "leaving"}
             \/ job'[c] \in {"wait", "failed"} /\ phase'[c] = "idle"
      BY <1>0, <1>1, <1>4 DEF LockTimeout, Throw, Kill, Forget, Lock!GiveUp, Lock!Finish, Lock!Crash,
         RegTypes, lockVars
    <2> QED
      BY <2>1 DEF Consistent, Undecided
  <1>5. CASE Unlock(c)
    <2>1. /\ phase[c] = "leaving" /\ phase'[c] = "idle"
          /\ UNCHANGED <<job, todo, plan, assignQ>>
      BY <1>1, <1>5 DEF Unlock, Lock!Release, queueVars, db
    <2>2. CASE Undecided(c)
      BY <2>1, <2>2 DEF Consistent, Undecided
    <2>3. ASSUME NEW n \in Nat, Made(c, n), JobAt(c, n) PROVE Consistent(c)'
      <3>1. Made(c, n)'
        BY <2>1, <2>3, MadeStays
      <3>2. JobAt(c, n)'
        BY <2>1, <2>3 DEF JobAt
      <3> QED
        BY <3>1, <3>2 DEF Consistent
    <2> QED
      BY <1>0, <2>2, <2>3 DEF Consistent
  <1>6. CASE RetryJob(c)
    <2>1. /\ job[c] = "threw" /\ job'[c] \in {"wait", "failed"} /\ phase[c] = "idle"
          /\ UNCHANGED <<phase, todo, plan>>
      BY <1>0, <1>6 DEF RetryJob, lockVars, RegTypes
    <2>2. ~\E n \in Nat : Made(c, n) /\ JobAt(c, n)
      BY <2>1, QueryFacts DEF Made, JobAt, Plans
    <2>3. Undecided(c)
      BY <1>0, <2>2 DEF Consistent
    <2> QED
      BY <2>1, <2>3 DEF Consistent, Undecided
  <1>7. CASE Enqueue(c)
    <2>1. /\ job[c] = "decided" /\ job'[c] = "done" /\ phase[c] = "idle"
          /\ UNCHANGED <<phase, todo, plan>>
          /\ plan[c].kind \in {"merge", "create", "followup"} =>
                <<plan[c].task, Cand[c].evidence>> \in assignQ'
      BY <1>0, <1>7 DEF Enqueue, lockVars, RegTypes
    <2>2. PICK n \in Nat : Made(c, n) /\ JobAt(c, n)
      BY <1>0, <2>1 DEF Consistent, Undecided
    <2>3. Made(c, n)'
      BY <2>1, <2>2, MadeStays
    <2>4. JobAt(c, n)'
      BY <2>1, <2>2 DEF JobAt
    <2> QED
      BY <2>3, <2>4 DEF Consistent
  <1>8. ASSUME NEW k \in Kinds, NEW t \in TaskIds \cup {NoTask}, Plan(c, k, t),
               k \in {"merge", "enrich", "followup"} => t \in TaskIds,
               k \in {"create", "discard", "review"} => t = NoTask,
               k = "discard" <=> Cand[c].conf = "low",
               UNCHANGED <<job, phase, tasks>>, job[c] = "active", phase[c] = "inside"
        PROVE  Consistent(c)'
    <2>1. plan'[c] = [kind |-> k, task |-> t, fill |-> FALSE] /\ todo'[c] = QueriesOf(k)
      BY <1>0, <1>8 DEF Plan, RegTypes
    <2>2. plan'[c] \in Plans' /\ plan'[c].kind = k /\ plan'[c].task = t
      BY <1>8, <2>1 DEF Plans, TaskIds
    <2>3. Len(QueriesOf(k)) \in 2..6 /\ todo'[c] = Rest(k, 0) /\ 0 \in 0..Len(QueriesOf(k))
      <3>1. Len(QueriesOf(k)) \in 2..6
        BY QueryFacts
      <3>2. 0 \in 0..Len(QueriesOf(k))
        BY <3>1
      <3> QED
        BY <2>1, <3>1, <3>2, RestFacts
    <2>4. Targeted(c, 0)'
      BY <1>8, <2>2 DEF Targeted, TaskIds
    <2>5. Made(c, 0)'
      BY <2>2, <2>3, <2>4 DEF Made
    <2>6. JobAt(c, 0)'
      <3>1. 0 < Len(QueriesOf(k)) /\ 0 # Len(QueriesOf(k))
        <4>1. \A l \in 2..6 : 0 < l /\ 0 # l
          OBVIOUS
        <4> QED
          BY <2>3, <4>1
      <3> QED
        BY <1>8, <2>2, <3>1 DEF JobAt
    <2> QED
      BY <2>5, <2>6 DEF Consistent
  <1>9. CASE FindExact(c)
    <2>1. /\ plan[c] = NoPlan /\ job[c] = "active" /\ phase[c] = "inside"
          /\ UNCHANGED <<job, phase, tasks>>
      BY <1>0, <1>9, AtLookup DEF FindExact, lockVars, queueVars, db
    <2>2. CASE Cand[c].conf = "low" /\ Plan(c, "discard", NoTask)
      BY <1>8, <2>1, <2>2 DEF Kinds
    <2>3. ASSUME Cand[c].conf # "low", NEW t \in SameFingerprint(c), MergeOrFollowUp(c, t)
          PROVE  Consistent(c)'
      <3>1. t \in TaskIds /\ \E k \in {"merge", "followup"} : Plan(c, k, t)
        BY <2>3 DEF SameFingerprint, MergeOrFollowUp
      <3> QED
        BY <1>8, <2>1, <2>3, <3>1 DEF Kinds
    <2>4. CASE Cand[c].conf # "low" /\ todo' = [todo EXCEPT ![c] = <<"similar">>] /\ UNCHANGED plan
      <3>1. todo'[c] = <<"similar">>
        BY <1>0, <2>4 DEF RegTypes
      <3> QED
        BY <2>1, <2>4, <3>1 DEF Consistent, Undecided
    <2> QED
      BY <1>9, <2>2, <2>3, <2>4 DEF FindExact
  <1>10. CASE FindSimilar(c)
    <2>1. /\ plan[c] = NoPlan /\ job[c] = "active" /\ phase[c] = "inside"
          /\ UNCHANGED <<job, phase, tasks>>
      BY <1>0, <1>10, AtLookup DEF FindSimilar, lockVars, queueVars, db
    <2>2. Cand[c].conf # "low"
      BY <1>0, <1>10, AtLookup DEF FindSimilar
    <2>3. CASE Plan(c, "create", NoTask) \/ Plan(c, "review", NoTask)
      BY <1>8, <2>1, <2>2, <2>3 DEF Kinds
    <2>4. ASSUME NEW t \in Comparable(c), NEW k \in {"merge", "enrich", "followup"}, Plan(c, k, t)
          PROVE  Consistent(c)'
      <3>1. t \in TaskIds
        BY DEF Comparable
      <3> QED
        BY <1>8, <2>1, <2>2, <2>4, <3>1 DEF Kinds
    <2> QED
      BY <1>10, <2>3, <2>4 DEF FindSimilar, MergeOrFollowUp
  <1>11. CASE InsertTask(c)
    <2>1. /\ plan[c].kind \in {"create", "followup"} /\ Made(c, 0) /\ job[c] = "active"
          /\ Tail(todo[c]) = Rest(plan[c].kind, 1) /\ plan[c] \in Plans /\ Cand[c].conf # "low"
      BY <1>0, <1>11, AtInsert DEF InsertTask
    <2>2. UNCHANGED <<job, phase>> /\ phase[c] = "inside" /\ todo'[c] = Rest(plan[c].kind, 1)
      BY <1>0, <1>11, <2>1, TailType DEF InsertTask, lockVars, queueVars, At
    <2>3. /\ Len(tasks) + 1 \in TaskIds'
          /\ tasks'[Len(tasks) + 1].print = Cand[c].print
          /\ tasks'[Len(tasks) + 1].matter = Cand[c].matter
      <3> DEFINE row == [matter |-> Cand[c].matter, print |-> Cand[c].print, open |-> TRUE,
                         human |-> FALSE, due |-> Offered(c), count |-> 0]
      <3>1. row \in Rows /\ row.print = Cand[c].print /\ row.matter = Cand[c].matter
        BY CandAssumption DEF Rows, Offered
      <3>2. tasks' = Append(tasks, row)
        BY <1>11 DEF InsertTask
      <3> HIDE DEF row
      <3> QED
        BY <1>0, <3>1, <3>2, RowAppended
    <2>4. /\ plan'[c] \in Plans' /\ plan'[c].kind = plan[c].kind
          /\ plan'[c].task = Len(tasks) + 1
      <3>1. plan'[c] = [plan[c] EXCEPT !.task = Len(tasks) + 1]
        BY <1>0, <1>11 DEF InsertTask, RegTypes
      <3> QED
        BY <2>1, <2>3, <3>1 DEF Plans
    <2>5. /\ Len(QueriesOf(plan[c].kind)) \in 2..6 /\ 1 \in 0..Len(QueriesOf(plan[c].kind))
          /\ QueriesOf(plan[c].kind)[1] = "insert"
      <3>1. plan[c].kind \in Kinds
        BY <2>1 DEF Plans
      <3>2. Len(QueriesOf(plan[c].kind)) \in 2..6
        BY <3>1, QueryFacts
      <3>3. 1 \in 0..Len(QueriesOf(plan[c].kind)) /\ 1 \in 1..Len(QueriesOf(plan[c].kind))
        <4>1. \A l \in 2..6 : 1 \in 0..l /\ 1 \in 1..l
          OBVIOUS
        <4> QED
          BY <3>2, <4>1
      <3> QED
        BY <2>1, <3>1, <3>2, <3>3, QueryFacts
    <2>6. Effected(c, "insert")'
      BY <2>3, <2>4 DEF Effected
    <2>7. Targeted(c, 1)'
      BY <2>1, <2>3, <2>4 DEF Targeted
    <2>8. Made(c, 1)'
      <3>1. \A i \in 1..1 : i = 1
        OBVIOUS
      <3> QED
        BY <2>2, <2>4, <2>5, <2>6, <2>7, <3>1 DEF Made
    <2>9. JobAt(c, 1)'
      <3>1. 1 < Len(QueriesOf(plan[c].kind)) /\ 1 # Len(QueriesOf(plan[c].kind))
        <4>1. \A l \in 2..6 : 1 < l /\ 1 # l
          OBVIOUS
        <4> QED
          BY <2>5, <4>1
      <3> QED
        BY <2>1, <2>2, <2>4, <3>1 DEF JobAt
    <2> QED
      BY <2>8, <2>9 DEF Consistent
  <1>12. ASSUME NEW q \in Queries \ {"exact", "similar", "insert"}, At(c, q), Advance(c),
                plan'[c].kind = plan[c].kind, plan'[c].task = plan[c].task, Effected(c, q)',
                \/ q # "evidence" /\ UNCHANGED <<job, phase>>
                \/ q = "evidence" /\ job'[c] = "decided" /\ phase'[c] \in {"idle", "leaving"}
         PROVE  Consistent(c)'
    <2>1. todo'[c] = Tail(todo[c])
      BY <1>0, <1>12, TailType
    <2>2. PICK n \in Nat : /\ Made(c, n)' /\ n \in 0..Len(QueriesOf(plan[c].kind))
                           /\ (n = Len(QueriesOf(plan[c].kind)) <=> q = "evidence")
      BY <1>0, <1>12, <2>1, OneMore
    <2>3. job[c] = "active" /\ phase[c] = "inside"
      BY <1>0, <1>12, AtQuery DEF At
    <2>4. JobAt(c, n)'
      BY <1>12, <2>2, <2>3 DEF JobAt
    <2> QED
      BY <2>2, <2>4 DEF Consistent
  <1>13. CASE ReadForEnrich(c)
    <2>1. PICK b \in BOOLEAN : plan'[c] = [plan[c] EXCEPT !.fill = b]
      BY <1>0, <1>13 DEF ReadForEnrich, RegTypes
    <2>2. plan'[c].kind = plan[c].kind /\ plan'[c].task = plan[c].task
      BY <1>0, <2>1 DEF AnyPlan
    <2> QED
      BY <1>12, <1>13, <2>2 DEF ReadForEnrich, lockVars, queueVars, Effected, Queries
  <1>14. CASE FillFields(c) \/ AddLink(c) \/ IncrementCount(c) \/ InsertDecision(c) \/ CreateReview(c)
    <2>1. PICK q \in {"fill", "link", "count", "decide", "review"} : At(c, q) /\ Effected(c, q)'
      BY <1>14 DEF FillFields, AddLink, IncrementCount, InsertDecision, CreateReview, Effected
    <2>2. Advance(c) /\ UNCHANGED <<plan, job, phase>>
      BY <1>14 DEF FillFields, AddLink, IncrementCount, InsertDecision, CreateReview, lockVars, queueVars
    <2> QED
      BY <1>12, <2>1, <2>2 DEF Queries
  <1>15. CASE SetEvidence(c)
    <2>1. evState'[Cand[c].evidence] # "resolved"
      BY <1>0, <1>15 DEF SetEvidence, RegTypes
    <2>2. At(c, "evidence") /\ Effected(c, "evidence")'
      BY <1>15, <2>1 DEF SetEvidence, Effected
    <2>3. /\ Advance(c) /\ job'[c] = "decided" /\ phase'[c] \in {"idle", "leaving"}
          /\ UNCHANGED plan
      BY <1>0, <1>1, <1>15 DEF SetEvidence, RegTypes, Lock!Finish
    <2> QED
      BY <1>12, <2>2, <2>3 DEF Queries
  <1> QED
    BY <1>2, <1>3, <1>4, <1>5, <1>6, <1>7, <1>9, <1>10, <1>11, <1>13, <1>14, <1>15 DEF Act, Work

\* The steps that are nobody's turn.
LEMMA OtherTypes ==
  ASSUME RegInv, \/ \E m \in Matters : ExpireKey(m)
                 \/ \E t \in TaskIds : HumanSetDue(t) \/ \E open \in BOOLEAN : HumanSetStatus(t, open)
                 \/ UNCHANGED vars
  PROVE  /\ RegTypes' /\ Grows /\ UNCHANGED <<job, tries, todo, plan, phase, links>>
         /\ TaskIds' = TaskIds /\ edits' >= edits
         /\ UNCHANGED tasks \/ edits' # 0
         /\ \A t \in TaskIds : tasks'[t].count = tasks[t].count
  <1>0. RegTypes /\ TypeOK /\ edits \in 0..MaxEdits /\ MaxEdits \in Nat
    BY Types, BoundAssumption DEF RegInv, RegTypes
  <1>1. CASE (\E m \in Matters : ExpireKey(m)) \/ UNCHANGED vars
    <2>1. UNCHANGED <<queueVars, todo, plan, db, phase>>
      BY <1>1 DEF ExpireKey, Lock!Expire, vars, lockVars
    <2> QED
      BY <1>0, <2>1 DEF RegTypes, Grows, queueVars, db, TaskIds, AnyPlan
  <1>2. ASSUME NEW t \in TaskIds, HumanSetDue(t) \/ \E open \in BOOLEAN : HumanSetStatus(t, open)
        PROVE  /\ RegTypes' /\ Grows /\ UNCHANGED <<job, tries, todo, plan, phase, links>>
               /\ TaskIds' = TaskIds /\ edits' >= edits /\ edits' # 0
               /\ \A u \in TaskIds : tasks'[u].count = tasks[u].count
    <2> DEFINE old == tasks[t]
    <2>1. old \in Rows
      BY <1>0, TasksType
    <2>2. PICK row \in Rows : /\ tasks' = [tasks EXCEPT ![t] = row] /\ row.print = old.print
                              /\ row.matter = old.matter /\ row.count = old.count
                              /\ \E r : Patch(t, r)
      <3>1. CASE HumanSetDue(t)
        <4> DEFINE r == [old EXCEPT !.due = "human"]
                   s == [r EXCEPT !.human = TRUE]
        <4>1. r \in Rows /\ r.print = old.print /\ r.matter = old.matter /\ r.count = old.count
          BY <2>1 DEF Rows
        <4>2. Patch(t, r) /\ tasks' = [tasks EXCEPT ![t] = s]
          BY <3>1 DEF HumanSetDue, Patch
        <4> HIDE DEF r
        <4>3. s \in Rows /\ s.print = r.print /\ s.matter = r.matter /\ s.count = r.count
          BY <4>1 DEF Rows
        <4> HIDE DEF s
        <4> QED
          BY <4>1, <4>2, <4>3
      <3>2. ASSUME NEW open \in BOOLEAN, HumanSetStatus(t, open)
            PROVE  \E row \in Rows : /\ tasks' = [tasks EXCEPT ![t] = row] /\ row.print = old.print
                                     /\ row.matter = old.matter /\ row.count = old.count
                                     /\ \E r : Patch(t, r)
        <4> DEFINE r == [old EXCEPT !.open = open]
                   s == [r EXCEPT !.human = TRUE]
        <4>1. r \in Rows /\ r.print = old.print /\ r.matter = old.matter /\ r.count = old.count
          BY <2>1 DEF Rows
        <4>2. Patch(t, r) /\ tasks' = [tasks EXCEPT ![t] = s]
          BY <3>2 DEF HumanSetStatus, Patch
        <4> HIDE DEF r
        <4>3. s \in Rows /\ s.print = r.print /\ s.matter = r.matter /\ s.count = r.count
          BY <4>1 DEF Rows
        <4> HIDE DEF s
        <4> QED
          BY <4>1, <4>2, <4>3
      <3> QED
        BY <1>2, <3>1, <3>2
    <2>3. /\ edits < MaxEdits /\ edits' = edits + 1
          /\ UNCHANGED <<lockVars, queueVars, todo, plan, links, decisions, reviews, evState, assignQ>>
      BY <2>2 DEF Patch
    <2>4. /\ tasks' \in Seq(Rows) /\ TaskIds' = TaskIds
          /\ \A u \in TaskIds : tasks'[u].print = tasks[u].print /\ tasks'[u].matter = tasks[u].matter
          /\ \A u \in TaskIds : u # t => tasks'[u] = tasks[u]
          /\ tasks'[t] = row
      BY <1>0, <2>2, RowUpdate
    <2>5. edits' \in 0..MaxEdits /\ edits' >= edits /\ edits' # 0
      BY <1>0, <2>3
    <2>6. RegTypes'
      BY <1>0, <2>3, <2>4, <2>5 DEF RegTypes, AnyPlan, queueVars
    <2>7. Grows
      BY <2>3, <2>4 DEF Grows
    <2>8. \A u \in TaskIds : tasks'[u].count = tasks[u].count
      BY <2>2, <2>4
    <2> QED
      BY <2>3, <2>4, <2>5, <2>6, <2>7, <2>8 DEF lockVars, queueVars
  <1> QED
    BY <1>1, <1>2

\* Whoever acts, nothing is taken back.
LEMMA ActTypes ==
  ASSUME RegInv, NEW c \in Candidates, Act(c)
  PROVE  RegTypes' /\ Grows
  BY JobTypes, WriteTypes DEF Act, Work

\* At the start nothing is there.
LEMMA InitRegInv == Init => RegInv
  <1> SUFFICES ASSUME Init PROVE RegInv
    OBVIOUS
  <1>1. tasks \in Seq(Rows) /\ TaskIds = {} /\ todo \in [Candidates -> Seq(Queries)]
    BY EmptySeq DEF Init, TaskIds
  <1>2. RegTypes
    BY <1>1, BoundAssumption DEF Init, RegTypes, AnyPlan, NoPlan, Evidence
  <1>3. Lock!TypeOK
    BY LockAssumption DEF Init, Lock!Init, Lock!TypeOK, Lock!Phases
  <1>4. TypeOK
    BY <1>2, <1>3, Types
  <1>5. \A c \in Candidates : Consistent(c)
    BY DEF Init, Lock!Init, Consistent, Undecided
  <1>6. TriesLeft
    BY BoundAssumption DEF Init, TriesLeft
  <1> QED
    BY <1>1, <1>4, <1>5, <1>6 DEF RegInv, FromCandidates

\* Every step keeps the invariant and takes nothing back.
LEMMA NextRegInv ==
  ASSUME RegInv, Lock!TypeOK', [Next]_vars
  PROVE  RegInv' /\ Grows
  <1>1. ASSUME NEW c \in Candidates, Act(c) PROVE RegInv' /\ Grows
    <2>1. RegTypes' /\ Grows
      BY <1>1, ActTypes
    <2>2. TypeOK'
      BY <2>1 DEF TypeOK, RegTypes, Queries, AnyPlan, Rows
    <2>3. \A b \in Candidates : Consistent(b)'
      <3>1. Others(c)
        BY <1>1, Frame DEF RegInv
      <3>2. Consistent(c)'
        BY <1>1, <2>1, ActConsistent
      <3>3. \A b \in Candidates \ {c} : Consistent(b)'
        BY <2>1, <3>1, OtherConsistent DEF Others
      <3> QED
        BY <3>2, <3>3
    <2>4. FromCandidates'
      <3>1. CASE InsertTask(c)
        <4> DEFINE row == [matter |-> Cand[c].matter, print |-> Cand[c].print, open |-> TRUE,
                           human |-> FALSE, due |-> Offered(c), count |-> 0]
        <4>1. row \in Rows /\ row.print = Cand[c].print /\ row.matter = Cand[c].matter
          BY CandAssumption DEF Rows, Offered
        <4>2. tasks' = Append(tasks, row)
          BY <3>1 DEF InsertTask
        <4> HIDE DEF row
        <4>3. /\ TaskIds' = TaskIds \cup {Len(tasks) + 1} /\ tasks'[Len(tasks) + 1] = row
              /\ \A u \in TaskIds : tasks'[u] = tasks[u]
          BY <4>1, <4>2, RowAppended DEF RegInv
        <4> QED
          BY <4>1, <4>3 DEF RegInv, FromCandidates
      <3>2. CASE ~InsertTask(c)
        <4>1. TaskIds' = TaskIds
          <5>1. CASE FillFields(c) \/ IncrementCount(c)
            BY <5>1 DEF FillFields, IncrementCount, TaskIds
          <5>2. CASE ~FillFields(c) /\ ~IncrementCount(c)
            <6>1. UNCHANGED tasks
              BY <1>1, <3>2, <5>2 DEF Act, Work, Start, AwaitLock, LockTimeout, Unlock, Enqueue, RetryJob,
                 FindExact, FindSimilar, ReadForEnrich, AddLink, InsertDecision, CreateReview, SetEvidence,
                 Throw, Kill, db
            <6> QED
              BY <6>1 DEF TaskIds
          <5> QED
            BY <5>1, <5>2
        <4> QED
          BY <2>1, <4>1 DEF RegInv, FromCandidates, Grows
      <3> QED
        BY <3>1, <3>2
    <2>5. TriesLeft'
      <3>1. CASE RetryJob(c)
        <4>1. RegTypes /\ MaxTries \in Nat
          BY Types, BoundAssumption DEF RegInv
        <4>2. /\ tries'[c] = tries[c] + 1 /\ job'[c] = IF tries'[c] < MaxTries THEN "wait" ELSE "failed"
              /\ \A b \in Candidates \ {c} : job'[b] = job[b] /\ tries'[b] = tries[b]
          BY <3>1, <4>1 DEF RetryJob, RegTypes
        <4> QED
          BY <4>2 DEF RegInv, TriesLeft
      <3>2. CASE ~RetryJob(c)
        <4>1. UNCHANGED tries /\ (job'[c] # "failed" => job[c] # "failed")
          <5>1. phase[c] \in {"trying", "inside"} => job[c] = "active"
            <6>1. ASSUME NEW n \in Nat, Made(c, n), JobAt(c, n), phase[c] \in {"trying", "inside"}
                  PROVE  job[c] = "active"
              BY <6>1, QueryFacts DEF Made, JobAt, Plans
            <6> QED
              BY <6>1 DEF RegInv, Consistent, Undecided
          <5>2. RegTypes
            BY Types DEF RegInv
          <5>3. CASE LockTimeout(c) \/ SetEvidence(c) \/ Throw(c)
            BY <5>1, <5>3 DEF LockTimeout, SetEvidence, Throw, Lock!GiveUp, Lock!Finish
          <5>4. CASE Start(c) \/ Enqueue(c) \/ Kill(c)
            BY <5>4 DEF Start, Enqueue, Kill
          <5>5. CASE UNCHANGED queueVars
            BY <5>5 DEF queueVars
          <5> QED
            BY <1>1, <3>2, <5>3, <5>4, <5>5 DEF Act, Work, AwaitLock, Unlock, FindExact,
               FindSimilar, InsertTask, ReadForEnrich, FillFields, AddLink, IncrementCount,
               InsertDecision, CreateReview
        <4>2. \A b \in Candidates \ {c} : job'[b] = job[b]
          BY <1>1, Frame DEF RegInv, Others
        <4> QED
          BY <4>1, <4>2 DEF RegInv, TriesLeft
      <3> QED
        BY <3>1, <3>2
    <2> QED
      BY <2>1, <2>2, <2>3, <2>4, <2>5 DEF RegInv
  <1>2. ASSUME \/ \E m \in Matters : ExpireKey(m)
               \/ \E t \in TaskIds : HumanSetDue(t) \/ \E open \in BOOLEAN : HumanSetStatus(t, open)
               \/ UNCHANGED vars
        PROVE  RegInv' /\ Grows
    <2>1. /\ RegTypes' /\ Grows /\ UNCHANGED <<job, tries, todo, plan, phase>> /\ TaskIds' = TaskIds
      BY <1>2, OtherTypes
    <2>2. TypeOK'
      BY <2>1 DEF TypeOK, RegTypes, Queries, AnyPlan, Rows
    <2>3. \A b \in Candidates : Consistent(b)'
      BY <2>1, OtherConsistent
    <2>4. FromCandidates' /\ TriesLeft'
      BY <2>1 DEF RegInv, FromCandidates, Grows, TriesLeft
    <2> QED
      BY <2>1, <2>2, <2>3, <2>4 DEF RegInv
  <1> QED
    BY <1>1, <1>2 DEF Next, Act

\* Whatever is retried, and whoever dies between two queries, the stage never
\* takes leave of its data model: the tasks have the candidates' prints, and each
\* job, the lock and its verdict fit together.
THEOREM RegistryInvariant == Spec => []RegInv
  BY InitRegInv, NextRegInv, LockTypes, PTL DEF Spec

\* A completed job has left all that its verdict calls for: its queries are made in
\* order, and nobody takes back what one has left.
THEOREM DoneTheorem == Spec => []DoneIsRecorded
  <1>1. RegInv => DoneIsRecorded
    <2> SUFFICES ASSUME RegInv, NEW c \in Candidates, job[c] = "done"
                 PROVE  /\ [cand |-> c, outcome |-> plan[c].kind, task |-> plan[c].task] \in decisions
                        /\ evState[Cand[c].evidence] # "resolved"
                        /\ plan[c].task # NoTask => <<plan[c].task, Cand[c].evidence>> \in links
                        /\ plan[c].kind = "review" => c \in reviews
                        /\ plan[c].kind \in {"merge", "create", "followup"} =>
                              <<plan[c].task, Cand[c].evidence>> \in assignQ
      BY DEF DoneIsRecorded
    <2>1. PICK n \in Nat : Made(c, n) /\ JobAt(c, n)
      BY DEF RegInv, Consistent, Undecided
    <2> DEFINE k == plan[c].kind
               Q == QueriesOf(k)
    <2>2. k \in Kinds /\ n \in 0..Len(Q)
      BY <2>1 DEF Made, Plans
    <2>3. n = Len(Q) /\ Len(Q) \in Nat /\ Len(Q) \in 1..Len(Q)
      <3>1. \A l \in 2..6 : l \in Nat /\ l \in 1..l
        OBVIOUS
      <3>2. Len(Q) \in 2..6
        BY <2>2, QueryFacts
      <3>3. Len(Q) \in Nat /\ Len(Q) \in 1..Len(Q)
        BY <3>1, <3>2
      <3>4. ~(n < Len(Q))
        BY <2>1 DEF JobAt
      <3> QED
        BY <2>2, <3>3, <3>4
    <2>4. \A i \in 1..Len(Q) : Effected(c, Q[i])
      BY <2>1, <2>3 DEF Made
    <2>5. Effected(c, "decide") /\ Effected(c, "evidence") /\ (k = "review" => Effected(c, "review"))
      BY <2>2, <2>3, <2>4, QueryFacts
    <2>6. k \in {"merge", "enrich", "create", "followup"} => Effected(c, "link")
      BY <2>2, <2>4, QueryFacts
    <2>7. plan[c].task # NoTask => k \in {"merge", "enrich", "create", "followup"}
      BY <2>1, <2>2 DEF Made, Targeted, Kinds
    <2>8. k \in {"merge", "create", "followup"} => <<plan[c].task, Cand[c].evidence>> \in assignQ
      BY <2>1, <2>3 DEF JobAt
    <2> QED
      BY <2>5, <2>6, <2>7, <2>8 DEF Effected
  <1> QED
    BY <1>1, RegistryInvariant, PTL

-----------------------------------------------------------------------------
(* Where the sections of a matter exclude each other *)

\* What c has found missing, and will insert.
Missed(c) == \/ todo[c] = <<"similar">>
             \/ plan[c].kind = "create" /\ todo[c] = QueriesOf("create")
             \/ edits = 0 /\ plan[c].kind = "followup" /\ todo[c] = QueriesOf("followup")

Absence == \A c \in Candidates : (phase[c] = "inside" /\ Cand[c].matter # NoMatter /\ Missed(c))
                                    => SameFingerprint(c) = {}

\* As long as nobody edits, there is one task per fingerprint, and it is open.
OneEach == edits = 0 =>
    /\ \A t \in TaskIds : tasks[t].open
    /\ \A t, u \in TaskIds : (tasks[t].matter # NoMatter /\ tasks[t].print = tasks[u].print) => t = u

\* Candidate c will find task t, or has it.
Owner(c, t) ==
    /\ Cand[c].print = tasks[t].print /\ Cand[c].conf # "low"
    /\ \/ job[c] \in {"wait", "threw", "failed"} \/ todo[c] = <<"exact">>
       \/ plan[c].kind \in {"merge", "create", "followup"} /\ plan[c].task = t

Owned == edits = 0 => \A t \in TaskIds : tasks[t].matter # NoMatter => \E c \in Candidates : Owner(c, t)

Exclusive == Overrunners = {} /\ OneSpelling
ExclInv   == Absence /\ OneEach /\ Owned

\* The new row.
LEMMA InsertRow ==
  ASSUME RegInv, NEW c \in Candidates, InsertTask(c)
  PROVE  /\ TaskIds' = TaskIds \cup {Len(tasks) + 1} /\ Len(tasks) + 1 \notin TaskIds
         /\ \A u \in TaskIds : tasks'[u] = tasks[u]
         /\ tasks'[Len(tasks) + 1].print = Cand[c].print
         /\ tasks'[Len(tasks) + 1].matter = Cand[c].matter
         /\ tasks'[Len(tasks) + 1].open /\ tasks'[Len(tasks) + 1].count = 0
         /\ UNCHANGED <<edits, links>> /\ phase[c] = "inside"
         /\ plan'[c].kind = plan[c].kind /\ plan'[c].task = Len(tasks) + 1
  <1> DEFINE row == [matter |-> Cand[c].matter, print |-> Cand[c].print, open |-> TRUE,
                     human |-> FALSE, due |-> Offered(c), count |-> 0]
  <1>1. row \in Rows /\ row.print = Cand[c].print /\ row.matter = Cand[c].matter /\ row.open /\ row.count = 0
    BY CandAssumption DEF Rows, Offered
  <1>2. tasks' = Append(tasks, row) /\ UNCHANGED <<edits, links>> /\ phase[c] = "inside"
    BY DEF InsertTask, At
  <1>3. plan'[c].kind = plan[c].kind /\ plan'[c].task = Len(tasks) + 1
    <2>1. plan \in [Candidates -> AnyPlan]
      BY Types DEF RegInv, RegTypes
    <2> QED
      BY <2>1 DEF InsertTask, AnyPlan
  <1> HIDE DEF row
  <1> QED
    BY <1>1, <1>2, <1>3, RowAppended DEF RegInv

\* The other steps make no task, and neither open nor close one.
LEMMA ActTasks ==
  ASSUME RegInv, NEW c \in Candidates, Act(c), ~InsertTask(c)
  PROVE  /\ TaskIds' = TaskIds /\ UNCHANGED edits
         /\ \A t \in TaskIds : /\ tasks'[t].print = tasks[t].print /\ tasks'[t].matter = tasks[t].matter
                               /\ tasks'[t].open = tasks[t].open
                               /\ tasks'[t].count = IF IncrementCount(c) /\ t = plan[c].task
                                                    THEN tasks[t].count + 1 ELSE tasks[t].count
  <1>1. CASE FillFields(c) \/ IncrementCount(c)
    <2> DEFINE u == plan[c].task
    <2>1. u \in TaskIds /\ tasks[u] \in Rows /\ UNCHANGED edits
      BY <1>1, AtTask, TasksType DEF RegInv, FillFields, IncrementCount
    <2>2. ~(FillFields(c) /\ IncrementCount(c))
      BY DEF FillFields, IncrementCount, At
    <2>3. PICK row \in Rows : /\ tasks' = [tasks EXCEPT ![u] = row]
                              /\ row.print = tasks[u].print /\ row.matter = tasks[u].matter
                              /\ row.open = tasks[u].open
                              /\ row.count = IF IncrementCount(c) THEN tasks[u].count + 1 ELSE tasks[u].count
      <3> DEFINE old == tasks[u]
                 due == [old EXCEPT !.due = "pipeline"]
                 one == [old EXCEPT !.count = old.count + 1]
      <3>1. old \in Rows /\ tasks = [tasks EXCEPT ![u] = old]
        BY <2>1, TasksType DEF RegInv
      <3>2. /\ due \in Rows /\ due.print = old.print /\ due.matter = old.matter /\ due.open = old.open
            /\ due.count = old.count
        BY <3>1 DEF Rows
      <3>3. /\ one \in Rows /\ one.print = old.print /\ one.matter = old.matter /\ one.open = old.open
            /\ one.count = old.count + 1
        BY <3>1 DEF Rows
      <3>4. CASE FillFields(c)
        <4>1. ~IncrementCount(c) /\ (tasks' = [tasks EXCEPT ![u] = old] \/ tasks' = [tasks EXCEPT ![u] = due])
          BY <2>2, <3>1, <3>4 DEF FillFields
        <4> HIDE DEF due, one
        <4> QED
          BY <3>1, <3>2, <4>1
      <3>5. CASE IncrementCount(c)
        <4>1. tasks' = [tasks EXCEPT ![u] = one]
          BY <3>1, <3>5 DEF IncrementCount
        <4> HIDE DEF due, one
        <4> QED
          BY <3>3, <3>5, <4>1
      <3> QED
        BY <1>1, <3>4, <3>5
    <2> HIDE DEF u
    <2>4. /\ TaskIds' = TaskIds /\ tasks'[u] = row
          /\ \A t \in TaskIds : t # u => tasks'[t] = tasks[t]
      BY <2>1, <2>3, RowUpdate DEF RegInv
    <2>5. u = plan[c].task
      BY DEF u
    <2> QED
      BY <2>1, <2>3, <2>4, <2>5
  <1>2. CASE ~FillFields(c) /\ ~IncrementCount(c)
    <2>1. UNCHANGED <<tasks, edits>>
      BY <1>2 DEF Act, Work, Start, AwaitLock, LockTimeout, Unlock, Enqueue, RetryJob, FindExact,
         FindSimilar, ReadForEnrich, AddLink, InsertDecision, CreateReview, SetEvidence, Throw, Kill, db
    <2> QED
      BY <1>2, <2>1 DEF TaskIds
  <1> QED
    BY <1>1, <1>2

\* What is left of a verdict tells how far it is, and is not a lookup.
LEMMA RestDistinct ==
  ASSUME NEW k \in Kinds, NEW n \in 0..Len(QueriesOf(k))
  PROVE  /\ Rest(k, n) # <<"exact">> /\ Rest(k, n) # <<"similar">>
         /\ \A m \in 0..Len(QueriesOf(k)) : Rest(k, m) = Rest(k, n) => m = n
         /\ n # 0 => Rest(k, n) # QueriesOf(k)
  <1> DEFINE L == Len(QueriesOf(k))
  <1>1. L \in 2..6 /\ L \in Nat /\ 0 \in 0..L /\ n \in 0..L
    <2>1. \A l \in 2..6 : l \in Nat /\ 0 \in 0..l
      OBVIOUS
    <2> QED
      BY <2>1, QueryFacts
  <1>2. /\ Head(<<"exact">>) = "exact" /\ Head(<<"similar">>) = "similar"
        /\ <<"exact">> # <<>> /\ <<"similar">> # <<>>
    OBVIOUS
  <1>3. ASSUME n < L PROVE Rest(k, n) # <<"exact">> /\ Rest(k, n) # <<"similar">>
    <2>1. n + 1 \in 1..L
      BY <1>1, <1>3
    <2>2. Head(Rest(k, n)) = QueriesOf(k)[n + 1]
      BY <1>3, RestFacts
    <2>3. QueriesOf(k)[n + 1] \notin {"exact", "similar"}
      BY <2>1, QueryFacts
    <2> QED
      BY <1>2, <2>2, <2>3
  <1>4. n = L => Rest(k, n) # <<"exact">> /\ Rest(k, n) # <<"similar">>
    BY <1>2, RestFacts
  <1>5. \A m \in 0..L : Len(Rest(k, m)) = L - m
    BY RestFacts
  <1>6. \A m \in 0..L : L - m = L - n => m = n
    BY <1>1
  <1>7. n < L \/ n = L
    BY <1>1
  <1>8. Rest(k, 0) = QueriesOf(k)
    BY <1>1, RestFacts
  <1>9. \A m \in 0..L : Rest(k, m) = Rest(k, n) => m = n
    BY <1>5, <1>6
  <1> QED
    BY <1>1, <1>2, <1>3, <1>4, <1>7, <1>8, <1>9

\* The lookups are no part of any verdict.
LEMMA Lookups ==
  ASSUME RegInv, NEW c \in Candidates
  PROVE  /\ <<"exact">> # <<"similar">>
         /\ \A k \in Kinds : QueriesOf(k) # <<"exact">> /\ QueriesOf(k) # <<"similar">>
         /\ plan[c].kind \in Kinds => todo[c] # <<"exact">> /\ todo[c] # <<"similar">>
  <1>1. Head(<<"exact">>) = "exact" /\ Head(<<"similar">>) = "similar"
    OBVIOUS
  <1>2. \A k \in Kinds : QueriesOf(k) # <<"exact">> /\ QueriesOf(k) # <<"similar">>
    <2> SUFFICES ASSUME NEW k \in Kinds PROVE QueriesOf(k) # <<"exact">> /\ QueriesOf(k) # <<"similar">>
      OBVIOUS
    <2>1. 0 \in 0..Len(QueriesOf(k))
      <3>1. Len(QueriesOf(k)) \in 2..6 /\ \A l \in 2..6 : 0 \in 0..l
        BY QueryFacts
      <3> QED
        BY <3>1
    <2> QED
      BY <2>1, RestDistinct, RestFacts
  <1>3. plan[c].kind \in Kinds => todo[c] # <<"exact">> /\ todo[c] # <<"similar">>
    <2>1. NoPlan.kind \notin Kinds
      BY DEF NoPlan, Kinds
    <2> QED
      BY <2>1, RestDistinct DEF RegInv, Consistent, Undecided, Made
  <1> QED
    BY <1>1, <1>2, <1>3

\* A query of a verdict other than the insertion.
NextQuery(c) ==
    /\ phase[c] = "inside" /\ plan[c].kind \in Kinds
    /\ plan'[c].kind = plan[c].kind /\ plan'[c].task = plan[c].task
    /\ \E n \in Nat : LET Q == QueriesOf(plan[c].kind) IN
          /\ n < Len(Q) /\ Q[n + 1] # "insert" /\ n + 1 \in 0..Len(Q) /\ n \in 0..Len(Q)
          /\ todo[c] = Rest(plan[c].kind, n) /\ todo'[c] = Rest(plan[c].kind, n + 1)
          /\ Q[n + 1] = "count" => IncrementCount(c)

\* A job that (re)starts or gives up its attempt.
FreshStart(c) == /\ plan'[c] = NoPlan /\ todo'[c] \in {<<>>, <<"exact">>}
                 /\ job'[c] \in {"wait", "threw", "failed"} \/ todo'[c] = <<"exact">>

\* A job around its section, which keeps its verdict.
Around(c) == /\ todo'[c] = todo[c] /\ plan'[c] = plan[c]
             /\ phase'[c] = "inside" => plan[c] = NoPlan /\ todo[c] = <<"exact">>
             /\ job[c] \in {"wait", "threw", "failed"} => job'[c] \in {"wait", "threw", "failed"}

\* What a step of a job does to its verdict.
LEMMA ActOutcome ==
  ASSUME RegInv, NEW c \in Candidates, Act(c)
  PROVE  FreshStart(c) \/ Around(c) \/ FindExact(c) \/ FindSimilar(c) \/ InsertTask(c) \/ NextQuery(c)
  <1>0. TypeOK /\ RegTypes /\ Consistent(c)
    BY Types DEF RegInv
  <1>1. phase \in [Candidates -> {"idle", "trying", "inside", "leaving"}]
    BY <1>0, PhaseType
  <1>2. CASE Start(c)
    <2>1. plan[c] = NoPlan
      BY <1>0, <1>2 DEF Start, Consistent, Undecided, JobAt, Made, Plans
    <2>2. plan'[c] = NoPlan /\ todo'[c] = <<"exact">>
      BY <1>0, <1>2, <2>1 DEF Start, RegTypes
    <2> QED
      BY <2>2 DEF FreshStart
  <1>3. CASE LockTimeout(c) \/ Throw(c) \/ Kill(c)
    <2>1. /\ plan'[c] = NoPlan /\ todo'[c] = <<>> /\ job'[c] \in {"threw", "wait", "failed"}
      BY <1>0, <1>3 DEF LockTimeout, Throw, Kill, Forget, RegTypes
    <2> QED
      BY <2>1 DEF FreshStart
  <1>4. CASE AwaitLock(c)
    <2>1. phase[c] = "trying" /\ job' = job /\ todo' = todo /\ plan' = plan
      BY <1>4 DEF AwaitLock, Lock!Acquire, Lock!Retry, queueVars
    <2>2. plan[c] = NoPlan /\ todo[c] = <<"exact">>
      <3>1. ~\E n \in Nat : Made(c, n) /\ JobAt(c, n)
        BY <2>1, QueryFacts DEF Made, JobAt, Plans
      <3> QED
        BY <1>0, <2>1, <3>1 DEF Consistent, Undecided
    <2> QED
      BY <2>1, <2>2 DEF Around
  <1>5. CASE Unlock(c)
    <2>1. phase'[c] = "idle" /\ job' = job /\ todo' = todo /\ plan' = plan
      BY <1>1, <1>5 DEF Unlock, Lock!Release, queueVars
    <2> QED
      BY <2>1 DEF Around
  <1>6. CASE Enqueue(c) \/ RetryJob(c)
    <2>1. /\ phase'[c] = "idle" /\ todo' = todo /\ plan' = plan
          /\ job[c] = "decided" \/ job'[c] \in {"wait", "failed"}
      BY <1>0, <1>6 DEF Enqueue, RetryJob, lockVars, RegTypes
    <2> QED
      BY <2>1 DEF Around
  <1>7. ASSUME NEW q \in Queries \ {"exact", "similar", "insert"}, At(c, q), Advance(c),
               plan'[c].kind = plan[c].kind, plan'[c].task = plan[c].task,
               q = "count" => IncrementCount(c)
        PROVE  NextQuery(c)
    <2>1. todo'[c] = Tail(todo[c]) /\ phase[c] = "inside"
      BY <1>0, <1>7, TailType DEF At
    <2>2. PICK n \in Nat : /\ Made(c, n) /\ n < Len(QueriesOf(plan[c].kind))
                           /\ QueriesOf(plan[c].kind)[n + 1] = q
                           /\ Tail(todo[c]) = Rest(plan[c].kind, n + 1)
                           /\ plan[c].kind \in Kinds /\ Len(QueriesOf(plan[c].kind)) \in Nat
      BY <1>0, <1>7, AtQuery
    <2>3. n + 1 \in 0..Len(QueriesOf(plan[c].kind))
      BY <2>2
    <2>4. q # "insert" /\ todo[c] = Rest(plan[c].kind, n) /\ n \in 0..Len(QueriesOf(plan[c].kind))
      BY <1>7, <2>2 DEF Made
    <2> QED
      BY <1>7, <2>1, <2>2, <2>3, <2>4 DEF NextQuery
  <1>8. CASE ReadForEnrich(c)
    <2>1. PICK b \in BOOLEAN : plan'[c] = [plan[c] EXCEPT !.fill = b]
      BY <1>0, <1>8 DEF ReadForEnrich, RegTypes
    <2>2. plan'[c].kind = plan[c].kind /\ plan'[c].task = plan[c].task
      BY <1>0, <2>1 DEF RegTypes, AnyPlan
    <2> QED
      BY <1>7, <1>8, <2>2 DEF ReadForEnrich, Queries
  <1>9. CASE \/ FillFields(c) \/ AddLink(c) \/ IncrementCount(c) \/ InsertDecision(c)
             \/ CreateReview(c) \/ SetEvidence(c)
    <2>1. Advance(c) /\ UNCHANGED plan
      BY <1>9 DEF FillFields, AddLink, IncrementCount, InsertDecision, CreateReview, SetEvidence
    <2>2. PICK q \in {"fill", "link", "count", "decide", "review", "evidence"} :
             At(c, q) /\ (q = "count" => IncrementCount(c))
      BY <1>9 DEF FillFields, AddLink, IncrementCount, InsertDecision, CreateReview, SetEvidence
    <2> QED
      BY <1>7, <2>1, <2>2 DEF Queries
  <1> QED
    BY <1>2, <1>3, <1>4, <1>5, <1>6, <1>8, <1>9 DEF Act, Work

\* What a job in its section newly believes missing is missing.
LEMMA MissedStep ==
  ASSUME RegInv, Absence, OneEach, NEW c \in Candidates, Act(c), Cand[c].matter # NoMatter,
         phase'[c] = "inside", Missed(c)'
  PROVE  ~InsertTask(c) /\ SameFingerprint(c) = {}
  <1>0. /\ TypeOK /\ Consistent(c) /\ plan \in [Candidates -> AnyPlan] /\ todo \in [Candidates -> Seq(Queries)]
        /\ plan'[c].kind = "create" \/ plan'[c].kind = "followup" \/ todo'[c] = <<"similar">>
        /\ NoPlan.kind = "none"
    BY Types DEF RegInv, RegTypes, Missed, NoPlan
  <1>1. /\ <<"exact">> # <<"similar">> /\ <<>> # <<"similar">>
        /\ \A k \in Kinds : QueriesOf(k) # <<"exact">> /\ QueriesOf(k) # <<"similar">>
    BY Lookups
  <1>2. ~FreshStart(c)
    BY <1>0, <1>1 DEF FreshStart
  <1>3. ~Around(c)
    BY <1>0, <1>1 DEF Around
  <1>4. ~NextQuery(c)
    <2> SUFFICES ASSUME NextQuery(c) PROVE FALSE
      OBVIOUS
    <2>1. PICK n \in Nat : /\ n + 1 \in 0..Len(QueriesOf(plan[c].kind))
                           /\ todo'[c] = Rest(plan[c].kind, n + 1)
      BY DEF NextQuery
    <2>2. plan[c].kind \in Kinds /\ plan'[c].kind = plan[c].kind
      BY DEF NextQuery
    <2>3. n + 1 # 0
      OBVIOUS
    <2>4. todo'[c] # QueriesOf(plan[c].kind) /\ todo'[c] # <<"similar">>
      BY <2>1, <2>2, <2>3, RestDistinct
    <2> QED
      BY <2>2, <2>4 DEF Missed
  <1>5. ~InsertTask(c)
    <2> SUFFICES ASSUME InsertTask(c) PROVE FALSE
      OBVIOUS
    <2>1. plan[c].kind \in {"create", "followup"} /\ Tail(todo[c]) = Rest(plan[c].kind, 1)
      BY <1>0, AtInsert DEF InsertTask
    <2>2. todo'[c] = Rest(plan[c].kind, 1) /\ plan'[c].kind = plan[c].kind
      BY <1>0, <2>1, TailType, InsertRow DEF InsertTask
    <2>3. plan[c].kind \in Kinds /\ 1 \in 0..Len(QueriesOf(plan[c].kind))
      <3>1. plan[c].kind \in Kinds /\ \A l \in 2..6 : 1 \in 0..l
        BY <2>1 DEF Kinds
      <3> QED
        BY <3>1, QueryFacts
    <2>4. todo'[c] # QueriesOf(plan[c].kind) /\ todo'[c] # <<"similar">>
      BY <2>2, <2>3, RestDistinct
    <2> QED
      BY <2>2, <2>4 DEF Missed
  <1>6. CASE FindExact(c)
    <2>1. ASSUME NEW k \in Kinds \ {"create"}, NEW t, Plan(c, k, t), k = "followup" => t \in TaskIds /\ ~tasks[t].open
          PROVE  FALSE
      <3>1. plan'[c].kind = k /\ todo'[c] = QueriesOf(k)
        BY <1>0, <2>1 DEF Plan
      <3>2. k = "followup" /\ edits' = 0
        BY <1>1, <3>1 DEF Missed
      <3>3. edits = 0
        BY <1>6, <3>2 DEF FindExact, db
      <3> QED
        BY <2>1, <3>2, <3>3 DEF OneEach
    <2>2. ~(Cand[c].conf = "low" /\ Plan(c, "discard", NoTask))
      BY <2>1 DEF Kinds
    <2>3. ~\E t \in SameFingerprint(c) : MergeOrFollowUp(c, t)
      BY <2>1 DEF Kinds, MergeOrFollowUp, SameFingerprint
    <2> QED
      BY <1>5, <1>6, <2>2, <2>3 DEF FindExact
  <1>7. CASE FindSimilar(c)
    <2>1. todo[c] = <<"similar">> /\ phase[c] = "inside"
      BY <1>0, <1>7, AtLookup DEF FindSimilar
    <2> QED
      BY <1>5, <2>1 DEF Absence, Missed
  <1> QED
    BY <1>2, <1>3, <1>4, <1>5, <1>6, <1>7, ActOutcome

\* A task of a known matter is from candidates that know it.
LEMMA KnownMatter ==
  ASSUME FromCandidates, NEW t \in TaskIds, NEW c \in Candidates, tasks[t].print = Cand[c].print
  PROVE  tasks[t].matter # NoMatter <=> Cand[c].matter # NoMatter
  BY CandAssumption DEF FromCandidates

\* What a job is about to insert, it has found missing.
LEMMA InsertMissed ==
  ASSUME RegInv, NEW c \in Candidates, At(c, "insert"), plan[c].kind = "create" \/ edits = 0
  PROVE  phase[c] = "inside" /\ Missed(c)
  <1>1. plan[c].kind \in {"create", "followup"} /\ todo[c] = QueriesOf(plan[c].kind)
    BY AtInsert DEF RegInv
  <1> QED
    BY <1>1 DEF At, Missed

\* What is missing stays missing until the one section that looked for it is over.
LEMMA AbsenceStep ==
  ASSUME RegInv, Exclusive, ExclInv, Lock!MutexUnlessOverrun, NEW c \in Candidates, Act(c)
  PROVE  Absence'
  <1> SUFFICES ASSUME NEW b \in Candidates, phase'[b] = "inside", Cand[b].matter # NoMatter, Missed(b)'
               PROVE  SameFingerprint(b)' = {}
    BY DEF Absence
  <1>0. TypeOK /\ Others(c)
    BY Frame DEF RegInv
  <1>1. ASSUME ~InsertTask(c), SameFingerprint(b) = {} PROVE SameFingerprint(b)' = {}
    BY <1>1, ActTasks DEF SameFingerprint
  <1>2. CASE b = c
    BY <1>1, <1>2, MissedStep DEF ExclInv
  <1>3. CASE b # c
    <2>1. phase[b] = "inside" /\ todo[b] = todo'[b] /\ plan[b] = plan'[b]
      BY <1>0, <1>3 DEF Others
    <2>2. edits' = edits
      BY ActTasks, InsertRow
    <2>3. SameFingerprint(b) = {}
      BY <2>1, <2>2 DEF ExclInv, Absence, Missed
    <2>4. CASE InsertTask(c)
      <3>1. Cand[b].print # Cand[c].print
        <4> SUFFICES ASSUME Cand[b].print = Cand[c].print PROVE FALSE
          OBVIOUS
        <4>1. Cand[b].matter = Cand[c].matter /\ b \in Candidates \ Overrunners /\ c \in Candidates \ Overrunners
          BY DEF Exclusive, OneSpelling
        <4>2. phase[c] = "inside"
          BY <2>4 DEF InsertTask, At
        <4> QED
          BY <1>3, <2>1, <4>1, <4>2 DEF Lock!MutexUnlessOverrun, Lock!Locked
      <3> QED
        BY <2>3, <2>4, <3>1, InsertRow DEF SameFingerprint
    <2> QED
      BY <1>1, <2>3, <2>4
  <1> QED
    BY <1>2, <1>3

\* No fingerprint of a known matter gets a second task.
LEMMA OneEachStep ==
  ASSUME RegInv, ExclInv, NEW c \in Candidates, Act(c)
  PROVE  OneEach'
  <1> SUFFICES ASSUME edits' = 0
               PROVE  /\ \A t \in TaskIds' : tasks'[t].open
                      /\ \A t, u \in TaskIds' : (tasks'[t].matter # NoMatter /\ tasks'[t].print = tasks'[u].print)
                                                   => t = u
    BY DEF OneEach
  <1>1. edits = 0
    BY ActTasks, InsertRow
  <1>2. /\ \A t \in TaskIds : tasks[t].open
        /\ \A t, u \in TaskIds : (tasks[t].matter # NoMatter /\ tasks[t].print = tasks[u].print) => t = u
    BY <1>1 DEF ExclInv, OneEach
  <1>3. CASE ~InsertTask(c)
    BY <1>2, <1>3, ActTasks
  <1>4. CASE InsertTask(c)
    <2> DEFINE new == Len(tasks) + 1
    <2>1. /\ TaskIds' = TaskIds \cup {new} /\ \A u \in TaskIds : tasks'[u] = tasks[u]
          /\ tasks'[new].print = Cand[c].print /\ tasks'[new].matter = Cand[c].matter /\ tasks'[new].open
      BY <1>4, InsertRow
    <2>2. Cand[c].matter # NoMatter => \A u \in TaskIds : tasks[u].print # Cand[c].print
      BY <1>1, <1>4, InsertMissed DEF ExclInv, Absence, SameFingerprint, InsertTask
    <2>3. \A u \in TaskIds : tasks[u].print = Cand[c].print => tasks[u].matter = NoMatter
      BY <2>2, KnownMatter DEF RegInv
    <2> HIDE DEF new
    <2> QED
      BY <1>2, <2>1, <2>2, <2>3
  <1> QED
    BY <1>3, <1>4

\* Somebody keeps looking after each task.
LEMMA OwnedStep ==
  ASSUME RegInv, ExclInv, NEW c \in Candidates, Act(c)
  PROVE  Owned'
  <1> SUFFICES ASSUME edits' = 0, NEW t \in TaskIds', tasks'[t].matter # NoMatter
               PROVE  \E a \in Candidates : Owner(a, t)'
    BY DEF Owned
  <1>0. /\ TypeOK /\ Consistent(c) /\ Others(c) /\ plan \in [Candidates -> AnyPlan]
        /\ NoPlan.kind \notin {"merge", "create", "followup"}
    BY Frame, Types DEF RegInv, RegTypes, NoPlan
  <1>1. edits = 0
    BY ActTasks, InsertRow
  <1>2. CASE t \notin TaskIds
    <2>1. InsertTask(c)
      BY <1>2, ActTasks
    <2>2. t = Len(tasks) + 1
      BY <1>2, <2>1, InsertRow
    <2>3. /\ tasks'[t].print = Cand[c].print /\ plan'[c].kind = plan[c].kind /\ plan'[c].task = t
      BY <2>1, <2>2, InsertRow
    <2>4. plan[c].kind \in {"create", "followup"} /\ Cand[c].conf # "low"
      BY <1>0, <2>1, AtInsert DEF InsertTask
    <2> QED
      BY <2>3, <2>4 DEF Owner
  <1>3. CASE t \in TaskIds
    <2>1. tasks'[t].print = tasks[t].print /\ tasks'[t].matter = tasks[t].matter
      BY <1>3, ActTasks, InsertRow
    <2>2. PICK a \in Candidates : Owner(a, t)
      BY <1>1, <1>3, <2>1 DEF ExclInv, Owned
    <2>3. CASE a # c
      BY <1>0, <2>1, <2>2, <2>3 DEF Owner, Others
    <2>4. CASE a = c
      <3>0. Owner(c, t) /\ Cand[c].print = tasks'[t].print /\ Cand[c].conf # "low"
        BY <2>1, <2>2, <2>4 DEF Owner
      <3>1. CASE FreshStart(c)
        BY <3>0, <3>1 DEF FreshStart, Owner
      <3>2. CASE Around(c)
        BY <3>0, <3>2 DEF Around, Owner
      <3>3. CASE NextQuery(c)
        <4>1. plan[c].kind \in {"merge", "create", "followup"} /\ plan[c].task = t
          <5>1. todo[c] # <<"exact">>
            BY <3>3, Lookups DEF NextQuery
          <5>2. job[c] \notin {"wait", "threw", "failed"}
            <6>1. ~Undecided(c) /\ plan[c].kind \in Kinds
              BY <3>3 DEF NextQuery, Undecided, NoPlan, Kinds
            <6>2. PICK n \in Nat : Made(c, n) /\ JobAt(c, n)
              BY <1>0, <6>1 DEF Consistent
            <6>3. n \in 0..Len(QueriesOf(plan[c].kind)) /\ Len(QueriesOf(plan[c].kind)) \in 2..6
              BY <6>1, <6>2, QueryFacts DEF Made
            <6>4. n < Len(QueriesOf(plan[c].kind)) \/ n = Len(QueriesOf(plan[c].kind))
              <7>1. \A l \in 2..6 : \A i \in 0..l : i < l \/ i = l
                OBVIOUS
              <7> QED
                BY <6>3, <7>1
            <6> QED
              BY <6>2, <6>4 DEF JobAt
          <5> QED
            BY <3>0, <5>1, <5>2 DEF Owner
        <4> QED
          BY <3>0, <3>3, <4>1 DEF NextQuery, Owner
      <3>4. CASE FindExact(c)
        <4>1. t \in SameFingerprint(c)
          BY <1>3, <2>1, <3>0 DEF SameFingerprint
        <4>2. PICK u \in SameFingerprint(c) : MergeOrFollowUp(c, u)
          BY <3>0, <3>4, <4>1 DEF FindExact
        <4>3. u = t
          BY <1>1, <1>3, <2>1, <4>1, <4>2 DEF SameFingerprint, ExclInv, OneEach
        <4>4. plan'[c].kind \in {"merge", "followup"} /\ plan'[c].task = t
          BY <1>0, <4>2, <4>3 DEF MergeOrFollowUp, Plan
        <4> QED
          BY <3>0, <4>4 DEF Owner
      <3>5. ~FindSimilar(c)
        <4> SUFFICES ASSUME FindSimilar(c) PROVE FALSE
          OBVIOUS
        <4>1. todo[c] = <<"similar">> /\ job[c] = "active" /\ plan[c] = NoPlan
          BY <1>0, AtLookup DEF FindSimilar
        <4> QED
          BY <1>0, <3>0, <4>1, Lookups DEF Owner
      <3>6. ~InsertTask(c)
        <4> SUFFICES ASSUME InsertTask(c) PROVE FALSE
          OBVIOUS
        <4>1. /\ plan[c].kind \in {"create", "followup"} /\ job[c] = "active" /\ Made(c, 0)
              /\ todo[c] = QueriesOf(plan[c].kind)
          BY <1>0, AtInsert DEF InsertTask
        <4>2. plan[c].task = t
          <5>1. todo[c] # <<"exact">>
            BY <4>1, Lookups DEF Kinds
          <5> QED
            BY <3>0, <4>1, <5>1 DEF Owner
        <4>3. plan[c].kind # "create"
          BY <1>0, <1>3, <4>1, <4>2, TasksType DEF Made, Targeted
        <4>4. Cand[c].matter # NoMatter
          BY <1>3, <2>1, <3>0, KnownMatter DEF RegInv
        <4>5. SameFingerprint(c) = {}
          BY <1>1, <4>4, InsertMissed DEF ExclInv, Absence, InsertTask
        <4> QED
          BY <1>3, <2>1, <3>0, <4>5 DEF SameFingerprint
      <3> QED
        BY <3>1, <3>2, <3>3, <3>4, <3>5, <3>6, ActOutcome
    <2> QED
      BY <2>3, <2>4
  <1> QED
    BY <1>2, <1>3

\* The steps that are nobody's turn, and those of the jobs, keep all three.
LEMMA NextExclInv == RegInv /\ Exclusive /\ ExclInv /\ Lock!MutexUnlessOverrun /\ [Next]_vars => ExclInv'
  <1> SUFFICES ASSUME RegInv, Exclusive, ExclInv, Lock!MutexUnlessOverrun, [Next]_vars PROVE ExclInv'
    OBVIOUS
  <1>1. ASSUME NEW c \in Candidates, Act(c) PROVE ExclInv'
    BY <1>1, AbsenceStep, OneEachStep, OwnedStep DEF ExclInv
  <1>2. ASSUME \/ \E m \in Matters : ExpireKey(m)
               \/ \E t \in TaskIds : HumanSetDue(t) \/ \E open \in BOOLEAN : HumanSetStatus(t, open)
               \/ UNCHANGED vars
        PROVE  ExclInv'
    <2>1. /\ Grows /\ UNCHANGED <<job, tries, todo, plan, phase>> /\ TaskIds' = TaskIds
      BY <1>2, OtherTypes
    <2>2. edits' = 0 => edits = 0 /\ tasks' = tasks
      <3>1. edits \in Nat
        BY BoundAssumption, Types DEF RegInv, RegTypes
      <3>2. edits + 1 # 0
        BY <3>1
      <3>3. edits' = edits + 1 \/ UNCHANGED <<edits, tasks>>
        BY <1>2 DEF ExpireKey, db, HumanSetDue, HumanSetStatus, Patch, vars
      <3> QED
        BY <3>2, <3>3
    <2>3. Absence'
      <3> SUFFICES ASSUME NEW b \in Candidates, phase'[b] = "inside", Cand[b].matter # NoMatter, Missed(b)'
                   PROVE  SameFingerprint(b)' = {}
        BY DEF Absence
      <3>1. SameFingerprint(b) = {}
        BY <2>1, <2>2 DEF ExclInv, Absence, Missed
      <3> QED
        BY <2>1, <3>1 DEF SameFingerprint, Grows
    <2>4. OneEach'
      BY <2>1, <2>2 DEF ExclInv, OneEach
    <2>5. Owned'
      BY <2>1, <2>2 DEF ExclInv, Owned, Owner
    <2> QED
      BY <2>3, <2>4, <2>5 DEF ExclInv
  <1> QED
    BY <1>1, <1>2 DEF Next, Act

\* As long as sections fit their TTL and a matter is written in one way, what a
\* section found missing is missing until it inserts it, a fingerprint of a known
\* matter has one task until somebody edits one, and each of these has its candidate.
THEOREM ExclusionInvariant == Spec => [](Exclusive => ExclInv)
  <1>1. Init => ExclInv
    <2> SUFFICES ASSUME Init PROVE ExclInv
      OBVIOUS
    <2>1. TaskIds = {}
      BY DEF Init, TaskIds
    <2> QED
      BY <2>1 DEF ExclInv, Absence, SameFingerprint, OneEach, Owned
  <1>2. RegInv /\ Lock!MutexUnlessOverrun /\ (Exclusive => ExclInv) /\ [Next]_vars => (Exclusive => ExclInv)'
    BY NextExclInv DEF Exclusive, OneSpelling
  <1> QED
    BY <1>1, <1>2, RegistryInvariant, SectionsSerialized, PTL DEF Spec

\* "No dedup match found" is still true when the row of a known matter is inserted.
THEOREM CreateTheorem == Spec => CreatedOnlyIfAbsent
  <1>1. RegInv /\ (Exclusive => ExclInv) /\ [Next]_vars =>
          [\A c \in Candidates :
             (/\ InsertTask(c) /\ plan[c].kind = "create" /\ Cand[c].matter # NoMatter
              /\ Overrunners = {} /\ OneSpelling) => SameFingerprint(c) = {}]_vars
    <2> SUFFICES ASSUME RegInv, Exclusive => ExclInv, NEW c \in Candidates, InsertTask(c),
                        plan[c].kind = "create", Cand[c].matter # NoMatter, Overrunners = {}, OneSpelling
                 PROVE  SameFingerprint(c) = {}
      OBVIOUS
    <2>1. phase[c] = "inside" /\ Missed(c)
      BY InsertMissed DEF InsertTask
    <2> QED
      BY <2>1 DEF Exclusive, ExclInv, Absence
  <1> QED
    BY <1>1, RegistryInvariant, ExclusionInvariant, PTL DEF Spec, CreatedOnlyIfAbsent

\* No task of a known matter is lost on its way to the assignment stage, whatever
\* attempts died in between.
THEOREM AssignTheorem == Spec => []NoTaskUnassigned
  <1>1. RegInv /\ DoneIsRecorded /\ (Exclusive => ExclInv) => NoTaskUnassigned
    <2> SUFFICES ASSUME RegInv, DoneIsRecorded, Exclusive, ExclInv, edits = 0,
                        \A c \in Candidates : job[c] = "done",
                        NEW t \in TaskIds, tasks[t].matter # NoMatter
                 PROVE  \E e \in Evidence : <<t, e>> \in assignQ
      BY DEF NoTaskUnassigned, Exclusive
    <2>1. PICK c \in Candidates : Owner(c, t)
      BY DEF ExclInv, Owned
    <2>2. plan[c].kind \in Kinds
      BY DEF RegInv, Consistent, Undecided, Made, Plans
    <2>3. plan[c].kind \in {"merge", "create", "followup"} /\ plan[c].task = t
      BY <2>1, <2>2, Lookups DEF Owner
    <2>4. <<t, Cand[c].evidence>> \in assignQ
      BY <2>3 DEF DoneIsRecorded
    <2> QED
      BY <2>4 DEF Evidence
  <1> QED
    BY <1>1, RegistryInvariant, DoneTheorem, ExclusionInvariant, PTL

-----------------------------------------------------------------------------
(* Reports of one work *)

\* The candidates that have counted for t, and those that have made their task.
Counted(t) == {c \in Candidates : /\ plan[c].kind = "merge" /\ plan[c].task = t
                                  /\ todo[c] # Rest("merge", 0) /\ todo[c] # Rest("merge", 1)}
Maker(c)   == plan[c].kind \in {"create", "followup"} /\ todo[c] # QueriesOf("create")

OneMaker  == \A b, c \in Candidates : (Maker(b) /\ Maker(c) /\ plan[b].task = plan[c].task) => b = c
Evidenced == \A l \in links : \E c \in Candidates : Cand[c].conf # "low" /\ l[2] = Cand[c].evidence
Covered   == \A t \in TaskIds : Cardinality(Counted(t)) <= tasks[t].count

\* Each report is discarded, makes the task or is merged into it.
Simple == (OneWork /\ Overrunners = {} /\ edits = 0) =>
             \A c \in Candidates : plan[c].kind \in {"none", "discard", "merge", "create"}

CountInv == OneMaker /\ Evidenced /\ Covered /\ Simple

\* An element more is at most one more.
LEMMA OneMoreElement ==
  ASSUME NEW S, NEW x, IsFiniteSet(S)
  PROVE  /\ IsFiniteSet(S \cup {x}) /\ Cardinality(S \cup {x}) \in Nat
         /\ Cardinality(S \cup {x}) <= Cardinality(S) + 1
  <1>1. IsFiniteSet(S \cup {x}) /\ Cardinality(S) \in Nat
    BY FS_AddElement, FS_CardinalityType
  <1>2. Cardinality(S \cup {x}) = Cardinality(S) \/ Cardinality(S \cup {x}) = Cardinality(S) + 1
    BY FS_AddElement
  <1> QED
    BY <1>1, <1>2

\* A job gets a task of its own by inserting it.
LEMMA MakerStep ==
  ASSUME RegInv, NEW c \in Candidates, Act(c), Maker(c)'
  PROVE  InsertTask(c) \/ (Maker(c) /\ plan'[c].task = plan[c].task)
  <1>0. /\ TypeOK /\ plan \in [Candidates -> AnyPlan] /\ todo \in [Candidates -> Seq(Queries)]
        /\ QueriesOf("create") = QueriesOf("followup") /\ NoPlan.kind = "none"
    BY Types DEF RegInv, RegTypes, QueriesOf, NoPlan
  <1>1. ~FreshStart(c)
    BY <1>0 DEF FreshStart, Maker
  <1>2. CASE Around(c)
    BY <1>2 DEF Around, Maker
  <1>3. ASSUME NEW k, NEW t, Plan(c, k, t) PROVE FALSE
    BY <1>0, <1>3 DEF Plan, Maker
  <1>4. ~FindExact(c)
    <2> SUFFICES ASSUME FindExact(c) PROVE FALSE
      OBVIOUS
    <2>1. plan' = plan
      BY <1>3 DEF FindExact, MergeOrFollowUp
    <2>2. plan[c] = NoPlan
      BY <1>0, AtLookup DEF FindExact, RegInv
    <2> QED
      BY <1>0, <2>1, <2>2 DEF Maker
  <1>5. ~FindSimilar(c)
    BY <1>3 DEF FindSimilar, MergeOrFollowUp
  <1>6. CASE NextQuery(c)
    <2>1. plan[c].kind \in {"create", "followup"} /\ plan'[c].task = plan[c].task /\ plan[c].kind \in Kinds
      BY <1>6 DEF NextQuery, Maker
    <2>2. PICK n \in 0..Len(QueriesOf(plan[c].kind)) :
             /\ n < Len(QueriesOf(plan[c].kind)) /\ QueriesOf(plan[c].kind)[n + 1] # "insert"
             /\ todo[c] = Rest(plan[c].kind, n)
      BY <1>6 DEF NextQuery
    <2>3. n # 0
      <3> SUFFICES ASSUME n = 0 PROVE FALSE
        OBVIOUS
      <3>1. 1 \in 1..Len(QueriesOf(plan[c].kind))
        <4>1. \A l \in 2..6 : 1 \in 1..l
          OBVIOUS
        <4> QED
          BY <2>1, <4>1, QueryFacts
      <3>2. QueriesOf(plan[c].kind)[1] = "insert"
        BY <2>1, <3>1, QueryFacts
      <3> QED
        BY <2>2, <3>2
    <2>4. todo[c] # QueriesOf(plan[c].kind)
      BY <2>1, <2>2, <2>3, RestDistinct
    <2> QED
      BY <1>0, <2>1, <2>4 DEF Maker
  <1> QED
    BY <1>1, <1>2, <1>4, <1>5, <1>6, ActOutcome

\* A job gets to have counted by counting.
LEMMA CountedStep ==
  ASSUME RegInv, NEW c \in Candidates, Act(c), NEW t, c \in Counted(t)', c \notin Counted(t)
  PROVE  IncrementCount(c) /\ plan[c].task = t
  <1>0. /\ TypeOK /\ plan \in [Candidates -> AnyPlan] /\ todo \in [Candidates -> Seq(Queries)]
        /\ NoPlan.kind = "none"
        /\ plan'[c].kind = "merge" /\ plan'[c].task = t
        /\ todo'[c] # Rest("merge", 0) /\ todo'[c] # Rest("merge", 1)
    BY Types DEF RegInv, RegTypes, NoPlan, Counted
  <1>1. "merge" \in Kinds /\ Len(QueriesOf("merge")) \in 2..6
    <2>1. "merge" \in Kinds
      BY DEF Kinds
    <2> QED
      BY <2>1, QueryFacts
  <1>2. /\ 0 \in 0..Len(QueriesOf("merge")) /\ 1 \in 0..Len(QueriesOf("merge")) /\ Rest("merge", 0) = QueriesOf("merge")
    <2>1. \A l \in 2..6 : 0 \in 0..l /\ 1 \in 0..l
      OBVIOUS
    <2>2. 0 \in 0..Len(QueriesOf("merge")) /\ 1 \in 0..Len(QueriesOf("merge"))
      BY <1>1, <2>1
    <2> QED
      BY <1>1, <2>2, RestFacts
  <1>3. ~FreshStart(c)
    BY <1>0 DEF FreshStart
  <1>4. ~Around(c)
    BY <1>0 DEF Around, Counted
  <1>5. ASSUME NEW k, NEW u, Plan(c, k, u) PROVE FALSE
    BY <1>0, <1>2, <1>5 DEF Plan
  <1>6. ~FindExact(c)
    <2> SUFFICES ASSUME FindExact(c) PROVE FALSE
      OBVIOUS
    <2>1. plan' = plan
      BY <1>5 DEF FindExact, MergeOrFollowUp
    <2>2. plan[c] = NoPlan
      BY <1>0, AtLookup DEF FindExact, RegInv
    <2> QED
      BY <1>0, <2>1, <2>2
  <1>7. ~FindSimilar(c)
    BY <1>5 DEF FindSimilar, MergeOrFollowUp
  <1>8. ~InsertTask(c)
    BY <1>0, AtInsert, InsertRow DEF InsertTask, RegInv
  <1>9. CASE NextQuery(c)
    <2>1. plan[c].kind = "merge" /\ plan[c].task = t
      BY <1>0, <1>9 DEF NextQuery
    <2>2. PICK n \in Nat : /\ n + 1 \in 0..Len(QueriesOf("merge")) /\ n \in 0..Len(QueriesOf("merge"))
                           /\ todo[c] = Rest("merge", n) /\ todo'[c] = Rest("merge", n + 1)
                           /\ QueriesOf("merge")[n + 1] = "count" => IncrementCount(c)
      BY <1>9, <2>1 DEF NextQuery
    <2>3. n # 0
      BY <1>0, <2>2
    <2>4. todo[c] = Rest("merge", 0) \/ todo[c] = Rest("merge", 1)
      BY <2>1 DEF Counted
    <2>5. n = 1
      BY <1>1, <1>2, <2>2, <2>3, <2>4, RestDistinct
    <2>6. QueriesOf("merge")[2] = "count"
      <3>1. \A l \in 2..6 : 2 \in 1..l
        OBVIOUS
      <3>2. 2 \in 1..Len(QueriesOf("merge"))
        BY <1>1, <3>1
      <3> QED
        BY <1>1, <3>2, QueryFacts
    <2> QED
      BY <2>1, <2>2, <2>5, <2>6
  <1> QED
    BY <1>3, <1>4, <1>6, <1>7, <1>8, <1>9, ActOutcome

\* Two jobs do not make one task.
LEMMA OneMakerStep ==
  ASSUME RegInv, OneMaker, NEW c \in Candidates, Act(c)
  PROVE  OneMaker'
  <1>0. /\ TypeOK /\ Others(c) /\ plan \in [Candidates -> AnyPlan]
        /\ \A b \in Candidates \ {c} : Maker(b)' => Maker(b) /\ plan'[b].task = plan[b].task
    BY Frame, Types DEF RegInv, RegTypes, Others, Maker
  <1>1. ASSUME InsertTask(c), NEW b \in Candidates PROVE plan[b].task # plan'[c].task
    <2>1. plan'[c].task = Len(tasks) + 1 /\ Len(tasks) + 1 \notin TaskIds
      BY <1>1, InsertRow
    <2>2. Len(tasks) + 1 \in Nat
      BY <1>0, TasksType
    <2> QED
      BY <1>0, <2>1, <2>2, BoundAssumption DEF AnyPlan
  <1>2. CASE InsertTask(c)
    BY <1>0, <1>1, <1>2 DEF OneMaker
  <1>3. CASE ~InsertTask(c)
    BY <1>0, <1>3, MakerStep DEF OneMaker
  <1> QED
    BY <1>2, <1>3

\* Only what is at least moderately sure is linked.
LEMMA EvidencedStep ==
  ASSUME RegInv, Evidenced, NEW c \in Candidates, Act(c)
  PROVE  Evidenced'
  <1>1. CASE AddLink(c)
    <2>1. links' = links \cup {<<plan[c].task, Cand[c].evidence>>} /\ Cand[c].conf # "low"
      BY <1>1, AtTask DEF AddLink, RegInv
    <2> QED
      BY <2>1 DEF Evidenced
  <1>2. CASE ~AddLink(c)
    <2>1. links' = links
      BY <1>2 DEF Act, Work, Start, AwaitLock, LockTimeout, Unlock, Enqueue, RetryJob, FindExact,
         FindSimilar, InsertTask, ReadForEnrich, FillFields, IncrementCount, InsertDecision,
         CreateReview, SetEvidence, Throw, Kill, db
    <2> QED
      BY <2>1 DEF Evidenced
  <1> QED
    BY <1>1, <1>2

\* The counts keep up with the jobs that have counted.
LEMMA CoveredStep ==
  ASSUME RegInv, Covered, NEW c \in Candidates, Act(c)
  PROVE  Covered'
  <1>0. /\ TypeOK /\ Others(c) /\ plan \in [Candidates -> AnyPlan] /\ IsFiniteSet(Candidates)
    BY Frame, Types, CandAssumption DEF RegInv, RegTypes
  <1> SUFFICES ASSUME NEW t \in TaskIds' PROVE Cardinality(Counted(t)') <= tasks'[t].count
    BY DEF Covered
  <1>1. /\ IsFiniteSet(Counted(t)) /\ Cardinality(Counted(t)) \in Nat
    <2>1. Counted(t) \subseteq Candidates
      BY DEF Counted
    <2> QED
      BY <1>0, <2>1, FS_Subset, FS_CardinalityType
  <1>2. Counted(t)' \subseteq Counted(t) \cup {c}
    BY <1>0 DEF Counted, Others
  <1>3. /\ c \in Counted(t)' /\ c \notin Counted(t) => IncrementCount(c) /\ plan[c].task = t
    BY CountedStep
  <1>4. CASE t \in TaskIds
    <2>1. Cardinality(Counted(t)) <= tasks[t].count /\ tasks[t].count \in Nat
      BY <1>0, <1>4, TasksType DEF Covered, Rows
    <2>2. CASE IncrementCount(c) /\ plan[c].task = t
      <3>1. tasks'[t].count = tasks[t].count + 1
        <4>1. ~InsertTask(c)
          BY <2>2 DEF IncrementCount, InsertTask, At
        <4> QED
          BY <1>4, <2>2, <4>1, ActTasks
      <3>2. /\ IsFiniteSet(Counted(t) \cup {c}) /\ Cardinality(Counted(t) \cup {c}) \in Nat
            /\ Cardinality(Counted(t) \cup {c}) <= Cardinality(Counted(t)) + 1
        BY <1>1, OneMoreElement
      <3>3. Cardinality(Counted(t)') <= Cardinality(Counted(t) \cup {c}) /\ Cardinality(Counted(t)') \in Nat
        BY <1>2, <3>2, FS_Subset, FS_CardinalityType
      <3> QED
        BY <1>1, <2>1, <3>1, <3>2, <3>3
    <2>3. CASE ~(IncrementCount(c) /\ plan[c].task = t)
      <3>1. tasks'[t].count = tasks[t].count
        BY <1>4, <2>3, ActTasks, InsertRow
      <3>2. Counted(t)' \subseteq Counted(t)
        BY <1>2, <1>3, <2>3
      <3>3. Cardinality(Counted(t)') <= Cardinality(Counted(t)) /\ Cardinality(Counted(t)') \in Nat
        BY <1>1, <3>2, FS_Subset, FS_CardinalityType
      <3> QED
        BY <1>1, <2>1, <3>1, <3>3
    <2> QED
      BY <2>2, <2>3
  <1>5. CASE t \notin TaskIds
    <2>1. InsertTask(c)
      BY <1>5, ActTasks
    <2>2. t = Len(tasks) + 1 /\ tasks'[t].count = 0
      BY <1>5, <2>1, InsertRow
    <2>3. t \in Nat /\ t # NoTask
      BY <1>0, <2>2, TasksType, BoundAssumption
    <2>4. Counted(t) = {}
      BY <1>0, <1>5, <2>3 DEF Counted, AnyPlan
    <2>5. c \notin Counted(t)'
      BY <1>3, <2>1, <2>4 DEF InsertTask, IncrementCount, At
    <2>6. Counted(t)' = {}
      BY <1>2, <2>4, <2>5
    <2>7. Cardinality(Counted(t)') = 0
      BY <2>6, FS_EmptySet
    <2> QED
      BY <2>2, <2>7
  <1> QED
    BY <1>4, <1>5

\* A report is not a follow-up of another, nor less than it.
LEMMA SimpleStep ==
  ASSUME RegInv, Exclusive => ExclInv, Simple, NEW c \in Candidates, Act(c)
  PROVE  Simple'
  <1> DEFINE Few == {"none", "discard", "merge", "create"}
  <1> SUFFICES ASSUME OneWork, Overrunners = {}, edits' = 0 PROVE \A b \in Candidates : plan'[b].kind \in Few
    BY DEF Simple, OneWork
  <1>0. /\ TypeOK /\ Others(c) /\ plan \in [Candidates -> AnyPlan] /\ NoPlan.kind \in Few /\ edits = 0
    BY Frame, Types, ActTasks, InsertRow DEF RegInv, RegTypes, NoPlan
  <1>1. \A b \in Candidates : plan[b].kind \in Few
    BY <1>0 DEF Simple
  <1>2. ExclInv
    BY DEF Exclusive, OneWork, OneSpelling
  <1>3. ASSUME NEW k \in Few, NEW u, Plan(c, k, u) PROVE plan'[c].kind \in Few
    BY <1>0, <1>3 DEF Plan
  <1>4. ASSUME NEW t \in TaskIds, MergeOrFollowUp(c, t) PROVE plan'[c].kind \in Few
    <2>1. tasks[t].open
      BY <1>0, <1>2 DEF ExclInv, OneEach
    <2> QED
      BY <1>3, <1>4, <2>1 DEF MergeOrFollowUp
  <1>5. plan'[c].kind \in Few
    <2>1. CASE FindExact(c)
      <3>1. CASE UNCHANGED plan
        BY <1>1, <3>1
      <3> QED
        BY <1>3, <1>4, <2>1, <3>1 DEF FindExact, SameFingerprint
    <2>2. CASE FindSimilar(c)
      <3>1. todo[c] = <<"similar">> /\ phase[c] = "inside"
        BY <1>0, <2>2, AtLookup DEF FindSimilar, RegInv
      <3>2. SameFingerprint(c) = {}
        BY <1>2, <3>1 DEF ExclInv, Absence, Missed, OneWork
      <3>3. \A t \in TaskIds : tasks[t].print = Cand[c].print
        BY DEF RegInv, FromCandidates, OneWork
      <3>4. Comparable(c) = {}
        BY <3>2, <3>3 DEF Comparable, SameFingerprint
      <3>5. Plan(c, "create", NoTask)
        BY <2>2, <3>4 DEF FindSimilar
      <3> QED
        BY <1>3, <3>5
    <2>3. CASE InsertTask(c) \/ NextQuery(c) \/ Around(c)
      BY <1>1, <2>3, InsertRow DEF NextQuery, Around
    <2>4. CASE FreshStart(c)
      BY <1>0, <2>4 DEF FreshStart
    <2> QED
      BY <2>1, <2>2, <2>3, <2>4, ActOutcome
  <1> QED
    BY <1>0, <1>1, <1>5 DEF Others

\* No step breaks the account.
LEMMA NextCountInv == RegInv /\ (Exclusive => ExclInv) /\ CountInv /\ [Next]_vars => CountInv'
  <1> SUFFICES ASSUME RegInv, Exclusive => ExclInv, CountInv, [Next]_vars PROVE CountInv'
    OBVIOUS
  <1>1. ASSUME NEW c \in Candidates, Act(c) PROVE CountInv'
    BY <1>1, OneMakerStep, EvidencedStep, CoveredStep, SimpleStep DEF CountInv
  <1>2. ASSUME \/ \E m \in Matters : ExpireKey(m)
               \/ \E t \in TaskIds : HumanSetDue(t) \/ \E open \in BOOLEAN : HumanSetStatus(t, open)
               \/ UNCHANGED vars
        PROVE  CountInv'
    <2>1. /\ UNCHANGED <<todo, plan, links>> /\ TaskIds' = TaskIds /\ edits' >= edits
          /\ \A t \in TaskIds : tasks'[t].count = tasks[t].count
      BY <1>2, OtherTypes
    <2>2. edits' = 0 => edits = 0
      <3>1. edits \in Nat
        BY BoundAssumption, Types DEF RegInv, RegTypes
      <3> QED
        BY <2>1, <3>1
    <2>3. OneMaker' /\ Evidenced'
      BY <2>1 DEF CountInv, OneMaker, Evidenced, Maker
    <2>4. Covered'
      BY <2>1 DEF CountInv, Covered, Counted
    <2>5. Simple'
      BY <2>1, <2>2 DEF CountInv, Simple
    <2> QED
      BY <2>3, <2>4, <2>5 DEF CountInv
  <1> QED
    BY <1>1, <1>2 DEF Next, Act

\* For reports of one work, open_evidence_count never falls behind the links.
THEOREM CountTheorem == Spec => []CountCoversLinks
  <1>1. Init => CountInv
    <2> SUFFICES ASSUME Init PROVE CountInv
      OBVIOUS
    <2>1. TaskIds = {} /\ links = {} /\ \A c \in Candidates : plan[c].kind = "none"
      BY DEF Init, TaskIds, NoPlan
    <2> QED
      BY <2>1 DEF CountInv, OneMaker, Maker, Evidenced, Covered, Simple
  <1>2. Spec => []CountInv
    BY <1>1, NextCountInv, RegistryInvariant, ExclusionInvariant, PTL DEF Spec
  <1>3. RegInv /\ (Exclusive => ExclInv) /\ CountInv => CountCoversLinks
    <2> SUFFICES ASSUME RegInv, ExclInv, CountInv, OneWork, Overrunners = {}, edits = 0,
                        \A c \in Candidates : job[c] = "done", NEW t \in TaskIds
                 PROVE  tasks[t].count >= Cardinality({l \in links : l[1] = t}) - 1
      BY DEF CountCoversLinks, Exclusive, OneWork, OneSpelling
    <2> DEFINE L == {l \in links : l[1] = t}
               H == {c \in Candidates : Cand[c].conf # "low"}
               K == Counted(t)
    <2>0. /\ links \subseteq TaskIds \X Evidence /\ tasks[t].count \in Nat /\ IsFiniteSet(Candidates)
          /\ Cardinality(K) <= tasks[t].count
      BY Types, TasksType, CandAssumption DEF RegInv, RegTypes, Rows, CountInv, Covered
    <2>1. ASSUME NEW c \in H PROVE c \in K \/ (Maker(c) /\ plan[c].task = t)
      <3>1. PICK n \in Nat : Made(c, n) /\ JobAt(c, n)
        BY DEF RegInv, Consistent, Undecided
      <3>2. plan[c].kind \in {"merge", "create"} /\ plan[c].kind \in Kinds /\ n \in 0..Len(QueriesOf(plan[c].kind))
        <4>1. plan[c].kind \in Kinds /\ plan[c].kind # "discard" /\ n \in 0..Len(QueriesOf(plan[c].kind))
          BY <2>1, <3>1 DEF Made, Plans, Targeted
        <4>2. plan[c].kind # "none"
          BY <4>1 DEF Kinds
        <4> QED
          BY <4>1, <4>2 DEF CountInv, Simple
      <3>3. Len(QueriesOf(plan[c].kind)) \in 2..6 /\ n = Len(QueriesOf(plan[c].kind))
        <4>1. \A l \in 2..6 : \A i \in 0..l : i < l \/ i = l
          OBVIOUS
        <4>2. Len(QueriesOf(plan[c].kind)) \in 2..6
          BY <3>2, QueryFacts
        <4> QED
          BY <3>1, <3>2, <4>1, <4>2 DEF JobAt
      <3>4. /\ todo[c] # Rest(plan[c].kind, 0) /\ todo[c] # Rest(plan[c].kind, 1)
            /\ todo[c] # QueriesOf(plan[c].kind) /\ n # 0
        <4>1. \A l \in 2..6 : l # 0 /\ l # 1 /\ 0 \in 0..l /\ 1 \in 0..l
          OBVIOUS
        <4>2. n # 0 /\ n # 1 /\ 0 \in 0..Len(QueriesOf(plan[c].kind)) /\ 1 \in 0..Len(QueriesOf(plan[c].kind))
          BY <3>3, <4>1
        <4>3. todo[c] = Rest(plan[c].kind, n)
          BY <3>1 DEF Made
        <4> QED
          BY <3>2, <4>2, <4>3, RestDistinct
      <3>5. plan[c].task \in TaskIds
        BY <3>1, <3>2, <3>4 DEF Made, Targeted
      <3>6. plan[c].task = t
        BY <3>5 DEF ExclInv, OneEach, RegInv, FromCandidates, OneWork
      <3> QED
        BY <3>2, <3>4, <3>6 DEF Counted, Maker
    <2>2. PICK m : H \subseteq K \cup {m}
      <3>1. CASE \E b \in Candidates : Maker(b) /\ plan[b].task = t
        <4>1. PICK b \in Candidates : Maker(b) /\ plan[b].task = t
          BY <3>1
        <4>2. H \subseteq K \cup {b}
          BY <2>1, <4>1 DEF CountInv, OneMaker
        <4> QED
          BY <4>2
      <3>2. CASE ~\E b \in Candidates : Maker(b) /\ plan[b].task = t
        BY <2>1, <3>2
      <3> QED
        BY <3>1, <3>2
    <2>3. /\ IsFiniteSet(H) /\ Cardinality(H) \in Nat /\ Cardinality(K) \in Nat
          /\ Cardinality(H) <= Cardinality(K) + 1
      <3>1. IsFiniteSet(K) /\ Cardinality(K) \in Nat
        <4>1. K \subseteq Candidates
          BY DEF Counted
        <4> QED
          BY <2>0, <4>1, FS_Subset, FS_CardinalityType
      <3>2. /\ IsFiniteSet(K \cup {m}) /\ Cardinality(K \cup {m}) <= Cardinality(K) + 1
            /\ Cardinality(K \cup {m}) \in Nat
        BY <3>1, OneMoreElement
      <3>3. IsFiniteSet(H) /\ Cardinality(H) <= Cardinality(K \cup {m})
        BY <2>2, <3>2, FS_Subset
      <3>4. Cardinality(H) \in Nat
        BY <3>3, FS_CardinalityType
      <3> HIDE DEF H, K
      <3> QED
        BY <3>1, <3>2, <3>3, <3>4
    <2>4. Cardinality(L) <= Cardinality(H) /\ Cardinality(L) \in Nat
      <3> DEFINE link(c) == <<t, Cand[c].evidence>>
                 T == {link(c) : c \in H}
                 f == [c \in H |-> link(c)]
      <3>1. f \in Surjection(H, T)
        BY DEF Surjection
      <3>2. IsFiniteSet(T) /\ Cardinality(T) <= Cardinality(H)
        <4> HIDE DEF f, T, H
        <4> QED
          BY <2>3, <3>1, FS_Surjection
      <3>3. L \subseteq T
        <4> SUFFICES ASSUME NEW l \in links, l[1] = t PROVE l \in T
          OBVIOUS
        <4>1. l = <<l[1], l[2]>>
          BY <2>0
        <4>2. PICK c \in Candidates : Cand[c].conf # "low" /\ l[2] = Cand[c].evidence
          BY DEF CountInv, Evidenced
        <4> QED
          BY <4>1, <4>2
      <3>4. IsFiniteSet(L) /\ Cardinality(L) <= Cardinality(T)
        <4> HIDE DEF T, L
        <4> QED
          BY <3>2, <3>3, FS_Subset
      <3>5. Cardinality(L) \in Nat /\ Cardinality(T) \in Nat
        <4> HIDE DEF T, L
        <4> QED
          BY <3>2, <3>4, FS_CardinalityType
      <3> HIDE DEF T, L, H
      <3> QED
        BY <2>3, <3>2, <3>4, <3>5
    <2> HIDE DEF L, H, K
    <2>5. tasks[t].count >= Cardinality(L) - 1
      BY <2>0, <2>3, <2>4
    <2> QED
      BY <2>5 DEF L
  <1> QED
    BY <1>2, <1>3, RegistryInvariant, ExclusionInvariant, PTL
=============================================================================
