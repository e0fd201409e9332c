----------------------------- MODULE IntakeProofs -----------------------------
(***************************************************************************)
(* Who is told that evidence is there can count on a job for it, and what  *)
(* is submitted is what is shown, for any number of documents, submissions *)
(* and failures, whatever else the console does.                           *)
(***************************************************************************)
EXTENDS Console, FiniteSetTheorems, SequenceTheorems, TLAPS

Documents   == Docs \cup {Fed, NoDoc}
Stages      == {"sent", "inserted", "done", "answered", "failed"}
Submissions == [doc : Documents, key : Nat, at : Stages, id : Nat,
                first : BOOLEAN, awaited : BOOLEAN]

\* Enough of the types to take the sequences apart.
IntakeTypes ==
    /\ text \in Documents
    /\ sub \in Seq(Submissions)
    /\ events \in Seq([key : Nat, doc : Documents])

\* A submission that has not been handled has made no event; one that has been
\* handled names an event; and whose insert was the first has seen to its job.
Progress ==
    \A s \in Subs :
        /\ sub[s].at = "sent" => ~sub[s].first
        /\ sub[s].at = "inserted" => sub[s].first
        /\ sub[s].at \in {"inserted", "done", "answered"} => sub[s].id \in DOMAIN events
        /\ sub[s].first /\ sub[s].at \in {"done", "answered"} => sub[s].id \in queued

\* Every event has a job, or a submission that is still to add it or failed to.
JobsInHand ==
    \A i \in DOMAIN events :
        \/ i \in queued
        \/ \E o \in Subs : sub[o].first /\ sub[o].id = i /\ sub[o].at \in {"inserted", "failed"}

IntakeInv == IntakeTypes /\ Progress /\ JobsInHand

\* What the property says follows: the event of an answer is in somebody's hand,
\* and not in the answered submission's own.
LEMMA InvImpliesAnswered == IntakeInv => AnsweredIsQueued
  BY DEF IntakeInv, Progress, JobsInHand, AnsweredIsQueued

LEMMA InitIntakeInv == IntakeInit => IntakeInv
  <1> SUFFICES ASSUME IntakeInit PROVE IntakeInv
    OBVIOUS
  <1>1. IntakeTypes
    BY EmptySeq DEF IntakeInit, IntakeTypes, Documents
  <1>2. DOMAIN sub = {} /\ DOMAIN events = {}
    BY DEF IntakeInit
  <1> QED
    BY <1>1, <1>2 DEF IntakeInv, Progress, JobsInHand, Subs

\* The sequences as functions.
LEMMA Shape ==
  ASSUME IntakeTypes
  PROVE  /\ Len(sub) \in Nat /\ Subs = 1 .. Len(sub) /\ sub \in [Subs -> Submissions]
         /\ Len(events) \in Nat /\ DOMAIN events = 1 .. Len(events)
  BY LenProperties DEF IntakeTypes, Subs

\* One submission takes a step, and the others keep what they are.
LEMMA Move ==
  ASSUME IntakeTypes, NEW s \in Subs, NEW q \in Submissions, sub' = [sub EXCEPT ![s] = q]
  PROVE  /\ sub' \in Seq(Submissions) /\ Subs' = Subs
         /\ sub'[s] = q /\ \A o \in Subs : o # s => sub'[o] = sub[o]
  <1>1. s \in 1 .. Len(sub) /\ sub \in Seq(Submissions) /\ sub \in [Subs -> Submissions]
    BY Shape DEF IntakeTypes
  <1>2. sub' \in Seq(Submissions)
    BY <1>1, ExceptSeq
  <1> QED
    BY <1>1, <1>2 DEF Subs

\* A submission that is only awaited by nobody any more, or whose handler failed,
\* keeps the event it made, and the event its hand.
LEMMA CalmInv ==
  ASSUME IntakeInv, text' \in Documents, sub' \in Seq(Submissions), Subs' = Subs,
         UNCHANGED <<events, queued>>,
         \A s \in Subs : /\ sub'[s].first = sub[s].first /\ sub'[s].id = sub[s].id
                         /\ \/ sub'[s].at = sub[s].at
                            \/ sub'[s].at = "failed"
                            \/ sub[s].at = "done" /\ sub'[s].at = "answered"
  PROVE  IntakeInv'
  <1>1. IntakeTypes'
    BY DEF IntakeInv, IntakeTypes
  <1>2. Progress'
    BY DEF IntakeInv, Progress
  <1>3. JobsInHand'
    <2> SUFFICES ASSUME NEW i \in DOMAIN events, i \notin queued
                 PROVE  \E o \in Subs : sub'[o].first /\ sub'[o].id = i
                                        /\ sub'[o].at \in {"inserted", "failed"}
      BY DEF JobsInHand
    <2>1. PICK o \in Subs : sub[o].first /\ sub[o].id = i /\ sub[o].at \in {"inserted", "failed"}
      BY DEF IntakeInv, JobsInHand
    <2> QED
      BY <2>1
  <1> QED
    BY <1>1, <1>2, <1>3 DEF IntakeInv

\* Leaving the page.
LEMMA LeaveInv == ASSUME IntakeInv, LeavePage PROVE IntakeInv'
  <1> DEFINE left == [s \in Subs |-> [sub[s] EXCEPT !.awaited = FALSE]]
  <1>1. Len(sub) \in Nat /\ Subs = 1 .. Len(sub) /\ sub \in [Subs -> Submissions]
    BY Shape DEF IntakeInv
  <1>2. sub' = left /\ text' = NoDoc /\ UNCHANGED <<events, queued>>
    BY DEF LeavePage
  <1>3. left \in [1 .. Len(sub) -> Submissions]
    BY <1>1 DEF Submissions
  <1>4. left \in Seq(Submissions)
    BY <1>1, <1>3, SeqDef
  <1>5. Subs' = Subs /\ \A s \in Subs : /\ sub'[s].first = sub[s].first /\ sub'[s].id = sub[s].id
                                         /\ sub'[s].at = sub[s].at
    BY <1>1, <1>2 DEF Subs, Submissions
  <1> QED
    BY <1>2, <1>4, <1>5, CalmInv DEF Documents

\* An answer, a failure and a lost connection.
LEMMA EndInv ==
  ASSUME IntakeInv, NEW s \in Subs, Reply(s) \/ Break(s) \/ Disconnect(s)
  PROVE  IntakeInv'
  <1>1. IntakeTypes /\ sub \in [Subs -> Submissions]
    BY Shape DEF IntakeInv
  <1>2. UNCHANGED <<text, events, queued>>
    BY DEF Reply, Break, Disconnect, Step, Slip, formVars
  <1>3. \E at \in Stages :
          /\ sub' = [sub EXCEPT ![s] = [sub[s] EXCEPT !.at = at, !.awaited = FALSE]]
          /\ \/ at = sub[s].at \/ at = "failed"
             \/ sub[s].at = "done" /\ at = "answered"
    <2>1. CASE Reply(s)
      BY <1>1, <2>1 DEF Reply, Step, Finish, Stages
    <2>2. CASE Break(s)
      BY <1>1, <2>2 DEF Break, Finish, Stages
    <2>3. CASE Disconnect(s)
      <3>1. sub[s].at \in Stages /\ sub[s] = [sub[s] EXCEPT !.at = sub[s].at]
        BY <1>1 DEF Submissions
      <3>2. [sub[s] EXCEPT !.awaited = FALSE] = [sub[s] EXCEPT !.at = sub[s].at, !.awaited = FALSE]
        BY <1>1 DEF Submissions
      <3>3. sub' = [sub EXCEPT ![s] = [sub[s] EXCEPT !.awaited = FALSE]]
        BY <1>1, <2>3 DEF Disconnect
      <3> QED
        BY <3>1, <3>2, <3>3
    <2> QED
      BY <2>1, <2>2, <2>3
  <1>4. PICK at \in Stages :
          /\ sub' = [sub EXCEPT ![s] = [sub[s] EXCEPT !.at = at, !.awaited = FALSE]]
          /\ \/ at = sub[s].at \/ at = "failed"
             \/ sub[s].at = "done" /\ at = "answered"
    BY <1>3
  <1> DEFINE new == [sub[s] EXCEPT !.at = at, !.awaited = FALSE]
  <1>5. /\ new \in Submissions /\ new.first = sub[s].first /\ new.id = sub[s].id /\ new.at = at
    BY <1>1 DEF Submissions
  <1> HIDE DEF new
  <1>6. /\ sub' \in Seq(Submissions) /\ Subs' = Subs
        /\ sub'[s] = new /\ \A o \in Subs : o # s => sub'[o] = sub[o]
    BY <1>1, <1>4, <1>5, Move DEF new
  <1>7. text' \in Documents
    BY <1>1, <1>2 DEF IntakeTypes
  <1> QED
    BY <1>2, <1>4, <1>5, <1>6, <1>7, CalmInv

\* A submission that is new is in nobody's way.
LEMMA SendInv ==
  ASSUME IntakeInv, NEW d \in Documents, NEW k \in Nat, SendDoc(d, k)
  PROVE  IntakeInv'
  <1> DEFINE q == Submission(d, k)
             n == Len(sub)
  <1>1. /\ IntakeTypes /\ n \in Nat /\ Subs = 1 .. n /\ sub \in Seq(Submissions)
    BY Shape DEF IntakeInv, IntakeTypes
  <1>2. /\ sub' = Append(sub, q) /\ UNCHANGED <<text, events, queued>>
    BY DEF SendDoc, formVars
  <1>3. q \in Submissions /\ q.at = "sent" /\ ~q.first
    BY DEF Submission, Submissions, Stages
  <1> HIDE DEF q
  <1>4. /\ sub' \in Seq(Submissions) /\ Len(sub') = n + 1 /\ sub'[n + 1] = q
        /\ \A s \in 1 .. n : sub'[s] = sub[s]
    BY <1>1, <1>2, <1>3, AppendProperties
  <1>5. Subs' = Subs \cup {n + 1}
    <2>1. Subs' = 1 .. Len(sub')
      BY <1>4, LenProperties DEF Subs
    <2> QED
      BY <1>1, <1>4, <2>1
  <1>6. IntakeTypes'
    BY <1>1, <1>2, <1>4 DEF IntakeTypes
  <1>7. Progress'
    BY <1>1, <1>2, <1>3, <1>4, <1>5 DEF IntakeInv, Progress
  <1>8. JobsInHand'
    BY <1>1, <1>2, <1>4, <1>5 DEF IntakeInv, JobsInHand
  <1> QED
    BY <1>6, <1>7, <1>8 DEF IntakeInv

\* The insert: a new event is in the hand of the submission that made it, an old
\* one is there already.
LEMMA InsertInv == ASSUME IntakeInv, NEW s \in Subs, Insert(s) PROVE IntakeInv'
  <1>1. IntakeTypes /\ sub \in [Subs -> Submissions] /\ sub[s].at = "sent" /\ ~sub[s].first
        /\ UNCHANGED <<text, queued>>
    BY Shape DEF IntakeInv, Progress, Insert, InsertAs, Step, formVars
  <1>2. CASE InsertAs(s)
    <2> DEFINE event == [key |-> sub[s].key, doc |-> sub[s].doc]
               n     == Len(events)
               q     == [sub[s] EXCEPT !.at = "inserted", !.id = n + 1, !.first = TRUE]
    <2>1. events' = Append(events, event) /\ sub' = [sub EXCEPT ![s] = q]
      BY <1>1, <1>2 DEF InsertAs
    <2>2. event \in [key : Nat, doc : Documents] /\ {n, n + 1} \subseteq Nat /\ DOMAIN events = 1 .. n
      BY <1>1, Shape DEF Submissions
    <2>3. events' \in Seq([key : Nat, doc : Documents]) /\ Len(events') = n + 1
      BY <1>1, <2>1, <2>2, AppendProperties DEF IntakeTypes
    <2>4. DOMAIN events' = DOMAIN events \cup {n + 1} /\ n + 1 \notin DOMAIN events
      <3>1. DOMAIN events' = 1 .. Len(events')
        BY <2>3, LenProperties
      <3> QED
        BY <2>2, <2>3, <3>1
    <2>5. q \in Submissions /\ q.at = "inserted" /\ q.id = n + 1 /\ q.first
      <3> HIDE DEF n
      <3> QED
        BY <1>1, <2>2 DEF Submissions, Stages
    <2> HIDE DEF q, event
    <2>6. /\ sub' \in Seq(Submissions) /\ Subs' = Subs
          /\ sub'[s] = q /\ \A o \in Subs : o # s => sub'[o] = sub[o]
      BY <1>1, <2>1, <2>5, Move
    <2>7. IntakeTypes'
      BY <1>1, <2>3, <2>6 DEF IntakeTypes
    <2>8. Progress'
      BY <1>1, <2>4, <2>5, <2>6 DEF IntakeInv, Progress
    <2>9. JobsInHand'
      BY <1>1, <2>4, <2>5, <2>6 DEF IntakeInv, JobsInHand
    <2> QED
      BY <2>7, <2>8, <2>9 DEF IntakeInv
  <1>3. CASE \E i \in Known(sub[s].key) :
               /\ sub' = [sub EXCEPT ![s].at = "done", ![s].id = i]
               /\ UNCHANGED <<events, queued>>
    <2>1. PICK i \in DOMAIN events : /\ sub' = [sub EXCEPT ![s].at = "done", ![s].id = i]
                                     /\ UNCHANGED events
      BY <1>3 DEF Known
    <2> DEFINE q == [sub[s] EXCEPT !.at = "done", !.id = i]
    <2>2. sub' = [sub EXCEPT ![s] = q]
      BY <1>1, <2>1
    <2>3. i \in Nat
      BY <1>1, Shape
    <2>4. q \in Submissions /\ q.at = "done" /\ q.id = i /\ ~q.first
      BY <1>1, <2>3 DEF Submissions, Stages
    <2> HIDE DEF q
    <2>5. /\ sub' \in Seq(Submissions) /\ Subs' = Subs
          /\ sub'[s] = q /\ \A o \in Subs : o # s => sub'[o] = sub[o]
      BY <1>1, <2>2, <2>4, Move
    <2>6. IntakeTypes'
      BY <1>1, <2>1, <2>5 DEF IntakeTypes
    <2>7. Progress'
      BY <1>1, <2>1, <2>4, <2>5 DEF IntakeInv, Progress
    <2>8. JobsInHand'
      BY <1>1, <2>1, <2>5 DEF IntakeInv, JobsInHand
    <2> QED
      BY <2>6, <2>7, <2>8 DEF IntakeInv
  <1> QED
    BY <1>2, <1>3 DEF Insert

\* The job is added: the event passes from the submission's hand to the queue.
LEMMA EnqueueInv == ASSUME IntakeInv, NEW s \in Subs, Enqueue(s) PROVE IntakeInv'
  <1> DEFINE q == [sub[s] EXCEPT !.at = "done"]
  <1>1. /\ IntakeTypes /\ sub \in [Subs -> Submissions] /\ sub[s].id \in DOMAIN events
        /\ queued' = queued \cup {sub[s].id} /\ UNCHANGED <<text, events>>
    BY Shape DEF IntakeInv, Progress, Enqueue, Step, formVars
  <1>2. sub' = [sub EXCEPT ![s] = q]
    BY <1>1 DEF Enqueue
  <1>3. q \in Submissions /\ q.at = "done" /\ q.id = sub[s].id /\ q.first = sub[s].first
    BY <1>1 DEF Submissions, Stages
  <1> HIDE DEF q
  <1>4. /\ sub' \in Seq(Submissions) /\ Subs' = Subs
        /\ sub'[s] = q /\ \A o \in Subs : o # s => sub'[o] = sub[o]
    BY <1>1, <1>2, <1>3, Move
  <1>5. IntakeTypes'
    BY <1>1, <1>4 DEF IntakeTypes
  <1>6. Progress'
    BY <1>1, <1>3, <1>4 DEF IntakeInv, Progress
  <1>7. JobsInHand'
    <2> SUFFICES ASSUME NEW i \in DOMAIN events, i \notin queued'
                 PROVE  \E o \in Subs : sub'[o].first /\ sub'[o].id = i
                                        /\ sub'[o].at \in {"inserted", "failed"}
      BY <1>1, <1>4 DEF JobsInHand
    <2>1. PICK o \in Subs : sub[o].first /\ sub[o].id = i /\ sub[o].at \in {"inserted", "failed"}
      BY <1>1 DEF IntakeInv, JobsInHand
    <2>2. o # s
      BY <1>1, <2>1
    <2> QED
      BY <1>4, <2>1, <2>2
  <1> QED
    BY <1>5, <1>6, <1>7 DEF IntakeInv

\* A step of the page or the handler, and one that leaves both alone.
LEMMA StepIntakeInv == IntakeInv /\ (IntakeNext \/ UNCHANGED intakeVars) => IntakeInv'
  <1> SUFFICES ASSUME IntakeInv, IntakeNext \/ UNCHANGED intakeVars PROVE IntakeInv'
    OBVIOUS
  <1>1. text \in Documents /\ sub \in Seq(Submissions) /\ Len(sub) + 1 \in Nat
    BY Shape DEF IntakeInv, IntakeTypes
  <1>2. ASSUME text' \in Documents, UNCHANGED <<sub, events, queued>> PROVE IntakeInv'
    BY <1>1, <1>2, CalmInv DEF Subs
  <1>3. CASE IngestPage
    <2>1. CASE LeavePage
      BY <2>1, LeaveInv
    <2>2. CASE Submit
      BY <1>1, <2>2, SendInv DEF Submit
    <2>3. ASSUME NEW d \in Docs, Choose(d) PROVE IntakeInv'
      BY <1>2, <2>3 DEF Choose, ChooseWith, Documents
    <2>4. ASSUME NEW d \in Docs, Extracted(d) PROVE IntakeInv'
      BY <1>1, <1>2, <2>4 DEF Extracted, Documents
    <2> QED
      BY <1>3, <2>1, <2>2, <2>3, <2>4 DEF IngestPage
  <1>4. CASE Feed
    BY <1>4, SendInv DEF Feed, Documents
  <1>5. ASSUME NEW s \in Subs, Insert(s) \/ Enqueue(s) \/ Reply(s) \/ Break(s) \/ Disconnect(s)
        PROVE  IntakeInv'
    BY <1>5, InsertInv, EnqueueInv, EndInv
  <1>6. CASE UNCHANGED intakeVars
    BY <1>1, <1>2, <1>6 DEF intakeVars
  <1> QED
    BY <1>3, <1>4, <1>5, <1>6 DEF IntakeNext

\* Whoever is told that evidence was accepted, or was there already, can count on
\* a job for it, unless the submission that made its event failed between the
\* insert and the add (POST /evidence), in every behaviour of the console.
THEOREM AnswersHaveJobs == Spec => []AnsweredIsQueued
  <1>1. Init => IntakeInv
    BY InitIntakeInv DEF Init
  <1>2. IntakeInv /\ [Next]_<<vars, intakeVars>> => IntakeInv'
    <2>1. [Next]_<<vars, intakeVars>> => IntakeNext \/ UNCHANGED intakeVars
      BY DEF Next
    <2> QED
      BY <2>1, StepIntakeInv
  <1>3. IntakeInv => AnsweredIsQueued
    BY InvImpliesAnswered
  <1> QED
    BY <1>1, <1>2, <1>3, PTL DEF Spec

-----------------------------------------------------------------------------
(* The page: unless a document was chosen while another was being read, the *)
(* only one that is read for the page is the one whose name it shows.       *)

PageInv ==
    \/ overlapped
    \/ reading \subseteq {file} /\ text \in {file, NoDoc}

LEMMA StepPageInv == PageInv /\ (IntakeNext \/ UNCHANGED intakeVars) => PageInv'
  <1> SUFFICES ASSUME PageInv, IntakeNext \/ UNCHANGED intakeVars PROVE PageInv'
    OBVIOUS
  <1>1. ASSUME UNCHANGED formVars PROVE PageInv'
    BY <1>1 DEF PageInv, formVars
  <1>2. CASE IngestPage
    <2>1. CASE LeavePage
      BY <2>1 DEF LeavePage, PageInv
    <2>2. CASE Submit
      BY <1>1, <2>2 DEF Submit, SendDoc
    <2>3. ASSUME NEW d \in Docs, Choose(d) PROVE PageInv'
      BY <2>3 DEF Choose, ChooseWith, PageInv
    <2>4. ASSUME NEW d \in Docs, Extracted(d) PROVE PageInv'
      BY <2>4 DEF Extracted, PageInv
    <2> QED
      BY <1>2, <2>1, <2>2, <2>3, <2>4 DEF IngestPage
  <1>3. CASE Feed
    BY <1>1, <1>3 DEF Feed, SendDoc
  <1>4. ASSUME NEW s \in Subs, Insert(s) \/ Enqueue(s) \/ Reply(s) \/ Break(s) \/ Disconnect(s)
        PROVE  PageInv'
    BY <1>1, <1>4 DEF Insert, Enqueue, Reply, Break, Disconnect, Step, Slip
  <1>5. CASE UNCHANGED intakeVars
    BY <1>1, <1>5 DEF intakeVars, formVars
  <1> QED
    BY <1>2, <1>3, <1>4, <1>5 DEF IntakeNext

\* The text that can be submitted is that of the document whose name is shown
\* (processFile of IngestPage.tsx), unless readings overlapped, in every behaviour
\* of the console.
THEOREM PreviewKept == Spec => []PreviewIsOfFile
  <1>1. Init => PageInv
    BY DEF Init, IntakeInit, PageInv
  <1>2. PageInv /\ [Next]_<<vars, intakeVars>> => PageInv'
    BY StepPageInv DEF Next
  <1>3. PageInv => PreviewIsOfFile
    BY DEF PageInv, PreviewIsOfFile
  <1> QED
    BY <1>1, <1>2, <1>3, PTL DEF Spec

-----------------------------------------------------------------------------
(* Duplicates: every event is the first with its key, the key of a click is *)
(* its own, and the page waits for an answer before the next click.         *)

Keyed == \A s \in Subs : \/ sub[s].doc = Fed /\ sub[s].key = 0
                         \/ sub[s].doc \in Docs /\ sub[s].key = s

FromSubmission ==
    \A i \in DOMAIN events :
        \/ events[i].doc = Fed /\ events[i].key = 0
        \/ events[i].doc \in Docs /\ events[i].key \in Subs /\ sub[events[i].key].doc = events[i].doc

OncePerKey == \A i, j \in DOMAIN events : events[i].key = events[j].key => i = j

OneAwaited == \A s, o \in Subs : sub[s].awaited /\ sub[o].awaited => s = o

KeyInv == /\ IntakeTypes /\ text \in Docs \cup {NoDoc}
          /\ Keyed /\ FromSubmission /\ OncePerKey /\ OneAwaited

\* The handler does not change what was submitted.
LEMMA SameSubmission ==
  ASSUME IntakeTypes, NEW s \in Subs, Insert(s) \/ Enqueue(s) \/ Reply(s) \/ Break(s) \/ Disconnect(s)
  PROVE  /\ Subs' = Subs /\ UNCHANGED text
         /\ \A o \in Subs : /\ sub'[o].doc = sub[o].doc /\ sub'[o].key = sub[o].key
                            /\ sub'[o].awaited => sub[o].awaited
  <1>1. sub \in [Subs -> Submissions]
    BY Shape
  <1>2. UNCHANGED text
    BY DEF Insert, Enqueue, Reply, Break, Disconnect, Step, Slip, formVars
  <1>3. CASE Insert(s)
    <2>1. CASE InsertAs(s)
      BY <1>1, <1>2, <2>1 DEF InsertAs, Subs, Submissions
    <2>2. CASE \E i \in Known(sub[s].key) : sub' = [sub EXCEPT ![s].at = "done", ![s].id = i]
      BY <1>1, <1>2, <2>2 DEF Subs, Submissions
    <2> QED
      BY <1>3, <2>1, <2>2 DEF Insert
  <1>4. CASE Enqueue(s)
    BY <1>1, <1>2, <1>4 DEF Enqueue, Subs, Submissions
  <1>5. CASE Reply(s)
    BY <1>1, <1>2, <1>5 DEF Reply, Finish, Subs, Submissions
  <1>6. CASE Break(s)
    BY <1>1, <1>2, <1>6 DEF Break, Finish, Subs, Submissions
  <1>7. CASE Disconnect(s)
    BY <1>1, <1>2, <1>7 DEF Disconnect, Subs, Submissions
  <1> QED
    BY <1>3, <1>4, <1>5, <1>6, <1>7

\* Nothing is inserted or submitted.
LEMMA CalmKeys ==
  ASSUME KeyInv, IntakeTypes', Subs' = Subs, text' \in Docs \cup {NoDoc}, UNCHANGED events,
         \A o \in Subs : /\ sub'[o].doc = sub[o].doc /\ sub'[o].key = sub[o].key
                         /\ sub'[o].awaited => sub[o].awaited
  PROVE  KeyInv'
  <1>1. Keyed' /\ FromSubmission' /\ OncePerKey' /\ OneAwaited'
    BY DEF KeyInv, Keyed, FromSubmission, OncePerKey, OneAwaited
  <1> QED
    BY <1>1 DEF KeyInv

\* A click brings a key of its own; the other client comes with its only one.
LEMMA SendKeys ==
  ASSUME KeyInv, IntakeTypes', NEW d \in Docs \cup {Fed}, NEW k \in Nat, SendDoc(d, k),
         \/ d = Fed /\ k = 0
         \/ d \in Docs /\ k = Len(sub) + 1 /\ \A s \in Subs : ~sub[s].awaited
  PROVE  KeyInv'
  <1> DEFINE q == Submission(d, k)
             n == Len(sub)
  <1>1. n \in Nat /\ Subs = 1 .. n /\ sub \in Seq(Submissions)
    BY Shape DEF KeyInv, IntakeTypes
  <1>2. sub' = Append(sub, q) /\ UNCHANGED <<text, events>>
    BY DEF SendDoc, formVars
  <1>3. q \in Submissions /\ q.doc = d /\ q.key = k /\ q.awaited = (d # Fed)
    BY DEF Submission, Submissions, Stages, Documents
  <1> HIDE DEF q
  <1>4. /\ Len(sub') = n + 1 /\ sub'[n + 1] = q
        /\ sub' \in Seq(Submissions) /\ \A s \in 1 .. n : sub'[s] = sub[s]
    BY <1>1, <1>2, <1>3, AppendProperties
  <1>5. Subs' = Subs \cup {n + 1} /\ n + 1 \notin Subs
    <2>1. Subs' = 1 .. Len(sub')
      BY <1>4, LenProperties DEF Subs
    <2> QED
      BY <1>1, <1>4, <2>1
  <1>6. \A s \in Subs : sub'[s] = sub[s]
    BY <1>1, <1>4
  <1>7. k = 0 \/ k = n + 1
    OBVIOUS
  <1> HIDE DEF n
  <1>8. Keyed'
    BY <1>3, <1>4, <1>5, <1>6 DEF KeyInv, Keyed, n
  <1>9. FromSubmission' /\ OncePerKey'
    BY <1>2, <1>5, <1>6 DEF KeyInv, FromSubmission, OncePerKey
  <1>10. OneAwaited'
    BY <1>3, <1>4, <1>5, <1>6, DocAssumption DEF KeyInv, OneAwaited
  <1> QED
    BY <1>2, <1>8, <1>9, <1>10 DEF KeyInv

\* An insert takes a key that no event has.
LEMMA InsertKeys ==
  ASSUME KeyInv, IntakeTypes', NEW s \in Subs, Insert(s), InsertAs(s), Known(sub[s].key) = {}
  PROVE  KeyInv'
  <1>1. /\ Subs' = Subs /\ UNCHANGED text
        /\ \A o \in Subs : /\ sub'[o].doc = sub[o].doc /\ sub'[o].key = sub[o].key
                           /\ sub'[o].awaited => sub[o].awaited
    BY SameSubmission DEF KeyInv
  <1> DEFINE event == [key |-> sub[s].key, doc |-> sub[s].doc]
             n == Len(events)
  <1>2. sub[s] \in Submissions /\ DOMAIN events = 1 .. n /\ n \in Nat
        /\ events \in Seq([key : Nat, doc : Documents])
    BY Shape DEF KeyInv, IntakeTypes
  <1>3. /\ event \in [key : Nat, doc : Documents] /\ event.key = sub[s].key /\ event.doc = sub[s].doc
        /\ events' = Append(events, event)
    BY <1>2 DEF Submissions, InsertAs
  <1> HIDE DEF event
  <1>4. /\ Len(events') = n + 1 /\ events' \in Seq([key : Nat, doc : Documents])
        /\ events'[n + 1] = event /\ \A i \in 1 .. n : events'[i] = events[i]
    BY <1>2, <1>3, AppendProperties
  <1>5. DOMAIN events' = DOMAIN events \cup {n + 1}
    <2>1. DOMAIN events' = 1 .. Len(events')
      BY <1>4, LenProperties
    <2> QED
      BY <1>2, <1>4, <2>1
  <1>6. \A i \in DOMAIN events : events'[i] = events[i] /\ events[i].key # event.key
    BY <1>2, <1>3, <1>4 DEF Known
  <1> HIDE DEF n
  <1>7. Keyed' /\ OneAwaited'
    BY <1>1 DEF KeyInv, Keyed, OneAwaited
  <1>8. FromSubmission'
    <2>1. \/ event.doc = Fed /\ event.key = 0
          \/ event.doc \in Docs /\ event.key \in Subs /\ sub[event.key].doc = event.doc
      BY <1>3 DEF KeyInv, Keyed
    <2> QED
      BY <1>1, <1>4, <1>5, <1>6, <2>1 DEF KeyInv, FromSubmission
  <1>9. OncePerKey'
    BY <1>4, <1>5, <1>6 DEF KeyInv, OncePerKey
  <1> QED
    BY <1>1, <1>7, <1>8, <1>9 DEF KeyInv

\* Every step of the page, the other client and the handler keeps the keys.
LEMMA StepKeyInv == IntakeInv' /\ KeyInv /\ (IntakeNext \/ UNCHANGED intakeVars) => KeyInv'
  <1> SUFFICES ASSUME IntakeInv', KeyInv, IntakeNext \/ UNCHANGED intakeVars PROVE KeyInv'
    OBVIOUS
  <1>1. IntakeTypes /\ IntakeTypes' /\ text \in Docs \cup {NoDoc} /\ Len(sub) + 1 \in Nat
    BY Shape DEF IntakeInv, KeyInv
  <1>2. ASSUME text' \in Docs \cup {NoDoc}, UNCHANGED <<sub, events>> PROVE KeyInv'
    BY <1>1, <1>2, CalmKeys DEF Subs
  <1>3. CASE IngestPage
    <2>1. CASE LeavePage
      <3>1. sub' = [s \in Subs |-> [sub[s] EXCEPT !.awaited = FALSE]] /\ sub \in [Subs -> Submissions]
        BY <1>1, <2>1, Shape DEF LeavePage
      <3>2. /\ Subs' = Subs
            /\ \A o \in Subs : /\ sub'[o].doc = sub[o].doc /\ sub'[o].key = sub[o].key
                               /\ ~sub'[o].awaited
        BY <3>1 DEF Subs, Submissions
      <3> QED
        BY <1>1, <2>1, <3>2, CalmKeys DEF LeavePage
    <2>2. CASE Submit
      BY <1>1, <2>2, SendKeys DEF Submit
    <2>3. ASSUME NEW d \in Docs, Choose(d) PROVE KeyInv'
      BY <1>2, <2>3 DEF Choose, ChooseWith
    <2>4. ASSUME NEW d \in Docs, Extracted(d) PROVE KeyInv'
      BY <1>1, <1>2, <2>4 DEF Extracted
    <2> QED
      BY <1>3, <2>1, <2>2, <2>3, <2>4 DEF IngestPage
  <1>4. CASE Feed
    BY <1>1, <1>4, SendKeys DEF Feed
  <1>5. ASSUME NEW s \in Subs, Insert(s) \/ Enqueue(s) \/ Reply(s) \/ Break(s) \/ Disconnect(s)
        PROVE  KeyInv'
    <2>1. CASE Insert(s) /\ InsertAs(s) /\ Known(sub[s].key) = {}
      BY <1>1, <2>1, InsertKeys
    <2>2. CASE UNCHANGED events
      BY <1>1, <1>5, <2>2, SameSubmission, CalmKeys
    <2> QED
      BY <1>5, <2>1, <2>2 DEF Insert, Enqueue, Reply, Break, Disconnect, Slip
  <1>6. CASE UNCHANGED intakeVars
    BY <1>1, <1>2, <1>6 DEF intakeVars
  <1> QED
    BY <1>3, <1>4, <1>5, <1>6 DEF IntakeNext

\* The events of a document are no more than its submissions, and all of these but
\* one were answered, given up or left behind.
LEMMA KeysCount == KeyInv => DuplicatesAreResubmissions
  <1> SUFFICES ASSUME KeyInv PROVE DuplicatesAreResubmissions
    OBVIOUS
  <1>1. /\ Subs = 1 .. Len(sub) /\ Len(sub) \in Nat
        /\ DOMAIN events = 1 .. Len(events) /\ Len(events) \in Nat
    BY Shape DEF KeyInv
  <1>2. IsFiniteSet(Subs) /\ IsFiniteSet(DOMAIN events)
    BY <1>1, FS_Interval
  <1>3. Rows(Fed) <= 1
    <2> DEFINE R == {i \in DOMAIN events : events[i].doc = Fed}
    <2>1. \A i, j \in R : i = j
      BY DocAssumption DEF KeyInv, FromSubmission, OncePerKey
    <2>2. R = {} \/ \E i : R = {i}
      BY <2>1
    <2> HIDE DEF R
    <2>3. Cardinality(R) <= 1
      <3>1. R = {} => Cardinality(R) = 0
        BY FS_EmptySet
      <3>2. (\E i : R = {i}) => Cardinality(R) = 1
        BY FS_Singleton
      <3> QED
        BY <2>2, <3>1, <3>2
    <2> QED
      BY <2>3 DEF R, Rows
  <1>4. ASSUME NEW d \in Docs
        PROVE  Rows(d) <= 1 + Cardinality({s \in Subs : sub[s].doc = d /\ ~sub[s].awaited})
    <2> DEFINE R == {i \in DOMAIN events : events[i].doc = d}
               S == {s \in Subs : sub[s].doc = d}
               A == {s \in Subs : sub[s].doc = d /\ ~sub[s].awaited}
               f == [i \in R |-> events[i].key]
    <2>1. f \in Injection(R, S)
      <3>1. \A i \in R : events[i].key \in S
        BY DocAssumption DEF KeyInv, FromSubmission
      <3>2. f \in [R -> S] /\ \A i, j \in R : f[i] = f[j] => i = j
        BY <3>1 DEF KeyInv, OncePerKey
      <3> QED
        BY <3>2 DEF Injection, IsInjective
    <2>2. IsFiniteSet(S) /\ IsFiniteSet(A) /\ IsFiniteSet(R)
      BY <1>2, FS_Subset
    <2>3. \E m : S \subseteq A \cup {m}
      BY DEF KeyInv, OneAwaited
    <2> HIDE DEF R, S, A, f
    <2>4. Cardinality(R) <= Cardinality(S)
      BY <2>1, <2>2, FS_Injection
    <2>5. PICK m : S \subseteq A \cup {m}
      BY <2>3
    <2>6. /\ IsFiniteSet(A \cup {m}) /\ Cardinality(A) \in Nat
          /\ Cardinality(A \cup {m}) = Cardinality(A) \/ Cardinality(A \cup {m}) = Cardinality(A) + 1
      BY <2>2, FS_AddElement, FS_CardinalityType
    <2>7. Cardinality(S) <= Cardinality(A \cup {m})
      BY <2>5, <2>6, FS_Subset
    <2>8. Cardinality(R) \in Nat /\ Cardinality(S) \in Nat
      BY <2>2, FS_CardinalityType
    <2>9. Cardinality(R) <= 1 + Cardinality(A)
      BY <2>4, <2>6, <2>7, <2>8
    <2> QED
      BY <2>9 DEF R, A, Rows
  <1> QED
    BY <1>3, <1>4 DEF DuplicatesAreResubmissions

\* A document becomes a second event only if its user submitted it again after an
\* answer, an error or a visit elsewhere, in every behaviour of the console.
THEOREM DuplicatesTheorem == Spec => []DuplicatesAreResubmissions
  <1>1. Init => IntakeInv /\ KeyInv
    <2> SUFFICES ASSUME Init PROVE IntakeInv /\ KeyInv
      OBVIOUS
    <2>1. IntakeInv
      BY InitIntakeInv DEF Init
    <2>2. Subs = {} /\ DOMAIN events = {} /\ text = NoDoc
      BY DEF Init, IntakeInit, Subs
    <2> QED
      BY <2>1, <2>2 DEF IntakeInv, KeyInv, Keyed, FromSubmission, OncePerKey, OneAwaited
  <1>2. [Next]_<<vars, intakeVars>> => IntakeNext \/ UNCHANGED intakeVars
    BY DEF Next
  <1>3. IntakeInv /\ KeyInv /\ [Next]_<<vars, intakeVars>> => (IntakeInv /\ KeyInv)'
    BY <1>2, StepIntakeInv, StepKeyInv
  <1> QED
    BY <1>1, <1>3, KeysCount, PTL DEF Spec

-----------------------------------------------------------------------------
(* Types *)

LEMMA SameInterval == \A m, n \in Nat : 1 .. m = 1 .. n => m = n
  <1> SUFFICES ASSUME NEW m \in Nat, NEW n \in Nat, 1 .. m = 1 .. n PROVE m = n
    OBVIOUS
  <1>1. \A k \in Nat : k \in 1 .. m <=> k \in 1 .. n
    OBVIOUS
  <1>2. m = 0 \/ m \in 1 .. n
    OBVIOUS
  <1>3. n = 0 \/ n \in 1 .. m
    OBVIOUS
  <1> QED
    BY <1>2, <1>3

\* One submission moves on, and names an event if it names any.
LEMMA MoveTypes ==
  ASSUME IntakeInv, IntakeInv', IntakeTypeOK, NEW s \in Subs, NEW q,
         sub' = [sub EXCEPT ![s] = q], q.id \in 0 .. Len(events'), Len(events') >= Len(events),
         queued' \subseteq DOMAIN events', UNCHANGED formVars
  PROVE  IntakeTypeOK'
  <1>1. /\ Len(sub) \in Nat /\ Subs = 1 .. Len(sub) /\ Len(events) \in Nat
        /\ Len(sub') \in Nat /\ Subs' = 1 .. Len(sub') /\ Len(events') \in Nat
    <2>1. IntakeTypes /\ IntakeTypes'
      BY DEF IntakeInv
    <2> QED
      BY <2>1, LenProperties DEF IntakeTypes, Subs
  <1>2. Subs' = Subs /\ sub'[s] = q /\ \A o \in Subs : o # s => sub'[o] = sub[o]
    BY Shape DEF IntakeInv, Subs
  <1>3. Len(sub') = Len(sub)
    BY <1>1, <1>2, SameInterval
  <1>4. \A o \in Subs : sub'[o].id \in 0 .. Len(events')
    <2> SUFFICES ASSUME NEW o \in Subs, o # s PROVE sub'[o].id \in 0 .. Len(events')
      BY <1>2
    <2>1. sub'[o] = sub[o] /\ sub[o].id \in 0 .. Len(events)
      BY <1>2 DEF IntakeTypeOK
    <2> QED
      BY <1>1, <2>1
  <1> QED
    BY <1>2, <1>3, <1>4 DEF IntakeTypeOK, formVars

\* The page names documents of its user's, and every job is an event's.
LEMMA StepIntakeTypes ==
  ASSUME IntakeInv, IntakeInv', IntakeTypeOK, IntakeNext
  PROVE  IntakeTypeOK'
  <1>1. /\ Len(sub) \in Nat /\ Subs = 1 .. Len(sub) /\ sub \in [Subs -> Submissions]
        /\ Len(events) \in Nat /\ DOMAIN events = 1 .. Len(events)
        /\ Len(sub') \in Nat /\ Subs' = 1 .. Len(sub')
        /\ Len(events') \in Nat /\ DOMAIN events' = 1 .. Len(events')
    <2>1. IntakeTypes /\ IntakeTypes'
      BY DEF IntakeInv
    <2>2. sub \in [Subs -> Submissions]
      BY <2>1, Shape
    <2> QED
      BY <2>1, <2>2, LenProperties DEF IntakeTypes, Subs
  <1>2. ASSUME NEW d, NEW k, SendDoc(d, k) PROVE IntakeTypeOK'
    <2>1. sub' = Append(sub, Submission(d, k)) /\ Len(sub) < MaxSubmits
          /\ UNCHANGED <<formVars, events, queued>>
      BY <1>2 DEF SendDoc
    <2> DEFINE q == Submission(d, k)
    <2>2. q.id = 0
      BY DEF Submission
    <2> HIDE DEF q
    <2>3. /\ Len(sub') = Len(sub) + 1 /\ sub'[Len(sub) + 1] = q
          /\ \A s \in 1 .. Len(sub) : sub'[s] = sub[s]
      BY <1>1, <2>1, AppendProperties DEF q, IntakeInv, IntakeTypes
    <2>4. ASSUME NEW s \in Subs' PROVE sub'[s].id \in 0 .. Len(events')
      <3>1. s \in Subs \/ s = Len(sub) + 1
        BY <1>1, <2>3
      <3> QED
        BY <1>1, <2>1, <2>2, <2>3, <3>1 DEF IntakeTypeOK
    <2>5. Len(sub') <= MaxSubmits
      BY <1>1, <2>1, <2>3, SubmitsAssumption
    <2> QED
      BY <2>1, <2>4, <2>5 DEF IntakeTypeOK, formVars
  <1>3. CASE LeavePage
    <2>1. /\ sub' = [s \in Subs |-> [sub[s] EXCEPT !.awaited = FALSE]] /\ UNCHANGED <<events, queued>>
      BY <1>3 DEF LeavePage
    <2>2. Subs' = Subs /\ \A s \in Subs : sub'[s].id = sub[s].id
      BY <1>1, <2>1 DEF Subs, Submissions
    <2>3. Len(sub') = Len(sub)
      BY <1>1, <2>2, SameInterval
    <2> QED
      BY <1>3, <2>1, <2>2, <2>3 DEF IntakeTypeOK, LeavePage
  <1>4. ASSUME NEW d \in Docs, Choose(d) \/ Extracted(d) PROVE IntakeTypeOK'
    <2>1. UNCHANGED <<sub, events, queued>> /\ Subs' = Subs
      BY <1>4 DEF Choose, ChooseWith, Extracted, Subs
    <2>2. {file', text'} \subseteq Docs \cup {NoDoc} /\ reading' \subseteq Docs
      BY <1>4 DEF Choose, ChooseWith, Extracted, IntakeTypeOK
    <2>3. extracting' \in BOOLEAN /\ overlapped' \in BOOLEAN
      BY <1>4 DEF Choose, ChooseWith, Extracted, IntakeTypeOK
    <2> QED
      BY <2>1, <2>2, <2>3 DEF IntakeTypeOK
  <1>5. ASSUME NEW s \in Subs, Insert(s) PROVE IntakeTypeOK'
    <2>1. CASE InsertAs(s)
      <3>1. Len(events') = Len(events) + 1
        BY <2>1, AppendProperties DEF InsertAs, IntakeInv, IntakeTypes
      <3>2. PICK q : sub' = [sub EXCEPT ![s] = q] /\ q.id = Len(events) + 1
        <4> DEFINE q == [sub[s] EXCEPT !.at = "inserted", !.id = Len(events) + 1, !.first = TRUE]
        <4>1. sub' = [sub EXCEPT ![s] = q]
          BY <1>1, <2>1 DEF InsertAs
        <4>2. q.id = Len(events) + 1
          BY <1>1 DEF Submissions
        <4> HIDE DEF q
        <4> QED
          BY <4>1, <4>2
      <3>3. queued' \subseteq DOMAIN events' /\ q.id \in 0 .. Len(events') /\ Len(events') >= Len(events)
        BY <1>1, <2>1, <3>1, <3>2 DEF InsertAs, IntakeTypeOK
      <3>4. UNCHANGED formVars
        BY <1>5 DEF Insert, Step
      <3> QED
        BY <3>2, <3>3, <3>4, MoveTypes
    <2>2. ASSUME NEW i \in Known(sub[s].key), sub' = [sub EXCEPT ![s].at = "done", ![s].id = i],
                 UNCHANGED <<events, queued>>
          PROVE  IntakeTypeOK'
      <3>1. i \in 0 .. Len(events)
        BY <1>1 DEF Known
      <3>2. PICK q : sub' = [sub EXCEPT ![s] = q] /\ q.id = i
        <4> DEFINE q == [sub[s] EXCEPT !.at = "done", !.id = i]
        <4>1. sub' = [sub EXCEPT ![s] = q]
          BY <1>1, <2>2
        <4>2. q.id = i
          BY <1>1 DEF Submissions
        <4> HIDE DEF q
        <4> QED
          BY <4>1, <4>2
      <3>3. UNCHANGED formVars
        BY <1>5 DEF Insert, Step
      <3>4. /\ q.id \in 0 .. Len(events') /\ queued' \subseteq DOMAIN events'
            /\ Len(events') >= Len(events)
        BY <1>1, <2>2, <3>1, <3>2 DEF IntakeTypeOK
      <3> QED
        BY <3>2, <3>3, <3>4, MoveTypes
    <2> QED
      BY <1>5, <2>1, <2>2 DEF Insert
  <1>6. ASSUME NEW s \in Subs, Enqueue(s) \/ Reply(s) \/ Break(s) \/ Disconnect(s) PROVE IntakeTypeOK'
    <2>1. UNCHANGED <<events, formVars>> /\ queued' \subseteq queued \cup DOMAIN events
      BY <1>6 DEF Enqueue, Reply, Break, Disconnect, Step, Slip, IntakeInv, Progress
    <2>2. PICK q : sub' = [sub EXCEPT ![s] = q] /\ q.id = sub[s].id
      <3>1. \A at \in Stages : [sub[s] EXCEPT !.at = at].id = sub[s].id
        BY <1>1 DEF Submissions
      <3>2. \A at \in Stages : [sub[s] EXCEPT !.at = at, !.awaited = FALSE].id = sub[s].id
        BY <1>1 DEF Submissions
      <3>3. [sub[s] EXCEPT !.awaited = FALSE].id = sub[s].id
        BY <1>1 DEF Submissions
      <3>4. CASE Enqueue(s)
        <4>1. sub' = [sub EXCEPT ![s] = [sub[s] EXCEPT !.at = "done"]]
          BY <1>1, <3>4 DEF Enqueue
        <4> QED
          BY <3>1, <4>1 DEF Stages
      <3>5. CASE Reply(s) \/ Break(s)
        <4>1. \E at \in Stages : sub' = [sub EXCEPT ![s] = [sub[s] EXCEPT !.at = at, !.awaited = FALSE]]
          BY <1>1, <3>5 DEF Reply, Break, Finish, Stages
        <4> QED
          BY <3>2, <4>1
      <3>6. CASE Disconnect(s)
        <4>1. sub' = [sub EXCEPT ![s] = [sub[s] EXCEPT !.awaited = FALSE]]
          BY <1>1, <3>6 DEF Disconnect
        <4> QED
          BY <3>3, <4>1
      <3> QED
        BY <1>6, <3>4, <3>5, <3>6
    <2>3. q.id \in 0 .. Len(events') /\ queued' \subseteq DOMAIN events' /\ Len(events') >= Len(events)
      BY <1>1, <2>1, <2>2 DEF IntakeTypeOK
    <2> QED
      BY <2>1, <2>2, <2>3, MoveTypes
  <1> QED
    BY <1>2, <1>3, <1>4, <1>5, <1>6 DEF IntakeNext, IngestPage, Submit, Feed

LEMMA InitIntakeTypes == IntakeInit => IntakeTypeOK
  <1> SUFFICES ASSUME IntakeInit PROVE IntakeTypeOK
    OBVIOUS
  <1>1. Len(sub) = 0 /\ Subs = {} /\ sub = <<>>
    BY EmptySeq DEF IntakeInit, Subs
  <1>2. {file, text} \subseteq Docs \cup {NoDoc} /\ reading \subseteq Docs
    BY DEF IntakeInit
  <1>3. extracting \in BOOLEAN /\ overlapped \in BOOLEAN
    BY DEF IntakeInit
  <1>4. Len(sub) <= MaxSubmits
    BY <1>1, SubmitsAssumption
  <1>5. queued \subseteq DOMAIN events
    BY DEF IntakeInit
  <1>6. \A s \in Subs : sub[s].id \in 0 .. Len(events)
    BY <1>1
  <1> QED
    BY <1>2, <1>3, <1>4, <1>5, <1>6 DEF IntakeTypeOK

\* Whatever the console does, the variables of the intake keep their types, and only
\* events have jobs.
THEOREM IntakeTypeCorrect == Spec => []IntakeTypeOK
  <1>1. Init => IntakeInv /\ IntakeTypeOK
    BY InitIntakeInv, InitIntakeTypes DEF Init
  <1>2. IntakeInv /\ [Next]_<<vars, intakeVars>> => IntakeInv'
    <2>1. [Next]_<<vars, intakeVars>> => IntakeNext \/ UNCHANGED intakeVars
      BY DEF Next
    <2> QED
      BY <2>1, StepIntakeInv
  <1>3. IntakeInv /\ IntakeInv' /\ IntakeTypeOK /\ [Next]_<<vars, intakeVars>> => IntakeTypeOK'
    <2> SUFFICES ASSUME IntakeInv, IntakeInv', IntakeTypeOK, [Next]_<<vars, intakeVars>>
                 PROVE  IntakeTypeOK'
      OBVIOUS
    <2>1. IntakeNext \/ UNCHANGED intakeVars
      BY DEF Next
    <2>2. CASE UNCHANGED intakeVars
      BY <2>2 DEF IntakeTypeOK, intakeVars, Subs
    <2> QED
      BY <2>1, <2>2, StepIntakeTypes
  <1> QED
    BY <1>1, <1>2, <1>3, PTL DEF Spec
=============================================================================
