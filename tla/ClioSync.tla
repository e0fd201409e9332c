------------------------------- MODULE ClioSync -------------------------------
(***************************************************************************)
(* Pushing one canonical task to Clio: SyncService.syncToClio, run by the  *)
(* sync.push worker and by POST /sync/canonical-tasks/:id, with the        *)
(* reconciler and the conflict handler.  Tasks do not share anything here, *)
(* so one is enough.                                                       *)
(*                                                                         *)
(* Clio gives every version of a task a new etag and refuses a PATCH whose *)
(* If-Match is not the current one; all that matters of an etag somebody   *)
(* keeps is whether it is still the current one.  Of the content, only the *)
(* version number is modelled.  Any call may fail, also after it took      *)
(* effect, and a run may die between two calls.                            *)
(***************************************************************************)
EXTENDS Integers, FiniteSets, Sequences

CONSTANTS
    Manual,     \* concurrent manual syncs
    Worker,     \* the run of the sync.push job
    TaskId,         \* the canonical task's id
    CandidateIds,   \* ids of the rows of candidate_tasks
    MaxEdits,   \* bound on edits of the task, here or in Clio
    MaxFaults   \* bound on failed calls and dead runs

ASSUME RunAssumption   == Worker \notin Manual /\ IsFiniteSet(Manual)
ASSUME BoundAssumption == MaxEdits \in Nat /\ MaxFaults \in Nat

Runs == Manual \cup {Worker}

VARIABLES
    version,  \* version of the canonical task's synced fields
    human,    \* human_edited_at is set
    clio,     \* the tasks created in Clio: content, edited there since
    link,     \* clio_task_links row: clio id and token (NoRef: none), sync_status
    job,      \* BullMQ's sync-<id> job
    pc,       \* pc[r]: the next await of run r
    mem,      \* mem[r]: what run r has read (see NoMem)
    reviews,  \* candidate_task_id of the conflict review items
    edits, faults

vars == <<version, human, clio, link, job, pc, mem, reviews, edits, faults>>

\* A Clio task and an etag of it, which is its current one or not.
Refs  == [id : 0..Len(clio), current : BOOLEAN]
NoRef == [id |-> 0, current |-> FALSE]

\* The content to push, the link as read (then the PATCH's or POST's answer),
\* the link as detectConflict read it, whether the conflict handler was called.
NoMem == [content |-> 0, ref |-> NoRef, look |-> NoRef, conflict |-> FALSE]

Steps == {"idle", "task", "link", "detect", "compare", "mark", "relink", "fetch",
          "force", "review", "update", "create", "save", "fail", "end"}

TypeOK ==
    /\ version \in 1..(MaxEdits + 1)
    /\ human \in BOOLEAN
    /\ clio \in Seq([content : 1..version, foreign : BOOLEAN])
    /\ link \in [ref : Refs, status : {"none", "synced", "conflict", "failed"}]
    /\ job \in {"absent", "wait", "active", "done"}
    /\ pc \in [Runs -> Steps]
    /\ mem \in [Runs -> [content : 0..version, ref : Refs, look : Refs, conflict : BOOLEAN]]
    /\ reviews \subseteq {TaskId}
    /\ edits \in 0..MaxEdits
    /\ faults \in 0..MaxFaults

Init ==
    /\ version = 1 /\ human = FALSE
    /\ clio = <<>>
    /\ link = [ref |-> NoRef, status |-> "none"]
    /\ job = "absent"
    /\ pc = [r \in Runs |-> "idle"]
    /\ mem = [r \in Runs |-> NoMem]
    /\ reviews = {} /\ edits = 0 /\ faults = 0

-----------------------------------------------------------------------------
(* Starting and ending a run *)

\* The assignment worker adds sync-<id>, for a merge, a follow-up or a
\* recompute; BullMQ ignores it while it knows a job of that id.
RequestSync ==
    /\ job' = IF job = "absent" THEN "wait" ELSE job
    /\ UNCHANGED <<version, human, clio, link, pc, mem, reviews, edits, faults>>

StartWorker ==
    /\ job = "wait" /\ pc[Worker] = "idle"
    /\ job' = "active"
    /\ pc' = [pc EXCEPT ![Worker] = "task"]
    /\ UNCHANGED <<version, human, clio, link, mem, reviews, edits, faults>>

StartManual(r) ==
    /\ pc[r] = "idle"
    /\ pc' = [pc EXCEPT ![r] = "task"]
    /\ UNCHANGED <<version, human, clio, link, job, mem, reviews, edits, faults>>

\* syncToClio returns, "failed" included: the job is complete either way.
End(r) ==
    /\ pc[r] = "end"
    /\ pc'  = [pc EXCEPT ![r] = "idle"]
    /\ mem' = [mem EXCEPT ![r] = NoMem]
    /\ job' = IF r = Worker THEN "done" ELSE job
    /\ UNCHANGED <<version, human, clio, link, reviews, edits, faults>>

Go(r, step) == pc' = [pc EXCEPT ![r] = step]
Know(r, m)  == mem' = [mem EXCEPT ![r] = m]

-----------------------------------------------------------------------------
(* Bugs that the sync must not have; only the mutants use them *)

\* A link that is not in order is not used.
ReadSyncedLink(r) ==
    /\ pc[r] = "link"
    /\ Know(r, [mem[r] EXCEPT !.ref = link.ref])
    /\ Go(r, IF link.status # "synced" THEN "create" ELSE "detect")
    /\ UNCHANGED <<version, human, clio, link, job, reviews, edits, faults>>

\* Every conflict goes to review.
FetchForReview(r) ==
    /\ pc[r] = "fetch"
    /\ Know(r, [mem[r] EXCEPT !.content = version, !.ref.current = TRUE])
    /\ Go(r, "review")
    /\ UNCHANGED <<version, human, clio, link, job, reviews, edits, faults>>

\* The PATCH is sent without If-Match.
PatchBlindly(r, replied) ==
    /\ pc[r] \in {"update", "force"}
    /\ clio' = [clio EXCEPT ![mem[r].ref.id] = [content |-> mem[r].content, foreign |-> FALSE]]
    /\ mem'  = [mem EXCEPT ![r].ref.current = replied]
    /\ Go(r, IF replied THEN "save" ELSE "fail")
    /\ UNCHANGED <<version, human, link, job, reviews, edits>>

\* markFailed writes a status of its own.
MarkErroneous(r) ==
    /\ pc[r] = "fail"
    /\ link' = [link EXCEPT !.status = "error"]
    /\ Go(r, "end")
    /\ UNCHANGED <<version, human, clio, job, mem, reviews, edits, faults>>

-----------------------------------------------------------------------------
(* syncToClio *)

ReadTask(r) ==
    /\ pc[r] = "task"
    /\ Know(r, [NoMem EXCEPT !.content = version])
    /\ Go(r, "link")
    /\ UNCHANGED <<version, human, clio, link, job, reviews, edits, faults>>

ReadLink(r) ==
    /\ pc[r] = "link"
    /\ Know(r, [mem[r] EXCEPT !.ref = link.ref])
    /\ Go(r, IF link.ref = NoRef THEN "create" ELSE "detect")
    /\ UNCHANGED <<version, human, clio, link, job, reviews, edits, faults>>

\* detectConflict: its own read of the link ...
Detect(r) ==
    /\ pc[r] = "detect"
    /\ Know(r, [mem[r] EXCEPT !.look = link.ref])
    /\ Go(r, "compare")
    /\ UNCHANGED <<version, human, clio, link, job, reviews, edits, faults>>

\* ... then the GET, and the etags compared.
Compare(r) ==
    /\ pc[r] = "compare"
    /\ Go(r, IF mem[r].look.current THEN "update" ELSE "mark")
    /\ UNCHANGED <<version, human, clio, link, job, mem, reviews, edits, faults>>

MarkConflict(r) ==
    /\ pc[r] = "mark"
    /\ link' = [link EXCEPT !.status = "conflict"]
    /\ Go(r, "relink")
    /\ UNCHANGED <<version, human, clio, job, mem, reviews, edits, faults>>

\* ConflictHandler.resolve reads the link ...
Relink(r) ==
    /\ pc[r] = "relink"
    /\ Know(r, [mem[r] EXCEPT !.ref = link.ref, !.conflict = TRUE])
    /\ Go(r, "fetch")
    /\ UNCHANGED <<version, human, clio, link, job, reviews, edits, faults>>

\* ... then Clio's etag and the local task (one step: a local edit between the
\* two is as good as one before them, a change in Clio as one after them).  A
\* local version edited by a person is pushed, for others a review is asked.
Fetch(r) ==
    /\ pc[r] = "fetch"
    /\ Know(r, [mem[r] EXCEPT !.content = version, !.ref.current = TRUE])
    /\ Go(r, IF human THEN "force" ELSE "review")
    /\ UNCHANGED <<version, human, clio, link, job, reviews, edits, faults>>

\* The conflict's review item is inserted with the canonical task's id as
\* candidate_task_id, which has to be the id of a candidate task.
CreateReview(r) ==
    /\ pc[r] = "review"
    /\ IF TaskId \in CandidateIds
       THEN reviews' = reviews \cup {TaskId} /\ Go(r, "end")
       ELSE Go(r, "fail") /\ UNCHANGED reviews
    /\ UNCHANGED <<version, human, clio, link, job, mem, edits, faults>>

\* A new version of Clio task k: the etags kept of it are now old ones.
Old(ref, k)  == [ref EXCEPT !.current = @ /\ ref.id # k]
LinkAfter(k) == [link EXCEPT !.ref = Old(@, k)]
MemAfter(k)  == [r \in Runs |-> [mem[r] EXCEPT !.ref = Old(@, k), !.look = Old(@, k)]]

\* The PATCH, with the token of the link (update) or the one just fetched
\* (force) as If-Match; replied says whether Clio's answer arrives.
Patch(r, replied) ==
    /\ pc[r] \in {"update", "force"} /\ mem[r].ref.current
    /\ clio' = [clio EXCEPT ![mem[r].ref.id] = [content |-> mem[r].content, foreign |-> FALSE]]
    /\ link' = LinkAfter(mem[r].ref.id)
    /\ mem'  = [MemAfter(mem[r].ref.id) EXCEPT ![r].ref.current = replied]
    /\ Go(r, IF replied THEN "save" ELSE "fail")
    /\ UNCHANGED <<version, human, job, reviews, edits>>

PatchRefused(r) ==
    /\ pc[r] \in {"update", "force"} /\ ~mem[r].ref.current
    /\ Go(r, "fail")
    /\ UNCHANGED <<version, human, clio, link, job, mem, reviews, edits, faults>>

Create(r, replied) ==
    /\ pc[r] = "create"
    /\ clio' = Append(clio, [content |-> mem[r].content, foreign |-> FALSE])
    /\ IF replied
       THEN /\ Know(r, [mem[r] EXCEPT !.ref = [id |-> Len(clio) + 1, current |-> TRUE]])
            /\ Go(r, "save")
       ELSE Go(r, "fail") /\ UNCHANGED mem
    /\ UNCHANGED <<version, human, link, job, reviews, edits>>

\* upsert, ON CONFLICT (canonical_task_id); the audit entry follows.
Save(r, replied) ==
    /\ pc[r] = "save"
    /\ link' = [ref |-> mem[r].ref, status |-> "synced"]
    /\ Go(r, IF replied THEN "end" ELSE "fail")
    /\ UNCHANGED <<version, human, clio, job, mem, reviews, edits>>

\* The catch block: markFailed updates the row if there is one.
MarkFailed(r) ==
    /\ pc[r] = "fail"
    /\ link' = IF link.ref = NoRef THEN link ELSE [link EXCEPT !.status = "failed"]
    /\ Go(r, "end")
    /\ UNCHANGED <<version, human, clio, job, mem, reviews, edits, faults>>

-----------------------------------------------------------------------------
(* Faults *)

Fault == faults < MaxFaults /\ faults' = faults + 1

\* A call throws without effect.  detectConflict swallows its own errors.
CallFails(r) ==
    /\ Fault
    /\ \/ pc[r] \in {"compare", "mark"} /\ Go(r, "update")
       \/ pc[r] \in {"detect", "relink", "fetch", "review", "force", "update", "create",
                       "save"}
          /\ Go(r, "fail")
    /\ UNCHANGED <<version, human, clio, link, job, mem, reviews, edits>>

\* The call did what it was asked to, but its answer is lost, or the audit
\* entry for it fails.
ReplyLost(r) == Fault /\ (Patch(r, FALSE) \/ Create(r, FALSE) \/ Save(r, FALSE))

\* The process dies, or throws outside the try block; BullMQ runs its job again.
Die(r) ==
    /\ Fault
    /\ pc[r] # "idle"
    /\ pc'  = [pc EXCEPT ![r] = "idle"]
    /\ mem' = [mem EXCEPT ![r] = NoMem]
    /\ job' = IF r = Worker THEN "wait" ELSE job
    /\ UNCHANGED <<version, human, clio, link, reviews, edits>>

-----------------------------------------------------------------------------
(* Edits *)

\* PATCH /tasks/:id by a person, or an enrichment by the pipeline.
LocalEdit(byHuman) ==
    /\ edits < MaxEdits /\ edits' = edits + 1
    /\ version' = version + 1
    /\ human' = (human \/ byHuman)
    /\ UNCHANGED <<clio, link, job, pc, mem, reviews, faults>>

\* Somebody changes the task in Clio.
ClioEdit(k) ==
    /\ edits < MaxEdits /\ edits' = edits + 1
    /\ clio' = [clio EXCEPT ![k].foreign = TRUE]
    /\ link' = LinkAfter(k)
    /\ mem'  = MemAfter(k)
    /\ UNCHANGED <<version, human, job, pc, reviews, faults>>

-----------------------------------------------------------------------------

Step(r) ==
    \/ ReadTask(r) \/ ReadLink(r) \/ Detect(r) \/ Compare(r) \/ MarkConflict(r)
    \/ Relink(r) \/ Fetch(r) \/ CreateReview(r) \/ PatchRefused(r) \/ MarkFailed(r) \/ End(r)
    \/ (Patch(r, TRUE) \/ Create(r, TRUE) \/ Save(r, TRUE)) /\ UNCHANGED faults

Next ==
    \/ RequestSync \/ StartWorker
    \/ \E r \in Manual : StartManual(r)
    \/ \E r \in Runs : Step(r) \/ CallFails(r) \/ ReplyLost(r) \/ Die(r)
    \/ \E byHuman \in BOOLEAN : LocalEdit(byHuman)
    \/ \E k \in DOMAIN clio : ClioEdit(k)

Spec == Init /\ [][Next]_vars

\* Runs go on, and people keep asking for syncs.
Fairness == /\ \A r \in Runs : WF_vars(Step(r))
            /\ \A r \in Manual : WF_vars(StartManual(r))
            /\ WF_vars(StartWorker)

FairSpec == Spec /\ Fairness

-----------------------------------------------------------------------------
(* Properties *)

\* Optimistic concurrency: an edit made in Clio is overwritten only by a
\* version that a person edited here, however the runs interleave and whatever
\* fails; never by what the pipeline made up.
ForeignEditKept ==
    [][\A k \in DOMAIN clio : (clio[k].foreign /\ ~clio'[k].foreign) => human]_vars

\* Each Clio task that the link does not show is owed to one lost answer, dead
\* run or concurrent run: syncs as such do not pile up duplicates.
DuplicatesBounded == Len(clio) <= Cardinality(Runs) + faults

\* "Human edits get protection", up to Clio: once edits and faults have ceased,
\* the linked Clio task shows the version a person edited and keeps it, if
\* somebody goes on syncing.
HumanVersionArrives ==
    <>[](human => /\ link.ref # NoRef
                  /\ clio[link.ref.id].content = version
                  /\ ~clio[link.ref.id].foreign)
=============================================================================
