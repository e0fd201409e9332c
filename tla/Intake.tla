-------------------------------- MODULE Intake --------------------------------
(***************************************************************************)
(* How evidence comes in: the page that reads a document and submits it    *)
(* (src/web/src/pages/IngestPage.tsx), a client that sends a document of   *)
(* its own again under one key, and the handler of POST /evidence, which   *)
(* inserts an event for a new key and then adds a job for it.              *)
(***************************************************************************)
EXTENDS Integers, Sequences, FiniteSets

CONSTANTS
    Docs,        \* documents that a user of the page has
    Fed,         \* the document of the other client
    NoDoc,
    MaxSubmits,  \* bound: submissions
    MaxSlips     \* bound: failing handlers and lost answers

ASSUME DocAssumption == Fed \notin Docs /\ NoDoc \notin Docs /\ NoDoc # Fed
ASSUME SubmitsAssumption == MaxSubmits \in Nat

VARIABLES
    file, text,    \* the document whose name, and whose text, is on the page
    extracting,     \* the page says that it is reading
    reading,        \* documents that are being read for it
    overlapped,     \* one of them was chosen while another was being read
    sub,            \* the submissions; awaited: by the page that sent it
    events,         \* rows of evidence_events; the id is the position
    queued,         \* ids of the events whose job was added
    slips

intakeVars == <<file, text, extracting, reading, overlapped, sub, events, queued, slips>>
formVars   == <<file, text, extracting, reading, overlapped>>

Subs == DOMAIN sub

IntakeInit ==
    /\ file = NoDoc /\ text = NoDoc /\ extracting = FALSE /\ reading = {}
    /\ overlapped = FALSE
    /\ sub = <<>> /\ events = <<>> /\ queued = {} /\ slips = 0

-----------------------------------------------------------------------------
(* The page *)

ChooseWith(d, before) ==
    /\ d \notin reading        \* bound: no document is read twice at once
    /\ file' = d /\ text' = before /\ extracting' = TRUE
    /\ reading' = reading \cup {d}
    /\ overlapped' = (reading # {})
    /\ UNCHANGED <<sub, events, queued, slips>>

\* A bug for the mutants: the text of the last document stays.
ChooseOver(d) == ChooseWith(d, text)

\* processFile, up to its await; nothing ends a reading that is under way
Choose(d) == ChooseWith(d, NoDoc)

\* processFile, after it: the text, or an error, or a document without text.
\* Whichever reading ends says that the page reads no more
Extracted(d) ==
    /\ d \in reading
    /\ text' \in {d, NoDoc, text} /\ extracting' = FALSE
    /\ reading' = reading \ {d}
    /\ UNCHANGED <<file, overlapped, sub, events, queued, slips>>

\* A page that is left forgets everything, and its submissions go on
LeavePage ==
    /\ file' = NoDoc /\ text' = NoDoc /\ extracting' = FALSE /\ reading' = {}
    /\ overlapped' = FALSE
    /\ sub' = [s \in Subs |-> [sub[s] EXCEPT !.awaited = FALSE]]
    /\ UNCHANGED <<events, queued, slips>>

Submission(d, k) ==
    [doc |-> d, key |-> k, at |-> "sent", id |-> 0, first |-> FALSE, awaited |-> d # Fed]
Finished(s) == sub[s].at \in {"answered", "failed"}
Finish(s, at) == sub' = [sub EXCEPT ![s].at = at, ![s].awaited = FALSE]

SendDoc(d, k) ==
    /\ Len(sub) < MaxSubmits
    /\ sub' = Append(sub, Submission(d, k))
    /\ UNCHANGED <<formVars, events, queued, slips>>

\* A bug for the mutants: the button can be clicked again at once.
SubmitAtOnce == text # NoDoc /\ ~extracting /\ SendDoc(text, Len(sub) + 1)

\* handleSubmit makes a new key for every click; the button waits for text
\* and for the answer
Submit == /\ text # NoDoc /\ ~extracting /\ (\A s \in Subs : ~sub[s].awaited)
          /\ SendDoc(text, Len(sub) + 1)

\* Another client, whose documents keep their keys
Feed == SendDoc(Fed, 0)

-----------------------------------------------------------------------------
(* POST /evidence *)

Step(s, at) == sub[s].at = at /\ UNCHANGED <<formVars, slips>>
Known(k) == {i \in DOMAIN events : events[i].key = k}

InsertAs(s) ==
    /\ events' = Append(events, [key |-> sub[s].key, doc |-> sub[s].doc])
    /\ sub' = [sub EXCEPT ![s].at = "inserted", ![s].id = Len(events) + 1, ![s].first = TRUE]
    /\ UNCHANGED queued

\* INSERT ... ON CONFLICT DO NOTHING, and the row that was there
Insert(s) ==
    /\ Step(s, "sent")
    /\ \/ Known(sub[s].key) = {} /\ InsertAs(s)
       \/ \E i \in Known(sub[s].key) :
            /\ sub' = [sub EXCEPT ![s].at = "done", ![s].id = i]
            /\ UNCHANGED <<events, queued>>

\* A bug for the mutants: the job is not added.
EnqueueNothing(s) ==
    /\ Step(s, "inserted")
    /\ sub' = [sub EXCEPT ![s].at = "done"]
    /\ UNCHANGED <<events, queued>>

\* the audit log, and queue.add with the event's id as job id
Enqueue(s) ==
    /\ Step(s, "inserted")
    /\ queued' = queued \cup {sub[s].id}
    /\ sub' = [sub EXCEPT ![s].at = "done"]
    /\ UNCHANGED events

Reply(s) ==
    /\ Step(s, "done")
    /\ Finish(s, "answered")
    /\ UNCHANGED <<events, queued>>

Slip(s) == slips < MaxSlips /\ slips' = slips + 1 /\ UNCHANGED <<formVars, events, queued>>

\* a query, the queue or the process fails, or the body is refused
Break(s) ==
    /\ ~Finished(s) /\ Slip(s)
    /\ Finish(s, "failed")

\* the connection is lost: an error for the client, while the handler goes on
Disconnect(s) ==
    /\ sub[s].awaited /\ Slip(s)
    /\ sub' = [sub EXCEPT ![s].awaited = FALSE]

IngestPage == LeavePage \/ Submit \/ (\E d \in Docs : Choose(d) \/ Extracted(d))

IntakeNext ==
    \/ IngestPage \/ Feed
    \/ \E s \in Subs : Insert(s) \/ Enqueue(s) \/ Reply(s) \/ Break(s) \/ Disconnect(s)

-----------------------------------------------------------------------------
(* Properties *)

IntakeTypeOK ==
    /\ {file, text} \subseteq Docs \cup {NoDoc} /\ reading \subseteq Docs
    /\ extracting \in BOOLEAN /\ overlapped \in BOOLEAN
    /\ Len(sub) <= MaxSubmits /\ queued \subseteq DOMAIN events
    /\ \A s \in Subs : sub[s].id \in 0 .. Len(events)

\* The text that can be submitted is that of the document whose name is on
\* the page, unless a document was chosen while another was being read:
\* processFile lets the reading that ends last win.
PreviewIsOfFile == text # NoDoc /\ ~extracting => text = file \/ overlapped

\* Who is told that evidence was accepted, or was there already, can count on
\* a job for it: it was added, or is about to be, or the submission that made
\* the event failed between the insert and the add.  Nothing adds it then.
AnsweredIsQueued ==
    \A s \in Subs : sub[s].at = "answered" =>
        \/ sub[s].id \in queued
        \/ ~sub[s].first /\ \E o \in Subs : sub[o].first /\ sub[o].id = sub[s].id
                                           /\ sub[o].at \in {"inserted", "failed"}

Rows(d) == Cardinality({i \in DOMAIN events : events[i].doc = d})

\* A document becomes a second event only if its user submitted it again
\* after an answer, an error or a visit elsewhere (each click has a key of its
\* own); a client that keeps its key never makes a second one.
DuplicatesAreResubmissions ==
    /\ Rows(Fed) <= 1
    /\ \A d \in Docs : Rows(d) <= 1 + Cardinality({s \in Subs : sub[s].doc = d /\ ~sub[s].awaited})
=============================================================================
