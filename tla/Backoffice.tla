------------------------------ MODULE Backoffice ------------------------------
(***************************************************************************)
(* The handlers of the API behind the web console and what they change:    *)
(* one row, or one list of rows, of the desk that is worked at.  A handler *)
(* commits its change and then, in a statement of its own, writes the      *)
(* audit log or tells the queue; it may fail before, between and after.    *)
(*                                                                         *)
(* The value of a field is the number of the write that set it.            *)
(***************************************************************************)
EXTENDS Integers, FiniteSets

CONSTANTS
    Slots,      \* numbers: bound on the requests under way
    NoRequest,
    RuleIds,    \* rules that may be created
    MaxWrites,  \* bound: requests that write
    MaxFaults   \* bound: failing requests and fetches

ASSUME SlotsAssumption  == IsFiniteSet(Slots)
ASSUME WritesAssumption == MaxWrites \in Nat /\ MaxFaults \in Nat

Gone == -1      \* routing_rules.active = false

Desks == {"task", "review", "dashboard", "matter", "user", "rule", "stage", "intake"}
FieldsOf == [task   |-> {"due", "status"},
             review |-> {"status"},               \* 0: open
             dashboard |-> {"status"},
             matter |-> {"client", "area"},
             user   |-> {"role", "email"},
             rule   |-> RuleIds,                  \* 0: not created yet
             stage  |-> {"flag", "queue"},        \* 1: paused, 0: running
             intake |-> {}]

VARIABLES
    desk,       \* the resource that is worked at; they share nothing
    row, ver,   \* its fields, and the number of commits so far
    req,        \* req[s]: the request in slot s
    sends,      \* requests sent
    faults,     \* failures so far
    lone        \* no two pauses or resumes overlapped, and none failed

serverVars == <<desk, row, ver, req, sends, faults, lone>>

Values == Gone .. MaxWrites
Fields == FieldsOf[desk]
Snapshot == [ver |-> ver, row |-> row]

Open(s) == req[s] # NoRequest
Switches == {"pause", "resume"}

\* A request: sets is what its handler commits, then what it does after that.
\* shown and typed tell what the page showed and what the user changed on it;
\* seen: the page that sent it has not been left since; refreshes: the pages
\* whose queries an answer invalidates
Request(tab, kind, refreshes, sets) ==
    [tab |-> tab, kind |-> kind, refreshes |-> refreshes, sets |-> sets, then |-> <<>>,
     at |-> "sent", ver |-> 0, typed |-> {}, shown |-> <<>>, seen |-> TRUE]

ServerInit ==
    /\ desk \in Desks
    /\ row = [f \in FieldsOf[desk] |-> 0] /\ ver = 0
    /\ req = [s \in Slots |-> NoRequest]
    /\ sends = 0 /\ faults = 0 /\ lone = TRUE

Send(s, r) ==
    /\ ~Open(s) /\ (\A o \in Slots : o < s => Open(o)) /\ sends < MaxWrites
    /\ req' = [req EXCEPT ![s] = r]
    /\ sends' = sends + 1
    /\ lone' = (lone /\ ~(r.kind \in Switches /\ \E o \in Slots : Open(o)))
    /\ UNCHANGED <<desk, row, ver, faults>>

\* A bug for the mutants: columns that are not sent are lost.
WrittenWhole(sets) == [f \in DOMAIN sets |-> sets[f]]

\* POST or DELETE without a body, but with the content type of JSON: the
\* framework (Fastify 5) refuses it before the handler is called
BodyLess == {"retry", "console_switch", "deleteRule"}

Written(sets) == [f \in Fields |-> IF f \in DOMAIN sets THEN sets[f] ELSE row[f]]

Commit(s) ==
    /\ Open(s) /\ req[s].at = "sent" /\ req[s].kind \notin BodyLess
    /\ row' = Written(req[s].sets)
    /\ ver' = ver + 1
    /\ req' = [req EXCEPT ![s].at = "committed", ![s].ver = ver + 1]
    /\ UNCHANGED <<desk, sends, faults, lone>>

\* A bug for the mutants: the queue is not told.
AfterNothing(s) ==
    /\ Open(s) /\ req[s].at = "committed" /\ req[s].kind \in Switches
    /\ req' = [req EXCEPT ![s].at = "done"]
    /\ UNCHANGED <<desk, row, ver, sends, faults, lone>>

\* queue.pause and queue.resume; in the other handlers only the audit log
\* follows, whose failure is that of a request that has committed (Fail)
After(s) ==
    /\ Open(s) /\ req[s].at = "committed" /\ req[s].kind \in Switches
    /\ row' = Written(req[s].then)
    /\ req' = [req EXCEPT ![s].at = "done"]
    /\ UNCHANGED <<desk, ver, sends, faults, lone>>

Answered(s) ==
    Open(s) /\ req[s].at = IF req[s].kind \in Switches THEN "done" ELSE "committed"

Close(s) ==
    /\ req' = [req EXCEPT ![s] = NoRequest]
    /\ UNCHANGED <<desk, row, ver, sends>>

Refuse(s) ==
    /\ Open(s) /\ req[s].kind \in BodyLess
    /\ Close(s) /\ UNCHANGED <<faults, lone>>

\* the handler throws, or its answer is lost
Fail(s) ==
    /\ Open(s) /\ faults < MaxFaults
    /\ faults' = faults + 1
    /\ lone' = (lone /\ req[s].kind \notin Switches)
    /\ Close(s)

\* the pipeline's enrichment of a task, and the work of other clients
Elsewhere(fs) ==
    /\ fs # {} /\ desk # "stage" /\ sends < MaxWrites
    /\ \E v \in IF desk = "rule" THEN {sends + 1, Gone} ELSE {sends + 1} :
         \* a rule is created once, and deleted if it was
         /\ desk = "rule" => \A f \in fs : (v = Gone) <=> (row[f] # 0)
         /\ row' = Written([f \in fs |-> v])
    /\ ver' = ver + 1 /\ sends' = sends + 1
    /\ UNCHANGED <<desk, req, faults, lone>>
=============================================================================
