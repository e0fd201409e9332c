-------------------------------- MODULE Console --------------------------------
(***************************************************************************)
(* The web console at work: tabs that show pages and send requests         *)
(* (src/web/src/pages), their caches (QueryClient), the handlers of the    *)
(* API (Backoffice), the routing rules that assignment reads, and the     *)
(* page that takes evidence in (Intake), which is a desk of its own.      *)
(*                                                                         *)
(* A page's action is the click that sends a request; the guards are the   *)
(* conditions under which the page offers the button.                      *)
(***************************************************************************)
EXTENDS QueryClient, Backoffice, Assignment, Intake

CONSTANTS
    NoForm, Api,   \* no form on the page; a client other than the console
    Typed          \* bound: the fields that the users of the tabs type into

PagesOf == [task   |-> {"TaskList", "TaskDetail"},
            review |-> {"ReviewQueue", "ReviewDetail"},
            dashboard |-> {"ReviewDetail", "Dashboard"},
            matter |-> {"Matters"},
            user   |-> {"Users"},
            rule   |-> {"RoutingRules"},
            stage  |-> {"PipelineMonitor"},
            intake |-> {}]                    \* see Intake
AllPages == UNION {PagesOf[d] : d \in Desks}
PolledPages == {"Dashboard", "PipelineMonitor"}   \* refetchInterval

\* The root of the key of the query that is followed on a page.  A mutation
\* invalidates the queries under the root it names; none names "metrics".
KeyOf == [TaskList |-> "tasks", TaskDetail |-> "tasks",
          ReviewQueue |-> "reviews", ReviewDetail |-> "reviews", Dashboard |-> "metrics",
          Matters |-> "matters", Users |-> "users", RoutingRules |-> "routing-rules",
          PipelineMonitor |-> "pipeline"]
Under(key) == {p \in AllPages : KeyOf[p] = key}
Unnamed == Under("metrics")

\* A request of ApiSwitch, wherever its handler is
SwitchRequests ==
    [tab : {Api}, kind : Switches, refreshes : {{}},
     sets : [{"flag"} -> {0, 1}], then : [{"queue"} -> {0, 1}],
     at : {"sent", "committed", "done"}, ver : Nat,
     typed : {{}}, shown : {<<>>}, seen : BOOLEAN]

ASSUME PageAssumption    == Away \notin AllPages /\ AllPages \subseteq Pages
ASSUME RuleAssumption    == RuleIds \subseteq Rules
ASSUME RequestAssumption == NoRequest \notin SwitchRequests

VARIABLES
    form,   \* form[t]: the fields in the form of tab t and which of them were typed
    told    \* told[t]: the newest commit that an answer told tab t of

vars == <<clientVars, serverVars, form, told>>

Here == PagesOf[desk]

Data == [ver : 0 .. MaxWrites, row : [Fields -> Values]]

Init == /\ ClientInit /\ ServerInit /\ IntakeInit
        /\ form = [t \in Tabs |-> NoForm]
        /\ told = [t \in Tabs |-> 0]

-----------------------------------------------------------------------------
(* Pages *)

Loaded(t, p)  == Shows(t, p) /\ cache[t][p].data # NoData
Shown(t, p)   == cache[t][p].data.row
Pending(t, k) == \E s \in Slots : Open(s) /\ req[s].tab = t /\ req[s].kind = k /\ req[s].seen
New == sends + 1

\* base: what the form was filled with
Form(r) == [base |-> r, row |-> r, typed |-> {}]

\* The whole form is sent, and stays as it is
SaveForm(t, s, refreshes, shown) ==
    /\ form[t] # NoForm /\ ~Pending(t, "save")
    /\ \E now \in SUBSET (Fields \cap Typed) :
         LET sent  == [f \in Fields |-> IF f \in now THEN New ELSE form[t].row[f]]
             typed == form[t].typed \cup now
         IN  /\ Send(s, [Request(t, "save", refreshes, sent)
                            EXCEPT !.typed = typed, !.shown = shown])
             /\ form' = [form EXCEPT ![t].row = sent, ![t].typed = typed]

\* A bug for the mutants: the list of tasks is not invalidated.
TaskDetailPageAlone(t, s) ==
    Loaded(t, "TaskDetail") /\ SaveForm(t, s, {"TaskDetail"}, Shown(t, "TaskDetail"))

TaskDetailPage(t, s) ==
    Loaded(t, "TaskDetail") /\ SaveForm(t, s, Under("tasks"), Shown(t, "TaskDetail"))

\* A bug for the mutants: only the queue is invalidated.
ReviewDetailPageOfQueue(t, s) ==
    /\ Loaded(t, "ReviewDetail") /\ ~cache[t]["ReviewDetail"].failed
    /\ Shown(t, "ReviewDetail")["status"] = 0
    /\ Send(s, Request(t, "decide", {"ReviewQueue"}, [f \in {"status"} |-> New]))
    /\ UNCHANGED form

\* The panel is there while the item that was fetched is open, also while it is
\* fetched again, but an error hides it; the dialog stays after a click
ReviewDetailPage(t, s) ==
    /\ Loaded(t, "ReviewDetail") /\ ~cache[t]["ReviewDetail"].failed
    /\ Shown(t, "ReviewDetail")["status"] = 0
    /\ Send(s, Request(t, "decide", Under("reviews"), [f \in {"status"} |-> New]))
    /\ UNCHANGED form

\* Add Matter: the row is none of those that are open in dialogs
MattersTab(t, s) ==
    /\ Shows(t, "Matters")
    /\ Send(s, Request(t, "add", Under("matters"), <<>>)) /\ UNCHANGED form

UsersTab(t, s) ==
    /\ Shows(t, "Users")
    /\ Send(s, Request(t, "add", Under("users"), <<>>)) /\ UNCHANGED form

EditMatterDialog(t, s) == Shows(t, "Matters") /\ SaveForm(t, s, Under("matters"), form[t].base)
EditUserDialog(t, s)   == Shows(t, "Users") /\ SaveForm(t, s, Under("users"), form[t].base)

\* Edit copies the listed row into the dialog
OpenDialog(t, p) ==
    /\ p \in {"Matters", "Users"} /\ Loaded(t, p) /\ form[t] = NoForm
    /\ form' = [form EXCEPT ![t] = Form(Shown(t, p))]
    /\ UNCHANGED <<clientVars, serverVars, told>>

CloseDialog(t) ==
    /\ page[t] \in {"Matters", "Users"} /\ form[t] # NoForm
    /\ form' = [form EXCEPT ![t] = NoForm]
    /\ UNCHANGED <<clientVars, serverVars, told>>

\* Ids are given by the database
AddRule(t, s) ==
    /\ Shows(t, "RoutingRules") /\ ~Pending(t, "addRule")
    /\ \E r \in RuleIds :
         /\ row[r] = 0
         /\ \A o \in Slots : ~(Open(o) /\ req[o].kind = "addRule" /\ r \in DOMAIN req[o].sets)
         /\ Send(s, Request(t, "addRule", Under("routing-rules"), [f \in {r} |-> New]))
    /\ UNCHANGED form

\* Refused, as it is sent; other clients may delete rules (Elsewhere)
DeleteRule(t, s) ==
    /\ Loaded(t, "RoutingRules")
    /\ \E r \in RuleIds :
         /\ Shown(t, "RoutingRules")[r] > 0
         /\ Send(s, Request(t, "deleteRule", Under("routing-rules"), [f \in {r} |-> Gone]))
    /\ UNCHANGED form

\* The switches of the stages and Retry All.  What the page shows are counts of
\* jobs; of them only the age is kept
PipelineMonitorPage(t, s) ==
    /\ Loaded(t, "PipelineMonitor")
    /\ \E k \in {"retry", "console_switch"} :
         /\ k = "retry" => ~Pending(t, k)
         /\ Send(s, Request(t, k, Under("pipeline"), <<>>))
    /\ UNCHANGED form

\* Pausing and resuming by other clients, which name the queue
ApiSwitch(s) ==
    /\ desk = "stage"
    /\ \E k \in Switches :
         LET v == IF k = "pause" THEN 1 ELSE 0
         IN  Send(s, [Request(Api, k, {}, [f \in {"flag"} |-> v])
                         EXCEPT !.then = [f \in {"queue"} |-> v]])
    /\ UNCHANGED form

Click(t, s) ==
    \/ TaskDetailPage(t, s) \/ ReviewDetailPage(t, s)
    \/ MattersTab(t, s) \/ EditMatterDialog(t, s) \/ UsersTab(t, s) \/ EditUserDialog(t, s)
    \/ AddRule(t, s) \/ DeleteRule(t, s) \/ PipelineMonitorPage(t, s)

-----------------------------------------------------------------------------
(* Tabs and server *)

\* bound: for a page, the console's other pages are one of its own desk, if any
Stops == IF \E p \in Here : Here = {p} THEN Here \cup {Away} ELSE Here

\* A form that is shown is filled from the query; a page that is left
\* forgets its form and the buttons it had disabled
Go(t, p) ==
    /\ Visit(t, p)
    /\ form' = [form EXCEPT ![t] =
                  IF p = "TaskDetail" /\ cache[t][p].data # NoData
                  THEN Form(Shown(t, p)) ELSE NoForm]
    /\ req' = [s \in Slots |-> IF Open(s) /\ req[s].tab = t
                               THEN [req[s] EXCEPT !.seen = FALSE] ELSE req[s]]
    /\ UNCHANGED <<desk, row, ver, sends, faults, lone, told>>

\* A bug for the mutants: only the first data fill the form.
RefillOnce(t, p) ==
    form' = [form EXCEPT ![t] =
               IF p = "TaskDetail" /\ Shows(t, p) /\ cache[t][p].data = NoData
               THEN Form(cache[t][p].got.row) ELSE @]

\* useEffect on the task: other data fill the form anew
Refill(t, p) ==
    form' = [form EXCEPT ![t] =
               IF p = "TaskDetail" /\ Shows(t, p) /\ cache[t][p].got # cache[t][p].data
               THEN Form(cache[t][p].got.row) ELSE @]

Arrive(t, p) == Receive(t, p) /\ Refill(t, p) /\ UNCHANGED <<serverVars, told>>
Read(t, p)   == ServerReads(t, p, Snapshot) /\ UNCHANGED <<serverVars, form, told>>
Polls(t, p)  == Poll(t, p) /\ UNCHANGED <<serverVars, form, told>>
Online(t, p) == Reconnect(t, p) /\ UNCHANGED <<serverVars, form, told>>

LoseFetch(t, p) ==
    /\ faults < MaxFaults /\ FetchFails(t, p)
    /\ faults' = faults + 1
    /\ UNCHANGED <<desk, row, ver, req, sends, lone, form, told>>

\* onSuccess.  A decision leads to the queue, also from elsewhere; a saved dialog
\* closes, if its page has not been left
Landing(t, k) ==
    IF k # "decide" THEN page[t] ELSE IF "ReviewQueue" \in Here THEN "ReviewQueue" ELSE Away
Refreshed(t, q) ==
    LET land == Landing(t, q.kind)
        new  == [p \in Pages |-> IF p \in q.refreshes THEN Invalidate(cache[t][p], Shows(t, p))
                                 ELSE cache[t][p]]
    IN  IF land \in {page[t], Away} THEN new ELSE [new EXCEPT ![land] = Mount(@, FALSE)]

Answer(s) ==
    LET t == req[s].tab  k == req[s].kind
    IN  /\ Answered(s) /\ Close(s) /\ UNCHANGED <<faults, lone>>
        /\ IF t = Api THEN UNCHANGED <<clientVars, form, told>>
           ELSE /\ told' = [told EXCEPT ![t] = IF req[s].ver > @ THEN req[s].ver ELSE @]
                /\ cache' = [cache EXCEPT ![t] = Refreshed(t, req[s])]
                /\ page' = [page EXCEPT ![t] = Landing(t, k)]
                /\ form' = [form EXCEPT ![t] =
                              IF k = "save" /\ desk # "task" /\ req[s].seen THEN NoForm ELSE @]

Handle(s) == Commit(s) \/ After(s) \/ Refuse(s)
Server ==
    \/ \E s \in Slots : (Handle(s) \/ Fail(s)) /\ UNCHANGED <<clientVars, form, told>>
    \/ \E fs \in SUBSET Fields : Elsewhere(fs) /\ UNCHANGED <<clientVars, form, told>>

DeskNext ==
    \/ \E s \in Slots : Answer(s)
    \/ Server
    \/ \E t \in Tabs :
         \/ \E s \in Slots : Click(t, s) /\ UNCHANGED <<clientVars, told>>
         \/ \E p \in Here : OpenDialog(t, p)
         \/ CloseDialog(t)
         \/ \E p \in Stops : Go(t, p)
         \/ \E p \in Here : Read(t, p) \/ Arrive(t, p) \/ Polls(t, p) \/ Online(t, p)
                            \/ LoseFetch(t, p)
    \/ \E s \in Slots : ApiSwitch(s) /\ UNCHANGED <<clientVars, told>>

Next ==
    \/ DeskNext /\ UNCHANGED intakeVars
    \/ desk = "intake" /\ IntakeNext /\ UNCHANGED vars

Spec == Init /\ [][Next]_<<vars, intakeVars>>

\* An open page polls, and the server answers it
Fairness ==
    \A t \in Tabs, p \in Polled :
        WF_vars(Read(t, p)) /\ WF_vars(Arrive(t, p)) /\ WF_vars(Polls(t, p))

FairSpec == Spec /\ Fairness

-----------------------------------------------------------------------------
(* Properties *)

TypeOK ==
    /\ ClientTypeOK(Data) /\ IntakeTypeOK
    /\ desk \in Desks /\ row \in [Fields -> Values] /\ ver \in 0 .. MaxWrites
    /\ sends \in 0 .. MaxWrites /\ faults \in 0 .. MaxFaults /\ lone \in BOOLEAN
    /\ \A t \in Tabs : /\ told[t] \in 0 .. ver
                       /\ form[t] # NoForm => form[t].row \in [Fields -> Values]

\* What a tab takes for fresh is at least as new as the last write it was told
\* had succeeded, for every query under a key that the mutations invalidate
\* (onSuccess of the pages), also on pages that are not shown, unless a fetch that
\* began before the answer was let go on.  It does not hold of the other queries.
OwnWritesShown ==
    \A t \in Tabs, p \in Here \ Unnamed :
        LET e == cache[t][p]
        IN  e.data # NoData /\ ~e.invalid /\ ~e.raced => e.data.ver >= told[t]

Becomes(s, at) == Open(s) /\ req'[s] # NoRequest /\ req[s].at # at /\ req'[s].at = at

\* A save may undo what somebody else wrote while the page did not know; it
\* never undoes what the page had shown and nobody touched (the task form
\* follows its query, TaskDetailPage.tsx:57; a dialog keeps to its copy).
ShownIsNotUndone ==
    [][\A s \in Slots : Becomes(s, "committed") /\ req[s].kind = "save" =>
          \A f \in Fields \ req[s].typed : row'[f] # row[f] => row[f] # req[s].shown[f]]_vars

Sends(t, s, k) == ~Open(s) /\ req'[s] # NoRequest /\ req'[s].tab = t /\ req'[s].kind = k

\* Nothing in the server refuses to decide an item again (review.service.ts), so
\* it is up to the page: who was told that a decision was recorded decides again
\* only from data that are being fetched anew, which the page goes on showing, or
\* that a fetch from before the answer has brought.
DecidesOnce ==
    [][\A t \in Tabs, s \in Slots : Sends(t, s, "decide") /\ told[t] > 0 =>
          LET e == cache[t]["ReviewDetail"] IN e.invalid \/ e.raced]_vars

\* The flag of a stage and its queue say the same once a pause or a resume is
\* over, unless two overlapped or one failed between the two (app/pipeline.ts).
FlagAgrees ==
    desk = "stage" /\ lone /\ (\A s \in Slots : Open(s) => req[s].kind \notin Switches)
        => row["flag"] = row["queue"]

Active == {r \in RuleIds : row[r] > 0}
MoreSpecific(q, r) ==
    \/ RuleArea[q] # Wild /\ RuleArea[r] = Wild
    \/ (RuleArea[q] = Wild <=> RuleArea[r] = Wild) /\ RuleAction[q] # Wild /\ RuleAction[r] = Wild

\* Whatever rules have been added and deleted: no wildcard, of whatever
\* priority, wins over a rule that names more, and triage is left for tasks
\* that name nobody ambiguously, or neither name nor find a user or role, owner of
\* like tasks, owner of the matter or rule (the six tiers of assignment.service.ts).
TriageIsLast ==
    desk = "rule" => \A task \in Tasks :
        LET fit == {q \in Active : Matches(q, task.matter, task.action)}
        IN  /\ \A r \in FindRule(Active, task.matter, task.action), q \in fit : ~MoreSpecific(q, r)
            /\ Method(task, Active) = "triage" /\ task.role # "ambiguous" =>
                 /\ fit = {} /\ ~task.user /\ task.role = "none"
                 /\ task.matter # Wild => ~task.owned /\ ~task.matterOwned
            /\ task.role = "ambiguous" => Method(task, Active) = "triage"

\* A page that polls is left, or shows the server's rows in the end, also after
\* writes of others and failing fetches (refetchInterval of Dashboard and Pipeline
\* Monitor); the other pages wait for a visit.
PolledCatchesUp ==
    \A t \in Tabs, p \in Polled :
        []<>(Shows(t, p) => cache[t][p].data = Snapshot)
=============================================================================
