---------------------------- MODULE ConsoleProofs -----------------------------
(***************************************************************************)
(* What the console promises for any number of tabs, requests, rules and   *)
(* other clients: the flag of a stage and its queue agree, triage comes    *)
(* after all other tiers, whoever is told of a write is shown it where the *)
(* write has its key invalidated, nobody undoes what the page had told     *)
(* them of, and nobody decides again upon fresh data.                      *)
(***************************************************************************)
EXTENDS IntakeProofs, WellFoundedInduction

\* The queries that a mutation invalidates.
LEMMA Keys ==
  /\ Under("tasks") = {"TaskList", "TaskDetail"} /\ Under("reviews") = {"ReviewQueue", "ReviewDetail"}
  /\ Under("matters") = {"Matters"} /\ Under("users") = {"Users"}
  /\ Under("routing-rules") = {"RoutingRules"} /\ Under("pipeline") = {"PipelineMonitor"}
  /\ Unnamed = {"Dashboard"}
  <1>1. AllPages = {"TaskList", "TaskDetail", "ReviewQueue", "ReviewDetail", "Dashboard", "Matters",
                    "Users", "RoutingRules", "PipelineMonitor"}
    <2>1. AllPages = PagesOf["task"] \cup PagesOf["review"] \cup PagesOf["dashboard"]
                        \cup PagesOf["matter"] \cup PagesOf["user"] \cup PagesOf["rule"]
                        \cup PagesOf["stage"] \cup PagesOf["intake"]
      BY DEF AllPages, Desks
    <2> QED
      BY <2>1 DEF PagesOf
  <1>2. \A k : Under(k) = {p \in AllPages : KeyOf[p] = k}
    BY DEF Under
  <1>3. /\ KeyOf["TaskList"] = "tasks" /\ KeyOf["TaskDetail"] = "tasks"
        /\ KeyOf["ReviewQueue"] = "reviews" /\ KeyOf["ReviewDetail"] = "reviews"
        /\ KeyOf["Dashboard"] = "metrics" /\ KeyOf["Matters"] = "matters" /\ KeyOf["Users"] = "users"
        /\ KeyOf["RoutingRules"] = "routing-rules" /\ KeyOf["PipelineMonitor"] = "pipeline"
    BY DEF KeyOf
  <1> QED
    BY <1>1, <1>2, <1>3 DEF Unnamed

\* What the pipeline monitor sends; the server refuses it.
ClickRequests ==
    [tab : Tabs, kind : {"retry", "console_switch"}, refreshes : {{"PipelineMonitor"}},
     sets : {<<>>}, then : {<<>>}, at : {"sent"}, ver : {0},
     typed : {{}}, shown : {<<>>}, seen : BOOLEAN]

Switching(s) == Open(s) /\ req[s].kind \in Switches

\* The desk of the stages: its page, and the requests that are sent from it.
StageTypes ==
    /\ DOMAIN page = Tabs /\ \A t \in Tabs : page[t] \in {"PipelineMonitor", Away}
    /\ DOMAIN req = Slots /\ \A s \in Slots : Open(s) => req[s] \in SwitchRequests \cup ClickRequests
    /\ ver \in Nat
    /\ \A s \in Slots : Switching(s) => req[s].sets["flag"] = req[s].then["queue"]

\* Flag and queue differ only while one switch is between the two.
Agreement ==
    /\ \A s, o \in Slots : Switching(s) /\ Switching(o) => s = o
    /\ \A s \in Slots : Switching(s) /\ req[s].at = "committed" =>
          row["flag"] = req[s].then["queue"]
    /\ \/ row["flag"] = row["queue"]
       \/ \E s \in Slots : Switching(s) /\ req[s].at = "committed"

StageInv == desk = "stage" => StageTypes /\ (lone => Agreement)

LEMMA InvImpliesFlagAgrees == StageInv => FlagAgrees
  BY DEF StageInv, Agreement, Switching, FlagAgrees

LEMMA InitStageInv == Init => StageInv
  <1> SUFFICES ASSUME Init, desk = "stage" PROVE StageTypes /\ Agreement
    BY DEF StageInv
  <1>1. /\ page = [t \in Tabs |-> Away] /\ req = [s \in Slots |-> NoRequest] /\ ver = 0
        /\ row = [f \in FieldsOf["stage"] |-> 0]
    BY DEF Init, ClientInit, ServerInit
  <1>2. row["flag"] = row["queue"]
    BY <1>1 DEF FieldsOf
  <1>3. \A s \in Slots : ~Open(s)
    BY <1>1 DEF Open
  <1> QED
    BY <1>1, <1>2, <1>3 DEF StageTypes, Agreement, Switching

\* The pages of the other desks are not shown.
LEMMA OnlyMonitor ==
  ASSUME StageTypes, NEW t \in Tabs
  PROVE  page[t] \notin {"TaskDetail", "ReviewDetail", "Matters", "Users", "RoutingRules"}
  <1>1. {"TaskDetail", "ReviewDetail", "Matters", "Users", "RoutingRules"} \subseteq AllPages
    <2>1. /\ PagesOf["task"] = {"TaskList", "TaskDetail"}
          /\ PagesOf["review"] = {"ReviewQueue", "ReviewDetail"}
          /\ PagesOf["matter"] = {"Matters"} /\ PagesOf["user"] = {"Users"}
          /\ PagesOf["rule"] = {"RoutingRules"}
      BY DEF PagesOf
    <2> QED
      BY <2>1 DEF AllPages, Desks
  <1> QED
    BY <1>1, PageAssumption DEF StageTypes

\* A request is answered, refused or given up: whoever changed the flag has
\* changed the queue, or the handler failed and the switch was not alone.
LEMMA CloseInv ==
  ASSUME StageTypes, lone => Agreement, NEW s \in Slots, Open(s), desk' = desk, row' = row, ver' = ver,
         req' = [req EXCEPT ![s] = NoRequest], \A t \in Tabs : page'[t] = page[t], DOMAIN page' = Tabs,
         lone' => lone /\ ~(Switching(s) /\ req[s].at = "committed")
  PROVE  StageTypes' /\ (lone' => Agreement')
  <1>1. /\ DOMAIN req' = Slots /\ req'[s] = NoRequest
        /\ \A o \in Slots : o # s => req'[o] = req[o]
    BY DEF StageTypes
  <1>2. \A o \in Slots : Open(o)' => o # s /\ Open(o) /\ req'[o] = req[o]
    BY <1>1 DEF Open
  <1>3. StageTypes'
    BY <1>1, <1>2 DEF StageTypes, Switching
  <1>4. ASSUME lone' PROVE Agreement'
    <2>1. Agreement /\ ~(Switching(s) /\ req[s].at = "committed")
      BY <1>4
    <2>2. \A o \in Slots : o # s /\ Switching(o) => Switching(o)'
      BY <1>1 DEF Switching, Open
    <2>3. \A o \in Slots : Switching(o)' => Switching(o) /\ req'[o] = req[o]
      BY <1>2 DEF Switching
    <2>4. row'["flag"] = row'["queue"] \/ \E o \in Slots : Switching(o)' /\ req'[o].at = "committed"
      <3>1. CASE row["flag"] = row["queue"]
        BY <3>1
      <3>2. CASE \E o \in Slots : Switching(o) /\ req[o].at = "committed"
        BY <1>1, <2>1, <2>2, <3>2
      <3> QED
        BY <2>1, <3>1, <3>2 DEF Agreement
    <2> QED
      BY <2>1, <2>3, <2>4 DEF Agreement
  <1> QED
    BY <1>3, <1>4

\* A request is sent.
LEMMA SendStageInv ==
  ASSUME StageTypes, lone => Agreement, NEW s \in Slots, NEW r, Send(s, r), UNCHANGED page,
         r \in SwitchRequests \cup ClickRequests, r.at = "sent",
         r.kind \in Switches => r.sets["flag"] = r.then["queue"]
  PROVE  StageTypes' /\ (lone' => Agreement')
  <1>1. /\ ~Open(s) /\ req' = [req EXCEPT ![s] = r] /\ UNCHANGED <<row, ver>>
        /\ lone' = (lone /\ ~(r.kind \in Switches /\ \E o \in Slots : Open(o)))
    BY DEF Send
  <1>2. DOMAIN req' = Slots /\ req'[s] = r /\ \A o \in Slots : o # s => req'[o] = req[o]
    BY <1>1 DEF StageTypes
  <1>3. \A o \in Slots : o # s => (Open(o)' <=> Open(o)) /\ (Switching(o)' <=> Switching(o))
    BY <1>2 DEF Switching, Open
  <1>4. StageTypes'
    BY <1>1, <1>2, <1>3 DEF StageTypes, Switching
  <1>5. ASSUME lone' PROVE Agreement'
    <2>1. Agreement /\ (r.kind \in Switches => \A o \in Slots : ~Switching(o))
      BY <1>1, <1>5 DEF Switching
    <2>2. \A o \in Slots : Switching(o) => o # s /\ Switching(o)' /\ req'[o] = req[o]
      BY <1>1, <1>2, <1>3 DEF Switching
    <2>3. \A o \in Slots : Switching(o)' =>
             \/ Switching(o) /\ req'[o] = req[o]
             \/ o = s /\ r.kind \in Switches
      BY <1>2, <1>3 DEF Switching
    <2>4. \A o, q \in Slots : Switching(o)' /\ Switching(q)' => o = q
      BY <2>1, <2>3 DEF Agreement
    <2>5. \A o \in Slots : Switching(o)' /\ req'[o].at = "committed" =>
             Switching(o) /\ req[o].at = "committed" /\ req'[o] = req[o]
      BY <1>2, <2>3
    <2>6. row'["flag"] = row'["queue"] \/ \E o \in Slots : Switching(o)' /\ req'[o].at = "committed"
      BY <1>1, <2>1, <2>2 DEF Agreement
    <2> QED
      BY <1>1, <2>1, <2>4, <2>5, <2>6 DEF Agreement
  <1> QED
    BY <1>4, <1>5

\* A switch moves on, and remains one.
LEMMA MoveOn ==
  ASSUME StageTypes, NEW s \in Slots, Switching(s), NEW at \in {"committed", "done"},
         NEW v \in Nat, req' = [req EXCEPT ![s] = [req[s] EXCEPT !.at = at, !.ver = v]]
  PROVE  /\ DOMAIN req' = Slots /\ req'[s] \in SwitchRequests
         /\ req'[s].at = at /\ req'[s].sets = req[s].sets /\ req'[s].then = req[s].then
         /\ \A o \in Slots : o # s => req'[o] = req[o]
         /\ \A o \in Slots : (Open(o)' <=> Open(o)) /\ (Switching(o)' <=> Switching(o))
  <1> DEFINE new == [req[s] EXCEPT !.at = at, !.ver = v]
  <1>1. req[s] \in SwitchRequests
    BY DEF StageTypes, Switching, Switches, ClickRequests
  <1>2. /\ new \in SwitchRequests /\ new.kind = req[s].kind /\ new.at = at
        /\ new.sets = req[s].sets /\ new.then = req[s].then
    BY <1>1 DEF SwitchRequests
  <1> HIDE DEF new
  <1>3. DOMAIN req' = Slots /\ req'[s] = new /\ \A o \in Slots : o # s => req'[o] = req[o]
    BY DEF new, StageTypes
  <1>4. \A o \in Slots : (Open(o)' <=> Open(o)) /\ (Switching(o)' <=> Switching(o))
    BY <1>2, <1>3, RequestAssumption DEF Switching, Open
  <1> QED
    BY <1>2, <1>3, <1>4

\* The flag is written (the UPDATE of the handler).
LEMMA CommitInv ==
  ASSUME desk = "stage", StageTypes, lone => Agreement, NEW s \in Slots, Commit(s), UNCHANGED page
  PROVE  StageTypes' /\ (lone' => Agreement')
  <1>1. Switching(s) /\ req[s] \in SwitchRequests
    BY DEF StageTypes, Commit, BodyLess, Switching, Switches, SwitchRequests, ClickRequests
  <1>2. /\ row' = Written(req[s].sets) /\ ver' = ver + 1 /\ ver' \in Nat /\ UNCHANGED lone
        /\ req' = [req EXCEPT ![s] = [req[s] EXCEPT !.at = "committed", !.ver = ver + 1]]
    <2> DEFINE v == ver + 1
    <2>1. v \in Nat
      BY DEF StageTypes
    <2>2. /\ row' = Written(req[s].sets) /\ ver' = v /\ UNCHANGED lone
          /\ req' = [req EXCEPT ![s].at = "committed", ![s].ver = v]
      BY DEF Commit
    <2> HIDE DEF v
    <2>3. req' = [req EXCEPT ![s] = [req[s] EXCEPT !.at = "committed", !.ver = v]]
      BY <1>1, <2>2 DEF SwitchRequests
    <2> QED
      BY <2>1, <2>2, <2>3 DEF v
  <1>3. /\ DOMAIN req' = Slots /\ req'[s] \in SwitchRequests
        /\ req'[s].at = "committed" /\ req'[s].sets = req[s].sets /\ req'[s].then = req[s].then
        /\ \A o \in Slots : o # s => req'[o] = req[o]
        /\ \A o \in Slots : (Open(o)' <=> Open(o)) /\ (Switching(o)' <=> Switching(o))
    BY <1>1, <1>2, MoveOn
  <1>4. row'["flag"] = req[s].sets["flag"]
    <2>1. DOMAIN req[s].sets = {"flag"}
      BY <1>1 DEF SwitchRequests
    <2> QED
      BY <1>2, <2>1 DEF Written, Fields, FieldsOf
  <1>5. StageTypes'
    BY <1>2, <1>3 DEF StageTypes
  <1>6. lone' => Agreement'
    BY <1>1, <1>2, <1>3, <1>4 DEF Agreement, StageTypes
  <1> QED
    BY <1>5, <1>6

\* The queue is told.
LEMMA AfterInv ==
  ASSUME desk = "stage", StageTypes, lone => Agreement, NEW s \in Slots, After(s), UNCHANGED page
  PROVE  StageTypes' /\ (lone' => Agreement')
  <1>1. Switching(s) /\ req[s] \in SwitchRequests /\ req[s].at = "committed"
    BY DEF StageTypes, After, Switching, Switches, ClickRequests
  <1>2. /\ row' = Written(req[s].then) /\ UNCHANGED <<ver, lone>> /\ req[s].ver \in Nat
        /\ req' = [req EXCEPT ![s] = [req[s] EXCEPT !.at = "done", !.ver = req[s].ver]]
    BY <1>1 DEF After, SwitchRequests
  <1>3. /\ DOMAIN req' = Slots /\ req'[s] \in SwitchRequests
        /\ req'[s].at = "done" /\ req'[s].sets = req[s].sets /\ req'[s].then = req[s].then
        /\ \A o \in Slots : o # s => req'[o] = req[o]
        /\ \A o \in Slots : (Open(o)' <=> Open(o)) /\ (Switching(o)' <=> Switching(o))
    BY <1>1, <1>2, MoveOn
  <1>4. row'["queue"] = req[s].then["queue"] /\ row'["flag"] = row["flag"]
    <2>1. DOMAIN req[s].then = {"queue"}
      BY <1>1 DEF SwitchRequests
    <2> QED
      BY <1>2, <2>1 DEF Written, Fields, FieldsOf
  <1>5. StageTypes'
    BY <1>2, <1>3 DEF StageTypes
  <1>6. lone' => Agreement'
    BY <1>1, <1>2, <1>3, <1>4 DEF Agreement
  <1> QED
    BY <1>5, <1>6

\* Another page is visited: requests are not seen any more, and no more changes.
LEMMA GoInv ==
  ASSUME desk = "stage", StageTypes, lone => Agreement, NEW t \in Tabs, NEW p \in Stops, Go(t, p)
  PROVE  StageTypes' /\ (lone' => Agreement')
  <1>1. p \in {"PipelineMonitor", Away}
    BY DEF Stops, Here, PagesOf
  <1>2. /\ UNCHANGED <<row, ver, lone>> /\ page' = [page EXCEPT ![t] = p]
        /\ req' = [s \in Slots |-> IF Open(s) /\ req[s].tab = t
                                   THEN [req[s] EXCEPT !.seen = FALSE] ELSE req[s]]
    BY DEF Go, Visit
  <1>3. DOMAIN page' = Tabs /\ \A u \in Tabs : page'[u] \in {"PipelineMonitor", Away}
    BY <1>1, <1>2 DEF StageTypes
  <1>4. ASSUME NEW s \in Slots, Open(s)
        PROVE  /\ req[s] \in SwitchRequests => req'[s] \in SwitchRequests
               /\ req[s] \in ClickRequests => req'[s] \in ClickRequests
               /\ req'[s].kind = req[s].kind /\ req'[s].at = req[s].at
               /\ req'[s].sets = req[s].sets /\ req'[s].then = req[s].then
    <2>1. CASE req[s] \in SwitchRequests
      BY <1>2, <2>1 DEF SwitchRequests, ClickRequests
    <2>2. CASE req[s] \in ClickRequests
      BY <1>2, <2>2 DEF SwitchRequests, ClickRequests
    <2> QED
      BY <1>4, <2>1, <2>2 DEF StageTypes
  <1>5. \A s \in Slots : Open(s)' => Open(s)
    BY <1>2 DEF Open
  <1>6. \A s \in Slots : Switching(s)' <=> Switching(s)
    <2>1. \A s \in Slots : Switching(s) => req[s] \in SwitchRequests
      BY DEF StageTypes, Switching, Switches, ClickRequests
    <2> QED
      BY <1>4, <1>5, <2>1, RequestAssumption DEF Switching, Open
  <1>7. DOMAIN req' = Slots
    BY <1>2
  <1>8. StageTypes'
    BY <1>2, <1>3, <1>4, <1>5, <1>6, <1>7 DEF StageTypes, Switching
  <1>9. lone' => Agreement'
    BY <1>2, <1>4, <1>6 DEF Agreement, Switching
  <1> QED
    BY <1>8, <1>9

\* Nothing happens to the requests, nor to what is shown.
LEMMA CalmStageInv ==
  ASSUME StageInv, UNCHANGED <<page, desk, row, ver, req, lone>>
  PROVE  StageInv'
  BY DEF StageInv, StageTypes, Agreement, Switching, Open

\* A click in the page of the stages.
LEMMA ClickInv ==
  ASSUME desk = "stage", StageTypes, lone => Agreement, NEW t \in Tabs, NEW s \in Slots,
         Click(t, s), UNCHANGED page
  PROVE  StageTypes' /\ (lone' => Agreement')
  <1>1. PipelineMonitorPage(t, s)
    BY OnlyMonitor DEF Click, TaskDetailPage, ReviewDetailPage, MattersTab, EditMatterDialog,
       UsersTab, EditUserDialog, AddRule, DeleteRule, Loaded, Shows
  <1>2. PICK k \in {"retry", "console_switch"} : Send(s, Request(t, k, {"PipelineMonitor"}, <<>>))
    BY <1>1, Keys DEF PipelineMonitorPage
  <1> DEFINE r == Request(t, k, {"PipelineMonitor"}, <<>>)
  <1>3. r \in ClickRequests /\ r.at = "sent" /\ r.kind \notin Switches
    BY DEF Request, ClickRequests, Switches
  <1> QED
    BY <1>2, <1>3, SendStageInv

\* A pause or a resume is sent.
LEMMA SwitchInv ==
  ASSUME desk = "stage", StageTypes, lone => Agreement, NEW s \in Slots, ApiSwitch(s), UNCHANGED page
  PROVE  StageTypes' /\ (lone' => Agreement')
  <1>1. PICK k \in Switches :
          LET v == IF k = "pause" THEN 1 ELSE 0
          IN  Send(s, [Request(Api, k, {}, [f \in {"flag"} |-> v])
                         EXCEPT !.then = [f \in {"queue"} |-> v]])
    BY DEF ApiSwitch
  <1> DEFINE v == IF k = "pause" THEN 1 ELSE 0
             r == [Request(Api, k, {}, [f \in {"flag"} |-> v]) EXCEPT !.then = [f \in {"queue"} |-> v]]
  <1>2. r.then = [f \in {"queue"} |-> v] /\ r.sets = [f \in {"flag"} |-> v] /\ r.at = "sent"
    BY DEF Request
  <1>3. r \in SwitchRequests
    BY DEF Request, SwitchRequests
  <1>4. r.sets["flag"] = r.then["queue"]
    BY <1>2
  <1> HIDE DEF r
  <1>5. Send(s, r)
    BY <1>1 DEF r
  <1> QED
    BY <1>2, <1>3, <1>4, <1>5, SendStageInv

LEMMA StepStageInv == StageInv /\ [Next]_<<vars, intakeVars>> => StageInv'
  <1> SUFFICES ASSUME StageInv, [Next]_<<vars, intakeVars>> PROVE StageInv'
    OBVIOUS
  <1>1. CASE UNCHANGED vars
    BY <1>1, CalmStageInv DEF vars, clientVars, serverVars
  <1>2. CASE DeskNext
    <2>1. UNCHANGED desk
      <3>1. ASSUME NEW t \in Tabs, NEW s \in Slots, Click(t, s) PROVE UNCHANGED desk
        BY <3>1 DEF Click, TaskDetailPage, ReviewDetailPage, MattersTab, EditMatterDialog,
           UsersTab, EditUserDialog, AddRule, DeleteRule, PipelineMonitorPage, SaveForm, Send
      <3>2. ASSUME NEW s \in Slots, Handle(s) \/ Fail(s) \/ Answer(s) \/ ApiSwitch(s)
            PROVE  UNCHANGED desk
        BY <3>2 DEF Handle, Fail, Answer, ApiSwitch, Commit, After, Refuse, Close, Send
      <3>3. ASSUME NEW t \in Tabs, NEW p, \/ OpenDialog(t, p) \/ CloseDialog(t) \/ Go(t, p)
                                         \/ Read(t, p) \/ Arrive(t, p) \/ Polls(t, p)
                                         \/ Online(t, p) \/ LoseFetch(t, p)
            PROVE  UNCHANGED desk
        BY <3>3 DEF OpenDialog, CloseDialog, Go, Read, Arrive, Polls, Online, LoseFetch, serverVars
      <3>4. ASSUME NEW fs, Elsewhere(fs) PROVE UNCHANGED desk
        BY <3>4 DEF Elsewhere
      <3> QED
        BY <1>2, <3>1, <3>2, <3>3, <3>4 DEF DeskNext, Server
    <2>2. SUFFICES ASSUME desk = "stage" PROVE StageTypes' /\ (lone' => Agreement')
      BY <2>1 DEF StageInv
    <2>3. StageTypes /\ (lone => Agreement)
      BY <2>2 DEF StageInv
    <2>4. ASSUME NEW s \in Slots, Answer(s) PROVE StageTypes' /\ (lone' => Agreement')
      <3>1. /\ Open(s) /\ req' = [req EXCEPT ![s] = NoRequest] /\ UNCHANGED <<desk, row, ver, lone>>
            /\ ~(Switching(s) /\ req[s].at = "committed")
        BY <2>4 DEF Answer, Answered, Close, Switching
      <3>2. req[s].kind # "decide"
        BY <2>3, <3>1 DEF StageTypes, SwitchRequests, ClickRequests, Switches
      <3>3. page' = page \/ page' = [page EXCEPT ![req[s].tab] = page[req[s].tab]]
        BY <2>4, <3>2 DEF Answer, Landing, clientVars
      <3>4. DOMAIN page' = Tabs /\ \A t \in Tabs : page'[t] = page[t]
        BY <2>3, <3>3 DEF StageTypes
      <3> QED
        BY <2>3, <3>1, <3>4, CloseInv
    <2>5. ASSUME NEW s \in Slots, Handle(s) \/ Fail(s), UNCHANGED page
          PROVE  StageTypes' /\ (lone' => Agreement')
      <3>1. CASE Refuse(s) \/ Fail(s)
        <4>1. /\ Open(s) /\ req' = [req EXCEPT ![s] = NoRequest] /\ UNCHANGED <<desk, row, ver>>
              /\ lone' => lone /\ ~Switching(s)
          <5>1. CASE Refuse(s)
            BY <5>1 DEF Refuse, Close, Switching, BodyLess, Switches
          <5>2. CASE Fail(s)
            BY <5>2 DEF Fail, Close, Switching
          <5> QED
            BY <3>1, <5>1, <5>2
        <4>2. DOMAIN page' = Tabs /\ \A t \in Tabs : page'[t] = page[t]
          BY <2>3, <2>5 DEF StageTypes
        <4> QED
          BY <2>3, <4>1, <4>2, CloseInv
      <3> QED
        BY <2>2, <2>3, <2>5, <3>1, CommitInv, AfterInv DEF Handle
    <2>6. ASSUME NEW fs, Elsewhere(fs) PROVE FALSE
      BY <2>2, <2>6 DEF Elsewhere
    <2>7. ASSUME NEW t \in Tabs, NEW s \in Slots, Click(t, s), UNCHANGED page
          PROVE  StageTypes' /\ (lone' => Agreement')
      BY <2>2, <2>3, <2>7, ClickInv
    <2>8. ASSUME NEW t \in Tabs, NEW p \in Stops, Go(t, p)
          PROVE  StageTypes' /\ (lone' => Agreement')
      BY <2>2, <2>3, <2>8, GoInv
    <2>9. ASSUME NEW s \in Slots, ApiSwitch(s), UNCHANGED page
          PROVE  StageTypes' /\ (lone' => Agreement')
      BY <2>2, <2>3, <2>9, SwitchInv
    <2>10. ASSUME UNCHANGED <<page, row, ver, req, lone>>
           PROVE  StageTypes' /\ (lone' => Agreement')
      BY <2>1, <2>2, <2>10, CalmStageInv DEF StageInv
    <2>11. ASSUME NEW t \in Tabs, NEW p, Read(t, p) \/ Arrive(t, p) \/ Polls(t, p) \/ Online(t, p)
                                         \/ LoseFetch(t, p) \/ OpenDialog(t, p) \/ CloseDialog(t)
           PROVE  UNCHANGED <<page, row, ver, req, lone>>
      BY <2>11 DEF Read, Arrive, Polls, Online, LoseFetch, OpenDialog, CloseDialog, ServerReads,
         Receive, Poll, Reconnect, FetchFails, serverVars, clientVars
    <2> QED
      BY <1>2, <2>4, <2>5, <2>6, <2>7, <2>8, <2>9, <2>10, <2>11 DEF DeskNext, Server, clientVars
  <1> QED
    BY <1>1, <1>2 DEF Next

\* The flag of a stage and its queue say the same once no pause or resume is
\* under way, unless two overlapped or one failed (app/pipeline.ts), however many
\* clients, tabs and requests there are.
THEOREM FlagTheorem == Spec => []FlagAgrees
  <1>1. Init => StageInv
    BY InitStageInv
  <1>2. StageInv /\ [Next]_<<vars, intakeVars>> => StageInv'
    BY StepStageInv
  <1>3. StageInv => FlagAgrees
    BY InvImpliesFlagAgrees
  <1> QED
    BY <1>1, <1>2, <1>3, PTL DEF Spec

-----------------------------------------------------------------------------
(* Triage comes last *)

\* The order of the rules is one: nothing is before itself, and what is before a
\* rule is before all that comes after it.
LEMMA BeforeIsOrder ==
  ASSUME NEW p \in Rules, NEW q \in Rules, NEW r \in Rules
  PROVE  ~Before(q, q) /\ (Before(p, q) /\ Before(q, r) => Before(p, r))
  <1>1. Priority[p] \in Nat /\ Priority[q] \in Nat /\ Priority[r] \in Nat
    BY RulesAssumption
  <1> QED
    BY <1>1 DEF Before

\* Some rule comes first, if any fits.
LEMMA FirstRule ==
  ASSUME NEW fit \in SUBSET Rules, fit # {}
  PROVE  \E r \in fit : \A q \in fit : ~Before(q, r)
  <1> DEFINE Sooner(r) == {q \in fit : Before(q, r)}
             sizes     == {Cardinality(Sooner(r)) : r \in fit}
  <1>1. \A r \in fit : IsFiniteSet(Sooner(r)) /\ Cardinality(Sooner(r)) \in Nat
    BY RulesAssumption, FS_Subset, FS_CardinalityType
  <1>2. PICK n \in sizes : \A m \in sizes : n <= m
    <2>1. sizes \in SUBSET Nat /\ sizes # {}
      BY <1>1
    <2> DEFINE less == OpToRel(<, Nat)
    <2>2. IsWellFoundedOn(less, Nat)
      BY NatLessThanWellFounded
    <2>3. \A m, n \in Nat : <<m, n>> \in less <=> m < n
      BY DEF OpToRel
    <2> HIDE DEF less
    <2>4. PICK n \in sizes : \A m \in sizes : <<m, n>> \notin less
      BY <2>1, <2>2, WFMin
    <2>5. \A m \in sizes : ~(m < n)
      BY <2>1, <2>3, <2>4
    <2>6. \A m \in sizes : n <= m
      BY <2>1, <2>5
    <2> QED
      BY <2>6
  <1>3. PICK r \in fit : n = Cardinality(Sooner(r))
    OBVIOUS
  <1>4. ASSUME NEW q \in fit, Before(q, r) PROVE FALSE
    <2>1. Sooner(q) \subseteq Sooner(r) /\ q \in Sooner(r) /\ q \notin Sooner(q)
      BY <1>4, BeforeIsOrder
    <2>2. Cardinality(Sooner(q)) < Cardinality(Sooner(r))
      <3>1. Cardinality(Sooner(q)) <= Cardinality(Sooner(r)) /\ Cardinality(Sooner(q)) # Cardinality(Sooner(r))
        BY <1>1, <2>1, FS_Subset
      <3> QED
        BY <1>1, <3>1
    <2>3. n <= Cardinality(Sooner(q))
      BY <1>2
    <2> HIDE DEF Sooner
    <2> QED
      BY <1>1, <1>3, <2>2, <2>3
  <1> QED
    BY <1>4

\* A rule that names more comes first, whatever the priorities (findMatchingRule in
\* assignment.repo.ts), and a task goes to triage only if its assignee is ambiguous, or
\* it names nobody and no role and has no owner of like tasks, no owner of its matter and
\* no rule that fits (the tiers of assignment.service.ts), whatever rules there are.
THEOREM TriageTheorem == Spec => []TriageIsLast
  <1>1. TriageIsLast
    <2> SUFFICES ASSUME NEW task \in Tasks
                 PROVE  LET fit == {q \in Active : Matches(q, task.matter, task.action)}
                        IN  /\ \A r \in FindRule(Active, task.matter, task.action), q \in fit :
                                  ~MoreSpecific(q, r)
                            /\ Method(task, Active) = "triage" /\ task.role # "ambiguous" =>
                                 /\ fit = {} /\ ~task.user /\ task.role = "none"
                                 /\ task.matter # Wild => ~task.owned /\ ~task.matterOwned
                            /\ task.role = "ambiguous" => Method(task, Active) = "triage"
      BY DEF TriageIsLast
    <2> DEFINE fit   == {q \in Active : Matches(q, task.matter, task.action)}
               first == FindRule(Active, task.matter, task.action)
    <2>1. fit \subseteq Rules
      BY RuleAssumption DEF Active
    <2>2. first = {r \in fit : \A q \in fit : ~Before(q, r)}
      BY DEF FindRule
    <2>3. \A q, r : MoreSpecific(q, r) => Before(q, r)
      BY DEF MoreSpecific, Before
    <2>4. fit # {} => first # {}
      BY <2>1, <2>2, FirstRule
    <2>5. task.role \in {"none", "named", "ambiguous"} /\ task.user \in BOOLEAN
      BY DEF Tasks
    <2> HIDE DEF fit
    <2>6. Method(task, Active) = "triage" /\ task.role # "ambiguous" =>
             /\ first = {} /\ ~task.user /\ task.role = "none"
             /\ task.matter # Wild => ~task.owned /\ ~task.matterOwned
      BY <2>5 DEF Method
    <2>7. task.role = "ambiguous" => Method(task, Active) = "triage"
      BY DEF Method
    <2> QED
      BY <2>2, <2>3, <2>4, <2>6, <2>7 DEF fit
  <1> QED
    BY <1>1, PTL

-----------------------------------------------------------------------------
(* Tabs and server: what everybody keeps *)

AllFields == UNION {FieldsOf[d] : d \in Desks}
Contents  == [Fields -> Values]
Partial   == UNION {[F -> Values] : F \in SUBSET AllFields}
Kinds     == {"save", "decide", "add", "addRule", "deleteRule", "retry", "console_switch"}
                \cup Switches
Requests  == [tab : Tabs \cup {Api}, kind : Kinds, refreshes : SUBSET AllPages,
              sets : Partial, then : Partial, at : {"sent", "committed", "done"}, ver : Nat,
              typed : SUBSET AllFields, shown : Partial, seen : BOOLEAN]
\* The desks where items are decided: no write leaves an item open.
Reviewing == {"review", "dashboard"}
Honest(d) == desk \in Reviewing /\ d.ver > 0 => d.row["status"] # 0
Answers   == {d \in Data : Honest(d)}
Queries   == [data : Answers \cup {NoData}, invalid : BOOLEAN, fetch : {"none", "asked", "read"},
              got : Answers \cup {NoData}, late : BOOLEAN, raced : BOOLEAN, failed : BOOLEAN]
Forms     == [base : Contents, row : Contents, typed : SUBSET Fields]

Unwritten == {s \in Slots : Open(s) /\ req[s].at = "sent"}

\* An answer refreshes all queries of the desk that a mutation names.  What a save sends
\* in the fields that nobody typed is what the page showed.
RequestOK(q) ==
    /\ q.ver <= ver
    /\ q.tab # Api => Here \ Unnamed \subseteq q.refreshes /\ q.refreshes \cap Unnamed = {}
    /\ q.kind = "decide" => desk \in Reviewing
    /\ desk \in Reviewing => /\ q.kind = "decide"
                             /\ "status" \in DOMAIN q.sets /\ q.sets["status"] # 0
    /\ q.kind = "save" => /\ Fields \subseteq DOMAIN q.sets
                          /\ \A f \in Fields \ q.typed : q.sets[f] = q.shown[f]

\* Whoever has still to commit has been counted as sent.
ServerInv ==
    /\ desk \in Desks /\ row \in Contents /\ ver \in 0 .. MaxWrites
    /\ sends \in 0 .. MaxWrites /\ faults \in 0 .. MaxFaults /\ lone \in BOOLEAN
    /\ req \in [Slots -> Requests \cup {NoRequest}]
    /\ \A s \in Slots : Open(s) => RequestOK(req[s])
    /\ ver + Cardinality(Unwritten) <= sends
    /\ Honest(Snapshot)

\* What query e has, or is about to receive, knows commit n, unless it says otherwise.
Fresh(e, n) ==
    /\ e.fetch = "read" => e.got \in Answers /\ (e.late \/ e.got.ver >= n)
    /\ e.data # NoData /\ ~e.invalid /\ ~e.raced => e.data.ver >= n

\* What page p owes to a tab that was told of commit n.
Due(p, n) == IF p \in Unnamed THEN 0 ELSE n

\* A form differs from what filled it in what was typed; that of a task, from what
\* the page shows.
FormOK(f, p, c) ==
    f # NoForm =>
        /\ \A x \in Fields \ f.typed : f.row[x] = f.base[x]
        /\ desk = "task" => p = "TaskDetail" /\ f.base = c["TaskDetail"].data.row

TabTypes ==
    /\ page \in [Tabs -> Here \cup {Away}]
    /\ cache \in [Tabs -> [Pages -> Queries]]
    /\ form \in [Tabs -> Forms \cup {NoForm}]
    /\ told \in [Tabs -> 0 .. ver]

TabOK(t) ==
    /\ \A p \in Here : Fresh(cache[t][p], Due(p, told[t]))
    /\ FormOK(form[t], page[t], cache[t])

DeskInv == ServerInv /\ TabTypes /\ \A t \in Tabs : TabOK(t)

\* Which desk a page belongs to.
LEMMA PagesOfDesks ==
  ASSUME desk \in Desks
  PROVE  /\ Here \subseteq AllPages /\ AllPages \subseteq Pages /\ Away \notin AllPages
         /\ {"TaskList", "TaskDetail", "ReviewQueue", "ReviewDetail", "Dashboard", "Matters",
             "Users", "RoutingRules", "PipelineMonitor"} \subseteq AllPages
         /\ desk = "task" => Here = {"TaskList", "TaskDetail"}
         /\ desk = "review" => Here = {"ReviewQueue", "ReviewDetail"}
         /\ "TaskDetail" \in Here => desk = "task"
         /\ desk = "dashboard" => Here = {"ReviewDetail", "Dashboard"}
         /\ "ReviewDetail" \in Here => desk \in Reviewing
         /\ "Dashboard" \in Here => desk = "dashboard"
         /\ "Matters" \in Here => desk = "matter" /\ Here = {"Matters"}
         /\ "Users" \in Here => desk = "user" /\ Here = {"Users"}
         /\ "RoutingRules" \in Here => desk = "rule" /\ Here = {"RoutingRules"}
         /\ "PipelineMonitor" \in Here => desk = "stage" /\ Here = {"PipelineMonitor"}
  <1>1. /\ PagesOf["task"] = {"TaskList", "TaskDetail"}
        /\ PagesOf["review"] = {"ReviewQueue", "ReviewDetail"}
        /\ PagesOf["dashboard"] = {"ReviewDetail", "Dashboard"}
        /\ PagesOf["matter"] = {"Matters"} /\ PagesOf["user"] = {"Users"}
        /\ PagesOf["rule"] = {"RoutingRules"} /\ PagesOf["stage"] = {"PipelineMonitor"}
        /\ PagesOf["intake"] = {}
    BY DEF PagesOf
  <1>2. Here \subseteq AllPages
    BY DEF Here, AllPages
  <1>3. {"TaskList", "TaskDetail", "ReviewQueue", "ReviewDetail", "Dashboard", "Matters",
         "Users", "RoutingRules", "PipelineMonitor"} \subseteq AllPages
    <2>1. /\ PagesOf["task"] \cup PagesOf["review"] \cup PagesOf["dashboard"] \subseteq AllPages
          /\ PagesOf["matter"] \cup PagesOf["user"] \cup PagesOf["rule"] \subseteq AllPages
          /\ PagesOf["stage"] \subseteq AllPages
      BY DEF AllPages, Desks
    <2> QED
      BY <1>1, <2>1
  <1>4. \A d \in Desks : desk = d => Here = PagesOf[d]
    BY DEF Here
  <1>5. \/ desk = "task" \/ desk = "review" \/ desk = "dashboard" \/ desk = "matter"
        \/ desk = "user" \/ desk = "rule" \/ desk = "stage" \/ desk = "intake"
    BY DEF Desks
  <1> QED
    BY <1>1, <1>2, <1>3, <1>4, <1>5, PageAssumption DEF Desks, Reviewing

LEMMA FieldsOfDesks ==
  ASSUME desk \in Desks
  PROVE  /\ Fields \subseteq AllFields /\ {"status", "flag", "queue"} \cup RuleIds \subseteq AllFields
         /\ desk \in Reviewing => Fields = {"status"}
         /\ desk = "rule" => Fields = RuleIds
         /\ \A g \in Contents : g \in Partial
  <1>1. /\ FieldsOf["review"] = {"status"} /\ FieldsOf["rule"] = RuleIds
        /\ FieldsOf["dashboard"] = {"status"}
        /\ FieldsOf["stage"] = {"flag", "queue"}
    BY DEF FieldsOf
  <1>2. Fields \subseteq AllFields
    BY DEF Fields, AllFields
  <1>3. {"status", "flag", "queue"} \cup RuleIds \subseteq AllFields
    <2>1. FieldsOf["review"] \cup FieldsOf["rule"] \cup FieldsOf["stage"] \subseteq AllFields
      BY DEF AllFields, Desks
    <2> QED
      BY <1>1, <2>1
  <1> QED
    BY <1>1, <1>2, <1>3 DEF Fields, Contents, Partial, Reviewing

LEMMA DueOK ==
  ASSUME NEW p, NEW n \in Nat
  PROVE  Due(p, n) \in Nat /\ Due(p, n) <= n /\ (p \notin Unnamed => Due(p, n) = n)
  BY DEF Due

LEMMA AnswersAreData == Answers \subseteq Data
  BY DEF Answers

-----------------------------------------------------------------------------
(* Queries *)

\* A fetch that is asked has nothing yet, and what is there stays.
LEMMA FetchOK ==
  ASSUME NEW e \in Queries, NEW n \in Nat, Fresh(e, n)
  PROVE  Fetch(e) \in Queries /\ Fresh(Fetch(e), n) /\ Fetch(e).data = e.data
                              /\ Fetch(e).invalid = e.invalid
  BY DEF Fetch, Queries, Fresh

LEMMA MountOK ==
  ASSUME NEW e \in Queries, NEW n \in Nat, Fresh(e, n), NEW aged \in BOOLEAN
  PROVE  Mount(e, aged) \in Queries /\ Fresh(Mount(e, aged), n) /\ Mount(e, aged).data = e.data
  BY FetchOK DEF Mount

\* After an invalidation there is nothing that passes for fresh.
LEMMA InvalidateOK ==
  ASSUME NEW e \in Queries, NEW m \in Nat, Fresh(e, m), NEW n \in Nat, NEW shown \in BOOLEAN
  PROVE  Invalidate(e, shown) \in Queries /\ Fresh(Invalidate(e, shown), n)
                                          /\ Invalidate(e, shown).data = e.data
  <1> DEFINE old == [e EXCEPT !.invalid = (e.data # NoData)]
  <1>1. /\ old \in Queries /\ old.data = e.data /\ old.got = e.got /\ old.fetch = e.fetch
        /\ old.invalid = (e.data # NoData)
    BY DEF Queries
  <1>2. CASE shown /\ (e.data # NoData \/ Idle(e))
    <2>1. Invalidate(e, shown) = Fetch(old)
      BY <1>2 DEF Invalidate
    <2> HIDE DEF old
    <2>2. Fetch(old) = [old EXCEPT !.fetch = "asked", !.got = NoData, !.late = FALSE]
      BY DEF Fetch
    <2> DEFINE new == [old EXCEPT !.fetch = "asked", !.got = NoData, !.late = FALSE]
    <2>3. /\ new \in Queries /\ new.fetch = "asked" /\ new.data = old.data
          /\ new.invalid = old.invalid
      BY <1>1 DEF Queries
    <2> HIDE DEF new
    <2>4. Fresh(new, n)
      BY <1>1, <2>3 DEF Fresh
    <2>5. Invalidate(e, shown) = new
      BY <2>1, <2>2 DEF new
    <2> QED
      BY <1>1, <2>3, <2>4, <2>5
  <1>3. CASE ~(shown /\ (e.data # NoData \/ Idle(e)))
    <2>1. Invalidate(e, shown) = [old EXCEPT !.late = ~Idle(e)]
      BY <1>3 DEF Invalidate
    <2> HIDE DEF old
    <2>2. e.fetch = "read" => e.got \in Answers
      BY DEF Fresh
    <2> QED
      BY <1>1, <2>1, <2>2 DEF Queries, Fresh, Idle
  <1> QED
    BY <1>2, <1>3

\* ... also on the pages of other desks.
LEMMA InvalidateTypes ==
  ASSUME NEW e \in Queries, NEW shown \in BOOLEAN
  PROVE  Invalidate(e, shown) \in Queries
  <1> DEFINE old == [e EXCEPT !.invalid = (e.data # NoData)]
  <1>1. old \in Queries
    BY DEF Queries
  <1> HIDE DEF old
  <1>2. Fetch(old) \in Queries /\ [old EXCEPT !.late = ~Idle(e)] \in Queries
    BY <1>1 DEF Fetch, Queries, Idle
  <1> QED
    BY <1>2 DEF Invalidate, old

\* What the server reads now knows all that anybody was told of.
LEMMA ReadOK ==
  ASSUME NEW e \in Queries, NEW n \in Nat, Fresh(e, n), NEW d \in Answers, d.ver >= n
  PROVE  LET new == [e EXCEPT !.fetch = "read", !.got = d]
         IN  new \in Queries /\ Fresh(new, n) /\ new.data = e.data
  BY DEF Queries, Fresh

LEMMA ReceiveOK ==
  ASSUME NEW e \in Queries, NEW n \in Nat, Fresh(e, n), e.fetch = "read"
  PROVE  LET new == [Empty EXCEPT !.data = e.got, !.raced = e.late]
         IN  new \in Queries /\ Fresh(new, n) /\ new.data = e.got /\ e.got \in Answers
  BY DEF Queries, Fresh, Empty

LEMMA FailOK ==
  ASSUME NEW e \in Queries, NEW n \in Nat, Fresh(e, n)
  PROVE  LET new == [e EXCEPT !.fetch = "none", !.got = NoData, !.late = FALSE,
                              !.invalid = (e.data # NoData), !.failed = (e.data # NoData)]
         IN  new \in Queries /\ Fresh(new, n) /\ new.data = e.data
  BY DEF Queries, Fresh

-----------------------------------------------------------------------------
(* The server *)

LEMMA SameDesk ==
  ASSUME desk' = desk
  PROVE  /\ Here' = Here /\ Fields' = Fields /\ Contents' = Contents /\ Data' = Data
         /\ Queries' = Queries /\ Forms' = Forms /\ Answers' = Answers
         /\ \A d : Honest(d)' <=> Honest(d)
  BY DEF Here, Fields, Contents, Data, Queries, Forms, Answers, Honest

LEMMA ServerNumbers ==
  ASSUME ServerInv
  PROVE  /\ ver \in Nat /\ sends \in Nat /\ faults \in Nat /\ MaxWrites \in Nat /\ MaxFaults \in Nat
         /\ ver <= MaxWrites /\ sends <= MaxWrites /\ faults <= MaxFaults
         /\ IsFiniteSet(Unwritten) /\ Cardinality(Unwritten) \in Nat
         /\ \A s \in Slots : Open(s) => req[s] \in Requests
  <1>1. IsFiniteSet(Unwritten) /\ Cardinality(Unwritten) \in Nat
    BY SlotsAssumption, FS_Subset, FS_CardinalityType DEF Unwritten
  <1> QED
    BY <1>1, WritesAssumption DEF ServerInv, Open

\* A slot changes hands, or its request moves on, within the budget of writes.
LEMMA SlotStep ==
  ASSUME ServerInv, NEW s \in Slots, NEW q \in Requests \cup {NoRequest},
         req' = [req EXCEPT ![s] = q], desk' = desk, row' \in Contents, ver' \in Nat, ver' >= ver,
         sends' \in 0 .. MaxWrites, faults' \in 0 .. MaxFaults, lone' \in BOOLEAN,
         q # NoRequest => RequestOK(q)', ver' + Cardinality(Unwritten') <= sends', Honest(Snapshot)'
  PROVE  ServerInv'
  <1>1. /\ req \in [Slots -> Requests \cup {NoRequest}] /\ ver \in Nat /\ MaxWrites \in Nat
        /\ \A o \in Slots : Open(o) => RequestOK(req[o]) /\ req[o] \in Requests
    BY ServerNumbers DEF ServerInv
  <1>2. req' \in [Slots -> Requests \cup {NoRequest}] /\ req'[s] = q
        /\ \A o \in Slots : o # s => req'[o] = req[o]
    BY <1>1
  <1>3. Contents' = Contents /\ Here' = Here /\ Fields' = Fields
    BY SameDesk
  <1>4. \A o \in Slots : Open(o)' => RequestOK(req[o])'
    <2> SUFFICES ASSUME NEW o \in Slots, req'[o] # NoRequest PROVE RequestOK(req[o])'
      BY DEF Open
    <2>1. CASE o = s
      BY <1>2, <2>1 DEF RequestOK
    <2>2. CASE o # s
      <3>1. req'[o] = req[o] /\ RequestOK(req[o]) /\ req[o].ver \in Nat
        BY <1>1, <1>2, <2>2 DEF Open, Requests
      <3>2. req[o].ver <= ver'
        BY <1>1, <3>1 DEF RequestOK
      <3> QED
        BY <1>3, <3>1, <3>2 DEF RequestOK
    <2> QED
      BY <2>1, <2>2
  <1>5. Cardinality(Unwritten') \in Nat
    <2>1. Unwritten' \subseteq Slots
      BY DEF Unwritten
    <2> QED
      BY <2>1, SlotsAssumption, FS_Subset, FS_CardinalityType
  <1>6. ver' \in 0 .. MaxWrites
    BY <1>1, <1>5
  <1> QED
    BY <1>2, <1>3, <1>4, <1>6 DEF ServerInv

\* The row stays as it is, or becomes what somebody has decided.
LEMMA StillHonest ==
  ASSUME ServerInv, desk' = desk, UNCHANGED <<row, ver>>
  PROVE  Honest(Snapshot)'
  BY DEF ServerInv, Honest, Snapshot

LEMMA HonestWrite ==
  ASSUME ServerInv, desk' = desk, NEW sets, row' = Written(sets),
         desk \in Reviewing => "status" \in DOMAIN sets /\ sets["status"] # 0
  PROVE  Honest(Snapshot)'
  <1>1. desk \in Reviewing => Fields = {"status"}
    BY FieldsOfDesks DEF ServerInv
  <1>2. desk \in Reviewing => row'["status"] # 0
    BY <1>1 DEF Written
  <1>3. Snapshot'.row = row'
    BY DEF Snapshot
  <1> QED
    BY <1>2, <1>3 DEF Honest

\* A request that is over has written or never will.
LEMMA CloseOK ==
  ASSUME ServerInv, NEW s \in Slots, Close(s), faults' \in 0 .. MaxFaults, lone' \in BOOLEAN
  PROVE  ServerInv'
  <1>1. req' = [req EXCEPT ![s] = NoRequest] /\ UNCHANGED <<desk, row, ver, sends>>
    BY DEF Close
  <1>2. Unwritten' \subseteq Unwritten
    BY <1>1 DEF Unwritten, Open, ServerInv
  <1>3. IsFiniteSet(Unwritten) /\ ver \in Nat /\ sends \in Nat /\ Cardinality(Unwritten) \in Nat
    BY ServerNumbers
  <1>4. Cardinality(Unwritten') <= Cardinality(Unwritten) /\ Cardinality(Unwritten') \in Nat
    BY <1>2, <1>3, FS_Subset, FS_CardinalityType
  <1>5. ver' + Cardinality(Unwritten') <= sends'
    BY <1>1, <1>3, <1>4 DEF ServerInv
  <1>6. ver' \in Nat /\ ver' >= ver /\ row' \in Contents /\ sends' \in 0 .. MaxWrites
    BY <1>1, <1>3 DEF ServerInv
  <1>7. Honest(Snapshot)'
    BY <1>1, StillHonest
  <1> QED
    BY <1>1, <1>5, <1>6, <1>7, SlotStep

LEMMA WrittenOK ==
  ASSUME ServerInv, NEW sets \in Partial
  PROVE  Written(sets) \in Contents
  BY DEF ServerInv, Written, Contents, Partial

\* A commit is of a request that was still to write.
LEMMA CommitOK ==
  ASSUME ServerInv, NEW s \in Slots, Commit(s)
  PROVE  ServerInv' /\ ver' >= ver
  <1>1. /\ Open(s) /\ req[s].at = "sent" /\ row' = Written(req[s].sets) /\ ver' = ver + 1
        /\ req' = [req EXCEPT ![s] = [req[s] EXCEPT !.at = "committed", !.ver = ver + 1]]
        /\ UNCHANGED <<desk, sends, faults, lone>>
    BY DEF Commit, ServerInv
  <1>2. /\ req[s] \in Requests /\ RequestOK(req[s]) /\ ver \in Nat /\ sends \in Nat
        /\ IsFiniteSet(Unwritten) /\ Cardinality(Unwritten) \in Nat
    BY <1>1, ServerNumbers DEF ServerInv
  <1>3. PICK q \in Requests :
           /\ req' = [req EXCEPT ![s] = q] /\ q.at = "committed" /\ q.ver = ver + 1
           /\ q.tab = req[s].tab /\ q.kind = req[s].kind /\ q.refreshes = req[s].refreshes
           /\ q.sets = req[s].sets /\ q.shown = req[s].shown /\ q.typed = req[s].typed
    <2> DEFINE new == [req[s] EXCEPT !.at = "committed", !.ver = ver + 1]
    <2>1. ver + 1 \in Nat
      BY <1>2
    <2>2. /\ new \in Requests /\ new.at = "committed" /\ new.ver = ver + 1
          /\ new.tab = req[s].tab /\ new.kind = req[s].kind /\ new.refreshes = req[s].refreshes
          /\ new.sets = req[s].sets /\ new.shown = req[s].shown /\ new.typed = req[s].typed
      BY <1>2, <2>1 DEF Requests
    <2>3. req' = [req EXCEPT ![s] = new]
      BY <1>1
    <2> HIDE DEF new
    <2> QED
      BY <2>2, <2>3
  <1>4. RequestOK(q)'
    BY <1>1, <1>2, <1>3, SameDesk DEF RequestOK
  <1>5. Unwritten' \subseteq Unwritten \ {s} /\ s \in Unwritten
    BY <1>1, <1>3 DEF Unwritten, Open, ServerInv
  <1>6. Cardinality(Unwritten') + 1 <= Cardinality(Unwritten) /\ Cardinality(Unwritten') \in Nat
    <2>1. IsFiniteSet(Unwritten \ {s}) /\ Cardinality(Unwritten \ {s}) = Cardinality(Unwritten) - 1
      BY <1>2, <1>5, FS_RemoveElement
    <2>2. /\ Cardinality(Unwritten') <= Cardinality(Unwritten \ {s})
          /\ Cardinality(Unwritten') \in Nat
      BY <1>5, <2>1, FS_Subset, FS_CardinalityType
    <2> QED
      BY <1>2, <2>1, <2>2
  <1>7. ver' + Cardinality(Unwritten') <= sends'
    BY <1>1, <1>2, <1>6 DEF ServerInv
  <1>8. row' \in Contents
    BY <1>1, <1>2, WrittenOK DEF Requests
  <1>9. /\ ver' \in Nat /\ ver' >= ver /\ sends' \in 0 .. MaxWrites
        /\ faults' \in 0 .. MaxFaults /\ lone' \in BOOLEAN
    BY <1>1, <1>2 DEF ServerInv
  <1>10. Honest(Snapshot)'
    BY <1>1, <1>2, HonestWrite DEF RequestOK
  <1> QED
    BY <1>1, <1>3, <1>4, <1>7, <1>8, <1>9, <1>10, SlotStep

\* The queues are told at another desk.
LEMMA AfterHonest ==
  ASSUME ServerInv, NEW s \in Slots, After(s)
  PROVE  Honest(Snapshot)'
  <1>1. req[s].kind \in Switches /\ req[s] \in Requests /\ RequestOK(req[s]) /\ desk' = desk
    BY ServerNumbers DEF After, ServerInv
  <1>2. desk \notin Reviewing
    BY <1>1 DEF RequestOK, Switches
  <1> QED
    BY <1>1, <1>2 DEF Honest

LEMMA AfterOK ==
  ASSUME ServerInv, NEW s \in Slots, After(s)
  PROVE  ServerInv'
  <1>1. /\ Open(s) /\ row' = Written(req[s].then)
        /\ req' = [req EXCEPT ![s] = [req[s] EXCEPT !.at = "done"]]
        /\ UNCHANGED <<desk, ver, sends, faults, lone>>
    BY DEF After
  <1>2. /\ req[s] \in Requests /\ RequestOK(req[s]) /\ ver \in Nat /\ sends \in Nat
        /\ IsFiniteSet(Unwritten) /\ Cardinality(Unwritten) \in Nat
    BY <1>1, ServerNumbers DEF ServerInv
  <1>3. PICK q \in Requests :
           /\ req' = [req EXCEPT ![s] = q] /\ q.at = "done" /\ q.ver = req[s].ver
           /\ q.tab = req[s].tab /\ q.kind = req[s].kind /\ q.refreshes = req[s].refreshes
           /\ q.sets = req[s].sets /\ q.shown = req[s].shown /\ q.typed = req[s].typed
    <2> DEFINE new == [req[s] EXCEPT !.at = "done"]
    <2>1. /\ new \in Requests /\ new.at = "done" /\ new.ver = req[s].ver
          /\ new.tab = req[s].tab /\ new.kind = req[s].kind /\ new.refreshes = req[s].refreshes
          /\ new.sets = req[s].sets /\ new.shown = req[s].shown /\ new.typed = req[s].typed
      BY <1>2 DEF Requests
    <2>2. req' = [req EXCEPT ![s] = new]
      BY <1>1
    <2> HIDE DEF new
    <2> QED
      BY <2>1, <2>2
  <1>4. RequestOK(q)'
    BY <1>1, <1>2, <1>3, SameDesk DEF RequestOK
  <1>5. Unwritten' \subseteq Unwritten
    BY <1>1, <1>3 DEF Unwritten, Open, ServerInv
  <1>6. Cardinality(Unwritten') <= Cardinality(Unwritten) /\ Cardinality(Unwritten') \in Nat
    BY <1>2, <1>5, FS_Subset, FS_CardinalityType
  <1>7. ver' + Cardinality(Unwritten') <= sends'
    BY <1>1, <1>2, <1>6 DEF ServerInv
  <1>8. row' \in Contents
    BY <1>1, <1>2, WrittenOK DEF Requests
  <1>9. /\ ver' \in Nat /\ ver' >= ver /\ sends' \in 0 .. MaxWrites
        /\ faults' \in 0 .. MaxFaults /\ lone' \in BOOLEAN
    BY <1>1, <1>2 DEF ServerInv
  <1>10. Honest(Snapshot)'
    BY <1>1, <1>2, AfterHonest
  <1> QED
    BY <1>1, <1>3, <1>4, <1>7, <1>8, <1>9, <1>10, SlotStep

\* What other clients write is counted as sent and committed at once.
LEMMA ElsewhereOK ==
  ASSUME ServerInv, NEW fs \in SUBSET Fields, Elsewhere(fs)
  PROVE  ServerInv' /\ ver' >= ver /\ desk' = desk
  <1>1. PICK v \in {sends + 1, Gone} : row' = Written([f \in fs |-> v])
    BY DEF Elsewhere
  <1>2. /\ ver' = ver + 1 /\ sends' = sends + 1 /\ sends < MaxWrites
        /\ UNCHANGED <<desk, req, faults, lone>>
    BY DEF Elsewhere
  <1>3. /\ ver \in Nat /\ sends \in Nat /\ MaxWrites \in Nat /\ Cardinality(Unwritten) \in Nat
        /\ ver <= MaxWrites /\ sends <= MaxWrites /\ ver + Cardinality(Unwritten) <= sends
    BY ServerNumbers DEF ServerInv
  <1>4. row' \in Contents
    <2>1. v \in Values
      BY <1>2, <1>3 DEF Values, Gone
    <2>2. fs \in SUBSET AllFields
      BY FieldsOfDesks DEF ServerInv
    <2>3. [f \in fs |-> v] \in Partial
      BY <2>1, <2>2 DEF Partial
    <2> QED
      BY <1>1, <2>3, WrittenOK
  <1>5. Unwritten' = Unwritten
    BY <1>2 DEF Unwritten, Open
  <1>6. \A s \in Slots : Open(s)' => RequestOK(req[s])'
    <2> SUFFICES ASSUME NEW s \in Slots, Open(s) PROVE RequestOK(req[s])'
      BY <1>2 DEF Open
    <2>1. RequestOK(req[s]) /\ req[s].ver \in Nat /\ req'[s] = req[s]
      BY <1>2, ServerNumbers DEF ServerInv, Requests
    <2> QED
      BY <1>2, <1>3, <2>1, SameDesk DEF RequestOK
  <1>7. ver' \in 0 .. MaxWrites /\ sends' \in 0 .. MaxWrites /\ ver' + Cardinality(Unwritten') <= sends'
    BY <1>2, <1>3, <1>5
  <1>8. Contents' = Contents /\ ver' >= ver
    BY <1>2, <1>3, SameDesk
  <1>9. Honest(Snapshot)'
    <2>1. desk \in Reviewing => fs = {"status"}
      BY FieldsOfDesks DEF ServerInv, Elsewhere
    <2>2. v # 0
      BY <1>3 DEF Gone
    <2> QED
      BY <1>1, <1>2, <2>1, <2>2, HonestWrite
  <1> QED
    BY <1>2, <1>4, <1>6, <1>7, <1>8, <1>9 DEF ServerInv

\* The server's steps.
LEMMA ServerOK ==
  ASSUME ServerInv, Server
  PROVE  /\ ServerInv' /\ ver' >= ver /\ ver' \in Nat /\ desk' = desk
         /\ UNCHANGED <<page, cache, form, told>>
  <1>1. ver \in Nat /\ (ServerInv' => ver' \in Nat)
    BY ServerNumbers DEF ServerInv
  <1>2. ASSUME NEW s \in Slots, Handle(s) \/ Fail(s)
        PROVE  ServerInv' /\ ver' >= ver /\ desk' = desk
    <2>1. CASE Commit(s)
      <3>1. desk' = desk
        BY <2>1 DEF Commit
      <3> QED
        BY <2>1, <3>1, CommitOK
    <2>2. CASE After(s)
      <3>1. desk' = desk /\ ver' = ver
        BY <2>2 DEF After
      <3> QED
        BY <1>1, <2>2, <3>1, AfterOK
    <2>3. CASE Refuse(s) \/ Fail(s)
      <3>1. Close(s) /\ faults' \in 0 .. MaxFaults /\ lone' \in BOOLEAN
        <4>1. faults \in Nat /\ MaxFaults \in Nat /\ faults <= MaxFaults /\ lone \in BOOLEAN
          BY ServerNumbers DEF ServerInv
        <4>2. CASE Refuse(s)
          BY <4>1, <4>2 DEF Refuse
        <4>3. CASE Fail(s)
          BY <4>1, <4>3 DEF Fail
        <4> QED
          BY <2>3, <4>2, <4>3
      <3>2. desk' = desk /\ ver' = ver
        BY <3>1 DEF Close
      <3> QED
        BY <1>1, <3>1, <3>2, CloseOK
    <2> QED
      BY <1>2, <2>1, <2>2, <2>3 DEF Handle
  <1> QED
    BY <1>1, <1>2, ElsewhereOK DEF Server, clientVars

\* The server's part of a step that is a tab's.
LEMMA ServerCalm ==
  ASSUME ServerInv, UNCHANGED <<desk, row, ver, req, sends, lone>>, faults' \in 0 .. MaxFaults
  PROVE  ServerInv'
  <1>1. Contents' = Contents /\ Here' = Here /\ Fields' = Fields
    BY SameDesk
  <1>2. Unwritten' = Unwritten
    BY DEF Unwritten, Open
  <1>3. \A s \in Slots : Open(s)' => RequestOK(req[s])'
    BY <1>1 DEF ServerInv, RequestOK, Open
  <1>4. Honest(Snapshot)'
    BY StillHonest
  <1> QED
    BY <1>1, <1>2, <1>3, <1>4 DEF ServerInv

-----------------------------------------------------------------------------
(* The clicks *)

Sendable(r) == r \in Requests /\ r.at = "sent" /\ r.ver = 0 /\ RequestOK(r)

LEMMA SendOK ==
  ASSUME ServerInv, NEW s \in Slots, NEW r, Sendable(r), Send(s, r)
  PROVE  ServerInv' /\ UNCHANGED <<desk, ver>>
  <1>1. /\ req' = [req EXCEPT ![s] = r] /\ sends' = sends + 1 /\ sends < MaxWrites
        /\ lone' = (lone /\ ~(r.kind \in Switches /\ \E o \in Slots : Open(o)))
        /\ UNCHANGED <<desk, row, ver, faults>>
    BY DEF Send
  <1>2. /\ ver \in Nat /\ sends \in Nat /\ MaxWrites \in Nat
        /\ IsFiniteSet(Unwritten) /\ Cardinality(Unwritten) \in Nat
        /\ ver + Cardinality(Unwritten) <= sends
    BY ServerNumbers DEF ServerInv
  <1>3. Unwritten' \subseteq Unwritten \cup {s}
    BY <1>1 DEF Unwritten, Open, ServerInv
  <1>4. Cardinality(Unwritten') <= Cardinality(Unwritten) + 1 /\ Cardinality(Unwritten') \in Nat
    <2>1. /\ IsFiniteSet(Unwritten \cup {s})
          /\ Cardinality(Unwritten \cup {s}) <= Cardinality(Unwritten) + 1
      <3>1. /\ IsFiniteSet(Unwritten \cup {s})
            /\ \/ Cardinality(Unwritten \cup {s}) = Cardinality(Unwritten)
               \/ Cardinality(Unwritten \cup {s}) = Cardinality(Unwritten) + 1
        BY <1>2, FS_AddElement, Zenon
      <3> QED
        BY <1>2, <3>1
    <2>2. /\ Cardinality(Unwritten') <= Cardinality(Unwritten \cup {s})
          /\ Cardinality(Unwritten') \in Nat /\ Cardinality(Unwritten \cup {s}) \in Nat
      BY <1>3, <2>1, FS_Subset, FS_CardinalityType
    <2> QED
      BY <1>2, <2>1, <2>2
  <1>5. ver' + Cardinality(Unwritten') <= sends' /\ sends' \in 0 .. MaxWrites
    BY <1>1, <1>2, <1>4
  <1>6. RequestOK(r)'
    BY <1>1, SameDesk DEF Sendable, RequestOK
  <1>7. /\ r \in Requests /\ row' \in Contents /\ ver' \in Nat /\ ver' >= ver
        /\ faults' \in 0 .. MaxFaults /\ lone' \in BOOLEAN
    BY <1>1, <1>2 DEF Sendable, ServerInv
  <1>8. Honest(Snapshot)'
    BY <1>1, StillHonest
  <1> QED
    BY <1>1, <1>5, <1>6, <1>7, <1>8, SlotStep

\* The numbers that a request may carry.
LEMMA NewValue ==
  ASSUME ServerInv, sends < MaxWrites
  PROVE  {New, Gone, 0, 1} \subseteq Values
  BY ServerNumbers DEF Values, Gone, New

LEMMA NoSets == <<>> \in Partial
  <1>1. <<>> \in [{} -> Values]
    OBVIOUS
  <1> QED
    BY <1>1 DEF Partial

LEMMA OneValue ==
  ASSUME NEW F \in SUBSET AllFields, NEW v \in Values
  PROVE  [f \in F |-> v] \in Partial
  <1>1. [f \in F |-> v] \in [F -> Values]
    OBVIOUS
  <1> QED
    BY <1>1 DEF Partial

\* A request that is neither a save nor a decision.
LEMMA PlainRequest ==
  ASSUME ServerInv, NEW t \in Tabs \cup {Api}, NEW k \in Kinds, NEW P \in SUBSET AllPages,
         t # Api => Here \ Unnamed \subseteq P /\ P \cap Unnamed = {},
         desk \notin Reviewing, k \notin {"save", "decide"}, NEW sets \in Partial
  PROVE  Sendable(Request(t, k, P, sets))
  <1>1. <<>> \in Partial
    BY NoSets
  <1>2. Request(t, k, P, sets) \in Requests
    BY <1>1 DEF Request, Requests
  <1>3. RequestOK(Request(t, k, P, sets))
    BY ServerNumbers DEF Request, RequestOK
  <1> QED
    BY <1>2, <1>3 DEF Sendable, Request

\* The whole form goes: what nobody typed goes as it came.
LEMMA SaveFormOK ==
  ASSUME ServerInv, TabTypes, NEW t \in Tabs, TabOK(t), NEW s \in Slots, NEW P \in SUBSET AllPages,
         NEW shown \in Contents, Here \ Unnamed \subseteq P, P \cap Unnamed = {}, desk \notin Reviewing,
         shown = form[t].base, SaveForm(t, s, P, shown)
  PROVE  /\ \E r : Sendable(r) /\ Send(s, r)
         /\ form' \in [Tabs -> Forms \cup {NoForm}] /\ FormOK(form'[t], page[t], cache[t])
         /\ \A u \in Tabs \ {t} : form'[u] = form[u]
  <1>1. PICK now \in SUBSET (Fields \cap Typed) :
           LET sent  == [f \in Fields |-> IF f \in now THEN New ELSE form[t].row[f]]
               typed == form[t].typed \cup now
           IN  /\ Send(s, [Request(t, "save", P, sent) EXCEPT !.typed = typed, !.shown = shown])
               /\ form' = [form EXCEPT ![t].row = sent, ![t].typed = typed]
    BY DEF SaveForm
  <1> DEFINE sent  == [f \in Fields |-> IF f \in now THEN New ELSE form[t].row[f]]
             typed == form[t].typed \cup now
             r     == [Request(t, "save", P, sent) EXCEPT !.typed = typed, !.shown = shown]
  <1>2. /\ form[t] \in Forms /\ form[t].base = shown /\ \A f \in Fields \ form[t].typed : form[t].row[f] = shown[f]
        /\ form[t].row \in Contents /\ form[t].typed \subseteq Fields
    BY DEF SaveForm, TabTypes, Forms, TabOK, FormOK
  <1>3. New \in Values
    <2>1. sends < MaxWrites
      BY <1>1 DEF Send
    <2> QED
      BY <2>1, NewValue
  <1>4. /\ sent \in Contents /\ typed \subseteq Fields
        /\ \A f \in Fields \ typed : sent[f] = shown[f]
    BY <1>2, <1>3 DEF Contents
  <1>5. /\ Send(s, r) /\ form' = [form EXCEPT ![t] = [form[t] EXCEPT !.row = sent, !.typed = typed]]
    BY <1>1 DEF TabTypes
  <1> HIDE DEF sent, typed
  <1>6. /\ r.tab = t /\ r.kind = "save" /\ r.refreshes = P /\ r.sets = sent /\ r.then = <<>>
        /\ r.at = "sent" /\ r.ver = 0 /\ r.typed = typed /\ r.shown = shown
        /\ r \in [tab : {t}, kind : {"save"}, refreshes : {P}, sets : {sent}, then : {<<>>}, at : {"sent"},
                  ver : {0}, typed : {typed}, shown : {shown}, seen : BOOLEAN]
    BY DEF Request
  <1> HIDE DEF r
  <1>7. sent \in Partial /\ shown \in Partial /\ <<>> \in Partial /\ typed \subseteq AllFields
        /\ DOMAIN sent = Fields
    <2>1. Fields \subseteq AllFields /\ \A g \in Contents : g \in Partial
      BY FieldsOfDesks DEF ServerInv
    <2> QED
      BY <1>4, <2>1, NoSets DEF Contents
  <1>8. r \in Requests
    <2>1. /\ t \in Tabs \cup {Api} /\ "save" \in Kinds /\ P \in SUBSET AllPages
          /\ typed \in SUBSET AllFields
      BY <1>7 DEF Kinds
    <2>2. r \in [tab : Tabs \cup {Api}, kind : Kinds, refreshes : SUBSET AllPages,
                sets : Partial, then : Partial, at : {"sent"}, ver : {0},
                typed : SUBSET AllFields, shown : Partial, seen : BOOLEAN]
      BY <1>6, <1>7, <2>1
    <2> QED
      BY <2>2 DEF Requests
  <1>9. RequestOK(r)
    BY <1>4, <1>6, <1>7, ServerNumbers DEF RequestOK
  <1>10. [form[t] EXCEPT !.row = sent, !.typed = typed] \in
            [base : {shown}, row : {sent}, typed : {typed}]
    BY <1>2 DEF Forms
  <1>11. PICK f \in [base : {shown}, row : {sent}, typed : {typed}] : form' = [form EXCEPT ![t] = f]
    BY <1>5, <1>10
  <1>12. f \in Forms /\ f.base = shown /\ f.row = sent /\ f.typed = typed
    BY <1>4, <1>11 DEF Forms
  <1>13. /\ form' \in [Tabs -> Forms \cup {NoForm}] /\ form'[t] = f
         /\ \A u \in Tabs \ {t} : form'[u] = form[u]
    BY <1>11, <1>12 DEF TabTypes
  <1>14. FormOK(f, page[t], cache[t])
    <2>1. desk = "task" => page[t] = "TaskDetail" /\ shown = cache[t]["TaskDetail"].data.row
      BY <1>2 DEF TabOK, FormOK, SaveForm
    <2> QED
      BY <1>4, <1>12, <2>1 DEF FormOK
  <1> QED
    BY <1>5, <1>6, <1>8, <1>9, <1>13, <1>14 DEF Sendable

\* What a page shows are rows of its desk.
LEMMA LoadedOK ==
  ASSUME ServerInv, TabTypes, NEW t \in Tabs, NEW p \in AllPages, Shows(t, p)
  PROVE  /\ p \in Here
         /\ Loaded(t, p) => cache[t][p].data \in Answers /\ Shown(t, p) \in Contents
  <1>1. p \in Here /\ p \in Pages
    BY PagesOfDesks DEF Shows, TabTypes, ServerInv
  <1>2. cache[t][p] \in Queries
    BY <1>1 DEF TabTypes
  <1>3. Loaded(t, p) => cache[t][p].data \in Answers
    BY <1>2 DEF Queries, Loaded
  <1>4. \A d \in Answers : d.row \in Contents
    BY AnswersAreData DEF Data, Contents
  <1> QED
    BY <1>1, <1>3, <1>4 DEF Shown

LEMMA DecideOK ==
  ASSUME ServerInv, TabTypes, NEW t \in Tabs, NEW s \in Slots, ReviewDetailPage(t, s)
  PROVE  \E r : Sendable(r) /\ Send(s, r)
  <1> DEFINE P == {"ReviewQueue", "ReviewDetail"}
             sets == [f \in {"status"} |-> New]
             r == Request(t, "decide", P, sets)
  <1>1. Loaded(t, "ReviewDetail") /\ Send(s, r)
    BY Keys DEF ReviewDetailPage
  <1>2. /\ desk \in Reviewing /\ Here \ Unnamed \subseteq P /\ P \cap Unnamed = {}
        /\ P \in SUBSET AllPages
    <2>1. "ReviewDetail" \in AllPages /\ P \subseteq AllPages
      BY PagesOfDesks DEF ServerInv
    <2>2. "ReviewDetail" \in Here
      BY <1>1, <2>1, LoadedOK DEF Loaded
    <2>3. desk \in Reviewing
      BY <2>2, PagesOfDesks DEF ServerInv
    <2>4. Here = {"ReviewQueue", "ReviewDetail"} \/ Here = {"ReviewDetail", "Dashboard"}
      BY <2>3, PagesOfDesks DEF ServerInv, Reviewing
    <2> QED
      BY <2>1, <2>3, <2>4, Keys
  <1>3. sets \in Partial /\ "status" \in DOMAIN sets /\ sets["status"] # 0
    <2>1. New \in Values /\ New # 0
      BY <1>1, NewValue, ServerNumbers DEF Send, New
    <2>2. {"status"} \in SUBSET AllFields
      BY FieldsOfDesks DEF ServerInv
    <2> QED
      BY <2>1, <2>2, OneValue
  <1> HIDE DEF P, sets
  <1>4. /\ r.tab = t /\ r.kind = "decide" /\ r.refreshes = P /\ r.sets = sets
        /\ r.at = "sent" /\ r.ver = 0
        /\ r \in [tab : {t}, kind : {"decide"}, refreshes : {P}, sets : {sets}, then : {<<>>},
                  at : {"sent"}, ver : {0}, typed : {{}}, shown : {<<>>}, seen : BOOLEAN]
    BY DEF Request
  <1> HIDE DEF r
  <1>5. r \in Requests
    <2>1. /\ t \in Tabs \cup {Api} /\ "decide" \in Kinds /\ P \in SUBSET AllPages
          /\ {} \in SUBSET AllFields /\ <<>> \in Partial
      BY <1>2, NoSets DEF Kinds
    <2>2. r \in [tab : Tabs \cup {Api}, kind : Kinds, refreshes : SUBSET AllPages,
                sets : Partial, then : Partial, at : {"sent"}, ver : {0},
                typed : SUBSET AllFields, shown : Partial, seen : BOOLEAN]
      BY <1>3, <1>4, <2>1
    <2> QED
      BY <2>2 DEF Requests
  <1>6. RequestOK(r)
    BY <1>2, <1>3, <1>4, ServerNumbers DEF RequestOK
  <1> QED
    BY <1>1, <1>4, <1>5, <1>6 DEF Sendable

\* The pages whose clicks leave every form alone.
LEMMA PlainClickOK ==
  ASSUME ServerInv, TabTypes, NEW t \in Tabs, NEW s \in Slots,
         MattersTab(t, s) \/ UsersTab(t, s) \/ AddRule(t, s) \/ DeleteRule(t, s)
            \/ PipelineMonitorPage(t, s)
  PROVE  \E r : Sendable(r) /\ Send(s, r)
  <1>1. {"Matters", "Users", "RoutingRules", "PipelineMonitor"} \subseteq AllPages
    BY PagesOfDesks DEF ServerInv
  <1>2. \A p \in {"Matters", "Users", "RoutingRules", "PipelineMonitor"} :
           Shows(t, p) => Here = {p} /\ desk \notin Reviewing
    <2> SUFFICES ASSUME NEW p \in {"Matters", "Users", "RoutingRules", "PipelineMonitor"}, Shows(t, p)
                 PROVE  Here = {p} /\ desk \notin Reviewing
      OBVIOUS
    <2>1. p \in Here
      BY <1>1, LoadedOK
    <2> QED
      BY <2>1, PagesOfDesks DEF ServerInv, Reviewing
  <1>3. {"add", "addRule", "deleteRule", "retry", "console_switch"} \subseteq Kinds \ {"save", "decide"}
    BY DEF Kinds, Switches
  <1>4. \A r \in RuleIds, v \in Values : [f \in {r} |-> v] \in Partial
    <2> SUFFICES ASSUME NEW r \in RuleIds, NEW v \in Values PROVE [f \in {r} |-> v] \in Partial
      OBVIOUS
    <2>1. {r} \in SUBSET AllFields
      BY FieldsOfDesks DEF ServerInv
    <2> QED
      BY <2>1, OneValue
  <1>5. ASSUME NEW k \in {"add", "addRule", "deleteRule", "retry", "console_switch"},
               NEW p \in {"Matters", "Users", "RoutingRules", "PipelineMonitor"}, Shows(t, p),
               NEW sets \in Partial
        PROVE  Sendable(Request(t, k, {p}, sets))
    <2>1. /\ Here \ Unnamed \subseteq {p} /\ {p} \cap Unnamed = {} /\ desk \notin Reviewing
          /\ {p} \in SUBSET AllPages /\ k \in Kinds /\ k \notin {"save", "decide"}
      BY <1>1, <1>2, <1>3, <1>5, Keys
    <2> QED
      BY <2>1, PlainRequest
  <1>6. CASE MattersTab(t, s)
    BY <1>5, <1>6, NoSets, Keys DEF MattersTab
  <1>7. CASE UsersTab(t, s)
    BY <1>5, <1>7, NoSets, Keys DEF UsersTab
  <1>8. CASE AddRule(t, s)
    <2>1. PICK r \in RuleIds : Send(s, Request(t, "addRule", {"RoutingRules"}, [f \in {r} |-> New]))
      BY <1>8, Keys DEF AddRule
    <2>2. New \in Values
      BY <2>1, NewValue DEF Send
    <2>3. Shows(t, "RoutingRules") /\ [f \in {r} |-> New] \in Partial
      BY <1>4, <1>8, <2>2 DEF AddRule
    <2> QED
      BY <1>5, <2>1, <2>3
  <1>9. CASE DeleteRule(t, s)
    <2>1. PICK r \in RuleIds : Send(s, Request(t, "deleteRule", {"RoutingRules"}, [f \in {r} |-> Gone]))
      BY <1>9, Keys DEF DeleteRule
    <2>2. Gone \in Values
      BY <2>1, NewValue DEF Send
    <2>3. Shows(t, "RoutingRules") /\ [f \in {r} |-> Gone] \in Partial
      BY <1>4, <1>9, <2>2 DEF DeleteRule, Loaded
    <2> QED
      BY <1>5, <2>1, <2>3
  <1>10. CASE PipelineMonitorPage(t, s)
    <2>1. PICK k \in {"retry", "console_switch"} : Send(s, Request(t, k, {"PipelineMonitor"}, <<>>))
      BY <1>10, Keys DEF PipelineMonitorPage
    <2>2. Shows(t, "PipelineMonitor")
      BY <1>10 DEF PipelineMonitorPage, Loaded
    <2> QED
      BY <1>5, <2>1, <2>2, NoSets
  <1> QED
    BY <1>6, <1>7, <1>8, <1>9, <1>10

LEMMA ApiSwitchOK ==
  ASSUME ServerInv, NEW s \in Slots, ApiSwitch(s)
  PROVE  \E r : Sendable(r) /\ Send(s, r)
  <1>1. PICK k \in Switches :
          LET v == IF k = "pause" THEN 1 ELSE 0
          IN  Send(s, [Request(Api, k, {}, [f \in {"flag"} |-> v])
                          EXCEPT !.then = [f \in {"queue"} |-> v]])
    BY DEF ApiSwitch
  <1> DEFINE v == IF k = "pause" THEN 1 ELSE 0
             flag == [f \in {"flag"} |-> v]
             queue == [f \in {"queue"} |-> v]
             r == [Request(Api, k, {}, flag) EXCEPT !.then = queue]
  <1>2. Send(s, r)
    BY <1>1
  <1>3. flag \in Partial /\ queue \in Partial
    <2>1. v \in Values
      BY <1>2, NewValue DEF Send
    <2>2. {"flag"} \in SUBSET AllFields /\ {"queue"} \in SUBSET AllFields
      BY FieldsOfDesks DEF ServerInv
    <2> HIDE DEF v
    <2> QED
      BY <2>1, <2>2, OneValue
  <1> HIDE DEF flag, queue
  <1>4. /\ r.tab = Api /\ r.kind = k /\ r.at = "sent" /\ r.ver = 0
        /\ r \in [tab : {Api}, kind : {k}, refreshes : {{}}, sets : {flag}, then : {queue},
                  at : {"sent"}, ver : {0}, typed : {{}}, shown : {<<>>}, seen : BOOLEAN]
    BY DEF Request
  <1> HIDE DEF r
  <1>5. r \in Requests
    <2>1. /\ k \in Kinds /\ {} \in SUBSET AllPages /\ {} \in SUBSET AllFields /\ <<>> \in Partial
      BY NoSets DEF Kinds
    <2>2. r \in [tab : Tabs \cup {Api}, kind : Kinds, refreshes : SUBSET AllPages,
                sets : Partial, then : Partial, at : {"sent"}, ver : {0},
                typed : SUBSET AllFields, shown : Partial, seen : BOOLEAN]
      BY <1>3, <1>4, <2>1
    <2> QED
      BY <2>2 DEF Requests
  <1>6. RequestOK(r)
    BY <1>4, ServerNumbers DEF RequestOK, Switches, Reviewing, ApiSwitch
  <1> QED
    BY <1>2, <1>4, <1>5, <1>6 DEF Sendable

-----------------------------------------------------------------------------
(* The steps *)

\* One tab takes a step; commits that others have made do not age its pages.
LEMMA TabStep ==
  ASSUME DeskInv, ServerInv', desk' = desk, ver' >= ver, NEW t \in Tabs,
         page' \in [Tabs -> Here \cup {Away}], cache' \in [Tabs -> [Pages -> Queries]],
         form' \in [Tabs -> Forms \cup {NoForm}], told' \in [Tabs -> 0 .. ver'],
         \A u \in Tabs \ {t} : /\ page'[u] = page[u] /\ cache'[u] = cache[u]
                               /\ form'[u] = form[u] /\ told'[u] = told[u],
         \A p \in Here : Fresh(cache'[t][p], Due(p, told'[t])),
         FormOK(form'[t], page'[t], cache'[t])
  PROVE  DeskInv'
  <1>1. /\ Here' = Here /\ Fields' = Fields /\ Answers' = Answers /\ Queries' = Queries /\ Forms' = Forms
    BY SameDesk
  <1>2. TabTypes'
    BY <1>1 DEF TabTypes
  <1>3. ASSUME NEW u \in Tabs, u # t PROVE TabOK(u)'
    <2>1. /\ TabOK(u) /\ page'[u] = page[u] /\ cache'[u] = cache[u]
          /\ form'[u] = form[u] /\ told'[u] = told[u]
      BY <1>3 DEF DeskInv
    <2> QED
      BY <1>1, <2>1 DEF TabOK, Fresh, FormOK
  <1>4. TabOK(t)'
    BY <1>1 DEF TabOK, Fresh, FormOK
  <1> QED
    BY <1>2, <1>3, <1>4 DEF DeskInv

\* No tab takes a step.
LEMMA TabsCalm ==
  ASSUME DeskInv, ServerInv', desk' = desk, ver' >= ver, UNCHANGED <<page, cache, form, told>>
  PROVE  DeskInv'
  <1>1. /\ Here' = Here /\ Fields' = Fields /\ Answers' = Answers /\ Queries' = Queries /\ Forms' = Forms
    BY SameDesk
  <1>2. TabTypes'
    <2>1. told \in [Tabs -> 0 .. ver']
      <3>1. ver \in Nat /\ ver' \in Nat
        BY WritesAssumption DEF DeskInv, ServerInv
      <3>2. 0 .. ver \subseteq 0 .. ver'
        BY <3>1
      <3> QED
        BY <3>2 DEF DeskInv, TabTypes
    <2> QED
      BY <1>1, <2>1 DEF DeskInv, TabTypes
  <1>3. ASSUME NEW u \in Tabs PROVE TabOK(u)'
    BY <1>1 DEF DeskInv, TabOK, Fresh, FormOK
  <1> QED
    BY <1>2, <1>3 DEF DeskInv

\* A click: a request is sent, and the form may change.
LEMMA ClickOK ==
  ASSUME DeskInv, NEW t \in Tabs, NEW s \in Slots, Click(t, s), UNCHANGED <<clientVars, told>>
  PROVE  DeskInv'
  <1>1. ServerInv /\ TabTypes /\ TabOK(t) /\ UNCHANGED <<page, cache, told>>
    BY DEF DeskInv, clientVars
  <1>2. ASSUME NEW r, Sendable(r), Send(s, r) PROVE ServerInv' /\ desk' = desk /\ ver' >= ver /\ ver' = ver
    BY <1>1, <1>2, SendOK, ServerNumbers
  <1>3. ASSUME \E r : Sendable(r) /\ Send(s, r), UNCHANGED form PROVE DeskInv'
    BY <1>1, <1>2, <1>3, TabsCalm
  <1>4. ASSUME NEW P \in SUBSET AllPages, NEW shown \in Contents, Here \ Unnamed \subseteq P,
               P \cap Unnamed = {}, desk \notin Reviewing, shown = form[t].base, SaveForm(t, s, P, shown)
        PROVE  DeskInv'
    <2>1. /\ \E r : Sendable(r) /\ Send(s, r)
          /\ form' \in [Tabs -> Forms \cup {NoForm}] /\ FormOK(form'[t], page[t], cache[t])
          /\ \A u \in Tabs \ {t} : form'[u] = form[u]
      BY <1>1, <1>4, SaveFormOK
    <2>2. ServerInv' /\ desk' = desk /\ ver' >= ver /\ ver' = ver
      BY <1>2, <2>1
    <2>3. /\ page' \in [Tabs -> Here \cup {Away}] /\ cache' \in [Tabs -> [Pages -> Queries]]
          /\ told' \in [Tabs -> 0 .. ver']
      BY <1>1, <2>2 DEF TabTypes
    <2>4. (\A p \in Here : Fresh(cache'[t][p], Due(p, told'[t]))) /\ FormOK(form'[t], page'[t], cache'[t])
      BY <1>1, <2>1 DEF TabOK
    <2>5. \A u \in Tabs \ {t} : /\ page'[u] = page[u] /\ cache'[u] = cache[u]
                                /\ form'[u] = form[u] /\ told'[u] = told[u]
      BY <1>1, <2>1
    <2> QED
      BY <2>1, <2>2, <2>3, <2>4, <2>5, TabStep
  <1>5. form[t] # NoForm => form[t].base \in Contents
    BY <1>1 DEF TabTypes, Forms
  <1>6. CASE TaskDetailPage(t, s)
    <2>1. /\ {"TaskDetail", "TaskList"} \subseteq AllPages
      BY <1>1, PagesOfDesks DEF ServerInv
    <2>2. Loaded(t, "TaskDetail") /\ form[t] # NoForm
      BY <1>6 DEF TaskDetailPage, SaveForm
    <2>3. "TaskDetail" \in Here
      BY <1>1, <2>1, <2>2, LoadedOK DEF Loaded
    <2>4. desk = "task" /\ Here \subseteq {"TaskDetail", "TaskList"}
      BY <1>1, <2>3, PagesOfDesks DEF ServerInv
    <2>5. Shown(t, "TaskDetail") = form[t].base
      BY <1>1, <2>2, <2>4 DEF TabOK, FormOK, Shown
    <2>6. SaveForm(t, s, {"TaskDetail", "TaskList"}, form[t].base)
      BY <1>6, <2>5, Keys DEF TaskDetailPage
    <2>7. Here \ Unnamed \subseteq {"TaskDetail", "TaskList"}
          /\ {"TaskDetail", "TaskList"} \cap Unnamed = {} /\ desk \notin Reviewing
      BY <2>4, Keys DEF Reviewing
    <2> QED
      BY <1>4, <1>5, <2>1, <2>2, <2>6, <2>7
  <1>7. CASE EditMatterDialog(t, s)
    <2>1. form[t] # NoForm /\ Shows(t, "Matters") /\ SaveForm(t, s, {"Matters"}, form[t].base)
      BY <1>7, Keys DEF EditMatterDialog, SaveForm
    <2>2. "Matters" \in AllPages
      BY <1>1, PagesOfDesks DEF ServerInv
    <2>3. Here \ Unnamed \subseteq {"Matters"} /\ {"Matters"} \cap Unnamed = {} /\ desk \notin Reviewing
      BY <1>1, <2>1, <2>2, LoadedOK, PagesOfDesks, Keys DEF ServerInv, Reviewing
    <2> QED
      BY <1>4, <1>5, <2>1, <2>2, <2>3
  <1>8. CASE EditUserDialog(t, s)
    <2>1. form[t] # NoForm /\ Shows(t, "Users") /\ SaveForm(t, s, {"Users"}, form[t].base)
      BY <1>8, Keys DEF EditUserDialog, SaveForm
    <2>2. "Users" \in AllPages
      BY <1>1, PagesOfDesks DEF ServerInv
    <2>3. Here \ Unnamed \subseteq {"Users"} /\ {"Users"} \cap Unnamed = {} /\ desk \notin Reviewing
      BY <1>1, <2>1, <2>2, LoadedOK, PagesOfDesks, Keys DEF ServerInv, Reviewing
    <2> QED
      BY <1>4, <1>5, <2>1, <2>2, <2>3
  <1>9. CASE ReviewDetailPage(t, s)
    BY <1>1, <1>3, <1>9, DecideOK DEF ReviewDetailPage
  <1>10. CASE MattersTab(t, s) \/ UsersTab(t, s) \/ AddRule(t, s) \/ DeleteRule(t, s)
                \/ PipelineMonitorPage(t, s)
    <2>1. UNCHANGED form
      BY <1>10 DEF MattersTab, UsersTab, AddRule, DeleteRule, PipelineMonitorPage
    <2> QED
      BY <1>1, <1>3, <1>10, <2>1, PlainClickOK
  <1> QED
    BY <1>6, <1>7, <1>8, <1>9, <1>10 DEF Click

\* A dialog opens on the listed row, or closes.
LEMMA DialogOK ==
  ASSUME DeskInv, NEW t \in Tabs, CloseDialog(t) \/ \E p \in Here : OpenDialog(t, p)
  PROVE  DeskInv'
  <1>1. ServerInv /\ TabTypes /\ TabOK(t) /\ UNCHANGED <<page, cache, told, desk, ver>> /\ ver' >= ver
    <2>1. UNCHANGED <<page, cache, told, desk, ver>>
      BY DEF CloseDialog, OpenDialog, clientVars, serverVars
    <2> QED
      BY <2>1, ServerNumbers DEF DeskInv
  <1>2. ServerInv'
    <2>1. UNCHANGED serverVars /\ faults \in 0 .. MaxFaults
      BY <1>1 DEF CloseDialog, OpenDialog, ServerInv
    <2> QED
      BY <1>1, <2>1, ServerCalm DEF serverVars
  <1>3. /\ form' \in [Tabs -> Forms \cup {NoForm}] /\ FormOK(form'[t], page[t], cache[t])
        /\ \A u \in Tabs \ {t} : form'[u] = form[u]
    <2>1. CASE CloseDialog(t)
      BY <1>1, <2>1 DEF CloseDialog, TabTypes, FormOK
    <2>2. ASSUME NEW p \in Here, OpenDialog(t, p)
          PROVE  /\ form' \in [Tabs -> Forms \cup {NoForm}] /\ FormOK(form'[t], page[t], cache[t])
                 /\ \A u \in Tabs \ {t} : form'[u] = form[u]
      <3>1. p \in AllPages /\ desk # "task"
        BY <1>1, <2>2, PagesOfDesks DEF ServerInv, OpenDialog
      <3>2. Shown(t, p) \in Contents
        BY <1>1, <2>2, <3>1, LoadedOK DEF OpenDialog, Loaded
      <3>3. PICK c \in Contents : form' = [form EXCEPT ![t] = Form(c)]
        BY <2>2, <3>2 DEF OpenDialog
      <3>4. Form(c) \in Forms /\ Form(c).row = Form(c).base
        BY DEF Form, Forms
      <3> QED
        BY <1>1, <3>1, <3>3, <3>4 DEF TabTypes, FormOK
    <2> QED
      BY <2>1, <2>2
  <1>4. /\ page' \in [Tabs -> Here \cup {Away}] /\ cache' \in [Tabs -> [Pages -> Queries]]
        /\ told' \in [Tabs -> 0 .. ver']
    BY <1>1 DEF TabTypes
  <1>5. (\A p \in Here : Fresh(cache'[t][p], Due(p, told'[t]))) /\ FormOK(form'[t], page'[t], cache'[t])
    BY <1>1, <1>3 DEF TabOK
  <1>6. \A u \in Tabs \ {t} : /\ page'[u] = page[u] /\ cache'[u] = cache[u]
                              /\ form'[u] = form[u] /\ told'[u] = told[u]
    BY <1>1, <1>3
  <1> QED
    BY <1>1, <1>2, <1>3, <1>4, <1>5, <1>6, TabStep

\* One query of a tab moves on.
LEMMA PutOK ==
  ASSUME DeskInv, NEW t \in Tabs, NEW p \in Here, NEW e \in Queries, Put(t, p, e), Fresh(e, Due(p, told[t]))
  PROVE  /\ cache' \in [Tabs -> [Pages -> Queries]] /\ cache'[t][p] = e
         /\ \A q \in Here : q # p => cache'[t][q] = cache[t][q]
         /\ \A u \in Tabs \ {t} : cache'[u] = cache[u]
         /\ \A q \in Here : Fresh(cache'[t][q], Due(q, told[t]))
  <1>1. p \in Pages /\ Here \subseteq Pages
    BY PagesOfDesks DEF DeskInv, ServerInv
  <1>2. cache \in [Tabs -> [Pages -> Queries]] /\ \A q \in Here : Fresh(cache[t][q], Due(q, told[t]))
    BY DEF DeskInv, TabTypes, TabOK
  <1>3. cache' = [cache EXCEPT ![t] = [cache[t] EXCEPT ![p] = e]]
    BY <1>2 DEF Put
  <1>4. [cache[t] EXCEPT ![p] = e] \in [Pages -> Queries]
    BY <1>2
  <1>5. PICK c \in [Pages -> Queries] : /\ cache' = [cache EXCEPT ![t] = c] /\ c[p] = e
                                        /\ \A q \in Here : q # p => c[q] = cache[t][q]
    BY <1>1, <1>2, <1>3, <1>4
  <1>6. /\ cache' \in [Tabs -> [Pages -> Queries]] /\ cache'[t] = c
        /\ \A u \in Tabs \ {t} : cache'[u] = cache[u]
    BY <1>2, <1>5
  <1>7. ASSUME NEW q \in Here PROVE Fresh(cache'[t][q], Due(q, told[t]))
    <2>1. CASE q = p
      BY <1>5, <1>6, <2>1
    <2>2. CASE q # p
      BY <1>2, <1>5, <1>6, <2>2
    <2> QED
      BY <2>1, <2>2
  <1> QED
    BY <1>5, <1>6, <1>7

\* What a fetch does to the page: asked, read, failed, it leaves the data; received,
\* it fills the form of the task that is shown.
LEMMA FetchStep ==
  ASSUME DeskInv, NEW t \in Tabs, NEW p \in Here, NEW e \in Queries, Put(t, p, e), Fresh(e, Due(p, told[t])),
         UNCHANGED <<page, told, desk, row, ver, req, sends, lone>>, faults' \in 0 .. MaxFaults,
         \/ e.data = cache[t][p].data /\ form' = form
         \/ /\ e.data = cache[t][p].got /\ e.data \in Answers
            /\ form' = [form EXCEPT ![t] =
                  IF p = "TaskDetail" /\ Shows(t, p) /\ cache[t][p].got # cache[t][p].data
                  THEN Form(cache[t][p].got.row) ELSE @]
  PROVE  DeskInv'
  <1>1. /\ cache' \in [Tabs -> [Pages -> Queries]] /\ cache'[t][p] = e
        /\ \A q \in Here : q # p => cache'[t][q] = cache[t][q]
        /\ \A u \in Tabs \ {t} : cache'[u] = cache[u]
        /\ \A q \in Here : Fresh(cache'[t][q], Due(q, told'[t]))
    BY PutOK
  <1>2. ServerInv' /\ ver' >= ver /\ ver \in Nat
    BY ServerCalm, ServerNumbers DEF DeskInv
  <1>3. TabTypes /\ TabOK(t) /\ (desk = "task" => "TaskDetail" \in Here)
    BY PagesOfDesks DEF DeskInv, ServerInv
  <1>4. ASSUME e.data = cache[t][p].data PROVE FormOK(form[t], page[t], cache'[t])
    <2>1. desk = "task" => cache'[t]["TaskDetail"].data = cache[t]["TaskDetail"].data
      BY <1>1, <1>3, <1>4
    <2> QED
      BY <1>3, <2>1 DEF TabOK, FormOK
  <1>5. /\ form' \in [Tabs -> Forms \cup {NoForm}] /\ FormOK(form'[t], page[t], cache'[t])
        /\ \A u \in Tabs \ {t} : form'[u] = form[u]
    <2>1. CASE e.data = cache[t][p].data /\ form' = form
      BY <1>3, <1>4, <2>1 DEF TabTypes
    <2>2. CASE /\ e.data = cache[t][p].got /\ e.data \in Answers
               /\ form' = [form EXCEPT ![t] =
                     IF p = "TaskDetail" /\ Shows(t, p) /\ cache[t][p].got # cache[t][p].data
                     THEN Form(cache[t][p].got.row) ELSE @]
      <3>1. CASE p = "TaskDetail" /\ Shows(t, p) /\ cache[t][p].got # cache[t][p].data
        <4>1. e.data.row \in Contents
          BY <2>2, AnswersAreData DEF Data, Contents
        <4>2. PICK c \in Contents : c = e.data.row /\ form' = [form EXCEPT ![t] = Form(c)]
          BY <2>2, <3>1, <4>1
        <4>3. Form(c) \in Forms /\ Form(c).row = Form(c).base /\ Form(c).base = c
          BY DEF Form, Forms
        <4>4. /\ form' \in [Tabs -> Forms \cup {NoForm}] /\ form'[t] = Form(c)
              /\ \A u \in Tabs \ {t} : form'[u] = form[u]
          BY <1>3, <4>2, <4>3 DEF TabTypes
        <4>5. page[t] = "TaskDetail" /\ c = cache'[t]["TaskDetail"].data.row
          BY <1>1, <3>1, <4>2 DEF Shows
        <4> QED
          BY <4>3, <4>4, <4>5 DEF FormOK
      <3>2. CASE ~(p = "TaskDetail" /\ Shows(t, p) /\ cache[t][p].got # cache[t][p].data)
        <4>1. form' = form
          BY <1>3, <2>2, <3>2 DEF TabTypes
        <4>2. CASE e.data = cache[t][p].data
          BY <1>3, <1>4, <4>1, <4>2 DEF TabTypes
        <4>3. CASE p # "TaskDetail"
          <5>1. desk = "task" => cache'[t]["TaskDetail"] = cache[t]["TaskDetail"]
            BY <1>1, <1>3, <4>3
          <5> QED
            BY <1>3, <4>1, <5>1 DEF TabOK, FormOK, TabTypes
        <4>4. CASE p = "TaskDetail" /\ ~Shows(t, p)
          BY <1>3, <4>1, <4>4, PagesOfDesks DEF TabOK, FormOK, TabTypes, Shows, DeskInv, ServerInv
        <4> QED
          BY <2>2, <3>2, <4>2, <4>3, <4>4
      <3> QED
        BY <3>1, <3>2
    <2> QED
      BY <2>1, <2>2
  <1>6. page' \in [Tabs -> Here \cup {Away}] /\ told' \in [Tabs -> 0 .. ver']
    BY <1>3 DEF TabTypes
  <1>7. FormOK(form'[t], page'[t], cache'[t])
    BY <1>5
  <1>8. \A u \in Tabs \ {t} : /\ page'[u] = page[u] /\ cache'[u] = cache[u]
                              /\ form'[u] = form[u] /\ told'[u] = told[u]
    BY <1>1, <1>5
  <1> QED
    BY <1>1, <1>2, <1>5, <1>6, <1>7, <1>8, TabStep

LEMMA FetchesOK ==
  ASSUME DeskInv, NEW t \in Tabs, NEW p \in Here,
         Read(t, p) \/ Arrive(t, p) \/ Polls(t, p) \/ Online(t, p) \/ LoseFetch(t, p)
  PROVE  DeskInv'
  <1> DEFINE e == cache[t][p]
  <1>1. /\ e \in Queries /\ Due(p, told[t]) \in Nat /\ Fresh(e, Due(p, told[t])) /\ Due(p, told[t]) <= ver
    <2>1. e \in Queries /\ told[t] \in Nat /\ Fresh(e, Due(p, told[t])) /\ told[t] <= ver /\ ver \in Nat
      BY PagesOfDesks, ServerNumbers DEF DeskInv, ServerInv, TabTypes, TabOK
    <2> QED
      BY <2>1, DueOK
  <1>2. faults \in 0 .. MaxFaults /\ faults \in Nat /\ MaxFaults \in Nat
    BY ServerNumbers DEF DeskInv, ServerInv
  <1>3. CASE Read(t, p)
    <2>1. Snapshot \in Answers /\ Snapshot.ver = ver
      BY DEF DeskInv, ServerInv, Snapshot, Data, Contents, Answers
    <2> DEFINE new == [e EXCEPT !.fetch = "read", !.got = Snapshot]
    <2>2. new \in Queries /\ Fresh(new, Due(p, told[t])) /\ new.data = e.data
      BY <1>1, <2>1, ReadOK
    <2>3. /\ Put(t, p, new) /\ UNCHANGED <<page, told, desk, row, ver, req, sends, lone, faults, form>>
      BY <1>3 DEF Read, ServerReads, serverVars
    <2> HIDE DEF new, e
    <2> QED
      BY <1>2, <2>2, <2>3, FetchStep DEF e
  <1>4. CASE Arrive(t, p)
    <2> DEFINE new == [Empty EXCEPT !.data = e.got, !.raced = e.late]
    <2>1. e.fetch = "read"
      BY <1>4 DEF Arrive, Receive
    <2>2. new \in Queries /\ Fresh(new, Due(p, told[t])) /\ new.data = e.got /\ e.got \in Answers
      BY <1>1, <2>1, ReceiveOK
    <2>3. /\ Put(t, p, new) /\ UNCHANGED <<page, told, desk, row, ver, req, sends, lone, faults>>
          /\ Refill(t, p)
      BY <1>4 DEF Arrive, Receive, serverVars
    <2> HIDE DEF new, e
    <2> QED
      BY <1>2, <2>2, <2>3, FetchStep DEF e, Refill
  <1>5. CASE Polls(t, p) \/ Online(t, p)
    <2>1. Fetch(e) \in Queries /\ Fresh(Fetch(e), Due(p, told[t])) /\ Fetch(e).data = e.data
      BY <1>1, FetchOK
    <2>2. /\ Put(t, p, Fetch(e)) /\ UNCHANGED <<page, told, desk, row, ver, req, sends, lone, faults, form>>
      BY <1>5 DEF Polls, Online, Poll, Reconnect, serverVars
    <2> HIDE DEF e
    <2> QED
      BY <1>2, <2>1, <2>2, FetchStep DEF e
  <1>6. CASE LoseFetch(t, p)
    <2> DEFINE new == [e EXCEPT !.fetch = "none", !.got = NoData, !.late = FALSE,
                                !.invalid = (e.data # NoData), !.failed = (e.data # NoData)]
    <2>1. new \in Queries /\ Fresh(new, Due(p, told[t])) /\ new.data = e.data
      BY <1>1, FailOK
    <2>2. /\ Put(t, p, new) /\ UNCHANGED <<page, told, desk, row, ver, req, sends, lone, form>>
          /\ faults' \in 0 .. MaxFaults
      BY <1>2, <1>6 DEF LoseFetch, FetchFails
    <2> HIDE DEF new, e
    <2> QED
      BY <2>1, <2>2, FetchStep DEF e
  <1> QED
    BY <1>3, <1>4, <1>5, <1>6

\* A page that is left: its requests go on unseen.
LEMMA UnseenOK ==
  ASSUME ServerInv, NEW t, UNCHANGED <<desk, row, ver, sends, faults, lone>>,
         req' = [s \in Slots |-> IF Open(s) /\ req[s].tab = t
                                 THEN [req[s] EXCEPT !.seen = FALSE] ELSE req[s]]
  PROVE  ServerInv'
  <1>1. \A s \in Slots : Open(s) => req[s] \in Requests /\ RequestOK(req[s])
    BY ServerNumbers DEF ServerInv
  <1>2. \A q \in Requests : LET n == [q EXCEPT !.seen = FALSE]
                            IN  /\ n \in Requests /\ n.at = q.at /\ n.ver = q.ver /\ n.tab = q.tab
                                /\ n.refreshes = q.refreshes /\ n.kind = q.kind
                                /\ n.shown = q.shown /\ n.sets = q.sets /\ n.typed = q.typed
    BY DEF Requests
  <1>3. ASSUME NEW s \in Slots
        PROVE  /\ req'[s] \in Requests \cup {NoRequest}
               /\ Open(s)' => /\ Open(s) /\ req'[s].at = req[s].at /\ req'[s].ver = req[s].ver
                              /\ req'[s].tab = req[s].tab /\ req'[s].refreshes = req[s].refreshes
                              /\ req'[s].kind = req[s].kind /\ req'[s].shown = req[s].shown
                              /\ req'[s].sets = req[s].sets /\ req'[s].typed = req[s].typed
    <2>1. CASE Open(s) /\ req[s].tab = t
      <3>1. req'[s] = [req[s] EXCEPT !.seen = FALSE] /\ req[s] \in Requests
        BY <1>1, <2>1
      <3> QED
        BY <1>2, <2>1, <3>1
    <2>2. CASE ~(Open(s) /\ req[s].tab = t)
      <3>1. req'[s] = req[s]
        BY <2>2
      <3> QED
        BY <3>1 DEF Open, ServerInv
    <2> QED
      BY <2>1, <2>2
  <1>4. req' \in [Slots -> Requests \cup {NoRequest}]
    <2>1. \A s \in Slots : req'[s] \in Requests \cup {NoRequest}
      BY <1>3
    <2> QED
      BY <2>1
  <1>5. Contents' = Contents /\ Here' = Here /\ Fields' = Fields
    BY SameDesk
  <1>6. \A s \in Slots : Open(s)' => RequestOK(req[s])'
    <2> SUFFICES ASSUME NEW s \in Slots, Open(s)' PROVE RequestOK(req[s])'
      OBVIOUS
    <2>1. /\ RequestOK(req[s]) /\ req'[s].ver = req[s].ver
          /\ req'[s].tab = req[s].tab /\ req'[s].refreshes = req[s].refreshes
          /\ req'[s].kind = req[s].kind /\ req'[s].shown = req[s].shown
          /\ req'[s].sets = req[s].sets /\ req'[s].typed = req[s].typed
      BY <1>1, <1>3
    <2> QED
      BY <1>5, <2>1 DEF RequestOK
  <1>7. ver' + Cardinality(Unwritten') <= sends'
    <2>1. Unwritten' \subseteq Unwritten
      BY <1>3 DEF Unwritten
    <2>2. /\ ver \in Nat /\ sends \in Nat /\ IsFiniteSet(Unwritten) /\ Cardinality(Unwritten) \in Nat
          /\ ver + Cardinality(Unwritten) <= sends
      BY ServerNumbers DEF ServerInv
    <2>3. Cardinality(Unwritten') <= Cardinality(Unwritten) /\ Cardinality(Unwritten') \in Nat
      BY <2>1, <2>2, FS_Subset, FS_CardinalityType
    <2> QED
      BY <2>2, <2>3
  <1>8. Honest(Snapshot)'
    BY StillHonest
  <1> QED
    BY <1>4, <1>5, <1>6, <1>7, <1>8 DEF ServerInv

\* Another page is visited.
LEMMA GoOK ==
  ASSUME DeskInv, NEW t \in Tabs, NEW p \in Stops, Go(t, p)
  PROVE  DeskInv'
  <1>1. p \in Here \cup {Away}
    BY DEF Stops
  <1>2. /\ ServerInv /\ TabTypes /\ TabOK(t) /\ UNCHANGED <<desk, ver, told>> /\ ver' >= ver
        /\ Here \subseteq Pages /\ Away # "TaskDetail" /\ Away \notin Here
        /\ "TaskDetail" \in Here \cup {Away} => desk = "task"
        /\ desk = "task" => "TaskDetail" \in Here
    BY PagesOfDesks, ServerNumbers DEF DeskInv, ServerInv, Go
  <1>3. ServerInv'
    BY <1>2, UnseenOK DEF Go
  <1>4. page' = [page EXCEPT ![t] = p]
    BY DEF Go, Visit
  <1>5. /\ cache' \in [Tabs -> [Pages -> Queries]]
        /\ \A u \in Tabs \ {t} : cache'[u] = cache[u]
        /\ \A q \in Here : Fresh(cache'[t][q], Due(q, told[t]))
        /\ p \in Here => cache'[t][p].data = cache[t][p].data
    <2>1. CASE p = Away
      BY <1>2, <2>1 DEF Go, Visit, TabTypes, TabOK
    <2>2. CASE p # Away
      <3>1. p \in Here
        BY <1>1, <2>2
      <3>2. PICK aged \in BOOLEAN : Put(t, p, Mount(cache[t][p], aged))
        BY <2>2 DEF Go, Visit
      <3>3. /\ cache[t][p] \in Queries /\ Due(p, told[t]) \in Nat
            /\ Fresh(cache[t][p], Due(p, told[t]))
        BY <1>2, <3>1, ServerNumbers, DueOK DEF TabTypes, TabOK
      <3>4. PICK e \in Queries : e = Mount(cache[t][p], aged) /\ Fresh(e, Due(p, told[t]))
                                 /\ e.data = cache[t][p].data
        BY <3>3, MountOK
      <3>5. Put(t, p, e)
        BY <3>2, <3>4
      <3> QED
        BY <3>1, <3>4, <3>5, PutOK
    <2> QED
      BY <2>1, <2>2
  <1>6. /\ form' \in [Tabs -> Forms \cup {NoForm}] /\ FormOK(form'[t], p, cache'[t])
        /\ \A u \in Tabs \ {t} : form'[u] = form[u]
    <2>1. CASE p = "TaskDetail" /\ cache[t][p].data # NoData
      <3>1. p \in Here /\ cache[t][p] \in Queries
        BY <1>1, <1>2, <2>1 DEF TabTypes
      <3>2. cache[t][p].data \in Data
        BY <2>1, <3>1, AnswersAreData DEF Queries
      <3>3. Shown(t, p) \in Contents
        BY <3>2 DEF Data, Contents, Shown
      <3>4. PICK c \in Contents : c = cache[t][p].data.row /\ form' = [form EXCEPT ![t] = Form(c)]
        BY <2>1, <3>3 DEF Go, Shown
      <3>5. Form(c) \in Forms /\ Form(c).row = Form(c).base /\ Form(c).base = c
        BY DEF Form, Forms
      <3>6. c = cache'[t]["TaskDetail"].data.row
        BY <1>5, <2>1, <3>1, <3>4
      <3> QED
        BY <1>2, <2>1, <3>4, <3>5, <3>6 DEF TabTypes, FormOK
    <2>2. CASE ~(p = "TaskDetail" /\ cache[t][p].data # NoData)
      <3>1. form' = [form EXCEPT ![t] = NoForm]
        BY <2>2 DEF Go
      <3> QED
        BY <1>2, <3>1 DEF TabTypes, FormOK
    <2> QED
      BY <2>1, <2>2
  <1>7. /\ page' \in [Tabs -> Here \cup {Away}] /\ page'[t] = p
        /\ \A u \in Tabs \ {t} : page'[u] = page[u]
    BY <1>1, <1>2, <1>4 DEF TabTypes
  <1>8. told' \in [Tabs -> 0 .. ver'] /\ \A u \in Tabs : told'[u] = told[u]
    BY <1>2 DEF TabTypes
  <1>9. (\A q \in Here : Fresh(cache'[t][q], Due(q, told'[t]))) /\ FormOK(form'[t], page'[t], cache'[t])
    BY <1>5, <1>6, <1>7, <1>8
  <1>10. \A u \in Tabs \ {t} : /\ page'[u] = page[u] /\ cache'[u] = cache[u]
                               /\ form'[u] = form[u] /\ told'[u] = told[u]
    BY <1>5, <1>6, <1>7, <1>8
  <1> QED
    BY <1>2, <1>3, <1>5, <1>6, <1>7, <1>8, <1>9, <1>10, TabStep

\* All queries of the desk are invalidated by an answer, and a page that is landed on
\* is mounted.
LEMMA RefreshedOK ==
  ASSUME DeskInv, NEW s \in Slots, Open(s), NEW t \in Tabs, req[s].tab = t, t # Api, NEW n \in Nat
  PROVE  /\ Refreshed(t, req[s]) \in [Pages -> Queries]
         /\ \A p \in Here : /\ Fresh(Refreshed(t, req[s])[p], Due(p, n))
                            /\ Refreshed(t, req[s])[p].data = cache[t][p].data
         /\ Landing(t, req[s].kind) \in Here \cup {Away}
         /\ desk = "task" => Landing(t, req[s].kind) = page[t]
  <1> DEFINE q    == req[s]
             land == Landing(t, q.kind)
             new  == [p \in Pages |-> IF p \in q.refreshes THEN Invalidate(cache[t][p], Shows(t, p))
                                      ELSE cache[t][p]]
  <1>1. /\ RequestOK(q) /\ Here \ Unnamed \subseteq q.refreshes /\ q.refreshes \cap Unnamed = {}
        /\ Here \subseteq Pages /\ q \in Requests
        /\ q.refreshes \subseteq AllPages /\ cache[t] \in [Pages -> Queries]
        /\ page[t] \in Here \cup {Away} /\ Here \subseteq AllPages /\ Away \notin Here
    BY PagesOfDesks, ServerNumbers DEF DeskInv, ServerInv, RequestOK, TabTypes, Requests
  <1>2. land = page[t] \/ (q.kind = "decide" /\ land \in Here \cup {Away})
    BY DEF Landing
  <1>3. q.kind = "decide" => desk # "task"
    BY <1>1 DEF RequestOK, Reviewing
  <1>4. land \in Here \cup {Away} /\ (desk = "task" => land = page[t])
    BY <1>1, <1>2, <1>3
  <1>5. ASSUME NEW p \in Here
        PROVE  /\ cache[t][p] \in Queries /\ Fresh(cache[t][p], Due(p, told[t]))
               /\ Invalidate(cache[t][p], Shows(t, p)) \in Queries
               /\ Fresh(Invalidate(cache[t][p], Shows(t, p)), n)
               /\ Invalidate(cache[t][p], Shows(t, p)).data = cache[t][p].data
    <2>1. cache[t][p] \in Queries /\ Fresh(cache[t][p], Due(p, told[t])) /\ Due(p, told[t]) \in Nat
      BY <1>1, ServerNumbers, DueOK DEF DeskInv, TabOK, TabTypes
    <2>2. Shows(t, p) \in BOOLEAN
      BY DEF Shows
    <2> QED
      BY <2>1, <2>2, InvalidateOK
  <1>6. /\ new \in [Pages -> Queries]
        /\ \A p \in Here : new[p] = IF p \in q.refreshes THEN Invalidate(cache[t][p], Shows(t, p))
                                    ELSE cache[t][p]
    <2>1. ASSUME NEW p \in Pages PROVE new[p] \in Queries
      <3>1. cache[t][p] \in Queries /\ Shows(t, p) \in BOOLEAN
        BY <1>1 DEF Shows
      <3> QED
        BY <3>1, InvalidateTypes
    <2> QED
      BY <1>1, <2>1
  <1> HIDE DEF new, land, q
  <1>7. ASSUME NEW p \in Here
        PROVE  Fresh(new[p], Due(p, n)) /\ new[p].data = cache[t][p].data /\ new[p] \in Queries
    <2>1. CASE p \in Unnamed
      <3>1. new[p] = cache[t][p] /\ Due(p, n) = 0 /\ Due(p, told[t]) = 0
        BY <1>1, <1>6, <2>1 DEF Due
      <3> QED
        BY <1>5, <3>1
    <2>2. CASE p \notin Unnamed
      <3>1. new[p] = Invalidate(cache[t][p], Shows(t, p)) /\ Due(p, n) = n
        BY <1>1, <1>6, <2>2 DEF Due
      <3> QED
        BY <1>5, <3>1
    <2> QED
      BY <2>1, <2>2
  <1>8. Refreshed(t, q) = IF land \in {page[t], Away} THEN new
                          ELSE [new EXCEPT ![land] = Mount(new[land], FALSE)]
    BY DEF Refreshed, new, land, q
  <1>9. CASE land \in {page[t], Away}
    BY <1>4, <1>6, <1>7, <1>8, <1>9 DEF land, q
  <1>10. CASE land \notin {page[t], Away}
    <2>1. land \in Here /\ Due(land, n) \in Nat
      BY <1>4, <1>10, DueOK
    <2>2. /\ Mount(new[land], FALSE) \in Queries /\ Fresh(Mount(new[land], FALSE), Due(land, n))
          /\ Mount(new[land], FALSE).data = cache[t][land].data
      BY <1>7, <2>1, MountOK
    <2>3. PICK e \in Queries : /\ Refreshed(t, q) = [new EXCEPT ![land] = e] /\ Fresh(e, Due(land, n))
                               /\ e.data = cache[t][land].data
      BY <1>8, <1>10, <2>2
    <2>4. [new EXCEPT ![land] = e] \in [Pages -> Queries]
      BY <1>6
    <2>5. ASSUME NEW p \in Here
          PROVE  Fresh(Refreshed(t, q)[p], Due(p, n)) /\ Refreshed(t, q)[p].data = cache[t][p].data
      <3>1. CASE p = land
        BY <1>1, <1>6, <2>3, <3>1
      <3>2. CASE p # land
        BY <1>1, <1>6, <1>7, <2>3, <3>2
      <3> QED
        BY <3>1, <3>2
    <2> QED
      BY <1>4, <2>3, <2>4, <2>5 DEF land, q
  <1> QED
    BY <1>9, <1>10

\* An answer comes to the tab that asked.
LEMMA AnswerOK ==
  ASSUME DeskInv, NEW s \in Slots, Answer(s)
  PROVE  DeskInv'
  <1> DEFINE t == req[s].tab
             k == req[s].kind
             n == IF req[s].ver > told[t] THEN req[s].ver ELSE told[t]
  <1>1. /\ ServerInv /\ TabTypes /\ Open(s) /\ Close(s) /\ UNCHANGED <<desk, ver, faults, lone>>
        /\ ver \in Nat /\ ver' >= ver /\ req[s] \in Requests /\ RequestOK(req[s])
    BY ServerNumbers DEF DeskInv, ServerInv, Answer, Answered, Close
  <1>2. ServerInv'
    <2>1. faults' \in 0 .. MaxFaults /\ lone' \in BOOLEAN
      BY <1>1 DEF ServerInv
    <2> QED
      BY <1>1, <2>1, CloseOK
  <1>3. CASE t = Api
    <2>1. UNCHANGED <<page, cache, form, told>>
      BY <1>3 DEF Answer, clientVars
    <2> QED
      BY <1>1, <1>2, <2>1, TabsCalm
  <1>4. CASE t # Api
    <2>1. t \in Tabs /\ req[s].ver \in Nat /\ req[s].ver <= ver
      BY <1>1, <1>4 DEF Requests, RequestOK
    <2>2. told[t] \in Nat /\ told[t] <= ver /\ TabOK(t)
      BY <1>1, <2>1 DEF TabTypes, DeskInv
    <2>3. n \in 0 .. ver'
      BY <1>1, <2>1, <2>2
    <2>4. /\ told' = [told EXCEPT ![t] = n] /\ cache' = [cache EXCEPT ![t] = Refreshed(t, req[s])]
          /\ page' = [page EXCEPT ![t] = Landing(t, k)]
          /\ form' = [form EXCEPT ![t] =
                         IF k = "save" /\ desk # "task" /\ req[s].seen THEN NoForm ELSE @]
      BY <1>1, <1>4, <2>1 DEF Answer, TabTypes
    <2> HIDE DEF t, k, n
    <2>5. PICK u \in Tabs : u = t
      BY <2>1
    <2>6. /\ Refreshed(u, req[s]) \in [Pages -> Queries]
          /\ \A p \in Here : /\ Fresh(Refreshed(u, req[s])[p], Due(p, n))
                             /\ Refreshed(u, req[s])[p].data = cache[u][p].data
          /\ Landing(u, k) \in Here \cup {Away}
          /\ desk = "task" => Landing(u, k) = page[u]
      BY <1>1, <1>4, <2>3, <2>5, RefreshedOK DEF t, k
    <2>7. PICK c \in [Pages -> Queries], l \in Here \cup {Away}, m \in 0 .. ver', f \in Forms \cup {NoForm} :
             /\ c = Refreshed(u, req[s]) /\ l = Landing(u, k) /\ m = n /\ f = form'[u]
             /\ form' = [form EXCEPT ![u] = f] /\ (f = NoForm \/ f = form[u])
      <3>1. PICK f \in Forms \cup {NoForm} : form' = [form EXCEPT ![u] = f] /\ (f = NoForm \/ f = form[u])
        <4>1. CASE k = "save" /\ desk # "task" /\ req[s].seen
          BY <2>4, <2>5, <4>1
        <4>2. CASE ~(k = "save" /\ desk # "task" /\ req[s].seen)
          <5>1. form' = [form EXCEPT ![u] = form[u]] /\ form[u] \in Forms \cup {NoForm}
            BY <1>1, <2>4, <2>5, <4>2 DEF TabTypes
          <5> QED
            BY <5>1
        <4> QED
          BY <4>1, <4>2
      <3>2. f = form'[u]
        BY <1>1, <3>1 DEF TabTypes
      <3> QED
        BY <2>3, <2>6, <3>1, <3>2
    <2>8. /\ page' \in [Tabs -> Here \cup {Away}] /\ cache' \in [Tabs -> [Pages -> Queries]]
          /\ form' \in [Tabs -> Forms \cup {NoForm}]
          /\ page'[u] = l /\ cache'[u] = c /\ form'[u] = f
          /\ \A v \in Tabs \ {u} : page'[v] = page[v] /\ cache'[v] = cache[v] /\ form'[v] = form[v]
      BY <1>1, <2>4, <2>5, <2>7 DEF TabTypes
    <2>9. /\ told' \in [Tabs -> 0 .. ver'] /\ told'[u] = m
          /\ \A v \in Tabs \ {u} : told'[v] = told[v]
      BY <1>1, <2>4, <2>5, <2>7 DEF TabTypes
    <2>10. \A p \in Here : Fresh(cache'[u][p], Due(p, told'[u]))
      BY <2>6, <2>7, <2>8, <2>9
    <2>11. FormOK(form'[u], page'[u], cache'[u])
      <3>1. FormOK(form[u], page[u], cache[u])
        BY <2>2, <2>5 DEF TabOK
      <3>2. CASE f = NoForm
        BY <2>8, <3>2 DEF FormOK
      <3>3. CASE f = form[u]
        <4>1. desk = "task" => l = page[u] /\ c["TaskDetail"].data = cache[u]["TaskDetail"].data
          BY <1>1, <2>6, <2>7, PagesOfDesks DEF ServerInv
        <4> QED
          BY <2>8, <3>1, <3>3, <4>1 DEF FormOK
      <3> QED
        BY <2>7, <3>2, <3>3
    <2> QED
      BY <1>1, <1>2, <2>8, <2>9, <2>10, <2>11, TabStep
  <1> QED
    BY <1>3, <1>4

-----------------------------------------------------------------------------
(* The desk *)

LEMMA InitDeskInv == Init => DeskInv
  <1> SUFFICES ASSUME Init PROVE DeskInv
    OBVIOUS
  <1>1. /\ desk \in Desks /\ row = [f \in Fields |-> 0] /\ ver = 0 /\ sends = 0 /\ faults = 0
        /\ lone = TRUE /\ req = [s \in Slots |-> NoRequest]
        /\ page = [t \in Tabs |-> Away] /\ cache = [t \in Tabs |-> [p \in Pages |-> Empty]]
        /\ form = [t \in Tabs |-> NoForm] /\ told = [t \in Tabs |-> 0]
    BY DEF Init, ClientInit, ServerInit, Fields
  <1>2. MaxWrites \in Nat /\ MaxFaults \in Nat /\ 0 \in Values
    BY WritesAssumption DEF Values, Gone
  <1>3. Unwritten = {} /\ Cardinality(Unwritten) = 0
    BY <1>1, FS_EmptySet DEF Unwritten, Open
  <1>4. ServerInv
    <2>1. row \in Contents /\ ver \in 0 .. MaxWrites /\ sends \in 0 .. MaxWrites /\ faults \in 0 .. MaxFaults
      BY <1>1, <1>2 DEF Contents
    <2>2. req \in [Slots -> Requests \cup {NoRequest}] /\ \A s \in Slots : ~Open(s)
      BY <1>1 DEF Open
    <2>3. Honest(Snapshot)
      BY <1>1 DEF Honest, Snapshot
    <2> QED
      BY <1>1, <1>2, <1>3, <2>1, <2>2, <2>3 DEF ServerInv
  <1>5. Empty \in Queries /\ Fresh(Empty, 0)
    BY DEF Empty, Queries, Fresh
  <1>6. Here \subseteq Pages
    BY <1>1, PagesOfDesks
  <1>7. TabTypes
    BY <1>1, <1>2, <1>5 DEF TabTypes
  <1>8. ASSUME NEW t \in Tabs PROVE TabOK(t)
    <2>1. form[t] = NoForm /\ told[t] = 0 /\ \A p \in Here : cache[t][p] = Empty
      BY <1>1, <1>6
    <2>2. FormOK(form[t], page[t], cache[t])
      BY <2>1 DEF FormOK
    <2>3. \A p \in Here : Due(p, told[t]) = 0
      BY <2>1 DEF Due
    <2> QED
      BY <1>5, <2>1, <2>2, <2>3 DEF TabOK
  <1> QED
    BY <1>4, <1>7, <1>8 DEF DeskInv

LEMMA StepDeskInv == DeskInv /\ [Next]_<<vars, intakeVars>> => DeskInv'
  <1> SUFFICES ASSUME DeskInv, [Next]_<<vars, intakeVars>> PROVE DeskInv'
    OBVIOUS
  <1>1. ServerInv /\ TabTypes /\ ver \in Nat
    BY DEF DeskInv, ServerInv
  <1>2. CASE UNCHANGED vars
    <2>1. UNCHANGED <<desk, row, ver, req, sends, faults, lone, page, cache, form, told>>
      BY <1>2 DEF vars, clientVars, serverVars
    <2>2. ServerInv' /\ ver' >= ver
      <3>1. faults' \in 0 .. MaxFaults
        BY <1>1, <2>1 DEF ServerInv
      <3> QED
        BY <1>1, <2>1, <3>1, ServerCalm
    <2> QED
      BY <2>1, <2>2, TabsCalm
  <1>3. ASSUME Server PROVE DeskInv'
    BY <1>1, <1>3, ServerOK, TabsCalm
  <1>4. ASSUME NEW s \in Slots, ApiSwitch(s), UNCHANGED <<clientVars, told>> PROVE DeskInv'
    <2>1. ServerInv' /\ UNCHANGED <<desk, ver>>
      BY <1>1, <1>4, ApiSwitchOK, SendOK
    <2>2. UNCHANGED <<page, cache, form, told>> /\ ver' >= ver
      BY <1>1, <1>4, <2>1 DEF ApiSwitch, clientVars
    <2> QED
      BY <2>1, <2>2, TabsCalm
  <1>5. ASSUME NEW t \in Tabs,
               \/ \E s \in Slots : Click(t, s) /\ UNCHANGED <<clientVars, told>>
               \/ \E p \in Here : OpenDialog(t, p)
               \/ CloseDialog(t)
               \/ \E p \in Stops : Go(t, p)
               \/ \E p \in Here : Read(t, p) \/ Arrive(t, p) \/ Polls(t, p) \/ Online(t, p)
                                    \/ LoseFetch(t, p)
        PROVE  DeskInv'
    BY <1>5, ClickOK, DialogOK, GoOK, FetchesOK
  <1>6. ASSUME NEW s \in Slots, Answer(s) PROVE DeskInv'
    BY <1>6, AnswerOK
  <1>7. CASE DeskNext
    BY <1>3, <1>4, <1>5, <1>6, <1>7 DEF DeskNext
  <1> QED
    BY <1>2, <1>7 DEF Next

LEMMA DeskInvHolds == Spec => []DeskInv
  <1> QED
    BY InitDeskInv, StepDeskInv, PTL DEF Spec

LEMMA InvImpliesType == DeskInv /\ IntakeTypeOK => TypeOK
  <1> SUFFICES ASSUME DeskInv, IntakeTypeOK PROVE TypeOK
    OBVIOUS
  <1>1. ServerInv /\ TabTypes
    BY DEF DeskInv
  <1>2. /\ desk \in Desks /\ row \in [Fields -> Values] /\ ver \in 0 .. MaxWrites
        /\ sends \in 0 .. MaxWrites /\ faults \in 0 .. MaxFaults /\ lone \in BOOLEAN
    BY <1>1 DEF ServerInv, Contents
  <1>3. ClientTypeOK(Data)
    <2>1. Here \subseteq Pages
      BY <1>2, PagesOfDesks
    <2>2. page \in [Tabs -> Pages \cup {Away}]
      BY <1>1, <2>1 DEF TabTypes
    <2> DEFINE Q == [data : Data \cup {NoData}, invalid : BOOLEAN, fetch : {"none", "asked", "read"},
                     got : Data \cup {NoData}, late : BOOLEAN, raced : BOOLEAN, failed : BOOLEAN]
    <2>3. Queries \subseteq Q
      BY AnswersAreData DEF Queries
    <2> HIDE DEF Q
    <2>4. cache \in [Tabs -> [Pages -> Q]]
      BY <1>1, <2>3 DEF TabTypes
    <2> QED
      BY <2>2, <2>4 DEF ClientTypeOK, Q
  <1>4. \A t \in Tabs : told[t] \in 0 .. ver /\ (form[t] # NoForm => form[t].row \in [Fields -> Values])
    BY <1>1 DEF TabTypes, Forms, Contents
  <1> QED
    BY <1>2, <1>3, <1>4 DEF TypeOK

\* Every variable of the console, its server and the intake keeps its type; no answer
\* tells a tab of a write that the server has not committed.
THEOREM TypeTheorem == Spec => []TypeOK
  <1> QED
    BY DeskInvHolds, IntakeTypeCorrect, InvImpliesType, PTL

\* What a tab takes for fresh is at least as new as the last write that an answer told
\* it of, for every query whose key the pages' mutations invalidate (onSuccess), with
\* however many tabs and clients.
THEOREM OwnWritesTheorem == Spec => []OwnWritesShown
  <1>1. DeskInv => OwnWritesShown
    BY DEF DeskInv, TabOK, Fresh, Due, OwnWritesShown
  <1> QED
    BY <1>1, DeskInvHolds, PTL

-----------------------------------------------------------------------------
(* What a commit overwrites *)

LEMMA SlotsKept ==
  ASSUME ServerInv, NEW s \in Slots, NEW o \in Slots, o # s, NEW q, req' = [req EXCEPT ![o] = q]
  PROVE  req'[s] = req[s]
  BY DEF ServerInv

LEMMA ClickSends ==
  ASSUME NEW t, NEW s, Click(t, s) \/ ApiSwitch(s)
  PROVE  \E r : Send(s, r)
  <1>1. ASSUME NEW P, NEW shown, SaveForm(t, s, P, shown) PROVE \E r : Send(s, r)
    BY <1>1 DEF SaveForm
  <1>2. CASE TaskDetailPage(t, s) \/ EditMatterDialog(t, s) \/ EditUserDialog(t, s)
    BY <1>1, <1>2 DEF TaskDetailPage, EditMatterDialog, EditUserDialog
  <1>3. CASE ReviewDetailPage(t, s) \/ MattersTab(t, s) \/ UsersTab(t, s)
    BY <1>3 DEF ReviewDetailPage, MattersTab, UsersTab
  <1>4. CASE AddRule(t, s) \/ DeleteRule(t, s) \/ PipelineMonitorPage(t, s)
    BY <1>4 DEF AddRule, DeleteRule, PipelineMonitorPage
  <1>5. CASE ApiSwitch(s)
    BY <1>5 DEF ApiSwitch
  <1> QED
    BY <1>2, <1>3, <1>4, <1>5 DEF Click

\* A request becomes committed when its handler commits it, and in no other way.
LEMMA BecomesIsCommit ==
  ASSUME DeskInv, [Next]_<<vars, intakeVars>>, NEW s \in Slots, Becomes(s, "committed")
  PROVE  Commit(s)
  <1>1. /\ ServerInv /\ Open(s) /\ req'[s] # NoRequest
        /\ req[s].at # "committed" /\ req'[s].at = "committed" /\ req'[s] # req[s]
    BY DEF DeskInv, Becomes
  <1>2. req \in [Slots -> Requests \cup {NoRequest}] /\ req[s] \in Requests
    BY <1>1 DEF ServerInv, Open
  <1>3. ~UNCHANGED req
    BY <1>1
  <1>4. ASSUME NEW o \in Slots, Close(o) PROVE FALSE
    <2>1. req' = [req EXCEPT ![o] = NoRequest]
      BY <1>4 DEF Close
    <2> QED
      BY <1>1, <1>2, <2>1
  <1>5. ASSUME NEW o \in Slots, NEW r, Send(o, r) PROVE FALSE
    <2>1. req' = [req EXCEPT ![o] = r] /\ ~Open(o)
      BY <1>5 DEF Send
    <2> QED
      BY <1>1, <2>1, SlotsKept
  <1>6. ASSUME NEW o \in Slots, Handle(o) \/ Fail(o) PROVE Commit(s)
    <2>1. CASE Refuse(o) \/ Fail(o)
      BY <1>4, <2>1 DEF Refuse, Fail
    <2>2. CASE Commit(o)
      <3>1. \E q : req' = [req EXCEPT ![o] = q]
        BY <2>2 DEF Commit
      <3> QED
        BY <1>1, <2>2, <3>1, SlotsKept
    <2>3. CASE After(o)
      <3>1. req' = [req EXCEPT ![o] = [req[o] EXCEPT !.at = "done"]]
        BY <2>3 DEF After
      <3>2. CASE o = s
        <4>1. req'[s] = [req[s] EXCEPT !.at = "done"]
          BY <1>2, <3>1, <3>2
        <4>2. req'[s].at = "done"
          BY <1>2, <4>1 DEF Requests
        <4> QED
          BY <1>1, <4>2
      <3> QED
        BY <1>1, <3>1, <3>2, SlotsKept
    <2> QED
      BY <1>6, <2>1, <2>2, <2>3 DEF Handle
  <1>7. ASSUME Server PROVE Commit(s)
    BY <1>3, <1>6, <1>7 DEF Server, Elsewhere
  <1>8. ASSUME NEW o \in Slots, Answer(o) PROVE FALSE
    BY <1>4, <1>8 DEF Answer
  <1>9. ASSUME NEW t, NEW p, Go(t, p) PROVE FALSE
    <2>1. req' = [o \in Slots |-> IF Open(o) /\ req[o].tab = t
                                  THEN [req[o] EXCEPT !.seen = FALSE] ELSE req[o]]
      BY <1>9 DEF Go
    <2>2. req'[s] = req[s] \/ req'[s] = [req[s] EXCEPT !.seen = FALSE]
      BY <2>1
    <2>3. req'[s].at = req[s].at
      BY <1>2, <2>2 DEF Requests
    <2> QED
      BY <1>1, <2>3
  <1>10. ASSUME NEW t, NEW p, \/ OpenDialog(t, p) \/ CloseDialog(t) \/ Read(t, p) \/ Arrive(t, p)
                              \/ Polls(t, p) \/ Online(t, p) \/ LoseFetch(t, p)
         PROVE  FALSE
    BY <1>3, <1>10 DEF OpenDialog, CloseDialog, Read, Arrive, Polls, Online, LoseFetch, serverVars
  <1>11. CASE DeskNext
    BY <1>5, <1>7, <1>8, <1>9, <1>10, <1>11, ClickSends DEF DeskNext
  <1>12. CASE UNCHANGED vars
    BY <1>3, <1>12 DEF vars, serverVars
  <1> QED
    BY <1>3, <1>11, <1>12 DEF Next, vars, serverVars

\* A save changes a field that its user did not touch only if that field no longer was
\* what the page had shown (TaskDetailPage.tsx, the dialogs of IdentityManagementPage.tsx).
THEOREM ShownTheorem == Spec => ShownIsNotUndone
  <1>1. ASSUME DeskInv, [Next]_<<vars, intakeVars>>, NEW s \in Slots,
               Becomes(s, "committed"), req[s].kind = "save",
               NEW f \in Fields \ req[s].typed, row'[f] # row[f]
        PROVE  row[f] # req[s].shown[f]
    <2>1. /\ Commit(s) /\ Open(s) /\ ServerInv
      BY <1>1, BecomesIsCommit DEF Becomes, DeskInv
    <2>2. RequestOK(req[s])
      BY <2>1 DEF ServerInv
    <2>3. f \in Fields /\ f \in DOMAIN req[s].sets /\ req[s].sets[f] = req[s].shown[f]
      BY <1>1, <2>2 DEF RequestOK
    <2>4. row'[f] = req[s].sets[f]
      BY <2>1, <2>3 DEF Commit, Written
    <2> QED
      BY <1>1, <2>3, <2>4
  <1>2. DeskInv /\ [Next]_<<vars, intakeVars>> =>
          [\A s \in Slots : Becomes(s, "committed") /\ req[s].kind = "save" =>
             \A f \in Fields \ req[s].typed : row'[f] # row[f] => row[f] # req[s].shown[f]]_vars
    BY <1>1
  <1> QED
    BY <1>2, DeskInvHolds, PTL DEF Spec, ShownIsNotUndone

\* A request is sent by whoever it says sent it, and a decision only by its page.
LEMMA DecisionIsClick ==
  ASSUME DeskInv, [Next]_<<vars, intakeVars>>, NEW t \in Tabs, NEW s \in Slots, Sends(t, s, "decide")
  PROVE  ReviewDetailPage(t, s)
  <1>1. ServerInv /\ ~Open(s) /\ req'[s] # NoRequest /\ req'[s].tab = t /\ req'[s].kind = "decide"
    BY DEF DeskInv, Sends
  <1>2. ~UNCHANGED req
    BY <1>1 DEF Open
  <1>3. req \in [Slots -> Requests \cup {NoRequest}]
    BY <1>1 DEF ServerInv
  <1>4. ASSUME NEW o \in Slots, Open(o), NEW q, req' = [req EXCEPT ![o] = q] PROVE FALSE
    BY <1>1, <1>4, SlotsKept DEF Open
  <1>5. ASSUME NEW o \in Slots, Handle(o) \/ Fail(o) \/ Answer(o) PROVE FALSE
    <2>1. Open(o)
      BY <1>5 DEF Handle, Commit, After, Refuse, Fail, Answer, Answered
    <2>2. \E q : req' = [req EXCEPT ![o] = q]
      <3>1. CASE Commit(o)
        BY <3>1 DEF Commit
      <3>2. CASE After(o)
        BY <3>2 DEF After
      <3>3. CASE Refuse(o) \/ Fail(o) \/ Answer(o)
        BY <3>3 DEF Refuse, Fail, Answer, Close
      <3> QED
        BY <1>5, <3>1, <3>2, <3>3 DEF Handle
    <2> QED
      BY <1>4, <2>1, <2>2
  <1>6. ASSUME Server PROVE FALSE
    BY <1>2, <1>5, <1>6 DEF Server, Elsewhere
  <1>7. ASSUME NEW o \in Slots, NEW r, Send(o, r) PROVE o = s /\ r.tab = t /\ r.kind = "decide"
    <2>1. req' = [req EXCEPT ![o] = r]
      BY <1>7 DEF Send
    <2>2. o = s
      BY <1>1, <2>1, SlotsKept DEF Open
    <2> QED
      BY <1>1, <1>3, <2>1, <2>2
  <1>8. ASSUME NEW u \in Tabs, NEW o \in Slots, Click(u, o) PROVE ReviewDetailPage(t, s)
    <2>1. ASSUME NEW P, NEW shown, SaveForm(u, o, P, shown) PROVE FALSE
      <3>1. PICK sent, typed :
               Send(o, [Request(u, "save", P, sent) EXCEPT !.typed = typed, !.shown = shown])
        BY <2>1 DEF SaveForm
      <3>2. [Request(u, "save", P, sent) EXCEPT !.typed = typed, !.shown = shown].kind = "save"
        BY DEF Request
      <3> QED
        BY <1>7, <3>1, <3>2
    <2>2. CASE TaskDetailPage(u, o) \/ EditMatterDialog(u, o) \/ EditUserDialog(u, o)
      BY <2>1, <2>2 DEF TaskDetailPage, EditMatterDialog, EditUserDialog
    <2>3. CASE MattersTab(u, o) \/ UsersTab(u, o) \/ AddRule(u, o) \/ DeleteRule(u, o)
                  \/ PipelineMonitorPage(u, o)
      <3>1. PICK k \in {"add", "addRule", "deleteRule", "retry", "console_switch"} :
               \E P, sets : Send(o, Request(u, k, P, sets))
        BY <2>3 DEF MattersTab, UsersTab, AddRule, DeleteRule, PipelineMonitorPage
      <3>2. \A P, sets : Request(u, k, P, sets).kind = k
        BY DEF Request
      <3> QED
        BY <1>7, <3>1, <3>2
    <2>4. CASE ReviewDetailPage(u, o)
      <3>1. PICK P, sets : Send(o, Request(u, "decide", P, sets))
        BY <2>4 DEF ReviewDetailPage
      <3>2. Request(u, "decide", P, sets).tab = u
        BY DEF Request
      <3>3. o = s /\ u = t
        BY <1>7, <3>1, <3>2
      <3> QED
        BY <2>4, <3>3
    <2> QED
      BY <1>8, <2>2, <2>3, <2>4 DEF Click
  <1>9. ASSUME NEW o \in Slots, ApiSwitch(o) PROVE FALSE
    <2>1. PICK k \in Switches :
             \E sets, then : Send(o, [Request(Api, k, {}, sets) EXCEPT !.then = then])
      BY <1>9 DEF ApiSwitch
    <2>2. \A sets, then : [Request(Api, k, {}, sets) EXCEPT !.then = then].kind = k
      BY DEF Request
    <2> QED
      BY <1>7, <2>1, <2>2 DEF Switches
  <1>10. ASSUME NEW u, NEW p, Go(u, p) PROVE FALSE
    <2>1. req'[s] = req[s]
      BY <1>1, <1>10 DEF Go
    <2> QED
      BY <1>1, <2>1 DEF Open
  <1>11. ASSUME NEW u, NEW p, \/ OpenDialog(u, p) \/ CloseDialog(u) \/ Read(u, p) \/ Arrive(u, p)
                              \/ Polls(u, p) \/ Online(u, p) \/ LoseFetch(u, p)
         PROVE  FALSE
    BY <1>2, <1>11 DEF OpenDialog, CloseDialog, Read, Arrive, Polls, Online, LoseFetch, serverVars
  <1>12. CASE DeskNext
    BY <1>5, <1>6, <1>8, <1>9, <1>10, <1>11, <1>12 DEF DeskNext
  <1> QED
    BY <1>2, <1>12 DEF Next, vars, serverVars

\* Who was told that a decision was recorded decides again only from data that are being
\* fetched anew, or that a fetch from before the answer brought (ReviewDetailPage.tsx; the
\* server does not ask), with however many tabs, clients and failures.
THEOREM DecidesOnceTheorem == Spec => DecidesOnce
  <1>1. ASSUME DeskInv, [Next]_<<vars, intakeVars>>, NEW t \in Tabs, NEW s \in Slots,
               Sends(t, s, "decide"), told[t] > 0
        PROVE  cache[t]["ReviewDetail"].invalid \/ cache[t]["ReviewDetail"].raced
    <2> DEFINE e == cache[t]["ReviewDetail"]
    <2>1. /\ ServerInv /\ TabTypes /\ TabOK(t) /\ told[t] \in Nat
          /\ Loaded(t, "ReviewDetail") /\ Shown(t, "ReviewDetail")["status"] = 0
      BY <1>1, DecisionIsClick, ServerNumbers DEF DeskInv, ReviewDetailPage, TabTypes
    <2>2. "ReviewDetail" \in AllPages /\ Shows(t, "ReviewDetail")
      BY <2>1, PagesOfDesks DEF ServerInv, Loaded
    <2>3. "ReviewDetail" \in Here /\ e.data \in Answers
      BY <2>1, <2>2, LoadedOK
    <2>4. desk \in Reviewing
      BY <2>1, <2>3, PagesOfDesks DEF ServerInv
    <2>5. ~(e.data.ver > 0)
      BY <2>1, <2>3, <2>4 DEF Answers, Honest, Shown
    <2>6. e.data.ver \in Nat
      BY <2>3, AnswersAreData DEF Data
    <2>7. Due("ReviewDetail", told[t]) = told[t]
      BY <2>1, Keys, DueOK
    <2>8. Fresh(e, told[t]) /\ e.data # NoData
      BY <2>1, <2>3, <2>7 DEF TabOK, Loaded
    <2> QED
      BY <1>1, <2>1, <2>5, <2>6, <2>8 DEF Fresh
  <1>2. DeskInv /\ [Next]_<<vars, intakeVars>> =>
          [\A t \in Tabs, s \in Slots : Sends(t, s, "decide") /\ told[t] > 0 =>
             LET e == cache[t]["ReviewDetail"] IN e.invalid \/ e.raced]_vars
    BY <1>1
  <1> QED
    BY <1>2, DeskInvHolds, PTL DEF Spec, DecidesOnce
=============================================================================
