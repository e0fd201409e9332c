SPECIFICATION FairSpec
CONSTANTS
    r1 = r1
    r2 = r2
    r3 = r3
    m1 = m1
    filing = filing
    Tabs = {t1}
    Slots = {1, 2}
    Pages <- AllPages
    Polled <- PolledPages
    RuleIds = {r1, r2, r3}
    Rules = {r1, r2, r3}
    Areas = {m1}
    ActionTypes = {filing}
    RuleArea <- MCRuleArea
    RuleAction <- MCRuleAction
    Priority <- MCPriority
    Wild = Wild
    NoData = NoData
    NoRequest = NoRequest
    NoForm = NoForm
    Away = Away
    Api = Api
    Typed = {"due", "client", "role"}
    MaxWrites = 2
    MaxFaults = 1
    Docs = {d1, d2}
    Fed = fed
    NoDoc = NoDoc
    MaxSubmits = 2
    MaxSlips = 2
INVARIANTS
    TypeOK
    OwnWritesShown
    FlagAgrees
    TriageIsLast
    PreviewIsOfFile
    AnsweredIsQueued
    DuplicatesAreResubmissions
PROPERTIES
    ShownIsNotUndone
    DecidesOnce
    PolledCatchesUp
