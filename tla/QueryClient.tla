------------------------------ MODULE QueryClient ------------------------------
(***************************************************************************)
(* What a tab of the web console keeps of the server's answers: one query  *)
(* per page, cached and refetched by the rules of @tanstack/react-query    *)
(* under the defaults of src/web/src/App.tsx.  The library is modelled     *)
(* from its use.                                                           *)
(*                                                                         *)
(* A query is fetched in three steps: asked by the tab, read by the server *)
(* and received.  An answer is fresh for 30 s.  An invalidation ends that  *)
(* and, on the page that is shown, gives up the fetch that is under        *)
(* way and starts another; it lets a fetch of a page that is not shown, or *)
(* the very first fetch of a page, go on, whose answer then counts as      *)
(* fresh although it may be older ("raced").                               *)
(***************************************************************************)
CONSTANTS
    Tabs, Pages,
    Polled,    \* pages with a refetchInterval
    NoData, Away

VARIABLES
    page,      \* page[t]: the page that tab t shows, or Away
    cache      \* cache[t][p]: the query of page p

clientVars == <<page, cache>>

Empty == [data |-> NoData, invalid |-> FALSE, fetch |-> "none", got |-> NoData,
          late |-> FALSE, raced |-> FALSE, failed |-> FALSE]

ClientTypeOK(Data) ==
    /\ page \in [Tabs -> Pages \cup {Away}]
    /\ cache \in [Tabs -> [Pages ->
          [data : Data \cup {NoData}, invalid : BOOLEAN, fetch : {"none", "asked", "read"},
           got : Data \cup {NoData}, late : BOOLEAN, raced : BOOLEAN, failed : BOOLEAN]]]

ClientInit ==
    /\ page = [t \in Tabs |-> Away]
    /\ cache = [t \in Tabs |-> [p \in Pages |-> Empty]]

Idle(e)  == e.fetch = "none"
Fetch(e) == [e EXCEPT !.fetch = "asked", !.got = NoData, !.late = FALSE]
\* a page is mounted, 30 s after its answer or before (staleTime)
Mount(e, aged) == IF Idle(e) /\ (e.data = NoData \/ e.invalid \/ aged) THEN Fetch(e) ELSE e

\* invalidateQueries, with its defaults: refetch what is shown, and cancel
\* for that the fetch of a page that has data
Invalidate(e, shown) ==
    LET old == [e EXCEPT !.invalid = (e.data # NoData)]
    IN  IF shown /\ (e.data # NoData \/ Idle(e)) THEN Fetch(old)
        ELSE [old EXCEPT !.late = ~Idle(e)]

Shows(t, p) == page[t] = p
Put(t, p, e) == cache' = [cache EXCEPT ![t][p] = e]

Visit(t, p) ==
    /\ ~Shows(t, p)
    /\ page' = [page EXCEPT ![t] = p]
    /\ \/ p = Away /\ UNCHANGED cache
       \/ p # Away /\ \E aged \in BOOLEAN : Put(t, p, Mount(cache[t][p], aged))

\* refetchOnReconnect, which is on by default, of an aged answer
Reconnect(t, p) ==
    /\ Shows(t, p) /\ Idle(cache[t][p])
    /\ Put(t, p, Fetch(cache[t][p])) /\ UNCHANGED page

\* A bug for the mutants: an error ends the polling.
PollUntilError(t, p) == p \in Polled /\ ~cache[t][p].invalid /\ Reconnect(t, p)

\* refetchInterval
Poll(t, p) == p \in Polled /\ Reconnect(t, p)

ServerReads(t, p, data) ==
    /\ cache[t][p].fetch = "asked"
    /\ Put(t, p, [cache[t][p] EXCEPT !.fetch = "read", !.got = data]) /\ UNCHANGED page

Receive(t, p) ==
    LET e == cache[t][p]
    IN  /\ e.fetch = "read"
        /\ Put(t, p, [Empty EXCEPT !.data = e.got, !.raced = e.late])
        /\ UNCHANGED page

\* a fetch fails, and so does its one retry; the data stay, with the error beside them
FetchFails(t, p) ==
    LET e == cache[t][p]
    IN  /\ ~Idle(e)
        /\ Put(t, p, [e EXCEPT !.fetch = "none", !.got = NoData, !.late = FALSE,
                               !.invalid = (e.data # NoData), !.failed = (e.data # NoData)])
        /\ UNCHANGED page
=============================================================================
