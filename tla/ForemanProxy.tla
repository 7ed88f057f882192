---------------------------- MODULE ForemanProxy ----------------------------
(***************************************************************************)
(* One guild's seat for an external foreman proxy: the backend sends the   *)
(* model calls of its foreman runs to the proxy that holds the seat        *)
(* (backend/foreman/proxy.py, runner._call_llm) and takes its answers; a   *)
(* proxy that joins evicts the one before it (ws_handlers.handle_join).    *)
(* The proxy (foreman-proxy/pioneer_foreman/foreman.py) answers the calls  *)
(* of its connection beside each other and reconnects when it has lost it. *)
(* A connection has two ends: the proxy's may be gone while the backend's  *)
(* handler still runs.                                                     *)
(***************************************************************************)
EXTENDS Naturals, Sequences, FiniteSets

CONSTANTS
    Proxies,     \* proxy processes of the guild
    LLMRuns,     \* foreman runs, each with calls one after the other
    MaxCalls,    \* bound on the calls of a run
    MaxLinks     \* bound on connections

ASSUME ProxyConstants == MaxCalls \in Nat \ {0} /\ MaxLinks \in Nat

VARIABLES
    seat,        \* foreman_connections[guild]: a connection, 0 for none
    link,        \* the connections in the order they were opened
    working,     \* calls each connection's proxy is executing (_inflight)
    request,     \* each run's call: where it is, its round, its connection
    embedded,    \* the guild's provider can be called without a proxy
    superseded,  \* connections another one took the seat from
    overtaken    \* a join took the seat from one that it did not evict

proxyVars == <<seat, link, working, request, embedded, superseded, overtaken>>

Links == 1..Len(link)
Ended == {"done", "failed"}

\* The proxy's end is up; the backend's handler is at a frame or in the middle
\* of a join; frames on their way in both directions.
NewLink(p) ==
    [proxy |-> p, up |-> TRUE, handler |-> "reads", evicts |-> 0,
     toBackend |-> <<[is |-> "join"]>>, toProxy |-> <<>>]

Frames ==
    [is : {"join", "evicted"}] \cup [is : {"request"}, run : LLMRuns]
        \cup [is : {"answer"}, run : LLMRuns, ok : BOOLEAN]

Link ==
    [proxy : Proxies, up : BOOLEAN, handler : {"reads", "evicting", "gone"},
     evicts : 0..MaxLinks, toBackend : Seq(Frames), toProxy : Seq(Frames)]

Call ==
    [at : {"idle", "resolved", "waiting", "local"} \cup Ended,
     round : 1..MaxCalls, client : BOOLEAN, via : 0..MaxLinks]

ProxyTypeOK ==
    /\ link \in Seq(Link)
    /\ Len(link) <= MaxLinks /\ seat \in 0..Len(link)
    /\ working \in [1..MaxLinks -> SUBSET LLMRuns]
    /\ request \in [LLMRuns -> Call]
    /\ superseded \subseteq Links /\ embedded \in BOOLEAN /\ overtaken \in BOOLEAN

ProxyInit ==
    /\ seat = 0 /\ link = <<>>
    /\ working = [s \in 1..MaxLinks |-> {}]
    /\ request = [r \in LLMRuns |-> [at |-> "idle", round |-> 1, client |-> FALSE, via |-> 0]]
    /\ embedded \in BOOLEAN
    /\ superseded = {} /\ overtaken = FALSE

-----------------------------------------------------------------------------
(* The proxy process.                                                        *)

\* It connects again when its connection is gone (after 5 to 60 s).
Connect(p) ==
    /\ \A s \in Links : link[s].proxy = p => ~link[s].up
    /\ Len(link) < MaxLinks
    /\ link' = Append(link, NewLink(p))
    /\ UNCHANGED <<seat, working, request, embedded, superseded, overtaken>>

\* A frame arrives: a request is taken up beside the others; at the eviction the
\* process leaves the connection and cancels what it was doing.
ProxyReads(s) ==
    /\ link[s].up /\ link[s].toProxy # <<>>
    /\ \E frame \in {Head(link[s].toProxy)} :
           \/ /\ frame.is = "request"
              /\ link' = [link EXCEPT ![s].toProxy = Tail(@)]
              /\ working' = [working EXCEPT ![s] = @ \cup {frame.run}]
           \/ /\ frame.is = "evicted"
              /\ link' = [link EXCEPT ![s].toProxy = <<>>, ![s].up = FALSE]
              /\ working' = [working EXCEPT ![s] = {}]
    /\ UNCHANGED <<seat, request, embedded, superseded, overtaken>>

\* The model has answered, or its call has failed: either is sent.
ProxyAnswers(s, r) ==
    /\ r \in working[s]
    /\ working' = [working EXCEPT ![s] = @ \ {r}]
    /\ \E ok \in BOOLEAN :
           link' = [link EXCEPT ![s].toBackend = Append(@, [is |-> "answer", run |-> r, ok |-> ok])]
    /\ UNCHANGED <<seat, request, embedded, superseded, overtaken>>

\* The process or the network fails; what it had sent may still arrive.
ProxyLost(s) ==
    /\ link[s].up
    /\ \E kept \in {<<>>, link[s].toBackend} :
           link' = [link EXCEPT ![s].up = FALSE, ![s].toBackend = kept, ![s].toProxy = <<>>]
    /\ working' = [working EXCEPT ![s] = {}]
    /\ UNCHANGED <<seat, request, embedded, superseded, overtaken>>

-----------------------------------------------------------------------------
(* The backend's end of a connection.                                        *)

Reads(s, kind) ==
    /\ link[s].handler = "reads" /\ link[s].toBackend # <<>>
    /\ Head(link[s].toBackend).is = kind

TakesSeat(s) ==
    /\ seat' = s
    /\ superseded' = superseded \cup ({seat} \ {0, s})

\* A join first sends the eviction to the one that has the seat ...
ReadsJoin(s) ==
    /\ Reads(s, "join")
    /\ \/ /\ seat \in {0, s} /\ TakesSeat(s)
          /\ link' = [link EXCEPT ![s].toBackend = Tail(@)]
       \/ /\ seat \notin {0, s}
          /\ link' = [link EXCEPT ![s].toBackend = Tail(@), ![s].handler = "evicting",
                                  ![s].evicts = seat,
                                  ![seat].toProxy = IF link[seat].up
                                                    THEN Append(@, [is |-> "evicted"]) ELSE @]
          /\ UNCHANGED <<seat, superseded>>
    /\ UNCHANGED <<working, request, embedded, overtaken>>

\* ... and takes the seat when that is sent, whoever has it by then.
Seated(s) ==
    /\ link[s].handler = "evicting"
    /\ TakesSeat(s)
    /\ link' = [link EXCEPT ![s].handler = "reads", ![s].evicts = 0]
    /\ overtaken' = (overtaken \/ seat \notin {0, link[s].evicts})
    /\ UNCHANGED <<working, request, embedded>>

Return(r, at) == request' = [request EXCEPT ![r].at = at, ![r].via = 0]

\* An answer counts only from the one that has the seat, for a call still pending.
ReadsAnswer(s) ==
    /\ Reads(s, "answer")
    /\ link' = [link EXCEPT ![s].toBackend = Tail(@)]
    /\ \E answer \in {Head(link[s].toBackend)} :
           IF seat = s /\ request[answer.run].at = "waiting"
           THEN Return(answer.run, IF answer.ok THEN "done" ELSE "failed")
           ELSE UNCHANGED request
    /\ UNCHANGED <<seat, working, embedded, superseded, overtaken>>

Owned(s) == {r \in LLMRuns : request[r].at = "waiting" /\ request[r].via = s}
FailPending(s) ==
    request' = [r \in LLMRuns |->
        IF r \in Owned(s) THEN [request[r] EXCEPT !.at = "failed", !.via = 0] ELSE request[r]]

HandlerEnds(s) ==
    /\ link[s].handler = "reads" /\ ~link[s].up /\ link[s].toBackend = <<>>
    /\ link' = [link EXCEPT ![s].handler = "gone"]

\* Variants: the calls are left; the seat is left; the seat is given up by any.
LeavesCalls(s) ==
    /\ HandlerEnds(s)
    /\ seat' = IF seat = s THEN 0 ELSE seat
    /\ UNCHANGED <<working, request, embedded, superseded, overtaken>>
FreesAnySeat(s) ==
    /\ HandlerEnds(s)
    /\ seat' = 0 /\ FailPending(s)
    /\ UNCHANGED <<working, embedded, superseded, overtaken>>

\* The end of the handler frees the seat and fails the calls, if it still has it.
SocketGone(s) ==
    /\ HandlerEnds(s)
    /\ \/ seat = s /\ seat' = 0 /\ FailPending(s)
       \/ seat # s /\ UNCHANGED <<seat, request>>
    /\ UNCHANGED <<working, embedded, superseded, overtaken>>

-----------------------------------------------------------------------------
(* The calls of a foreman run.                                               *)

\* resolve_foreman_client, once for the run: no client when there is a proxy.
ResolveClient(r) ==
    /\ request[r].at = "idle"
    /\ request' = [request EXCEPT
           ![r].at = IF seat = 0 /\ ~embedded THEN "failed" ELSE "resolved",
           ![r].client = seat = 0 /\ embedded]
    /\ UNCHANGED <<seat, link, working, embedded, superseded, overtaken>>

\* _call_llm: through the proxy there is now, else with the client.
CallProxy(r) ==
    /\ request[r].at = "resolved" /\ seat # 0
    /\ request' = [request EXCEPT ![r].at = "waiting", ![r].via = seat]
    /\ link' = [link EXCEPT ![seat].toProxy =
           IF link[seat].up THEN Append(@, [is |-> "request", run |-> r]) ELSE @]
    /\ UNCHANGED <<seat, working, embedded, superseded, overtaken>>

CallDirectly(r) ==
    /\ request[r].at = "resolved" /\ seat = 0
    /\ Return(r, IF request[r].client THEN "local" ELSE "failed")
    /\ UNCHANGED <<seat, link, working, embedded, superseded, overtaken>>

LocalAnswer(r) ==
    /\ request[r].at = "local"
    /\ \E at \in Ended : Return(r, at)
    /\ UNCHANGED <<seat, link, working, embedded, superseded, overtaken>>

\* The wait ends after 600 s.
CallTimesOut(r) ==
    /\ request[r].at = "waiting"
    /\ Return(r, "failed")
    /\ UNCHANGED <<seat, link, working, embedded, superseded, overtaken>>

\* The run goes on with its next call.
NextCall(r) ==
    /\ request[r].at = "done" /\ request[r].round < MaxCalls
    /\ request' = [request EXCEPT ![r].at = "resolved", ![r].round = @ + 1]
    /\ UNCHANGED <<seat, link, working, embedded, superseded, overtaken>>

LinkProceeds(s) ==
    ProxyReads(s) \/ ReadsJoin(s) \/ Seated(s) \/ ReadsAnswer(s) \/ SocketGone(s)
CallProceeds(r) ==
    ResolveClient(r) \/ CallProxy(r) \/ CallDirectly(r) \/ LocalAnswer(r) \/ CallTimesOut(r) \/ NextCall(r)

ProxyNext ==
    \/ \E p \in Proxies : Connect(p)
    \/ \E s \in Links : LinkProceeds(s) \/ ProxyLost(s)
    \/ \E s \in Links, r \in LLMRuns : ProxyAnswers(s, r)
    \/ \E r \in LLMRuns : CallProceeds(r)

ProxySpec == ProxyInit /\ [][ProxyNext]_proxyVars

\* Proxies reconnect, handlers go on, a call's wait has its timeout.
ProxyFairness ==
    /\ \A p \in Proxies : WF_proxyVars(Connect(p))
    /\ \A s \in 1..MaxLinks : WF_proxyVars(s \in Links /\ LinkProceeds(s))
    /\ \A r \in LLMRuns : WF_proxyVars(CallProceeds(r))
ProxyFairSpec == ProxySpec /\ ProxyFairness

-----------------------------------------------------------------------------
\* A run waits only for a proxy that can answer it, or one that lost the seat to
\* another: whichever way a connection ends, no call is left to wait for nobody.
\* (A call of an evicted proxy is neither answered nor failed; it waits out the
\* 600 s, proxy.py:85, since teardown and answers go by the seat.)
WaitsForTheSeat ==
    \A r \in LLMRuns : request[r].at = "waiting" =>
        request[r].via = seat \/ request[r].via \in superseded

\* However proxies evict each other and connections are lost, with a half-dead
\* one's end noticed after the next one's join, the guild ends up with a
\* connected proxy in the seat, while there is one to connect - unless two joins
\* overlapped in their evictions: the one that is not told waits without a seat.
OutOfLinks == Len(link) = MaxLinks /\ \A s \in Links : ~link[s].up
ProxyServes == seat # 0 /\ link[seat].up
SeatIsServed ==
    (link # <<>>) ~> (ProxyServes \/ OutOfLinks \/ overtaken)
=============================================================================
