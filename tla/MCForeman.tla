----------------------------- MODULE MCForeman -----------------------------
(* The foreman's queue of turns, its history and its proxy seat, which share *)
(* no state: a behaviour is one of the queue, of the history or of the seat. *)
(* Queue: six turns under one key, arriving in any order.                    *)
EXTENDS ForemanQueue, ForemanHistory, ForemanProxy, TLC

CONSTANTS h1, h2, h3, g1, g2, s1, k1
OneKey == [t \in Turns |-> k1]

VARIABLE part

MCInit ==
    /\ part \in {"queue", "history", "proxy"}
    /\ Init /\ HistoryInit /\ ProxyInit
    /\ part # "proxy" => embedded

MCNext ==
    \/ part = "queue" /\ Next /\ UNCHANGED <<historyVars, proxyVars, part>>
    \/ part = "history" /\ HistoryNext /\ UNCHANGED <<vars, proxyVars, part>>
    \/ part = "proxy" /\ ProxyNext /\ UNCHANGED <<vars, historyVars, part>>

MCFairness ==
    /\ \A k \in Keys : WF_vars(part = "queue" /\ Step(k))
    /\ \A p \in Proxies : WF_proxyVars(part = "proxy" /\ Connect(p))
    /\ \A s \in 1..MaxLinks : WF_proxyVars(part = "proxy" /\ s \in Links /\ LinkProceeds(s))
    /\ \A r \in LLMRuns : WF_proxyVars(part = "proxy" /\ CallProceeds(r))

MCSpec == MCInit /\ [][MCNext]_<<vars, historyVars, proxyVars, part>> /\ MCFairness
=============================================================================
