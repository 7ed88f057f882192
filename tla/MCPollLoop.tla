----------------------------- MODULE MCPollLoop -----------------------------
(* The root task of an issue and its child: finalize_task's cascade, the issue's
   webhooks, the poll loop and finalize_closed_issue.  No agent has joined, so no
   follow-up takes a lock. *)
EXTENDS PollLoop, TLC

CONSTANTS t1, t2, w1
NoAgents == <<>>
RootAndChild == t1 :> NoTask @@ t2 :> t1
=============================================================================
