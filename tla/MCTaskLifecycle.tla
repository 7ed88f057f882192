-------------------------- MODULE MCTaskLifecycle --------------------------
(* Requests that race for rows of the database: a behaviour is one of a task *)
(* without an issue (its lock, its queue, the frames of the workers), or one *)
(* of a guild's members and invitations, which share no row.                 *)
EXTENDS TaskLifecycle, GuildAccess, TLC

CONSTANTS t1, w1, a1, u1, u2, n1, n2
OneWorker == a1 :> w1
NoParent == t1 :> NoTask
OnePerson == n1 :> u2 @@ n2 :> u2   \* a login and a numeric id

\* Nothing tells two requests apart, and no property here is a temporal one.
Symmetric == Permutations(Requests) \cup Permutations(Clients)

VARIABLE part

MCInit == part \in {"task", "guild"} /\ Init /\ AccessInit

MCNext ==
    \/ part = "task" /\ (TaskStep \/ Restart) /\ UNCHANGED <<accessVars, part>>
    \/ part = "guild" /\ AccessNext /\ UNCHANGED <<vars, part>>

MCSpec == MCInit /\ [][MCNext]_<<vars, accessVars, part>>
=============================================================================
