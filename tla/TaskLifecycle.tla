--------------------------- MODULE TaskLifecycle ---------------------------
(***************************************************************************)
(* The backend's view of a task: its row, its lock, its queue of follow-up *)
(* requests and the rows of the agents, as they are changed by             *)
(*   - REST endpoints and foreman tools (cancel, redirect, finalize,       *)
(*     assign, send_followup), several of which run concurrently,          *)
(*   - the frames a worker sends (ws_handlers.py), handled one at a time   *)
(*     for each worker's socket but concurrently with everything else,     *)
(*   - the sweeper of main.py (expired locks, stale-task watchdog),        *)
(*   - GitHub webhooks and the poll loop that clean up a closed issue,     *)
(*   - restarts of the backend, which lose every handler in progress.      *)
(* A step is one database transaction, or the part of a handler between    *)
(* two reads or commits where another handler can run.  PostgreSQL keeps a *)
(* row locked from the UPDATE (or SELECT FOR UPDATE) to the commit, so an  *)
(* UPDATE and what follows it in the same transaction are one step.        *)
(***************************************************************************)
EXTENDS Naturals, FiniteSets

CONSTANTS
    Tasks, Workers, Agents, Requests,
    WorkerOf,       \* the worker each agent slot belongs to
    Parent,         \* parent_task_id of each task, or NoTask
    Linkable,       \* the tasks that may be linked to the issue
    IssueRoots,     \* the tasks created with phase = 'issue'
    PrTasks,        \* the tasks that may be assigned with the branch of a PR
    MaxChainDepth,  \* _MAX_DESCENDANT_CHAIN_DEPTH
    MaxRuns,        \* bound: dispatches the workers hold at a time
    NoTask, NoWorker, NoAgent, NoLock

ASSUME WorkerOfType == WorkerOf \in [Agents -> Workers]
ASSUME ParentType == Parent \in [Tasks -> Tasks \cup {NoTask}]
ASSUME RootsType == IssueRoots \subseteq Linkable /\ Linkable \subseteq Tasks
ASSUME BoundsType == MaxChainDepth \in Nat /\ MaxRuns \in Nat
ASSUME NullsDistinct == /\ NoTask \notin Tasks
                        /\ NoWorker \notin Workers
                        /\ NoAgent \notin Agents
                        /\ NoLock \notin [owner : Requests, age : {"fresh", "aged", "expired"}]

VARIABLES
    state,    \* Task.state; "awaiting" stands for both awaiting-*review states
    worker,   \* Task.worker_id
    deleted,  \* Task.deleted_at is not NULL
    root,     \* Task.phase = 'issue'
    branch,   \* Task.branch is recorded
    issue,    \* Task.issue_number and issue_state: not linked, open or closed
    lock,     \* the Lock row with key task:<id>
    event,    \* what became of the pending-followup event of each request
    agent,    \* Agent.state and Agent.current_task_id
    req,      \* REST and tool calls in progress
    hand,     \* the frame being handled for each worker
    runs,     \* dispatches the workers hold: queued (NoAgent) or running
    sweep,    \* the sweeper of main.py
    closer,   \* finalize_closed_issue in progress
    github    \* the state of the issue on GitHub

vars == <<state, worker, deleted, root, branch, issue, lock, event, agent, req, hand,
          runs, sweep, closer, github>>
taskVars == <<state, worker, deleted, root, branch, issue>>

Terminal == {"done", "failed", "cancelled", "error"}
Open == {"pending", "working", "awaiting"}
TaskStates == {"absent"} \cup Open \cup Terminal
Ages == {"fresh", "aged", "expired"}
LockRow(r, age) == [owner |-> r, age |-> age]
LockRows == [owner : Requests, age : Ages]

\* A request makes any number of cancel and redirect calls and one follow-up;
\* it is "over" when that one was queued or died with the backend.
ReqPcs == {"idle", "cancelling", "redirecting", "selected", "acquired",
           "refused", "dispatched", "over"}
\* Queued, in the hands of a frame handler, and then shown to the foreman,
\* discarded or lost.
EventFates == {"none", "queued", "carried", "gone"}
Call(pc, t, w, reopen) == [pc |-> pc, task |-> t, worker |-> w, reopen |-> reopen]
IdleReq == Call("idle", NoTask, NoWorker, FALSE)
Over(r) == Call("over", req[r].task, NoWorker, FALSE)
\* "before" is kept for QueueEmptiesForAReason: what was queued when a handler of
\* an error began. No handler reads it.
Handling(pc, t, carried) == [pc |-> pc, task |-> t, carried |-> carried, before |-> {}]
Ready == Handling("ready", NoTask, {})
IdleCloser == [pc |-> "idle", ids |-> {}]

Runs == [worker : Workers, task : Tasks, kind : {"execute", "followup"},
         agent : Agents \cup {NoAgent}]
Run(w, t, k, a) == [worker |-> w, task |-> t, kind |-> k, agent |-> a]
Dispatch(w, t, k) == Run(w, t, k, NoAgent)
\* A message to a worker: lost if its socket is down; a task-assigned for a task
\* the process has run before is ignored (_known_task_ids).
Deliver(w, t, k) ==
    \/ Cardinality(runs) < MaxRuns /\ runs' = runs \cup {Dispatch(w, t, k)}
    \/ UNCHANGED runs
Queued(t) == {r \in Requests : event[r] = "queued" /\ req[r].task = t}

\* find_descendant_tasks: the chain is followed MaxChainDepth levels down.
Descendants ==
    [t \in Tasks |->
       LET level[n \in 0..MaxChainDepth] ==
               IF n = 0 THEN {}
               ELSE LET above == level[n-1]
                    IN  above \cup {c \in Tasks : Parent[c] \in above \cup {t}}
       IN  level[MaxChainDepth]]

\* Variants with a bug, which no action uses: each stands before the definition it
\* would replace, to show that the properties can fail.  Here: an issue's root is
\* kept like its children; a task is kept whether or not its issue is closed.
RootStaysListed(t, outcome) == ~ (outcome = "done" /\ issue[t] = "open")
ClosedIssueIgnored(t, outcome) == ~ (outcome = "done" /\ ~root[t] /\ issue[t] # "none")

\* finalize_soft_delete_at(outcome, ...) is not None.
StampsDeleted(t, outcome) ==
    ~ (outcome = "done" /\ ~root[t] /\ issue[t] = "open")

TypeOK ==
    /\ state \in [Tasks -> TaskStates]
    /\ worker \in [Tasks -> Workers \cup {NoWorker}]
    /\ deleted \in [Tasks -> BOOLEAN]
    /\ root \in [Tasks -> BOOLEAN]
    /\ branch \in [Tasks -> BOOLEAN]
    /\ issue \in [Tasks -> {"none", "open", "closed"}]
    /\ lock \in [Tasks -> LockRows \cup {NoLock}]
    /\ event \in [Requests -> EventFates]
    /\ agent \in [Agents -> [state : {"offline", "idle", "working", "error"},
                             task : Tasks \cup {NoTask}]]
    /\ req \in [Requests -> [pc : ReqPcs, task : Tasks \cup {NoTask},
                             worker : Workers \cup {NoWorker}, reopen : BOOLEAN]]
    /\ hand \in [Workers -> [pc : {"ready", "drain", "tell", "error", "reject"},
                             task : Tasks \cup {NoTask}, carried : SUBSET Requests,
                             before : SUBSET Requests]]
    /\ \A r \in Requests :
          /\ req[r].pc # "idle" => req[r].task \in Tasks
          /\ req[r].pc \in {"selected", "acquired", "refused"} => req[r].worker \in Workers
    /\ \A w \in Workers :
          /\ hand[w].pc # "ready" => hand[w].task \in Tasks
          /\ hand[w].before \subseteq hand[w].carried
    /\ runs \subseteq Runs
    /\ sweep \in [pc : {"cleanup", "scan", "apply"}, stale : SUBSET Tasks]
    /\ closer \in [pc : {"idle", "started", "roots", "stamp", "lost"}, ids : SUBSET Tasks]
    /\ github \in {"open", "closed"}

Init ==
    /\ state = [t \in Tasks |-> "absent"]
    /\ worker = [t \in Tasks |-> NoWorker]
    /\ deleted = [t \in Tasks |-> FALSE]
    /\ root = [t \in Tasks |-> t \in IssueRoots]
    /\ branch = [t \in Tasks |-> FALSE]
    /\ issue = [t \in Tasks |-> "none"]
    /\ lock = [t \in Tasks |-> NoLock]
    /\ event = [r \in Requests |-> "none"]
    /\ agent = [a \in Agents |-> [state |-> "offline", task |-> NoTask]]
    /\ req = [r \in Requests |-> IdleReq]
    /\ hand = [w \in Workers |-> Ready]
    /\ runs = {}
    /\ sweep = [pc |-> "cleanup", stale |-> {}]
    /\ closer = IdleCloser
    /\ github = "open"

-----------------------------------------------------------------------------
(* Creation and assignment *)

\* create_task: an unassigned row, linked to the issue or not.  issue_state
\* stays NULL, which every reader treats as open.
CreateTask(t, linked) ==
    /\ state[t] = "absent"
    /\ linked => t \in Linkable
    /\ t \in IssueRoots => linked
    /\ Parent[t] # NoTask => state[Parent[t]] # "absent"
    /\ state' = [state EXCEPT ![t] = "pending"]
    /\ issue' = [issue EXCEPT ![t] = IF linked THEN "open" ELSE "none"]
    /\ UNCHANGED <<branch, worker, deleted, root, lock, event, agent, req, hand, runs,
                   sweep, closer, github>>

\* assign_task: one UPDATE that looks at neither the state nor the lock of the
\* task and may record the issue and the branch of its PR, then the task-assigned
\* message.  The worker's capacity was checked in earlier reads, so nothing about it
\* is assumed here.  (A new row is inserted assigned: here, created and then
\* assigned.)
AssignTask(t, w) ==
    /\ state[t] # "absent"
    /\ state' = [state EXCEPT ![t] = "pending"]
    /\ worker' = [worker EXCEPT ![t] = w]
    /\ root' = [root EXCEPT ![t] = FALSE]
    /\ \E forPr \in IF t \in PrTasks THEN BOOLEAN ELSE {FALSE} : branch' = [branch EXCEPT ![t] = @ \/ forPr]
    /\ \E linked \in IF t \in Linkable /\ issue[t] = "none" THEN BOOLEAN ELSE {FALSE} :
          issue' = [issue EXCEPT ![t] = IF linked THEN "open" ELSE @]
    /\ Deliver(w, t, "execute")
    /\ UNCHANGED <<deleted, lock, event, agent, req, hand, sweep, closer, github>>

-----------------------------------------------------------------------------
(* finalize_task *)

\* Variants: the lock is not released; a finished task is finished again.
FinalizeKeepsLock(t, outcome) ==
    /\ state[t] \in Open
    /\ state' = [state EXCEPT ![t] = outcome]
    /\ deleted' = [deleted EXCEPT ![t] = StampsDeleted(t, outcome)]
    /\ UNCHANGED lock
FinalizeAgain(t, outcome) ==
    /\ state[t] # "absent"
    /\ state' = [state EXCEPT ![t] = outcome]
    /\ deleted' = [deleted EXCEPT ![t] = StampsDeleted(t, outcome)]
    /\ lock' = [lock EXCEPT ![t] = NoLock]

\* The whole transaction: SELECT FOR UPDATE, conditional UPDATE, release of the
\* lock, purge of the queued events, cascade from an issue root, commit.  It
\* does nothing to a task already in a terminal state.
FinalizeTask(t, outcome) ==
    /\ state[t] \in Open
    /\ state' = [state EXCEPT ![t] = outcome]
    /\ deleted' = [d \in Tasks |->
                     IF d = t THEN StampsDeleted(t, outcome)
                     ELSE deleted[d] \/ (/\ root[t]
                                         /\ d \in Descendants[t]
                                         /\ state[d] \in Terminal)]
    /\ lock' = [lock EXCEPT ![t] = NoLock]

\* Every queued event of t is deleted; those a handler had copied are kept by it.
PurgeEvents(t, copied) ==
    event' = [r \in Requests |-> IF r \notin Queued(t) THEN event[r]
                                ELSE IF r \in copied THEN "carried" ELSE "gone"]

\* The finalize endpoint, the finalize_task tool and the pull-request webhook.
Finalize(t) ==
    \E outcome \in {"done", "failed"} :
        /\ FinalizeTask(t, outcome)
        /\ PurgeEvents(t, {})
        /\ UNCHANGED <<branch, worker, root, issue, agent, req, hand, runs, sweep, closer, github>>

-----------------------------------------------------------------------------
(* REST and tool calls that read the row, decide, and write later *)

\* cancel_task: the check that the task is not terminal ...
CancelRead(r, t) ==
    /\ req[r].pc = "idle" /\ state[t] \in Open
    /\ req' = [req EXCEPT ![r] = Call("cancelling", t, NoWorker, FALSE)]
    /\ UNCHANGED <<taskVars, lock, event, agent, hand, runs, sweep, closer, github>>

\* Variant: the cancelled task is not soft-deleted.
CancelKeepsListed(r) ==
    LET t == req[r].task IN
    /\ req[r].pc = "cancelling"
    /\ state' = [state EXCEPT ![t] = "cancelled"]
    /\ lock' = [lock EXCEPT ![t] = NoLock]
    /\ req' = [req EXCEPT ![r] = IdleReq]
    /\ UNCHANGED <<branch, worker, deleted, root, issue, event, agent, hand, runs, sweep,
                   closer, github>>

\* ... and its UPDATE by id, which does not check again.  Queued events stay.
CancelWrite(r) ==
    LET t == req[r].task IN
    /\ req[r].pc = "cancelling"
    /\ state' = [state EXCEPT ![t] = "cancelled"]
    /\ deleted' = [deleted EXCEPT ![t] = TRUE]
    /\ lock' = [lock EXCEPT ![t] = NoLock]
    /\ req' = [req EXCEPT ![r] = IdleReq]
    /\ UNCHANGED <<branch, worker, root, issue, event, agent, hand, runs, sweep, closer, github>>

RedirectRead(r, t) ==
    /\ req[r].pc = "idle" /\ state[t] \in Open
    /\ req' = [req EXCEPT ![r] = Call("redirecting", t, worker[t], FALSE)]
    /\ UNCHANGED <<taskVars, lock, event, agent, hand, runs, sweep, closer, github>>

\* The UPDATE by id, then the task-redirect message to the worker read before:
\* a worker that no longer runs the task queues it again as a follow-up.
RedirectWrite(r) ==
    LET t == req[r].task
        w == req[r].worker
        running == \E run \in runs : run.worker = w /\ run.task = t /\ run.agent # NoAgent
    IN
    /\ req[r].pc = "redirecting"
    /\ state' = [state EXCEPT ![t] = "working"]
    /\ IF w = NoWorker \/ running THEN UNCHANGED runs ELSE Deliver(w, t, "followup")
    /\ req' = [req EXCEPT ![r] = IdleReq]
    /\ UNCHANGED <<branch, worker, deleted, root, issue, lock, event, agent, hand, sweep,
                   closer, github>>

\* send_followup reads the row, refuses one with no branch, and picks a worker with an idle agent.
FollowupRead(r, t, w) ==
    /\ req[r].pc = "idle" /\ state[t] # "absent" /\ branch[t]
    /\ \E a \in Agents : WorkerOf[a] = w /\ agent[a].state = "idle"
    /\ req' = [req EXCEPT ![r] = Call("selected", t, w, state[t] \in Terminal)]
    /\ UNCHANGED <<taskVars, lock, event, agent, hand, runs, sweep, closer, github>>

\* LockService.acquire and its commit: an expired row is evicted first.
FollowupAcquire(r) ==
    LET t == req[r].task
        free == lock[t] = NoLock \/ lock[t].age = "expired"
    IN
    /\ req[r].pc = "selected"
    /\ lock' = IF free THEN [lock EXCEPT ![t] = LockRow(r, "fresh")] ELSE lock
    /\ req' = [req EXCEPT ![r] = Call(IF free THEN "acquired" ELSE "refused",
                                      t, req[r].worker, req[r].reopen)]
    /\ UNCHANGED <<taskVars, event, agent, hand, runs, sweep, closer, github>>

\* The lock was refused: the request is queued in a transaction of its own.
FollowupQueue(r) ==
    /\ req[r].pc = "refused"
    /\ event' = [event EXCEPT ![r] = "queued"]
    /\ req' = [req EXCEPT ![r] = Over(r)]
    /\ UNCHANGED <<taskVars, lock, agent, hand, runs, sweep, closer, github>>

\* The lock was granted: the UPDATE by id, deleted_at cleared only when the row
\* read at the start was terminal, then the task-followup message.
FollowupWrite(r) ==
    LET t == req[r].task IN
    /\ req[r].pc = "acquired"
    /\ state' = [state EXCEPT ![t] = "working"]
    /\ worker' = [worker EXCEPT ![t] = req[r].worker]
    /\ root' = [root EXCEPT ![t] = FALSE]
    /\ deleted' = [deleted EXCEPT ![t] = @ /\ ~req[r].reopen]
    /\ Deliver(req[r].worker, t, "followup")
    /\ req' = [req EXCEPT ![r] = Call("dispatched", t, NoWorker, FALSE)]
    /\ UNCHANGED <<branch, issue, lock, event, agent, hand, sweep, closer, github>>

-----------------------------------------------------------------------------
(* Frames from workers, one at a time for each worker *)

Busy(a) == \E run \in runs : run.agent = a

\* A slot takes a dispatch and sends agent-state working (handle_agent_state,
\* which touches no task for a state that releases no lock).
RunStarts(run, a) ==
    /\ run \in runs /\ run.agent = NoAgent /\ run.worker = WorkerOf[a]
    /\ hand[run.worker].pc = "ready" /\ ~Busy(a) /\ agent[a].state # "offline"
    /\ runs' = (runs \ {run}) \cup {Run(run.worker, run.task, run.kind, a)}
    /\ agent' = [agent EXCEPT ![a] = [state |-> "working", task |-> run.task]]
    /\ UNCHANGED <<taskVars, lock, event, req, hand, sweep, closer, github>>

\* task-update working, at the start of a run and after a redirect: a state that
\* is not terminal is written whatever the row holds.
FrameWorking(run) ==
    /\ run \in runs /\ run.agent # NoAgent /\ hand[run.worker].pc = "ready"
    /\ state' = [state EXCEPT ![run.task] = "working"]
    /\ UNCHANGED <<branch, worker, deleted, root, issue, lock, event, agent, req, hand, runs,
                   sweep, closer, github>>

\* task-update with the branch of the worktree and no state.
FrameBranch(run) ==
    /\ run \in runs /\ run.agent # NoAgent /\ hand[run.worker].pc = "ready"
    /\ branch' = [branch EXCEPT ![run.task] = TRUE]
    /\ UNCHANGED <<state, worker, deleted, root, issue, lock, event, agent, req, hand,
                   runs, sweep, closer, github>>

\* task-complete ends an execute run: working -> awaiting, the lock is released
\* whatever the state, queued events are left alone.
FrameComplete(run) ==
    LET t == run.task IN
    /\ run \in runs /\ run.agent # NoAgent /\ run.kind = "execute"
    /\ hand[run.worker].pc = "ready"
    /\ state' = [state EXCEPT ![t] = IF @ = "working" THEN "awaiting" ELSE @]
    /\ lock' = [lock EXCEPT ![t] = NoLock]
    /\ runs' = runs \ {run}
    /\ UNCHANGED <<branch, worker, deleted, root, issue, event, agent, req, hand, sweep,
                   closer, github>>

\* task-followup-done, first transaction: any open state -> awaiting, lock released.
FrameFollowupDone(run) ==
    LET t == run.task IN
    /\ run \in runs /\ run.agent # NoAgent /\ run.kind = "followup"
    /\ hand[run.worker].pc = "ready"
    /\ state' = [state EXCEPT ![t] = IF @ \in Open THEN "awaiting" ELSE @]
    /\ lock' = [lock EXCEPT ![t] = NoLock]
    /\ runs' = runs \ {run}
    /\ hand' = [hand EXCEPT ![run.worker] = Handling("drain", t, {})]
    /\ UNCHANGED <<branch, worker, deleted, root, issue, event, agent, req, sweep, closer, github>>

\* Variant: the events are deleted before they are read.
DrainUnread(w) ==
    LET queued == Queued(hand[w].task) IN
    /\ hand[w].pc = "drain"
    /\ event' = [r \in Requests |-> IF r \in queued THEN "gone" ELSE event[r]]
    /\ hand' = [hand EXCEPT ![w] = Handling("tell", hand[w].task, {})]
    /\ UNCHANGED <<taskVars, lock, agent, req, runs, sweep, closer, github>>

\* Second transaction: the queued events are read and deleted.
FollowupDoneDrain(w) ==
    LET queued == Queued(hand[w].task) IN
    /\ hand[w].pc = "drain"
    /\ event' = [r \in Requests |-> IF r \in queued THEN "carried" ELSE event[r]]
    /\ hand' = [hand EXCEPT ![w] = Handling("tell", hand[w].task, queued)]
    /\ UNCHANGED <<taskVars, lock, agent, req, runs, sweep, closer, github>>

\* trigger_foreman shows the foreman the payloads the handler carries.
TellForeman(w) ==
    /\ hand[w].pc = "tell"
    /\ event' = [r \in Requests |-> IF r \in hand[w].carried /\ event[r] = "carried"
                                     THEN "gone" ELSE event[r]]
    /\ hand' = [hand EXCEPT ![w] = Ready]
    /\ UNCHANGED <<taskVars, lock, agent, req, runs, sweep, closer, github>>

\* An error is handled from here on, with a copy of these payloads.
Errs(run, copied) ==
    /\ run \in runs /\ run.agent # NoAgent /\ hand[run.worker].pc = "ready"
    /\ runs' = runs \ {run}
    /\ hand' = [hand EXCEPT ![run.worker] =
                   [Handling("error", run.task, copied) EXCEPT !.before = Queued(run.task)]]
    /\ UNCHANGED <<taskVars, lock, event, agent, req, sweep, closer, github>>

\* Variant: the queue is not copied before it is purged.
ErrorUncopied(run) == Errs(run, {})

\* task-update error: the payloads are read ...
FrameError(run) == Errs(run, Queued(run.task))

\* ... and finalize_task purges the queue, if the task is still open.  Events
\* that stay queued because it was not are carried all the same.
ErrorFinalize(w) ==
    LET t == hand[w].task IN
    /\ hand[w].pc = "error"
    /\ \/ FinalizeTask(t, "error") /\ PurgeEvents(t, hand[w].carried)
       \/ state[t] \in Terminal /\ UNCHANGED <<state, deleted, lock, event>>
    /\ hand' = [hand EXCEPT ![w] = Handling("tell", t, hand[w].carried)]
    /\ UNCHANGED <<branch, worker, root, issue, agent, req, runs, sweep, closer, github>>

\* task-update failed or cancelled.
FrameFailed(run) ==
    LET t == run.task IN
    /\ run \in runs /\ run.agent # NoAgent /\ hand[run.worker].pc = "ready"
    /\ \/ \E outcome \in {"failed", "cancelled"} :
             FinalizeTask(t, outcome) /\ PurgeEvents(t, {})
       \/ state[t] \in Terminal /\ UNCHANGED <<state, deleted, lock, event>>
    /\ runs' = runs \ {run}
    /\ UNCHANGED <<branch, worker, root, issue, agent, req, hand, sweep, closer, github>>

\* task-rejected: the SELECT of a pending or working row of this worker ...
FrameRejected(run) ==
    LET t == run.task
        w == run.worker
    IN
    /\ run \in runs /\ run.agent = NoAgent /\ hand[w].pc = "ready"
    /\ runs' = runs \ {run}
    /\ hand' = IF worker[t] = w /\ state[t] \in {"pending", "working"}
               THEN [hand EXCEPT ![w] = Handling("reject", t, {})]
               ELSE hand
    /\ UNCHANGED <<taskVars, lock, event, agent, req, sweep, closer, github>>

\* ... and the UPDATE by id.
RejectedWrite(w) ==
    LET t == hand[w].task IN
    /\ hand[w].pc = "reject"
    /\ state' = [state EXCEPT ![t] = "pending"]
    /\ worker' = [worker EXCEPT ![t] = NoWorker]
    /\ lock' = [lock EXCEPT ![t] = NoLock]
    /\ hand' = [hand EXCEPT ![w] = Ready]
    /\ UNCHANGED <<branch, deleted, root, issue, event, agent, req, runs, sweep, closer, github>>

\* agent-state idle, offline or error: the row's task, if it is working on this
\* agent's worker, goes to awaiting and its lock is released.  A needs-input run
\* ends with the error state and no frame that changes the task.
AgentStops(a, s) ==
    LET t == agent[a].task
        w == WorkerOf[a]
        releases == t \in Tasks /\ state[t] = "working" /\ worker[t] = w
    IN
    /\ hand[w].pc = "ready" /\ agent[a].state # "offline"
    /\ IF s = "error" THEN runs' = {run \in runs : run.agent # a}
                      ELSE ~Busy(a) /\ UNCHANGED runs
    /\ agent' = [agent EXCEPT ![a] = [state |-> s,
                                      task |-> IF s = "error" THEN t ELSE NoTask]]
    /\ IF releases THEN /\ state' = [state EXCEPT ![t] = "awaiting"]
                        /\ lock' = [lock EXCEPT ![t] = NoLock]
                   ELSE UNCHANGED <<state, lock>>
    /\ UNCHANGED <<branch, worker, deleted, root, issue, event, req, hand, sweep, closer, github>>

\* join: the slots' rows become idle with no task, and the worker's pending and
\* working tasks are sent again; the process takes those it does not know.
Join(w) ==
    LET replayed == {t \in Tasks : worker[t] = w /\ state[t] \in {"pending", "working"}}
        holds == {run.task : run \in {x \in runs : x.worker = w}}
    IN
    /\ hand[w].pc = "ready"
    /\ \A a \in Agents : WorkerOf[a] = w => agent[a].state = "offline"
    /\ agent' = [a \in Agents |-> IF WorkerOf[a] = w THEN [state |-> "idle", task |-> NoTask]
                                                     ELSE agent[a]]
    /\ \E fresh \in SUBSET (replayed \ holds) :
          /\ Cardinality(runs) + Cardinality(fresh) <= MaxRuns \/ fresh = {}
          /\ runs' = runs \cup {Dispatch(w, t, "execute") : t \in fresh}
    /\ UNCHANGED <<taskVars, lock, event, req, hand, sweep, closer, github>>

\* The socket is gone, noticed by its teardown, by worker-disconnect or by the
\* sweeper: the slots' rows go offline, tasks and locks are left alone.  The
\* process may have died with its runs.
WorkerGone(w, died) ==
    /\ hand[w].pc = "ready"
    /\ \E a \in Agents : WorkerOf[a] = w /\ agent[a].state # "offline"
    /\ agent' = [a \in Agents |-> IF WorkerOf[a] = w THEN [state |-> "offline", task |-> NoTask]
                                                     ELSE agent[a]]
    /\ runs' = IF died THEN {run \in runs : run.worker # w} ELSE runs
    /\ UNCHANGED <<taskVars, lock, event, req, hand, sweep, closer, github>>

-----------------------------------------------------------------------------
(* The sweeper of main.py and the clock *)

\* 90 s (WORKER_OFFLINE_AFTER_SECONDS), then 30 min (DEFAULT_TTL_SECONDS).
LockAges(t) ==
    /\ lock[t] # NoLock
    /\ lock[t].age # "expired"
    /\ lock' = [lock EXCEPT ![t] =
                   LockRow(lock[t].owner, IF lock[t].age = "fresh" THEN "aged" ELSE "expired")]
    /\ UNCHANGED <<taskVars, event, agent, req, hand, runs, sweep, closer, github>>

\* LockService.cleanup_expired runs before the watchdog looks.  (With no lock the
\* pass changes nothing and is left out.)
CleanupExpired ==
    /\ sweep.pc = "cleanup" /\ \E t \in Tasks : lock[t] # NoLock
    /\ lock' = [t \in Tasks |-> IF lock[t] # NoLock /\ lock[t].age = "expired"
                                THEN NoLock ELSE lock[t]]
    /\ sweep' = [pc |-> "scan", stale |-> {}]
    /\ UNCHANGED <<taskVars, event, agent, req, hand, runs, closer, github>>

\* Working, locked for more than 90 s, and no agent row working on it.
Orphaned(t) ==
    /\ state[t] = "working"
    /\ lock[t] # NoLock /\ lock[t].age # "fresh"
    /\ \A a \in Agents : ~ (agent[a].task = t /\ agent[a].state = "working")

WatchdogScan ==
    /\ sweep.pc = "scan"
    /\ sweep' = LET stale == {t \in Tasks : Orphaned(t)}
                IN  [pc |-> IF stale = {} THEN "cleanup" ELSE "apply", stale |-> stale]
    /\ UNCHANGED <<taskVars, lock, event, agent, req, hand, runs, closer, github>>

\* For each task found, working -> awaiting and the lock released whoever holds
\* it now; one commit.
WatchdogApply ==
    /\ sweep.pc = "apply"
    /\ state' = [t \in Tasks |-> IF t \in sweep.stale /\ state[t] = "working"
                                 THEN "awaiting" ELSE state[t]]
    /\ lock' = [t \in Tasks |-> IF t \in sweep.stale THEN NoLock ELSE lock[t]]
    /\ sweep' = [pc |-> "cleanup", stale |-> {}]
    /\ UNCHANGED <<branch, worker, deleted, root, issue, event, agent, req, hand, runs,
                   closer, github>>

-----------------------------------------------------------------------------
(* The GitHub issue the linked tasks belong to *)

Linked == {t \in Tasks : issue[t] # "none"}
RecordIssue(s) == issue' = [t \in Tasks |-> IF t \in Linked THEN s ELSE issue[t]]

\* The issue closes and its webhook is delivered: issue_state is committed on
\* every linked task, then finalize_closed_issue starts.
IssueCloses ==
    /\ Linkable # {} /\ github = "open" /\ closer.pc \in {"idle", "lost"}
    /\ github' = "closed"
    /\ RecordIssue("closed")
    /\ closer' = [pc |-> "started", ids |-> {}]
    /\ UNCHANGED <<branch, state, worker, deleted, root, lock, event, agent, req, hand, runs, sweep>>

\* ... or the delivery is missed.
IssueClosesUnseen ==
    /\ Linkable # {} /\ github = "open"
    /\ github' = "closed"
    /\ UNCHANGED <<taskVars, lock, event, agent, req, hand, runs, sweep, closer>>

\* reopened, and edited: any action but closed records an open issue.
IssueTouched(edited) ==
    /\ Linkable # {} /\ (github = "closed" \/ edited)
    /\ github' = IF edited THEN github ELSE "open"
    /\ RecordIssue("open")
    /\ UNCHANGED <<branch, state, worker, deleted, root, lock, event, agent, req, hand, runs,
                   sweep, closer>>

\* _sweep_closed_issues finds the issue closed: see PollLoop.
PollFindsClosed ==
    /\ Linkable # {} /\ github = "closed" /\ closer.pc \in {"idle", "lost"}
    /\ closer' = [pc |-> "started", ids |-> {}]
    /\ UNCHANGED <<taskVars, lock, event, agent, req, hand, runs, sweep, github>>

\* finalize_closed_issue: the SELECT of the open roots, which are finalized one
\* by one ...
CloserRoots ==
    /\ closer.pc = "started"
    /\ closer' = [pc |-> "roots", ids |-> {t \in Linked : root[t] /\ state[t] \in Open}]
    /\ UNCHANGED <<taskVars, lock, event, agent, req, hand, runs, sweep, github>>

CloserRoot(t) ==
    /\ closer.pc = "roots" /\ t \in closer.ids
    /\ \/ FinalizeTask(t, "done") /\ PurgeEvents(t, {})
       \/ state[t] \in Terminal /\ UNCHANGED <<state, deleted, lock, event>>
    /\ closer' = [pc |-> "roots", ids |-> closer.ids \ {t}]
    /\ UNCHANGED <<branch, worker, root, issue, agent, req, hand, runs, sweep, github>>

\* ... then the SELECT of the linked tasks, then the UPDATE by id of those that
\* were terminal and not yet deleted when they were read.
CloserSelect ==
    /\ closer.pc = "roots" /\ closer.ids = {}
    /\ closer' = [pc |-> "stamp",
                  ids |-> {t \in Linked : state[t] \in Terminal /\ ~deleted[t]}]
    /\ UNCHANGED <<taskVars, lock, event, agent, req, hand, runs, sweep, github>>

CloserStamp ==
    /\ closer.pc = "stamp"
    /\ deleted' = [t \in Tasks |-> deleted[t] \/ t \in closer.ids]
    /\ closer' = IdleCloser
    /\ UNCHANGED <<branch, state, worker, root, issue, lock, event, agent, req, hand, runs,
                   sweep, github>>

\* An error, or the cancellation of the poll loop it runs in, ends it half-way.
CloserDies ==
    /\ closer.pc \in {"started", "roots", "stamp"}
    /\ closer' = [pc |-> "lost", ids |-> {}]
    /\ UNCHANGED <<taskVars, lock, event, agent, req, hand, runs, sweep, github>>

-----------------------------------------------------------------------------
(* The backend restarts: calls and handlers in progress are gone, agents are
   reset (reset_connection_state), rows and locks stay. *)

Restart ==
    /\ req' = [r \in Requests |->
                 CASE req[r].pc \in {"cancelling", "redirecting"} -> IdleReq
                   [] req[r].pc \in {"selected", "acquired", "refused"} -> Over(r)
                   [] OTHER -> req[r]]
    /\ hand' = [w \in Workers |-> Ready]
    /\ event' = [r \in Requests |-> IF event[r] = "carried" THEN "gone" ELSE event[r]]
    /\ agent' = [a \in Agents |-> [state |-> "offline", task |-> NoTask]]
    /\ sweep' = [pc |-> "cleanup", stale |-> {}]
    /\ closer' = IF closer.pc = "idle" THEN closer ELSE [pc |-> "lost", ids |-> {}]
    /\ UNCHANGED <<taskVars, lock, runs, github>>

-----------------------------------------------------------------------------
Calls(r) ==
    \/ \E t \in Tasks : CancelRead(r, t) \/ RedirectRead(r, t)
    \/ \E t \in Tasks, w \in Workers : FollowupRead(r, t, w)
    \/ CancelWrite(r) \/ RedirectWrite(r)
    \/ FollowupAcquire(r) \/ FollowupQueue(r) \/ FollowupWrite(r)

Frames(w) ==
    \/ \E run \in {x \in runs : x.worker = w} :
          \/ \E a \in Agents : RunStarts(run, a)
          \/ FrameWorking(run) \/ FrameBranch(run) \/ FrameComplete(run) \/ FrameFollowupDone(run)
          \/ FrameError(run) \/ FrameFailed(run) \/ FrameRejected(run)
    \/ FollowupDoneDrain(w) \/ TellForeman(w) \/ ErrorFinalize(w) \/ RejectedWrite(w)
    \/ \E a \in Agents, s \in {"idle", "offline", "error"} :
          WorkerOf[a] = w /\ AgentStops(a, s)
    \/ Join(w)
    \/ \E died \in BOOLEAN : WorkerGone(w, died)

Sweeper == CleanupExpired \/ WatchdogScan \/ WatchdogApply

Issue ==
    \/ IssueCloses \/ IssueClosesUnseen \/ PollFindsClosed
    \/ \E edited \in BOOLEAN : IssueTouched(edited)
    \/ CloserRoots \/ (\E t \in Tasks : CloserRoot(t))
    \/ CloserSelect \/ CloserStamp \/ CloserDies

\* Everything but the issue and the restarts.
TaskStep ==
    \/ \E t \in Tasks, linked \in BOOLEAN : CreateTask(t, linked)
    \/ \E t \in Tasks, w \in Workers : AssignTask(t, w)
    \/ \E t \in Tasks : Finalize(t)
    \/ \E r \in Requests : Calls(r)
    \/ \E w \in Workers : Frames(w)
    \/ Sweeper
    \/ \E t \in Tasks : LockAges(t)

Next == TaskStep \/ Issue \/ Restart

Spec == Init /\ [][Next]_vars

-----------------------------------------------------------------------------
(* Properties *)

\* A task that left the follow-up's hands is not left locked: once the owner of
\* a Lock row has dispatched its worker, the task is working, or pending again
\* after a re-assignment; every path to another state released the lock.  (An
\* owner still between acquire and UPDATE, or dead in between, is exempt.)
NoOrphanedLock ==
    \A t \in Tasks :
        lock[t] # NoLock /\ req[lock[t].owner].pc = "dispatched"
            => state[t] \in {"pending", "working"}

\* Whichever of its writers ended a task, it stays in the live list only if it is
\* done, linked to the issue and not the issue's root (finalize_soft_delete_at).
KeptLiveOnlyWhenDone ==
    \A t \in Tasks :
        state[t] \in Terminal /\ ~deleted[t]
            => state[t] = "done" /\ issue[t] # "none" /\ ~root[t]

\* Once the clean-up of a closed issue has run, no finished task recorded under
\* the closed issue is left in the live list, even one that finished while
\* finalize_closed_issue was between its SELECT and its UPDATE.
ClosedIssueHidesFinished ==
    closer.pc = "idle" =>
        \A t \in Tasks : issue[t] = "closed" /\ state[t] \in Terminal => deleted[t]

\* The owner of a Lock row is a follow-up call of that task that acquired it.
LockOwnerKnown ==
    \A t \in Tasks :
        lock[t] # NoLock => /\ req[lock[t].owner].task = t
                            /\ req[lock[t].owner].pc \in {"acquired", "dispatched", "over"}

\* The UPDATE that finalize_closed_issue is about to make misses no finished task:
\* one that ends after the SELECT already sees the closed issue.
StampCovers ==
    closer.pc = "stamp" =>
        \A t \in Tasks : issue[t] = "closed" /\ state[t] \in Terminal /\ ~deleted[t]
                           => t \in closer.ids

\* Inductive: see TaskLifecycle_proofs.
IInv == /\ TypeOK /\ LockOwnerKnown /\ NoOrphanedLock /\ KeptLiveOnlyWhenDone
        /\ StampCovers /\ ClosedIssueHidesFinished

\* Two writers that end the same task do not overwrite each other's outcome;
\* only a cancel call that read the row while it was open still can.
FirstOutcomeStands ==
    [][\A t \in Tasks :
          state[t] \in Terminal /\ state'[t] \in Terminal /\ state'[t] # state[t]
              => state'[t] = "cancelled" /\ \E r \in Requests :
                    req[r].pc = "cancelling" /\ req[r].task = t]_vars

\* The error handler finalizes the task, or finds it ended, and goes on to report
\* what it had copied.
Reports(w) == hand[w].pc = "error" /\ hand'[w].pc = "tell"

\* A queued follow-up leaves the queue in the hands of a handler that reports it
\* to the foreman, or in the very step that finalizes its open task; the step of
\* the error handler drops only what was queued after it had begun.
QueueEmptiesForAReason ==
    [][\A r \in Requests :
          LET t == req[r].task IN
          event[r] = "queued" /\ event'[r] # "queued"
              => \/ event'[r] = "carried"
                 \/ /\ state[t] \in Open /\ state'[t] \in Terminal
                    /\ \A w \in Workers : Reports(w) => r \notin hand[w].before]_vars
=============================================================================
