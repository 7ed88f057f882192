------------------------ MODULE TaskLifecycle_proofs ------------------------
(* Type correctness and the safety invariants of TaskLifecycle, for any number
   of tasks, workers, agent slots and concurrent calls, alone and beside the poll
   loop of PollLoop. *)
EXTENDS PollLoop, TLAPS

\* The parts of TypeOK that are about the task rows, the locks and the queue.
LEMMA CallsType ==
    ASSUME TypeOK, NEW r \in Requests, Calls(r)
    PROVE  TypeOK'
<1> USE DEF TypeOK, TaskStates, Open, Terminal, Ages, LockRows, ReqPcs, IdleReq, Over, Call, LockRow, Handling, Run,
            EventFates, Ready, IdleCloser, taskVars
<1>1. ASSUME NEW t \in Tasks, CancelRead(r, t) PROVE TypeOK'
  BY <1>1 DEF CancelRead
<1>2. ASSUME NEW t \in Tasks, RedirectRead(r, t) PROVE TypeOK'
  BY <1>2 DEF RedirectRead
<1>3. ASSUME NEW t \in Tasks, NEW w \in Workers, FollowupRead(r, t, w) PROVE TypeOK'
  BY <1>3 DEF FollowupRead
<1>4. CASE CancelWrite(r)
  BY <1>4 DEF CancelWrite
<1>5. CASE RedirectWrite(r)
  BY <1>5 DEF RedirectWrite, Deliver, Dispatch, Runs
<1>6. CASE FollowupAcquire(r)
  BY <1>6 DEF FollowupAcquire
<1>7. CASE FollowupQueue(r)
  BY <1>7 DEF FollowupQueue
<1>8. CASE FollowupWrite(r)
  BY <1>8 DEF FollowupWrite, Deliver, Dispatch, Runs
<1> QED
  BY <1>1, <1>2, <1>3, <1>4, <1>5, <1>6, <1>7, <1>8 DEF Calls

\* What finalize_task writes is a legal row.
LEMMA FinalizeType ==
    ASSUME TypeOK, NEW t \in Tasks, NEW outcome \in Terminal, FinalizeTask(t, outcome)
    PROVE  /\ state' \in [Tasks -> TaskStates]
           /\ deleted' \in [Tasks -> BOOLEAN]
           /\ lock' \in [Tasks -> LockRows \cup {NoLock}]
<1>1. state' \in [Tasks -> TaskStates] /\ lock' \in [Tasks -> LockRows \cup {NoLock}]
  BY DEF TypeOK, FinalizeTask, TaskStates
<1>2. deleted' \in [Tasks -> BOOLEAN]
  BY DEF FinalizeTask, StampsDeleted, TypeOK
<1> QED
  BY <1>1, <1>2

LEMMA PurgeType ==
    ASSUME TypeOK, NEW t, NEW copied, PurgeEvents(t, copied)
    PROVE  event' \in [Requests -> EventFates]
  BY DEF TypeOK, PurgeEvents, EventFates

LEMMA FramesType ==
    ASSUME TypeOK, NEW w \in Workers, Frames(w)
    PROVE  TypeOK'
<1> USE DEF TypeOK, TaskStates, Open, Terminal, Ages, LockRows, ReqPcs, IdleReq, Call,
            LockRow, Handling, Run, Dispatch, Runs, EventFates, Ready, IdleCloser, taskVars,
            Queued
<1> USE WorkerOfType
<1> DEFINE RowsType == /\ state' \in [Tasks -> TaskStates]
                       /\ deleted' \in [Tasks -> BOOLEAN]
                       /\ lock' \in [Tasks -> LockRows \cup {NoLock}]
                       /\ event' \in [Requests -> EventFates]
<1>1. ASSUME NEW run \in runs, NEW a \in Agents, RunStarts(run, a) PROVE TypeOK'
  BY <1>1 DEF RunStarts
<1>2. ASSUME NEW run \in runs, FrameWorking(run) PROVE TypeOK'
  BY <1>2 DEF FrameWorking
<1>3. ASSUME NEW run \in runs, FrameBranch(run) PROVE TypeOK'
  BY <1>3 DEF FrameBranch
<1>4. ASSUME NEW run \in runs, FrameComplete(run) PROVE TypeOK'
  BY <1>4 DEF FrameComplete
<1>5. ASSUME NEW run \in runs, FrameFollowupDone(run) PROVE TypeOK'
  BY <1>5 DEF FrameFollowupDone
<1>6. ASSUME NEW run \in runs, FrameError(run) PROVE TypeOK'
  BY <1>6 DEF FrameError, Errs
<1>7. ASSUME NEW run \in runs, FrameFailed(run) PROVE TypeOK'
  <2>1. RowsType
    <3>1. CASE state[run.task] \in Terminal
      BY <1>7, <3>1 DEF FrameFailed, FinalizeTask
    <3>2. ASSUME NEW outcome \in {"failed", "cancelled"},
                 FinalizeTask(run.task, outcome), PurgeEvents(run.task, {})
          PROVE  RowsType
      <4>1. run.task \in Tasks /\ outcome \in Terminal
        BY <1>7
      <4> QED
        BY <3>2, <4>1, FinalizeType, PurgeType
    <3> QED
      BY <1>7, <3>1, <3>2 DEF FrameFailed
  <2> QED
    BY <1>7, <2>1 DEF FrameFailed
<1>8. ASSUME NEW run \in runs, FrameRejected(run) PROVE TypeOK'
  BY <1>8 DEF FrameRejected
<1>9. CASE FollowupDoneDrain(w)
  BY <1>9 DEF FollowupDoneDrain
<1>10. CASE TellForeman(w)
  BY <1>10 DEF TellForeman
<1>11. CASE ErrorFinalize(w)
  <2>1. RowsType
    <3>1. CASE state[hand[w].task] \in Terminal
      BY <1>11, <3>1 DEF ErrorFinalize, FinalizeTask
    <3>2. CASE /\ FinalizeTask(hand[w].task, "error")
               /\ PurgeEvents(hand[w].task, hand[w].carried)
      <4>1. hand[w].task \in Tasks /\ "error" \in Terminal
        BY <1>11 DEF ErrorFinalize
      <4> QED
        BY <3>2, <4>1, FinalizeType, PurgeType
    <3> QED
      BY <1>11, <3>1, <3>2 DEF ErrorFinalize
  <2> QED
    BY <1>11, <2>1 DEF ErrorFinalize
<1>12. CASE RejectedWrite(w)
  BY <1>12 DEF RejectedWrite
<1>13. ASSUME NEW a \in Agents, NEW s \in {"idle", "offline", "error"}, AgentStops(a, s)
       PROVE  TypeOK'
  <2>1. agent' \in [Agents -> [state : {"offline", "idle", "working", "error"},
                               task : Tasks \cup {NoTask}]]
    <3>1. agent[a].task \in Tasks \cup {NoTask}
      OBVIOUS
    <3> DEFINE row == [state |-> s, task |-> IF s = "error" THEN agent[a].task ELSE NoTask]
    <3>2. row \in [state : {"offline", "idle", "working", "error"}, task : Tasks \cup {NoTask}]
      BY <3>1
    <3>3. agent' = [agent EXCEPT ![a] = row]
      BY <1>13 DEF AgentStops
    <3> HIDE DEF row
    <3> QED
      BY <3>2, <3>3
  <2>2. /\ state' \in [Tasks -> TaskStates]
        /\ lock' \in [Tasks -> LockRows \cup {NoLock}]
    <3>1. \/ /\ state' = [state EXCEPT ![agent[a].task] = "awaiting"]
             /\ lock' = [lock EXCEPT ![agent[a].task] = NoLock]
          \/ state' = state /\ lock' = lock
      BY <1>13 DEF AgentStops
    <3> QED
      BY <3>1
  <2>3. runs' \subseteq Runs
    <3>1. runs' = {run \in runs : run.agent # a} \/ runs' = runs
      BY <1>13 DEF AgentStops
    <3> QED
      BY <3>1
  <2> QED
    BY <1>13, <2>1, <2>2, <2>3 DEF AgentStops
<1>14. CASE Join(w)
  BY <1>14 DEF Join
<1>15. ASSUME NEW died \in BOOLEAN, WorkerGone(w, died) PROVE TypeOK'
  BY <1>15 DEF WorkerGone
<1> QED
  BY <1>1, <1>2, <1>3, <1>4, <1>5, <1>6, <1>7, <1>8, <1>9, <1>10, <1>11, <1>12, <1>13,
     <1>14, <1>15 DEF Frames

LEMMA IssueType ==
    ASSUME TypeOK, Issue
    PROVE  TypeOK'
<1> USE DEF TypeOK, TaskStates, Open, Terminal, EventFates, IdleCloser, taskVars, Linked,
            RecordIssue
<1>1. CASE IssueCloses
  BY <1>1 DEF IssueCloses
<1>2. CASE IssueClosesUnseen
  BY <1>2 DEF IssueClosesUnseen
<1>3. ASSUME NEW edited \in BOOLEAN, IssueTouched(edited) PROVE TypeOK'
  BY <1>3 DEF IssueTouched
<1>4. CASE PollFindsClosed
  BY <1>4 DEF PollFindsClosed
<1>5. ASSUME NEW t \in Tasks, CloserRoot(t) PROVE TypeOK'
  <2>1. /\ state' \in [Tasks -> TaskStates]
        /\ deleted' \in [Tasks -> BOOLEAN]
        /\ lock' \in [Tasks -> LockRows \cup {NoLock}]
        /\ event' \in [Requests -> EventFates]
    BY <1>5, FinalizeType, PurgeType DEF CloserRoot
  <2> QED
    BY <1>5, <2>1 DEF CloserRoot
<1>6. CASE CloserSelect
  BY <1>6 DEF CloserSelect
<1>7. CASE CloserStamp
  BY <1>7 DEF CloserStamp
<1>8. CASE CloserRoots
  BY <1>8 DEF CloserRoots
<1>9. CASE CloserDies
  BY <1>9 DEF CloserDies
<1> QED
  BY <1>1, <1>2, <1>3, <1>4, <1>5, <1>6, <1>7, <1>8, <1>9 DEF Issue

LEMMA NextType ==
    ASSUME TypeOK, [Next]_vars
    PROVE  TypeOK'
<1> USE DEF TypeOK, TaskStates, Open, Terminal, Ages, LockRows, LockRow, Dispatch, Run, Runs,
            Deliver, EventFates, IdleCloser, taskVars
<1>1. ASSUME NEW t \in Tasks, NEW linked \in BOOLEAN, CreateTask(t, linked) PROVE TypeOK'
  BY <1>1 DEF CreateTask
<1>2. ASSUME NEW t \in Tasks, NEW w \in Workers, AssignTask(t, w) PROVE TypeOK'
  BY <1>2 DEF AssignTask
<1>3. ASSUME NEW t \in Tasks, Finalize(t) PROVE TypeOK'
  <2>1. /\ state' \in [Tasks -> TaskStates]
        /\ deleted' \in [Tasks -> BOOLEAN]
        /\ lock' \in [Tasks -> LockRows \cup {NoLock}]
        /\ event' \in [Requests -> EventFates]
    BY <1>3, FinalizeType, PurgeType DEF Finalize
  <2> QED
    BY <1>3, <2>1 DEF Finalize
<1>4. CASE Sweeper
  BY <1>4 DEF Sweeper, CleanupExpired, WatchdogScan, WatchdogApply
<1>5. ASSUME NEW t \in Tasks, LockAges(t) PROVE TypeOK'
  BY <1>5 DEF LockAges
<1>6. CASE Restart
  BY <1>6 DEF Restart, ReqPcs, IdleReq, Over, Call, Ready, Handling
<1>7. CASE UNCHANGED vars
  BY <1>7 DEF vars
<1> QED
  BY <1>1, <1>2, <1>3, <1>4, <1>5, <1>6, <1>7, CallsType, FramesType, IssueType DEF Next, TaskStep

LEMMA InitType == Init => TypeOK
  BY RootsType DEF Init, TypeOK, TaskStates, LockRows, Ages, EventFates, ReqPcs, IdleReq, Call,
     Ready, Handling, Runs, IdleCloser

\* Every variable keeps its type in every behaviour.
THEOREM TypeCorrect == Spec => []TypeOK
<1>1. TypeOK /\ [Next]_vars => TypeOK'
  BY NextType
<1> QED
  BY InitType, <1>1, PTL DEF Spec

\* finalize_task releases the lock of the task it ends.
LEMMA FinalizeUnlocks ==
    ASSUME IInv, NEW t \in Tasks, NEW outcome \in Terminal, FinalizeTask(t, outcome),
           req' = req
    PROVE  LockOwnerKnown' /\ NoOrphanedLock'
<1>1. \A d \in Tasks : lock'[d] # NoLock => d # t /\ lock'[d] = lock[d] /\ state'[d] = state[d]
  BY DEF FinalizeTask, IInv, TypeOK
<1> QED
  BY <1>1 DEF IInv, LockOwnerKnown, NoOrphanedLock

\* Whatever leaves pending and working releases the lock; only a follow-up call acquires it.
LEMMA LockStep ==
    ASSUME IInv, [Next]_vars
    PROVE  LockOwnerKnown' /\ NoOrphanedLock'
<1> USE DEF IInv, TypeOK, LockOwnerKnown, NoOrphanedLock, Open, Terminal, LockRows,
   LockRow, IdleReq, Call, Over, taskVars
<1>1. ASSUME NEW r \in Requests, Calls(r) PROVE LockOwnerKnown' /\ NoOrphanedLock'
  <2>1. ASSUME NEW t \in Tasks, CancelRead(r, t)
        PROVE  LockOwnerKnown' /\ NoOrphanedLock'
    BY <2>1 DEF CancelRead
  <2>2. ASSUME NEW t \in Tasks, RedirectRead(r, t)
        PROVE  LockOwnerKnown' /\ NoOrphanedLock'
    BY <2>2 DEF RedirectRead
  <2>3. ASSUME NEW t \in Tasks, NEW w \in Workers, FollowupRead(r, t, w)
        PROVE  LockOwnerKnown' /\ NoOrphanedLock'
    BY <2>3 DEF FollowupRead
  <2>4. CASE CancelWrite(r)
    BY <2>4 DEF CancelWrite
  <2>5. CASE RedirectWrite(r)
    BY <2>5 DEF RedirectWrite
  <2>6. CASE FollowupAcquire(r)
    BY <2>6 DEF FollowupAcquire
  <2>7. CASE FollowupQueue(r)
    BY <2>7 DEF FollowupQueue
  <2>8. CASE FollowupWrite(r)
    BY <2>8 DEF FollowupWrite
  <2> QED
    BY <1>1, <2>1, <2>2, <2>3, <2>4, <2>5, <2>6, <2>7, <2>8 DEF Calls
<1>2. ASSUME NEW w \in Workers, Frames(w) PROVE LockOwnerKnown' /\ NoOrphanedLock'
  <2>1. ASSUME NEW run \in runs, NEW a \in Agents, RunStarts(run, a)
        PROVE  LockOwnerKnown' /\ NoOrphanedLock'
    BY <2>1 DEF RunStarts
  <2>2. ASSUME NEW run \in runs, FrameWorking(run)
        PROVE  LockOwnerKnown' /\ NoOrphanedLock'
    BY <2>2 DEF FrameWorking
  <2>3. ASSUME NEW run \in runs, FrameBranch(run)
        PROVE  LockOwnerKnown' /\ NoOrphanedLock'
    BY <2>3 DEF FrameBranch
  <2>4. ASSUME NEW run \in runs, FrameComplete(run)
        PROVE  LockOwnerKnown' /\ NoOrphanedLock'
    BY <2>4 DEF FrameComplete
  <2>5. ASSUME NEW run \in runs, FrameFollowupDone(run)
        PROVE  LockOwnerKnown' /\ NoOrphanedLock'
    BY <2>5 DEF FrameFollowupDone
  <2>6. ASSUME NEW run \in runs, FrameError(run)
        PROVE  LockOwnerKnown' /\ NoOrphanedLock'
    BY <2>6 DEF FrameError, Errs
  <2>7. ASSUME NEW run \in runs, FrameFailed(run)
        PROVE  LockOwnerKnown' /\ NoOrphanedLock'
    <3>1. CASE state' = state /\ lock' = lock
      BY <2>7, <3>1 DEF FrameFailed
    <3>2. ASSUME NEW outcome \in {"failed", "cancelled"}, FinalizeTask(run.task, outcome)
          PROVE  LockOwnerKnown' /\ NoOrphanedLock'
      BY <2>7, <3>2, FinalizeUnlocks DEF FrameFailed, Runs
    <3> QED
      BY <2>7, <3>1, <3>2 DEF FrameFailed
  <2>8. ASSUME NEW run \in runs, FrameRejected(run)
        PROVE  LockOwnerKnown' /\ NoOrphanedLock'
    BY <2>8 DEF FrameRejected
  <2>9. CASE FollowupDoneDrain(w)
    BY <2>9 DEF FollowupDoneDrain
  <2>10. CASE TellForeman(w)
    BY <2>10 DEF TellForeman
  <2>11. CASE ErrorFinalize(w)
    <3>1. CASE state' = state /\ lock' = lock
      BY <2>11, <3>1 DEF ErrorFinalize
    <3>2. CASE FinalizeTask(hand[w].task, "error")
      BY <2>11, <3>2, FinalizeUnlocks DEF ErrorFinalize
    <3> QED
      BY <2>11, <3>1, <3>2 DEF ErrorFinalize
  <2>12. CASE RejectedWrite(w)
    BY <2>12 DEF RejectedWrite
  <2>13. ASSUME NEW a \in Agents, NEW s \in {"idle", "offline", "error"}, AgentStops(a, s)
         PROVE  LockOwnerKnown' /\ NoOrphanedLock'
    <3>1. CASE state' = state /\ lock' = lock
      BY <2>13, <3>1 DEF AgentStops
    <3>2. CASE /\ agent[a].task \in Tasks
               /\ state' = [state EXCEPT ![agent[a].task] = "awaiting"]
               /\ lock' = [lock EXCEPT ![agent[a].task] = NoLock]
      BY <2>13, <3>2 DEF AgentStops
    <3> QED
      BY <2>13, <3>1, <3>2 DEF AgentStops
  <2>14. CASE Join(w)
    BY <2>14 DEF Join
  <2>15. ASSUME NEW died \in BOOLEAN, WorkerGone(w, died)
         PROVE  LockOwnerKnown' /\ NoOrphanedLock'
    BY <2>15 DEF WorkerGone
  <2> QED
    BY <1>2, <2>1, <2>2, <2>3, <2>4, <2>5, <2>6, <2>7, <2>8, <2>9, <2>10, <2>11, <2>12,
       <2>13, <2>14, <2>15 DEF Frames
<1>3. CASE Issue
  <2>1. CASE IssueCloses
    BY <2>1 DEF IssueCloses
  <2>2. CASE IssueClosesUnseen
    BY <2>2 DEF IssueClosesUnseen
  <2>3. ASSUME NEW edited \in BOOLEAN, IssueTouched(edited)
        PROVE  LockOwnerKnown' /\ NoOrphanedLock'
    BY <2>3 DEF IssueTouched
  <2>4. CASE PollFindsClosed
    BY <2>4 DEF PollFindsClosed
  <2>5. ASSUME NEW t \in Tasks, CloserRoot(t)
        PROVE  LockOwnerKnown' /\ NoOrphanedLock'
    <3>1. CASE state' = state /\ lock' = lock
      BY <2>5, <3>1 DEF CloserRoot
    <3>2. CASE FinalizeTask(t, "done")
      BY <2>5, <3>2, FinalizeUnlocks DEF CloserRoot
    <3> QED
      BY <2>5, <3>1, <3>2 DEF CloserRoot
  <2>6. CASE CloserSelect
    BY <2>6 DEF CloserSelect
  <2>7. CASE CloserStamp
    BY <2>7 DEF CloserStamp
  <2>8. CASE CloserRoots
    BY <2>8 DEF CloserRoots
  <2>9. CASE CloserDies
    BY <2>9 DEF CloserDies
  <2> QED
    BY <1>3, <2>1, <2>2, <2>3, <2>4, <2>5, <2>6, <2>7, <2>8, <2>9 DEF Issue
<1>4. ASSUME NEW t \in Tasks, NEW linked \in BOOLEAN, CreateTask(t, linked)
      PROVE  LockOwnerKnown' /\ NoOrphanedLock'
  BY <1>4 DEF CreateTask
<1>5. ASSUME NEW t \in Tasks, NEW w \in Workers, AssignTask(t, w)
      PROVE  LockOwnerKnown' /\ NoOrphanedLock'
  BY <1>5 DEF AssignTask
<1>6. ASSUME NEW t \in Tasks, Finalize(t)
      PROVE  LockOwnerKnown' /\ NoOrphanedLock'
  BY <1>6, FinalizeUnlocks DEF Finalize
<1>7. CASE CleanupExpired
  BY <1>7 DEF CleanupExpired
<1>8. CASE WatchdogScan
  BY <1>8 DEF WatchdogScan
<1>9. CASE WatchdogApply
  BY <1>9 DEF WatchdogApply
<1>10. ASSUME NEW t \in Tasks, LockAges(t)
      PROVE  LockOwnerKnown' /\ NoOrphanedLock'
  BY <1>10 DEF LockAges
<1>11. CASE Restart
  BY <1>11 DEF Restart
<1>12. CASE UNCHANGED vars
  BY <1>12 DEF vars
<1> QED
  BY <1>1, <1>2, <1>3, <1>4, <1>5, <1>6, <1>7, <1>8, <1>9, <1>10, <1>11, <1>12 DEF Next, TaskStep,
     Sweeper

\* finalize_task itself decides deleted_at as KeptLiveOnlyWhenDone asks.
LEMMA FinalizeKeepsLive ==
    ASSUME IInv, NEW t \in Tasks, NEW outcome \in Terminal, FinalizeTask(t, outcome),
           issue' = issue, root' = root
    PROVE  KeptLiveOnlyWhenDone'
<1> SUFFICES ASSUME NEW d \in Tasks, state'[d] \in Terminal, ~deleted'[d]
             PROVE  state'[d] = "done" /\ issue[d] # "none" /\ ~root[d]
  BY DEF KeptLiveOnlyWhenDone
<1>1. CASE d = t
  BY <1>1 DEF FinalizeTask, StampsDeleted, IInv, TypeOK
<1>2. CASE d # t
  BY <1>2 DEF FinalizeTask, IInv, TypeOK, KeptLiveOnlyWhenDone
<1> QED
  BY <1>1, <1>2

\* Every writer of a terminal state also decides deleted_at.
LEMMA KeptLiveStep ==
    ASSUME IInv, [Next]_vars
    PROVE  KeptLiveOnlyWhenDone'
<1> USE DEF IInv, TypeOK, KeptLiveOnlyWhenDone, Open, Terminal, TaskStates, taskVars,
   Linked, RecordIssue
<1>1. ASSUME NEW r \in Requests, Calls(r) PROVE KeptLiveOnlyWhenDone'
  <2>1. ASSUME NEW t \in Tasks, CancelRead(r, t) PROVE KeptLiveOnlyWhenDone'
    BY <2>1 DEF CancelRead
  <2>2. ASSUME NEW t \in Tasks, RedirectRead(r, t) PROVE KeptLiveOnlyWhenDone'
    BY <2>2 DEF RedirectRead
  <2>3. ASSUME NEW t \in Tasks, NEW w \in Workers, FollowupRead(r, t, w)
        PROVE  KeptLiveOnlyWhenDone'
    BY <2>3 DEF FollowupRead
  <2>4. CASE CancelWrite(r)
    BY <2>4 DEF CancelWrite
  <2>5. CASE RedirectWrite(r)
    BY <2>5 DEF RedirectWrite
  <2>6. CASE FollowupAcquire(r)
    BY <2>6 DEF FollowupAcquire
  <2>7. CASE FollowupQueue(r)
    BY <2>7 DEF FollowupQueue
  <2>8. CASE FollowupWrite(r)
    BY <2>8 DEF FollowupWrite
  <2> QED
    BY <1>1, <2>1, <2>2, <2>3, <2>4, <2>5, <2>6, <2>7, <2>8 DEF Calls
<1>2. ASSUME NEW w \in Workers, Frames(w) PROVE KeptLiveOnlyWhenDone'
  <2>1. ASSUME NEW run \in runs, NEW a \in Agents, RunStarts(run, a)
        PROVE  KeptLiveOnlyWhenDone'
    BY <2>1 DEF RunStarts
  <2>2. ASSUME NEW run \in runs, FrameWorking(run) PROVE KeptLiveOnlyWhenDone'
    BY <2>2 DEF FrameWorking
  <2>3. ASSUME NEW run \in runs, FrameBranch(run) PROVE KeptLiveOnlyWhenDone'
    BY <2>3 DEF FrameBranch
  <2>4. ASSUME NEW run \in runs, FrameComplete(run) PROVE KeptLiveOnlyWhenDone'
    BY <2>4 DEF FrameComplete
  <2>5. ASSUME NEW run \in runs, FrameFollowupDone(run)
        PROVE  KeptLiveOnlyWhenDone'
    BY <2>5 DEF FrameFollowupDone
  <2>6. ASSUME NEW run \in runs, FrameError(run) PROVE KeptLiveOnlyWhenDone'
    BY <2>6 DEF FrameError, Errs
  <2>7. ASSUME NEW run \in runs, FrameFailed(run) PROVE KeptLiveOnlyWhenDone'
    <3>1. CASE state' = state /\ deleted' = deleted
      BY <2>7, <3>1 DEF FrameFailed
    <3>2. ASSUME NEW outcome \in {"failed", "cancelled"}, FinalizeTask(run.task, outcome)
          PROVE  KeptLiveOnlyWhenDone'
      BY <2>7, <3>2, FinalizeKeepsLive DEF FrameFailed, Runs
    <3> QED
      BY <2>7, <3>1, <3>2 DEF FrameFailed
  <2>8. ASSUME NEW run \in runs, FrameRejected(run) PROVE KeptLiveOnlyWhenDone'
    BY <2>8 DEF FrameRejected
  <2>9. CASE FollowupDoneDrain(w)
    BY <2>9 DEF FollowupDoneDrain
  <2>10. CASE TellForeman(w)
    BY <2>10 DEF TellForeman
  <2>11. CASE ErrorFinalize(w)
    <3>1. CASE state' = state /\ deleted' = deleted
      BY <2>11, <3>1 DEF ErrorFinalize
    <3>2. CASE FinalizeTask(hand[w].task, "error")
      BY <2>11, <3>2, FinalizeKeepsLive DEF ErrorFinalize
    <3> QED
      BY <2>11, <3>1, <3>2 DEF ErrorFinalize
  <2>12. CASE RejectedWrite(w)
    BY <2>12 DEF RejectedWrite
  <2>13. ASSUME NEW a \in Agents, NEW s \in {"idle", "offline", "error"}, AgentStops(a, s)
         PROVE  KeptLiveOnlyWhenDone'
    BY <2>13 DEF AgentStops
  <2>14. CASE Join(w)
    BY <2>14 DEF Join
  <2>15. ASSUME NEW died \in BOOLEAN, WorkerGone(w, died)
         PROVE  KeptLiveOnlyWhenDone'
    BY <2>15 DEF WorkerGone
  <2> QED
    BY <1>2, <2>1, <2>2, <2>3, <2>4, <2>5, <2>6, <2>7, <2>8, <2>9, <2>10, <2>11, <2>12,
       <2>13, <2>14, <2>15 DEF Frames
<1>3. CASE Issue
  <2>1. CASE IssueCloses
    BY <2>1 DEF IssueCloses
  <2>2. CASE IssueClosesUnseen
    BY <2>2 DEF IssueClosesUnseen
  <2>3. ASSUME NEW edited \in BOOLEAN, IssueTouched(edited)
        PROVE  KeptLiveOnlyWhenDone'
    BY <2>3 DEF IssueTouched
  <2>4. CASE PollFindsClosed
    BY <2>4 DEF PollFindsClosed
  <2>5. ASSUME NEW t \in Tasks, CloserRoot(t) PROVE KeptLiveOnlyWhenDone'
    <3>1. CASE state' = state /\ deleted' = deleted
      BY <2>5, <3>1 DEF CloserRoot
    <3>2. CASE FinalizeTask(t, "done")
      BY <2>5, <3>2, FinalizeKeepsLive DEF CloserRoot
    <3> QED
      BY <2>5, <3>1, <3>2 DEF CloserRoot
  <2>6. CASE CloserSelect
    BY <2>6 DEF CloserSelect
  <2>7. CASE CloserStamp
    BY <2>7 DEF CloserStamp
  <2>8. CASE CloserRoots
    BY <2>8 DEF CloserRoots
  <2>9. CASE CloserDies
    BY <2>9 DEF CloserDies
  <2> QED
    BY <1>3, <2>1, <2>2, <2>3, <2>4, <2>5, <2>6, <2>7, <2>8, <2>9 DEF Issue
<1>4. ASSUME NEW t \in Tasks, NEW linked \in BOOLEAN, CreateTask(t, linked)
      PROVE  KeptLiveOnlyWhenDone'
  BY <1>4 DEF CreateTask
<1>5. ASSUME NEW t \in Tasks, NEW w \in Workers, AssignTask(t, w)
      PROVE  KeptLiveOnlyWhenDone'
  BY <1>5 DEF AssignTask
<1>6. ASSUME NEW t \in Tasks, Finalize(t) PROVE KeptLiveOnlyWhenDone'
  BY <1>6, FinalizeKeepsLive DEF Finalize
<1>7. CASE CleanupExpired
  BY <1>7 DEF CleanupExpired
<1>8. CASE WatchdogScan
  BY <1>8 DEF WatchdogScan
<1>9. CASE WatchdogApply
  BY <1>9 DEF WatchdogApply
<1>10. ASSUME NEW t \in Tasks, LockAges(t) PROVE KeptLiveOnlyWhenDone'
  BY <1>10 DEF LockAges
<1>11. CASE Restart
  BY <1>11 DEF Restart
<1>12. CASE UNCHANGED vars
  BY <1>12 DEF vars
<1> QED
  BY <1>1, <1>2, <1>3, <1>4, <1>5, <1>6, <1>7, <1>8, <1>9, <1>10, <1>11, <1>12 DEF Next, TaskStep,
     Sweeper

\* finalize_task hides at once a task that ends under a closed issue.
LEMMA FinalizeCovers ==
    ASSUME IInv, NEW t \in Tasks, NEW outcome \in Terminal, FinalizeTask(t, outcome),
           issue' = issue, closer'.pc = closer.pc, closer.pc = "stamp" => closer' = closer
    PROVE  StampCovers' /\ ClosedIssueHidesFinished'
<1>1. ASSUME NEW d \in Tasks, issue[d] = "closed", state'[d] \in Terminal, ~deleted'[d]
      PROVE  state[d] \in Terminal /\ ~deleted[d]
  <2>1. CASE d = t
    BY <1>1, <2>1 DEF FinalizeTask, StampsDeleted, IInv, TypeOK
  <2>2. CASE d # t
    BY <1>1, <2>2 DEF FinalizeTask, IInv, TypeOK
  <2> QED
    BY <2>1, <2>2
<1> QED
  BY <1>1 DEF IInv, StampCovers, ClosedIssueHidesFinished

\* A task that ends under a closed issue is hidden at once, or by the pending UPDATE.
LEMMA IssueStep ==
    ASSUME IInv, [Next]_vars
    PROVE  StampCovers' /\ ClosedIssueHidesFinished'
<1> USE DEF IInv, TypeOK, StampCovers, ClosedIssueHidesFinished, Open, Terminal,
   TaskStates, taskVars, Linked, RecordIssue, IdleCloser
<1>1. ASSUME NEW r \in Requests, Calls(r) PROVE StampCovers' /\ ClosedIssueHidesFinished'
  <2>1. ASSUME NEW t \in Tasks, CancelRead(r, t)
        PROVE  StampCovers' /\ ClosedIssueHidesFinished'
    BY <2>1 DEF CancelRead
  <2>2. ASSUME NEW t \in Tasks, RedirectRead(r, t)
        PROVE  StampCovers' /\ ClosedIssueHidesFinished'
    BY <2>2 DEF RedirectRead
  <2>3. ASSUME NEW t \in Tasks, NEW w \in Workers, FollowupRead(r, t, w)
        PROVE  StampCovers' /\ ClosedIssueHidesFinished'
    BY <2>3 DEF FollowupRead
  <2>4. CASE CancelWrite(r)
    BY <2>4 DEF CancelWrite
  <2>5. CASE RedirectWrite(r)
    BY <2>5 DEF RedirectWrite
  <2>6. CASE FollowupAcquire(r)
    BY <2>6 DEF FollowupAcquire
  <2>7. CASE FollowupQueue(r)
    BY <2>7 DEF FollowupQueue
  <2>8. CASE FollowupWrite(r)
    BY <2>8 DEF FollowupWrite
  <2> QED
    BY <1>1, <2>1, <2>2, <2>3, <2>4, <2>5, <2>6, <2>7, <2>8 DEF Calls
<1>2. ASSUME NEW w \in Workers, Frames(w) PROVE StampCovers' /\ ClosedIssueHidesFinished'
  <2>1. ASSUME NEW run \in runs, NEW a \in Agents, RunStarts(run, a)
        PROVE  StampCovers' /\ ClosedIssueHidesFinished'
    BY <2>1 DEF RunStarts
  <2>2. ASSUME NEW run \in runs, FrameWorking(run)
        PROVE  StampCovers' /\ ClosedIssueHidesFinished'
    BY <2>2 DEF FrameWorking
  <2>3. ASSUME NEW run \in runs, FrameBranch(run)
        PROVE  StampCovers' /\ ClosedIssueHidesFinished'
    BY <2>3 DEF FrameBranch
  <2>4. ASSUME NEW run \in runs, FrameComplete(run)
        PROVE  StampCovers' /\ ClosedIssueHidesFinished'
    BY <2>4 DEF FrameComplete
  <2>5. ASSUME NEW run \in runs, FrameFollowupDone(run)
        PROVE  StampCovers' /\ ClosedIssueHidesFinished'
    BY <2>5 DEF FrameFollowupDone
  <2>6. ASSUME NEW run \in runs, FrameError(run)
        PROVE  StampCovers' /\ ClosedIssueHidesFinished'
    BY <2>6 DEF FrameError, Errs
  <2>7. ASSUME NEW run \in runs, FrameFailed(run)
        PROVE  StampCovers' /\ ClosedIssueHidesFinished'
    <3>1. CASE state' = state /\ deleted' = deleted
      BY <2>7, <3>1 DEF FrameFailed
    <3>2. ASSUME NEW outcome \in {"failed", "cancelled"}, FinalizeTask(run.task, outcome)
          PROVE  StampCovers' /\ ClosedIssueHidesFinished'
      BY <2>7, <3>2, FinalizeCovers DEF FrameFailed, Runs
    <3> QED
      BY <2>7, <3>1, <3>2 DEF FrameFailed
  <2>8. ASSUME NEW run \in runs, FrameRejected(run)
        PROVE  StampCovers' /\ ClosedIssueHidesFinished'
    BY <2>8 DEF FrameRejected
  <2>9. CASE FollowupDoneDrain(w)
    BY <2>9 DEF FollowupDoneDrain
  <2>10. CASE TellForeman(w)
    BY <2>10 DEF TellForeman
  <2>11. CASE ErrorFinalize(w)
    <3>1. CASE state' = state /\ deleted' = deleted
      BY <2>11, <3>1 DEF ErrorFinalize
    <3>2. CASE FinalizeTask(hand[w].task, "error")
      BY <2>11, <3>2, FinalizeCovers DEF ErrorFinalize
    <3> QED
      BY <2>11, <3>1, <3>2 DEF ErrorFinalize
  <2>12. CASE RejectedWrite(w)
    BY <2>12 DEF RejectedWrite
  <2>13. ASSUME NEW a \in Agents, NEW s \in {"idle", "offline", "error"}, AgentStops(a, s)
         PROVE  StampCovers' /\ ClosedIssueHidesFinished'
    BY <2>13 DEF AgentStops
  <2>14. CASE Join(w)
    BY <2>14 DEF Join
  <2>15. ASSUME NEW died \in BOOLEAN, WorkerGone(w, died)
         PROVE  StampCovers' /\ ClosedIssueHidesFinished'
    BY <2>15 DEF WorkerGone
  <2> QED
    BY <1>2, <2>1, <2>2, <2>3, <2>4, <2>5, <2>6, <2>7, <2>8, <2>9, <2>10, <2>11, <2>12,
       <2>13, <2>14, <2>15 DEF Frames
<1>3. CASE Issue
  <2>1. CASE IssueCloses
    BY <2>1 DEF IssueCloses
  <2>2. CASE IssueClosesUnseen
    BY <2>2 DEF IssueClosesUnseen
  <2>3. ASSUME NEW edited \in BOOLEAN, IssueTouched(edited)
        PROVE  StampCovers' /\ ClosedIssueHidesFinished'
    BY <2>3 DEF IssueTouched
  <2>4. CASE PollFindsClosed
    BY <2>4 DEF PollFindsClosed
  <2>5. ASSUME NEW t \in Tasks, CloserRoot(t)
        PROVE  StampCovers' /\ ClosedIssueHidesFinished'
    <3>1. CASE state' = state /\ deleted' = deleted
      BY <2>5, <3>1 DEF CloserRoot
    <3>2. CASE FinalizeTask(t, "done")
      BY <2>5, <3>2, FinalizeCovers DEF CloserRoot
    <3> QED
      BY <2>5, <3>1, <3>2 DEF CloserRoot
  <2>6. CASE CloserSelect
    BY <2>6 DEF CloserSelect
  <2>7. CASE CloserStamp
    BY <2>7 DEF CloserStamp
  <2>8. CASE CloserRoots
    BY <2>8 DEF CloserRoots
  <2>9. CASE CloserDies
    BY <2>9 DEF CloserDies
  <2> QED
    BY <1>3, <2>1, <2>2, <2>3, <2>4, <2>5, <2>6, <2>7, <2>8, <2>9 DEF Issue
<1>4. ASSUME NEW t \in Tasks, NEW linked \in BOOLEAN, CreateTask(t, linked)
      PROVE  StampCovers' /\ ClosedIssueHidesFinished'
  BY <1>4 DEF CreateTask
<1>5. ASSUME NEW t \in Tasks, NEW w \in Workers, AssignTask(t, w)
      PROVE  StampCovers' /\ ClosedIssueHidesFinished'
  BY <1>5 DEF AssignTask
<1>6. ASSUME NEW t \in Tasks, Finalize(t)
      PROVE  StampCovers' /\ ClosedIssueHidesFinished'
  BY <1>6, FinalizeCovers DEF Finalize
<1>7. CASE CleanupExpired
  BY <1>7 DEF CleanupExpired
<1>8. CASE WatchdogScan
  BY <1>8 DEF WatchdogScan
<1>9. CASE WatchdogApply
  BY <1>9 DEF WatchdogApply
<1>10. ASSUME NEW t \in Tasks, LockAges(t)
      PROVE  StampCovers' /\ ClosedIssueHidesFinished'
  BY <1>10 DEF LockAges
<1>11. CASE Restart
  BY <1>11 DEF Restart
<1>12. CASE UNCHANGED vars
  BY <1>12 DEF vars
<1> QED
  BY <1>1, <1>2, <1>3, <1>4, <1>5, <1>6, <1>7, <1>8, <1>9, <1>10, <1>11, <1>12 DEF Next, TaskStep,
     Sweeper

LEMMA InitInv == Init => IInv
  BY InitType DEF Init, IInv, LockOwnerKnown, NoOrphanedLock, KeptLiveOnlyWhenDone,
     StampCovers, ClosedIssueHidesFinished, Terminal, IdleCloser

\* The inductive invariant.
THEOREM Invariance == Spec => []IInv
<1>1. IInv /\ [Next]_vars => IInv'
  BY NextType, LockStep, KeptLiveStep, IssueStep DEF IInv
<1> QED
  BY InitInv, <1>1, PTL DEF Spec

\* No interleaving of calls, frames, sweeps and restarts leaves a dispatched
\* follow-up's lock behind on a task that has moved on.
THEOREM LocksNotOrphaned == Spec => []NoOrphanedLock
<1>1. IInv => NoOrphanedLock
  BY DEF IInv
<1> QED
  BY Invariance, <1>1, PTL

\* Only finished work of the issue stays listed after it ended.
THEOREM KeptLive == Spec => []KeptLiveOnlyWhenDone
<1>1. IInv => KeptLiveOnlyWhenDone
  BY DEF IInv
<1> QED
  BY Invariance, <1>1, PTL

\* The clean-up of a closed issue misses no finished task.
THEOREM ClosedIssueClean == Spec => []ClosedIssueHidesFinished
<1>1. IInv => ClosedIssueHidesFinished
  BY DEF IInv
<1> QED
  BY Invariance, <1>1, PTL

-----------------------------------------------------------------------------
(* What a step may do to a task that has ended, and to the queue. *)

\* A finished task keeps its outcome or is taken up again; what leaves the queue
\* leaves it in a handler's hands.
Mild ==
    /\ \A t \in Tasks : state[t] \in Terminal /\ state'[t] \in Terminal => state'[t] = state[t]
    /\ \A r \in Requests : event[r] = "queued" => event'[r] \in {"queued", "carried"}

\* finalize_task, with the purge of the queue, by whichever handler; the error
\* handler keeps what it had copied.
Finalizes ==
    \E t \in Tasks, outcome \in Terminal, copied \in SUBSET Requests :
        /\ FinalizeTask(t, outcome) /\ PurgeEvents(t, copied)
        /\ \A w \in Workers : Reports(w) => hand[w].carried \subseteq copied

LEMMA CallsEnd ==
    ASSUME TypeOK, NEW r \in Requests, Calls(r)
    PROVE  Mild \/ CancelWrite(r)
<1> USE DEF TypeOK, Mild, Terminal, Open, taskVars
<1>1. CASE \E t \in Tasks : CancelRead(r, t) \/ RedirectRead(r, t)
  BY <1>1 DEF CancelRead, RedirectRead
<1>2. CASE \E t \in Tasks, w \in Workers : FollowupRead(r, t, w)
  BY <1>2 DEF FollowupRead
<1>3. CASE RedirectWrite(r)
  BY <1>3 DEF RedirectWrite
<1>4. CASE FollowupAcquire(r) \/ FollowupQueue(r)
  BY <1>4 DEF FollowupAcquire, FollowupQueue
<1>5. CASE FollowupWrite(r)
  BY <1>5 DEF FollowupWrite
<1> QED
  BY <1>1, <1>2, <1>3, <1>4, <1>5 DEF Calls

LEMMA FramesEnd ==
    ASSUME TypeOK, NEW w \in Workers, Frames(w)
    PROVE  Mild \/ Finalizes
<1> USE DEF TypeOK, Mild, Terminal, Open, taskVars
<1>1. ASSUME NEW run \in runs,
             \/ \E a \in Agents : RunStarts(run, a)
             \/ FrameBranch(run) \/ FrameError(run) \/ FrameRejected(run)
      PROVE  Mild
  BY <1>1 DEF RunStarts, FrameBranch, FrameError, Errs, FrameRejected
<1>2. ASSUME NEW run \in runs, FrameWorking(run) PROVE Mild
  BY <1>2 DEF FrameWorking
<1>3. ASSUME NEW run \in runs, FrameComplete(run) \/ FrameFollowupDone(run) PROVE Mild
  BY <1>3 DEF FrameComplete, FrameFollowupDone
<1>4. ASSUME NEW run \in runs, FrameFailed(run) PROVE Mild \/ Finalizes
  <2>1. CASE UNCHANGED <<state, event>>
    BY <2>1
  <2>2. ASSUME NEW end \in {"failed", "cancelled"},
               FinalizeTask(run.task, end), PurgeEvents(run.task, {})
        PROVE  Finalizes
    <3>1. \A v \in Workers : ~Reports(v)
      BY <1>4 DEF FrameFailed, Reports
    <3>2. run.task \in Tasks /\ end \in Terminal /\ {} \in SUBSET Requests
      BY DEF Runs
    <3>3. \A t \in Tasks : run.task = t => FinalizeTask(t, end) /\ PurgeEvents(t, {})
      BY <2>2
    <3> QED BY <3>1, <3>2, <3>3 DEF Finalizes
  <2> QED BY <1>4, <2>1, <2>2 DEF FrameFailed
<1>5. CASE FollowupDoneDrain(w) \/ TellForeman(w)
  BY <1>5 DEF FollowupDoneDrain, TellForeman, Queued
<1>6. CASE ErrorFinalize(w)
  <2>1. CASE UNCHANGED <<state, event>>
    BY <2>1
  <2>2. CASE FinalizeTask(hand[w].task, "error") /\ PurgeEvents(hand[w].task, hand[w].carried)
    <3>1. \A v \in Workers : Reports(v) => v = w
      BY <1>6 DEF ErrorFinalize, Reports
    <3>2. hand[w].task \in Tasks /\ hand[w].carried \in SUBSET Requests
      BY <1>6 DEF ErrorFinalize
    <3> QED BY <2>2, <3>1, <3>2 DEF Finalizes
  <2> QED BY <1>6, <2>1, <2>2 DEF ErrorFinalize
<1>7. CASE RejectedWrite(w)
  BY <1>7 DEF RejectedWrite
<1>8. ASSUME NEW a \in Agents, NEW s \in {"idle", "offline", "error"}, AgentStops(a, s)
      PROVE  Mild
  <2>1. event' = event /\ (state' = state \/ state' = [state EXCEPT ![agent[a].task] = "awaiting"])
    BY <1>8 DEF AgentStops
  <2> QED
    BY <2>1
<1>9. CASE Join(w) \/ \E died \in BOOLEAN : WorkerGone(w, died)
  BY <1>9 DEF Join, WorkerGone
<1> QED
  BY <1>1, <1>2, <1>3, <1>4, <1>5, <1>6, <1>7, <1>8, <1>9 DEF Frames

LEMMA IssueEnds ==
    ASSUME TypeOK, Issue
    PROVE  Mild \/ Finalizes
<1> USE DEF Mild, Terminal, taskVars
<1>1. ASSUME NEW t \in Tasks, CloserRoot(t) PROVE Mild \/ Finalizes
  BY <1>1 DEF CloserRoot, Finalizes, Reports
<1>2. CASE ~ \E t \in Tasks : CloserRoot(t)
  BY <1>2 DEF Issue, IssueCloses, IssueClosesUnseen, PollFindsClosed, IssueTouched, CloserRoots,
     CloserSelect, CloserStamp, CloserDies, IdleCloser
<1> QED
  BY <1>1, <1>2

\* Every step is one of three kinds.
LEMMA StepEnds ==
    ASSUME TypeOK, [Next]_vars
    PROVE  Mild \/ Finalizes \/ \E r \in Requests : CancelWrite(r)
<1> USE DEF TypeOK, Mild, Terminal, taskVars
<1>1. ASSUME NEW t \in Tasks, NEW linked \in BOOLEAN, CreateTask(t, linked) PROVE Mild
  BY <1>1 DEF CreateTask
<1>2. ASSUME NEW t \in Tasks, NEW w \in Workers, AssignTask(t, w) PROVE Mild
  BY <1>2 DEF AssignTask
<1>3. ASSUME NEW t \in Tasks, Finalize(t) PROVE Finalizes
  BY <1>3 DEF Finalize, Finalizes, Reports
<1>4. CASE Sweeper \/ \E t \in Tasks : LockAges(t)
  BY <1>4 DEF Sweeper, CleanupExpired, WatchdogScan, WatchdogApply, LockAges
<1>5. CASE Restart \/ UNCHANGED vars
  BY <1>5 DEF Restart, vars
<1> QED
  BY <1>1, <1>2, <1>3, <1>4, <1>5, CallsEnd, FramesEnd, IssueEnds DEF Next, TaskStep

\* finalize_task ends an open task only, and purges the queue of that one.
LEMMA FinalizesOpen ==
    ASSUME TypeOK, Finalizes
    PROVE  /\ \A t \in Tasks : state[t] \in Terminal => state'[t] = state[t]
           /\ \A r \in Requests : event[r] = "queued" /\ event'[r] \notin {"queued", "carried"}
                  => /\ state[req[r].task] \in Open /\ state'[req[r].task] \in Terminal
                     /\ \A w \in Workers : Reports(w) => r \notin hand[w].before
<1>1. PICK t \in Tasks, outcome \in Terminal, copied \in SUBSET Requests :
          /\ FinalizeTask(t, outcome) /\ PurgeEvents(t, copied)
          /\ \A w \in Workers : Reports(w) => hand[w].carried \subseteq copied
  BY DEF Finalizes
<1>2. state[t] \in Open /\ state' = [state EXCEPT ![t] = outcome]
  BY <1>1 DEF FinalizeTask
<1>3. \A r \in Requests : event'[r] # event[r] => req[r].task = t
  BY <1>1 DEF PurgeEvents, Queued
<1>4. \A r \in Requests : event[r] = "queued" /\ event'[r] \notin {"queued", "carried"} => r \notin copied
  BY <1>1 DEF PurgeEvents, Queued
<1>5. \A r \in Requests : event[r] = "queued" /\ event'[r] \notin {"queued", "carried"}
         => \A w \in Workers : Reports(w) => r \notin hand[w].before
  BY <1>1, <1>4 DEF TypeOK
<1> QED
  BY <1>2, <1>3, <1>5 DEF TypeOK, Open, Terminal

\* Of two writers that end a task the second does not overwrite the first one's
\* outcome, whatever the interleaving of calls, frames, sweeps and restarts, but
\* for a cancel call that had read the row while it was open.
THEOREM FirstOutcome == Spec => FirstOutcomeStands
<1>1. ASSUME TypeOK, [Next]_vars, NEW t \in Tasks,
             state[t] \in Terminal, state'[t] \in Terminal, state'[t] # state[t]
      PROVE  state'[t] = "cancelled" /\ \E r \in Requests : req[r].pc = "cancelling" /\ req[r].task = t
  <2>1. PICK r \in Requests : CancelWrite(r)
    BY <1>1, StepEnds, FinalizesOpen DEF Mild
  <2> QED
    BY <1>1, <2>1 DEF CancelWrite, TypeOK
<1>2. TypeOK /\ [Next]_vars =>
          [\A t \in Tasks :
              state[t] \in Terminal /\ state'[t] \in Terminal /\ state'[t] # state[t]
                  => state'[t] = "cancelled" /\ \E r \in Requests :
                        req[r].pc = "cancelling" /\ req[r].task = t]_vars
  BY <1>1
<1> QED
  BY <1>2, TypeCorrect, PTL DEF Spec, FirstOutcomeStands

\* A queued follow-up is never dropped silently: it leaves the queue in the hands
\* of a handler that reports it, or with the task it was for, in the step that
\* ends it; the error handler's step drops only what was queued after it had begun.
THEOREM QueueNotDropped == Spec => QueueEmptiesForAReason
<1>1. ASSUME TypeOK, [Next]_vars, NEW r \in Requests, event[r] = "queued", event'[r] # "queued"
      PROVE  \/ event'[r] = "carried"
             \/ /\ state[req[r].task] \in Open /\ state'[req[r].task] \in Terminal
                /\ \A w \in Workers : Reports(w) => r \notin hand[w].before
  <2>1. CASE \E q \in Requests : CancelWrite(q)
    BY <1>1, <2>1 DEF CancelWrite
  <2> QED
    BY <1>1, <2>1, StepEnds, FinalizesOpen DEF Mild
<1>2. TypeOK /\ [Next]_vars =>
          [\A r \in Requests :
              LET t == req[r].task IN
              event[r] = "queued" /\ event'[r] # "queued"
                  => \/ event'[r] = "carried"
                     \/ /\ state[t] \in Open /\ state'[t] \in Terminal
                        /\ \A w \in Workers : Reports(w) => r \notin hand[w].before]_vars
  BY <1>1
<1> QED
  BY <1>2, TypeCorrect, PTL DEF Spec, QueueEmptiesForAReason

-----------------------------------------------------------------------------
(* The poll loop beside the tasks does nothing to a task that TaskLifecycle does
   not do: what is proved of TaskLifecycle holds of the composition. *)

\* What an interruption of the loop does to the tasks is a step of TaskLifecycle.
LEMMA InterruptedStep ==
    ASSUME Interrupted
    PROVE  [Next]_vars
BY DEF Interrupted, Next, Issue

\* A step of the composition is a step of TaskLifecycle or changes none of its rows.
LEMMA PollStep ==
    ASSUME [PollNext]_pollVars
    PROVE  [Next]_vars
<1>1. CASE Cycle
  <2>1. CASE PollCloses
    BY <2>1 DEF PollCloses, Next, Issue
  <2>2. CASE PollReads \/ PollSeesOpen \/ PollTidies \/ PollArchives
    BY <2>2 DEF PollReads, PollSeesOpen, PollTidies, PollArchives
  <2> QED
    BY <1>1, <2>1, <2>2 DEF Cycle
<1>2. CASE LookupFails \/ Ensure \/ Idles \/ ReplyReads \/ ReplyWrites \/ Closes
  BY <1>2 DEF LookupFails, Ensure, Idles, ReplyReads, ReplyWrites, Closes
<1>3. CASE PollFails \/ Reset
  BY <1>3, InterruptedStep DEF PollFails, Reset
<1>4. ASSUME NEW t \in Tasks, NEW linked \in BOOLEAN, Creates(t, linked)
      PROVE  [Next]_vars
  BY <1>4 DEF Creates, Next, TaskStep
<1>5. CASE ClosingEnds \/ WebhookFails
  BY <1>5 DEF ClosingEnds, WebhookFails, Next, Issue
<1>6. CASE PollRestart
  BY <1>6 DEF PollRestart, Next
<1>7. CASE Rows
  BY <1>7 DEF Rows, Closing, Next, TaskStep, Issue
<1>8. CASE UNCHANGED pollVars
  BY <1>8 DEF pollVars
<1> QED
  BY <1>1, <1>2, <1>3, <1>4, <1>5, <1>6, <1>7, <1>8 DEF PollNext

\* The composition implements the component: resets, failures and restarts of the
\* loop show in a task as nothing, or as a clean-up that was cut short.
THEOREM PollImplements == PollSpec => Spec
<1>1. PollInit => Init
  BY DEF PollInit
<1> QED
  BY <1>1, PollStep, PTL DEF PollSpec, Spec

\* So whichever handler ended a task, and however often the loop was reset in the
\* middle of a clean-up, a finished task stays listed only if it is done, linked to
\* the issue and not the issue's root.
THEOREM PollKeepsListed == PollSpec => []KeptLiveOnlyWhenDone
BY PollImplements, KeptLive, PTL

\* And a clean-up of a closed issue that the loop got to finish missed no task.
THEOREM PollCleansIssue == PollSpec => []ClosedIssueHidesFinished
BY PollImplements, ClosedIssueClean, PTL

-----------------------------------------------------------------------------
(* The loop's own state *)

\* The loop is in a clean-up only while there is one to go on with: what ends the
\* loop there (an error, a reset) finds a clean-up to end, and no other handler has
\* finished or begun one meanwhile.
UnderWay == closer.pc \in {"started", "roots", "stamp"}
PollInv == PollTypeOK /\ (poll = "closing" => UnderWay)

\* What a call, a frame or the sweeper does leaves the clean-up where it is.
LEMMA CallsElsewhere ==
    ASSUME NEW r \in Requests, Calls(r)
    PROVE  UNCHANGED closer
<1>1. CASE \E t \in Tasks : CancelRead(r, t) \/ RedirectRead(r, t)
  BY <1>1 DEF CancelRead, RedirectRead
<1>2. CASE \E t \in Tasks, w \in Workers : FollowupRead(r, t, w)
  BY <1>2 DEF FollowupRead
<1>3. CASE CancelWrite(r) \/ RedirectWrite(r)
  BY <1>3 DEF CancelWrite, RedirectWrite
<1>4. CASE FollowupAcquire(r) \/ FollowupQueue(r) \/ FollowupWrite(r)
  BY <1>4 DEF FollowupAcquire, FollowupQueue, FollowupWrite
<1> QED
  BY <1>1, <1>2, <1>3, <1>4 DEF Calls

LEMMA FramesElsewhere ==
    ASSUME NEW w \in Workers, Frames(w)
    PROVE  UNCHANGED closer
<1>1. ASSUME NEW run \in runs, NEW a \in Agents, RunStarts(run, a) PROVE UNCHANGED closer
  BY <1>1 DEF RunStarts
<1>2. ASSUME NEW run \in runs, FrameWorking(run) \/ FrameBranch(run) PROVE UNCHANGED closer
  BY <1>2 DEF FrameWorking, FrameBranch
<1>3. ASSUME NEW run \in runs, FrameComplete(run) \/ FrameFollowupDone(run) PROVE UNCHANGED closer
  BY <1>3 DEF FrameComplete, FrameFollowupDone
<1>4. ASSUME NEW run \in runs, FrameError(run) \/ FrameFailed(run) \/ FrameRejected(run)
      PROVE  UNCHANGED closer
  BY <1>4 DEF FrameError, Errs, FrameFailed, FrameRejected
<1>5. CASE FollowupDoneDrain(w) \/ TellForeman(w) \/ ErrorFinalize(w) \/ RejectedWrite(w)
  BY <1>5 DEF FollowupDoneDrain, TellForeman, ErrorFinalize, RejectedWrite
<1>6. ASSUME NEW a \in Agents, NEW s \in {"idle", "offline", "error"}, AgentStops(a, s)
      PROVE  UNCHANGED closer
  BY <1>6 DEF AgentStops
<1>7. CASE Join(w) \/ \E died \in BOOLEAN : WorkerGone(w, died)
  BY <1>7 DEF Join, WorkerGone
<1> QED
  BY <1>1, <1>2, <1>3, <1>4, <1>5, <1>6, <1>7 DEF Frames

\* The steps of TaskLifecycle beside the loop keep a clean-up under way: they go on
\* with it, and begin another only when there is none.
LEMMA RowsGoOn ==
    ASSUME Rows, UnderWay
    PROVE  UnderWay'
<1> USE DEF UnderWay
<1>1. ASSUME NEW t \in Tasks, NEW w \in Workers, AssignTask(t, w) PROVE UnderWay'
  BY <1>1 DEF AssignTask
<1>2. ASSUME NEW t \in Tasks, Finalize(t) PROVE UnderWay'
  BY <1>2 DEF Finalize
<1>3. ASSUME NEW r \in Requests, Calls(r) PROVE UnderWay'
  BY <1>3, CallsElsewhere
<1>4. ASSUME NEW w \in Workers, Frames(w) PROVE UnderWay'
  BY <1>4, FramesElsewhere
<1>5. CASE IssueCloses \/ IssueClosesUnseen
  BY <1>5 DEF IssueCloses, IssueClosesUnseen
<1>6. ASSUME NEW edited \in BOOLEAN, IssueTouched(edited) PROVE UnderWay'
  BY <1>6 DEF IssueTouched
<1>7. CASE Closing
  BY <1>7 DEF Closing, CloserRoots, CloserRoot, CloserSelect
<1>8. CASE Sweeper \/ \E t \in Tasks : LockAges(t)
  BY <1>8 DEF Sweeper, CleanupExpired, WatchdogScan, WatchdogApply, LockAges
<1> QED
  BY <1>1, <1>2, <1>3, <1>4, <1>5, <1>6, <1>7, <1>8 DEF Rows

LEMMA PollInvStep ==
    ASSUME PollInv, [PollNext]_pollVars
    PROVE  PollInv'
<1> USE DEF PollInv, PollTypeOK, Statuses, conversation
<1>1. CASE PollReads
  BY <1>1 DEF PollReads, Sleeping, vars
<1>2. CASE PollCloses
  BY <1>2 DEF PollCloses, PollFindsClosed, UnderWay
<1>3. CASE PollSeesOpen \/ LookupFails
  BY <1>3 DEF PollSeesOpen, LookupFails, vars
<1>4. CASE PollTidies
  <2>1. poll' \in {"archive", "close", "asleep"} /\ UNCHANGED conversation
    BY <1>4 DEF PollTidies
  <2> QED
    BY <2>1
<1>5. CASE PollArchives
  BY <1>5 DEF PollArchives
<1>6. CASE PollFails \/ Reset \/ Ensure
  BY <1>6 DEF PollFails, Reset, Ensure
<1>7. CASE Idles \/ ReplyReads \/ ReplyWrites \/ Closes
  BY <1>7 DEF Idles, ReplyReads, ReplyWrites, Closes, vars, UnderWay
<1>8. ASSUME NEW t \in Tasks, NEW linked \in BOOLEAN, Creates(t, linked) PROVE PollInv'
  BY <1>8 DEF Creates, CreateTask, UnderWay
<1>9. CASE ClosingEnds \/ WebhookFails
  BY <1>9 DEF ClosingEnds, WebhookFails
<1>10. CASE PollRestart
  BY <1>10 DEF PollRestart
<1>11. CASE Rows /\ UNCHANGED <<poll, conversation>>
  BY <1>11, RowsGoOn
<1>12. CASE UNCHANGED pollVars
  BY <1>12 DEF pollVars, vars, UnderWay
<1> QED
  BY <1>1, <1>2, <1>3, <1>4, <1>5, <1>6, <1>7, <1>8, <1>9, <1>10, <1>11, <1>12 DEF PollNext, Cycle

\* The loop and the conversation keep their types, and the loop waits for a clean-up
\* only while it is under way, whatever restarts, resets, errors and webhooks do.
THEOREM PollInvariance == PollSpec => []PollInv
<1>1. PollInit => PollInv
  BY DEF PollInit, PollInv, PollTypeOK, Statuses
<1> QED
  BY <1>1, PollInvStep, PTL DEF PollSpec

=============================================================================
