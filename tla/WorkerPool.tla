----------------------------- MODULE WorkerPool -----------------------------
(***************************************************************************)
(* One worker process (worker/pioneer_worker/worker.py): a listener that   *)
(* reads the backend's messages, a queue of dispatched tasks, and a fixed  *)
(* pool of agents that take a task, prepare its worktree, run the tool in  *)
(* a loop that redirects may restart, push the branch and become free.     *)
(* Everything runs on one event loop: a step is the code between two       *)
(* awaits that let another coroutine in.                                   *)
(***************************************************************************)
EXTENDS Naturals, Sequences, SequencesExt, FiniteSets

CONSTANTS
    Tasks,
    Interactive,   \* the tasks of type interactive
    NumAgents,     \* cfg.max_agents
    MaxCancelled,  \* _MAX_CANCELLED_TASKS
    MaxMessages,   \* bound on the messages of a behaviour
    NoTask

ASSUME InteractiveType == Interactive \subseteq Tasks
ASSUME NumAgentsType == NumAgents \in Nat \ {0}
ASSUME MaxCancelledType == MaxCancelled \in Nat \ {0}
ASSUME MaxMessagesType == MaxMessages \in Nat
ASSUME NoTaskType == NoTask \notin Tasks

Agents == 1..NumAgents
NoAgent == 0

VARIABLES
    queue,       \* task_queue: entries [task, target] and shutdown sentinels
    pc,          \* where each slot's _agent_loop is
    job,         \* the task each slot has taken
    known,       \* _known_task_ids
    cancelled,   \* _cancelled_tasks, oldest first
    redirects,   \* _redirect_queues: the slot whose queue a task's is
    inbox,       \* the redirect queue of each slot's run
    chats,       \* _interactive_queues: the slot whose queue a task's is
    chat,        \* the interactive queue of each slot's session
    signalling,  \* the listener is between terminate() and the put
    listening,   \* the listener has not been cancelled
    shutdown,    \* "message", "signal": who has set the event; "sent": sentinels put
    heard,       \* messages so far
    again,       \* tasks the worker holds whose id does not keep a copy out
    stopped      \* slots whose run was cancelled while it could still act on it

slotVars == <<pc, job, inbox, chat, stopped>>
listenerVars == <<signalling, listening, shutdown, heard>>
registers == <<known, cancelled, redirects, chats>>
vars == <<queue, slotVars, listenerVars, registers, again>>

Entry(t, target) == [task |-> t, target |-> target]
Sentinel == Entry(NoTask, NoAgent)
Entries == [task : Tasks, target : Agents \cup {NoAgent}]

\* The runs whose task has a redirect queue, and the slots with a task id.
InLoop == {"launching", "running", "exited", "waiting"}
Registered == InLoop \cup {"closing", "pushing", "leaving"}
Active == {"setup", "crashed"} \cup (Registered \ {"leaving"})
Ended == {"gone", "died"}

Marked(t) == Contains(cancelled, t)
Queued(t) == \E i \in DOMAIN queue : queue[i].task = t
Held(t) == Queued(t) \/ \E a \in Agents : job[a] = t
Working(t) == {a \in Agents : job[a] = t /\ pc[a] \in Active}

\* That ends when the worker has let go of every copy.
Remember(more) == again' = {t \in again \cup more : Held(t)'}

TypeOK ==
    /\ queue \in Seq(Entries \cup {Sentinel})
    /\ pc \in [Agents -> {"free", "skipping", "taken", "late"} \cup Ended \cup Active \cup Registered]
    /\ job \in [Agents -> Tasks \cup {NoTask}]
    /\ \A a \in Agents : job[a] = NoTask <=> pc[a] \in {"free"} \cup Ended
    /\ known \subseteq Tasks
    /\ cancelled \in Seq(Tasks) /\ Len(cancelled) <= MaxCancelled
    /\ redirects \in [Tasks -> Agents \cup {NoAgent}]
    /\ inbox \in [Agents -> Seq({"redirect", "cancel"})]
    /\ chats \in [Tasks -> Agents \cup {NoAgent}]
    /\ chat \in [Agents -> Seq({"text", "cancel"})]
    /\ signalling \in {<<>>} \cup ({"redirect", "cancel"} \X Tasks)
    /\ listening \in BOOLEAN
    /\ shutdown \in {"no", "message", "signal", "sent"}
    /\ heard \in 0..MaxMessages
    /\ again \subseteq Tasks /\ stopped \subseteq Agents

Init ==
    /\ queue = <<>>
    /\ pc = [a \in Agents |-> "free"]
    /\ job = [a \in Agents |-> NoTask]
    /\ known = {} /\ cancelled = <<>>
    /\ redirects = [t \in Tasks |-> NoAgent]
    /\ inbox = [a \in Agents |-> <<>>]
    /\ chats = [t \in Tasks |-> NoAgent]
    /\ chat = [a \in Agents |-> <<>>]
    /\ signalling = <<>> /\ listening = TRUE /\ shutdown = "no"
    /\ heard = 0 /\ again = {} /\ stopped = {}

-----------------------------------------------------------------------------
(* _agent_loop of slot a.                                                  *)

Goto(a, place) == pc' = [pc EXCEPT ![a] = place]

\* _cancelled_tasks is a dict: a task is in it once, and its place goes with it.
Without(t) ==
    IF Marked(t) THEN RemoveAt(cancelled, CHOOSE i \in DOMAIN cancelled : cancelled[i] = t)
                 ELSE cancelled
Unmark(t) == cancelled' = Without(t)

\* The slot goes back to task_queue.get() or, when a send raised out of the
\* loop itself, its coroutine ends.
LetGo(a, place) ==
    /\ Goto(a, place)
    /\ job' = [job EXCEPT ![a] = NoTask]
    /\ inbox' = [inbox EXCEPT ![a] = <<>>]
    /\ chat' = [chat EXCEPT ![a] = <<>>]
    /\ stopped' = stopped \ {a}
    /\ Remember({})

Takes(a, next) ==
    /\ pc[a] = "free" /\ queue # <<>>
    /\ queue' = Tail(queue)
    /\ Goto(a, next)
    /\ UNCHANGED <<inbox, chat, stopped, listenerVars, registers, again>>

TakeSentinel(a) ==
    /\ Takes(a, "gone") /\ Head(queue) = Sentinel
    /\ UNCHANGED job

\* A task for another slot goes to the back of the queue.
TakeElsewhere(a) ==
    /\ pc[a] = "free" /\ queue # <<>>
    /\ Head(queue).target \notin {NoAgent, a}
    /\ queue' = Append(Tail(queue), Head(queue))
    /\ UNCHANGED <<slotVars, listenerVars, registers, again>>

TakeJob(a) ==
    /\ queue # <<>> /\ Head(queue) # Sentinel
    /\ Head(queue).target \in {NoAgent, a}
    /\ Takes(a, IF Marked(Head(queue).task) THEN "skipping" ELSE "taken")
    /\ job' = [job EXCEPT ![a] = Head(queue).task]

\* The task was cancelled while it waited. The send of task-rejected is not
\* guarded: when it gives up, the slot's coroutine ends.
SkipCancelled(a) ==
    /\ pc[a] = "skipping"
    /\ UNCHANGED <<queue, redirects, chats, listenerVars>>
    /\ Unmark(job[a])
    /\ known' = known \ {job[a]}
    /\ \E place \in {"free", "died"} : LetGo(a, place)

\* current_task_id is set only after an await: until then the capacity check
\* counts the slot as free.
Begin(a) ==
    /\ pc[a] = "taken"
    /\ Goto(a, "setup")
    /\ UNCHANGED <<queue, job, inbox, chat, stopped, listenerVars, registers, again>>

\* Mutant: the slot of a run that could not prepare is never announced idle.
SetupRetires(a) ==
    /\ pc[a] = "setup"
    /\ UNCHANGED <<queue, registers, listenerVars>>
    /\ LetGo(a, "gone")

SetupAborts(a) ==
    /\ pc[a] = "setup"
    /\ UNCHANGED <<queue, registers, listenerVars>>
    /\ LetGo(a, "free")

SetupDone(a) ==
    /\ pc[a] = "setup"
    /\ redirects' = [redirects EXCEPT ![job[a]] = a]
    /\ chats' = IF job[a] \in Interactive THEN [chats EXCEPT ![job[a]] = a] ELSE chats
    /\ Goto(a, "launching")
    /\ UNCHANGED <<queue, job, inbox, chat, stopped, listenerVars, known, cancelled, again>>

\* The tool's process starts, and ends by itself or by a signal; the runner may
\* also fail before there is a process.
ProcessStep(a) ==
    /\ \/ pc[a] = "launching" /\ Goto(a, "running")
       \/ pc[a] \in {"launching", "running"} /\ Goto(a, "exited")
    /\ UNCHANGED <<queue, job, inbox, chat, stopped, listenerVars, registers, again>>

\* Mutant: a redirect taken unregisters the queue it came from.
RunUnregisters(a) ==
    /\ pc[a] = "exited" /\ job[a] \notin Interactive
    /\ LET word == IF inbox[a] = <<>> THEN "nothing" ELSE Head(inbox[a])
       IN  IF Marked(job[a])
           THEN Goto(a, "closing") /\ Unmark(job[a]) /\ UNCHANGED <<inbox, redirects>>
           ELSE /\ UNCHANGED cancelled
                /\ inbox' = [inbox EXCEPT ![a] = IF @ = <<>> THEN @ ELSE Tail(@)]
                /\ redirects' = [redirects EXCEPT ![job[a]] = NoAgent]
                /\ Goto(a, CASE word = "cancel" -> "closing"
                             [] word = "redirect" /\ shutdown = "no" -> "launching"
                             [] OTHER -> "pushing")
    /\ UNCHANGED <<queue, job, chat, stopped, listenerVars, known, chats, again>>

\* After a run of a standard task: a cancel wins, then the next redirect, which
\* is ignored once the worker is shutting down.
AfterRun(a) ==
    /\ pc[a] = "exited" /\ job[a] \notin Interactive
    /\ LET word == IF inbox[a] = <<>> THEN "nothing" ELSE Head(inbox[a])
       IN  IF Marked(job[a])
           THEN Goto(a, "closing") /\ Unmark(job[a]) /\ UNCHANGED inbox
           ELSE /\ UNCHANGED cancelled
                /\ inbox' = [inbox EXCEPT ![a] = IF @ = <<>> THEN @ ELSE Tail(@)]
                /\ Goto(a, CASE word = "cancel" -> "closing"
                             [] word = "redirect" /\ shutdown = "no" -> "launching"
                             [] OTHER -> "pushing")
    /\ UNCHANGED <<queue, job, chat, stopped, listenerVars, known, redirects, chats, again>>

\* After a run of an interactive task it waits for the next message, whatever
\* happens to the worker.
AfterTurn(a) ==
    /\ pc[a] = "exited" /\ job[a] \in Interactive
    /\ Unmark(job[a])
    /\ Goto(a, IF Marked(job[a]) THEN "closing" ELSE "waiting")
    /\ UNCHANGED <<queue, job, inbox, chat, stopped, listenerVars, known, redirects, chats, again>>

NextMessage(a) ==
    /\ pc[a] = "waiting" /\ chat[a] # <<>>
    /\ chat' = [chat EXCEPT ![a] = Tail(@)]
    /\ IF Head(chat[a]) = "cancel"
       THEN Goto(a, "closing") /\ Unmark(job[a])
       ELSE Goto(a, "launching") /\ UNCHANGED cancelled
    /\ UNCHANGED <<queue, job, inbox, stopped, listenerVars, known, redirects, chats, again>>

\* The cancellation, or the outcome, is reported and the slot announced idle.
Report(a) ==
    /\ pc[a] \in {"closing", "pushing"}
    /\ chats' = IF job[a] \in Interactive THEN [chats EXCEPT ![job[a]] = NoAgent] ELSE chats
    /\ Goto(a, "leaving")
    /\ UNCHANGED <<queue, job, inbox, chat, stopped, listenerVars, known, cancelled, redirects, again>>

\* finally: the task's redirect queue is popped, whichever run it belongs to.
Leave(a) ==
    /\ pc[a] = "leaving"
    /\ UNCHANGED <<queue, known, cancelled, chats, listenerVars>>
    /\ redirects' = [redirects EXCEPT ![job[a]] = NoAgent]
    /\ LetGo(a, "free")

\* A step of _execute_task raises; the failure is then reported, unless that
\* raises too. "late": the slot no longer has its task id.
Crash(a) ==
    /\ pc[a] \in {"setup"} \cup Registered
    /\ IF pc[a] = "setup"
       THEN UNCHANGED <<redirects, chats>>
       ELSE /\ redirects' = [redirects EXCEPT ![job[a]] = NoAgent]
            /\ chats' = IF job[a] \in Interactive /\ pc[a] # "leaving"
                        THEN [chats EXCEPT ![job[a]] = NoAgent] ELSE chats
    /\ Goto(a, IF pc[a] = "leaving" \/ (pc[a] # "setup" /\ job[a] \in Interactive)
               THEN "late" ELSE "crashed")
    /\ UNCHANGED <<queue, job, inbox, chat, stopped, listenerVars, known, cancelled, again>>

CrashReported(a) ==
    /\ pc[a] \in {"crashed", "late"}
    /\ UNCHANGED <<queue, registers, listenerVars>>
    /\ \E place \in {"free", "died"} : LetGo(a, place)

SlotStep(a) ==
    \/ TakeSentinel(a) \/ TakeElsewhere(a) \/ TakeJob(a) \/ SkipCancelled(a)
    \/ Begin(a) \/ SetupAborts(a) \/ SetupDone(a) \/ ProcessStep(a)
    \/ AfterRun(a) \/ AfterTurn(a) \/ NextMessage(a)
    \/ Report(a) \/ Leave(a) \/ CrashReported(a)

-----------------------------------------------------------------------------
(* The listener: one message at a time.                                    *)

Hears ==
    /\ listening /\ signalling = <<>> /\ shutdown # "message"
    /\ heard < MaxMessages
    /\ heard' = heard + 1

\* _assignment_capacity_reason is None.
HasRoom(t, target) ==
    IF target # NoAgent
    THEN queue = <<>> /\ pc[target] \in {"free", "skipping", "taken", "leaving"}
    ELSE /\ Cardinality({a \in Agents : pc[a] \in Active}) + Len(queue) < NumAgents
         /\ ~Marked(t)

Repeats(t) == {r \in {t} : Held(r)}

\* Mutant: the task id is not recorded with the assignment.
AssignedUnknown(t, target) ==
    /\ Hears
    /\ t \notin known /\ HasRoom(t, target)
    /\ queue' = Append(queue, Entry(t, target))
    /\ UNCHANGED <<slotVars, signalling, listening, shutdown, registers, again>>

\* A task id the worker knows is not taken again (a replay after a reconnect);
\* an assignment that finds no room is refused and leaves nothing behind.
Assigned(t, target) ==
    /\ Hears
    /\ t \notin known /\ HasRoom(t, target)
    /\ known' = known \cup {t}
    /\ queue' = Append(queue, Entry(t, target))
    /\ UNCHANGED <<slotVars, signalling, listening, shutdown, cancelled, redirects, chats, again>>

\* A follow-up is taken whether or not the task is known; refusing one forgets
\* the task id, even of a task that runs.
Followup(t) ==
    /\ Hears
    /\ UNCHANGED <<slotVars, signalling, listening, shutdown, cancelled, redirects, chats>>
    /\ IF HasRoom(t, NoAgent)
       THEN queue' = Append(queue, Entry(t, NoAgent)) /\ known' = known \cup {t}
       ELSE known' = known \ {t} /\ UNCHANGED queue
    /\ Remember(Repeats(t))

\* The process of the first slot with the task is signalled, and then, after an
\* await, the task's queues.
HasProcess(t) ==
    Working(t) # {} /\ pc[CHOOSE a \in Working(t) : \A b \in Working(t) : a <= b] = "running"

\* Mutant: a cancel relies on the mark alone to stop a standard run.
SignalledChatOnly(kind, t) ==
    /\ inbox' = [a \in Agents |-> IF redirects[t] = a /\ t \notin Interactive /\ kind = "redirect"
                                  THEN Append(inbox[a], kind) ELSE inbox[a]]
    /\ chat' = [a \in Agents |-> IF chats[t] = a /\ kind = "cancel"
                                 THEN Append(chat[a], kind) ELSE chat[a]]

\* An interactive run never reads its redirect queue: what goes there is left out.
Signalled(kind, t) ==
    /\ inbox' = [a \in Agents |-> IF redirects[t] = a /\ t \notin Interactive
                                  THEN Append(inbox[a], kind) ELSE inbox[a]]
    /\ chat' = [a \in Agents |-> IF chats[t] = a /\ kind = "cancel"
                                 THEN Append(chat[a], kind) ELSE chat[a]]

Cancel(t) ==
    /\ Hears
    /\ LET marks == Append(Without(t), t)
       IN  cancelled' = IF Len(marks) > MaxCancelled THEN Tail(marks) ELSE marks
    /\ stopped' = stopped \cup {a \in Working(t) : pc[a] \in InLoop}
    /\ IF HasProcess(t)
       THEN signalling' = <<"cancel", t>> /\ UNCHANGED <<inbox, chat>>
       ELSE Signalled("cancel", t) /\ UNCHANGED signalling
    /\ UNCHANGED <<queue, pc, job, listening, shutdown, known, redirects, chats, again>>

\* Outside a run the redirect becomes a follow-up that no check limits and that
\* does not make the task known. (After a crash the handle of the process may
\* remain: then the redirect is dropped.)
Redirect(t) ==
    /\ Hears
    /\ UNCHANGED <<pc, job, stopped, listening, shutdown, registers>>
    /\ \/ HasProcess(t)
          /\ signalling' = <<"redirect", t>> /\ UNCHANGED <<queue, inbox, chat, again>>
       \/ ~HasProcess(t) /\ redirects[t] # NoAgent
          /\ Signalled("redirect", t) /\ UNCHANGED <<queue, signalling, again>>
       \/ ~HasProcess(t) /\ redirects[t] = NoAgent
          /\ queue' = Append(queue, Entry(t, NoAgent)) /\ Remember({t})
          /\ UNCHANGED <<inbox, chat, signalling>>
       \/ \E a \in Working(t) : pc[a] = "crashed"
          /\ UNCHANGED <<queue, inbox, chat, signalling, again>>

PutSignal ==
    /\ signalling # <<>>
    /\ Signalled(signalling[1], signalling[2])
    /\ signalling' = <<>>
    /\ UNCHANGED <<queue, pc, job, stopped, listening, shutdown, heard, registers, again>>

Finalize(t) ==
    /\ Hears
    /\ Unmark(t)
    /\ UNCHANGED <<queue, slotVars, signalling, listening, shutdown, known, redirects, chats, again>>

\* A message to an interactive session. (To a standard task's it goes to the
\* process's input, or nowhere.)
WorkerMessage(t) ==
    /\ Hears /\ chats[t] # NoAgent
    /\ chat' = [chat EXCEPT ![chats[t]] = Append(@, "text")]
    /\ UNCHANGED <<queue, pc, job, inbox, stopped, signalling, listening, shutdown, registers, again>>

-----------------------------------------------------------------------------
(* Shutdown.                                                               *)

\* A message of the backend's: the listener itself runs _initiate_shutdown.
ShutdownMessage ==
    /\ Hears /\ shutdown = "no"
    /\ shutdown' = "message"
    /\ UNCHANGED <<queue, slotVars, signalling, listening, registers, again>>

\* A signal or the control API, in a task of its own, or run() when a slot's
\* coroutine has ended.
ShutdownSignal ==
    /\ shutdown = "no" /\ shutdown' = "signal"
    /\ UNCHANGED <<queue, slotVars, signalling, listening, heard, registers, again>>

\* Mutant: one sentinel wakes one slot only.
SendOneSentinel ==
    /\ shutdown = "signal" \/ (shutdown = "message" /\ listening)
    /\ shutdown' = "sent"
    /\ queue' = Append(queue, Sentinel)
    /\ UNCHANGED <<slotVars, signalling, listening, heard, registers, again>>

\* Once the announcement is sent: a sentinel for every slot.
SendSentinels ==
    /\ shutdown = "signal" \/ (shutdown = "message" /\ listening)
    /\ shutdown' = "sent"
    /\ queue' = queue \o [i \in Agents |-> Sentinel]
    /\ UNCHANGED <<slotVars, signalling, listening, heard, registers, again>>

\* The puller and the sweeper return when the event is set; run() then cancels
\* the listener, in whatever handler it is.
StopListening ==
    /\ listening /\ shutdown # "no"
    /\ listening' = FALSE /\ signalling' = <<>>
    /\ UNCHANGED <<queue, slotVars, shutdown, heard, registers, again>>

Next ==
    \/ \E a \in Agents : SlotStep(a) \/ Crash(a)
    \/ \E t \in Tasks : \/ \E target \in Agents \cup {NoAgent} : Assigned(t, target)
                        \/ Followup(t) \/ Cancel(t) \/ Redirect(t)
                        \/ Finalize(t) \/ WorkerMessage(t)
    \/ PutSignal
    \/ ShutdownMessage \/ ShutdownSignal \/ SendSentinels \/ StopListening

\* Runs and sends end; when a slot has died run() starts the shutdown.
Fairness ==
    /\ \A a \in Agents : WF_vars(SlotStep(a))
    /\ WF_vars(PutSignal) /\ WF_vars(SendSentinels) /\ WF_vars(StopListening)
    /\ WF_vars((\E a \in Agents : pc[a] = "died") /\ ShutdownSignal)

Spec == Init /\ [][Next]_vars /\ Fairness

-----------------------------------------------------------------------------
(* What the pool promises.                                                 *)

Copies(t) == Cardinality({a \in Agents : job[a] = t})
             + Cardinality({i \in DOMAIN queue : queue[i].task = t})

\* A task is in the queue or on a slot at most once: an assignment replayed
\* after a reconnect never doubles it. The exceptions: a follow-up of a task the
\* worker held, the refusal of one, and a redirect outside a run.
NoReplayDuplicates == \A t \in Tasks : Copies(t) <= 1 \/ t \in again

\* What is sent to a task while its run or its session is in its loop reaches
\* that run, with the same exceptions.
RunReachable ==
    \A a \in Agents : pc[a] \in InLoop /\ job[a] \notin again =>
        /\ redirects[job[a]] = a
        /\ job[a] \in Interactive => chats[job[a]] = a

\* A run that was cancelled before its loop looked at it never pushes its branch
\* or reports an outcome, even if its mark was evicted or cleared, or redirects
\* came first; except while shutting down, when redirects are dropped.
CancelStopsPush ==
    \A a \in stopped : pc[a] = "pushing" => shutdown # "no" \/ job[a] \in again

\* Once the sentinels are in the queue every slot stops, but for one waiting in
\* an interactive session for a message.
SentinelsDrain ==
    shutdown = "sent" ~> \A a \in Agents : pc[a] \in Ended \cup {"waiting"}

\* A queued task is taken by a slot, unless an interactive session keeps one or
\* the worker shuts down: no slot is retired by a failure.
QueuedIsTaken ==
    \A t \in Tasks : Queued(t) ~>
        ~Queued(t) \/ shutdown # "no" \/ \E a \in Agents : pc[a] = "waiting"

=============================================================================
