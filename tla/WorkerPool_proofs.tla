-------------------------- MODULE WorkerPool_proofs --------------------------
(***************************************************************************)
(* What is proved of the worker pool, for any number of tasks, slots, marks *)
(* and messages.                                                            *)
(***************************************************************************)
EXTENDS WorkerPool, FiniteSetTheorems, TLAPS

USE InteractiveType, NumAgentsType, MaxCancelledType, MaxMessagesType, NoTaskType

-----------------------------------------------------------------------------
(* Types *)

\* Without: a mark more or less leaves a sequence of tasks, no longer than before.
LEMMA WithoutType ==
    ASSUME NEW t \in Tasks, cancelled \in Seq(Tasks)
    PROVE  /\ Without(t) \in Seq(Tasks)
           /\ Len(Without(t)) <= Len(cancelled)
  <1>1. CASE Marked(t)
    <2> DEFINE i == CHOOSE i \in DOMAIN cancelled : cancelled[i] = t
    <2>1. i \in 1..Len(cancelled)
      BY <1>1 DEF Marked, Contains
    <2>2. Without(t) = SubSeq(cancelled, 1, i-1) \o SubSeq(cancelled, i+1, Len(cancelled))
      BY <1>1 DEF Without, RemoveAt
    <2> HIDE DEF i
    <2> DEFINE front == SubSeq(cancelled, 1, i-1)
               rear == SubSeq(cancelled, i+1, Len(cancelled))
    <2>3. front \in Seq(Tasks) /\ Len(front) = i - 1
      BY <2>1
    <2>4. rear \in Seq(Tasks) /\ Len(rear) = Len(cancelled) - i
      BY <2>1
    <2>5. Without(t) = front \o rear
      BY <2>2
    <2> HIDE DEF front, rear
    <2>6. front \o rear \in Seq(Tasks) /\ Len(front \o rear) = Len(cancelled) - 1
      BY <2>1, <2>3, <2>4
    <2> QED BY <2>1, <2>5, <2>6
  <1>2. CASE ~Marked(t)
    BY <1>2 DEF Without
  <1> QED BY <1>1, <1>2

\* ... and leaves the other marks.
LEMMA WithoutKeeps ==
    ASSUME NEW t \in Tasks, cancelled \in Seq(Tasks), NEW u \in Tasks \ {t}, Contains(cancelled, u)
    PROVE  Contains(Without(t), u)
  <1>1. CASE Marked(t)
    <2> DEFINE i == CHOOSE i \in DOMAIN cancelled : cancelled[i] = t
    <2>1. i \in 1..Len(cancelled) /\ cancelled[i] = t
      BY <1>1 DEF Marked, Contains
    <2>2. Without(t) = SubSeq(cancelled, 1, i-1) \o SubSeq(cancelled, i+1, Len(cancelled))
      BY <1>1 DEF Without, RemoveAt
    <2> HIDE DEF i
    <2>3. PICK j \in 1..Len(cancelled) : cancelled[j] = u
      BY DEF Contains
    <2> DEFINE front == SubSeq(cancelled, 1, i-1)
               rear == SubSeq(cancelled, i+1, Len(cancelled))
    <2>4. front \in Seq(Tasks) /\ Len(front) = i - 1 /\ \A k \in 1..i-1 : front[k] = cancelled[k]
      BY <2>1
    <2>5. rear \in Seq(Tasks) /\ Len(rear) = Len(cancelled) - i
            /\ \A k \in 1..Len(cancelled)-i : rear[k] = cancelled[k+i]
      BY <2>1
    <2> HIDE DEF front, rear
    <2>6. CASE j < i
      <3>1. j \in 1..Len(front \o rear) /\ (front \o rear)[j] = u
        BY <2>3, <2>4, <2>5, <2>6, <2>1
      <3> QED BY <3>1, <2>2 DEF Contains, front, rear
    <2>7. CASE j > i
      <3>1. j-i \in 1..Len(rear) /\ rear[j-i] = u
        BY <2>3, <2>5, <2>7, <2>1
      <3>2. j-1 \in 1..Len(front \o rear)
        BY <2>3, <2>4, <2>5, <2>7, <2>1
      <3>3. (front \o rear)[j-1] = rear[j-1-Len(front)]
        BY <2>4, <2>5, <3>2, <2>7, <2>1, <2>3
      <3>4. j-1-Len(front) = j-i
        BY <2>1, <2>3, <2>4
      <3> QED BY <3>1, <3>2, <3>3, <3>4, <2>2 DEF Contains, front, rear
    <2> QED BY <2>1, <2>3, <2>6, <2>7
  <1>2. CASE ~Marked(t)
    BY <1>2 DEF Without
  <1> QED BY <1>1, <1>2

\* A slot's steps keep the types.
LEMMA SlotTypes ==
    ASSUME TypeOK, NEW a \in Agents, SlotStep(a) \/ Crash(a)
    PROVE  TypeOK'
  <1> USE DEF TypeOK, Goto, Ended, Active, Registered, InLoop, Entries, listenerVars, registers, slotVars
  <1>a. job[a] \in Tasks => Without(job[a]) \in Seq(Tasks) /\ Len(Without(job[a])) <= MaxCancelled
    BY WithoutType
  <1>b. pc[a] \notin {"free", "gone", "died"} => job[a] \in Tasks
    OBVIOUS
  <1>1. CASE TakeSentinel(a)
    BY <1>1, <1>a DEF TakeSentinel, Takes
  <1>2. CASE TakeElsewhere(a)
    BY <1>2, <1>a DEF TakeElsewhere
  <1>3. CASE TakeJob(a)
    BY <1>3, <1>a DEF TakeJob, Takes
  <1>4. CASE SkipCancelled(a)
    <2>1. PICK place \in {"free", "died"} : LetGo(a, place)
      BY <1>4 DEF SkipCancelled
    <2>2. /\ pc' = [pc EXCEPT ![a] = place] /\ job' = [job EXCEPT ![a] = NoTask]
          /\ inbox' = [inbox EXCEPT ![a] = <<>>] /\ chat' = [chat EXCEPT ![a] = <<>>]
          /\ stopped' = stopped \ {a} /\ again' \subseteq again
      BY <2>1 DEF LetGo, Remember
    <2>3. cancelled' \in Seq(Tasks) /\ Len(cancelled') <= MaxCancelled
      BY <1>4, <1>a, <1>b DEF SkipCancelled, Unmark
    <2>4. known' \subseteq known
          /\ UNCHANGED <<queue, redirects, chats, signalling, listening, shutdown, heard>>
      BY <1>4 DEF SkipCancelled
    <2> QED BY <2>2, <2>3, <2>4
  <1>5. CASE Begin(a)
    BY <1>5, <1>a DEF Begin
  <1>6. CASE SetupAborts(a)
    BY <1>6, <1>a DEF SetupAborts, LetGo, Remember
  <1>7. CASE SetupDone(a)
    BY <1>7, <1>a DEF SetupDone
  <1>8. CASE ProcessStep(a)
    BY <1>8, <1>a DEF ProcessStep
  <1>9. CASE AfterRun(a)
    <2>1. inbox' \in [Agents -> Seq({"redirect", "cancel"})]
      <3>1. inbox[a] \in Seq({"redirect", "cancel"})
        OBVIOUS
      <3> DEFINE rest == IF inbox[a] = <<>> THEN inbox[a] ELSE Tail(inbox[a])
      <3>2. rest \in Seq({"redirect", "cancel"})
        BY <3>1
      <3>3. inbox' = inbox \/ inbox' = [inbox EXCEPT ![a] = rest]
        BY <1>9 DEF AfterRun
      <3> HIDE DEF rest
      <3>4. [inbox EXCEPT ![a] = rest] \in [Agents -> Seq({"redirect", "cancel"})]
        BY <3>2
      <3> QED BY <3>3, <3>4
    <2>2. cancelled' \in Seq(Tasks) /\ Len(cancelled') <= MaxCancelled
      BY <1>9, <1>a, <1>b DEF AfterRun, Unmark
    <2>3. \E place \in {"closing", "launching", "pushing"} : pc' = [pc EXCEPT ![a] = place]
      BY <1>9 DEF AfterRun
    <2>4. pc[a] = "exited" /\ UNCHANGED <<queue, job, chat, stopped, signalling, listening,
                                        shutdown, heard, known, redirects, chats, again>>
      BY <1>9 DEF AfterRun
    <2> QED BY <2>1, <2>2, <2>3, <2>4
  <1>10. CASE AfterTurn(a)
    BY <1>10, <1>a DEF AfterTurn, Unmark
  <1>11. CASE NextMessage(a)
    <2>1. chat' \in [Agents -> Seq({"text", "cancel"})]
      BY <1>11 DEF NextMessage
    <2>2. cancelled' \in Seq(Tasks) /\ Len(cancelled') <= MaxCancelled
      BY <1>11, <1>a, <1>b DEF NextMessage, Unmark
    <2>3. pc' = [pc EXCEPT ![a] = "closing"] \/ pc' = [pc EXCEPT ![a] = "launching"]
      BY <1>11 DEF NextMessage
    <2>4. pc[a] = "waiting" /\ UNCHANGED <<queue, job, inbox, stopped, signalling, listening,
                                         shutdown, heard, known, redirects, chats, again>>
      BY <1>11 DEF NextMessage
    <2> QED BY <2>1, <2>2, <2>3, <2>4
  <1>12. CASE Report(a)
    BY <1>12, <1>a DEF Report
  <1>13. CASE Leave(a)
    <2>1. redirects' \in [Tasks -> Agents \cup {NoAgent}]
      BY <1>13, <1>b DEF Leave
    <2>2. /\ pc' = [pc EXCEPT ![a] = "free"] /\ job' = [job EXCEPT ![a] = NoTask]
          /\ inbox' = [inbox EXCEPT ![a] = <<>>] /\ chat' = [chat EXCEPT ![a] = <<>>]
          /\ stopped' = stopped \ {a} /\ again' \subseteq again
          /\ UNCHANGED <<queue, known, cancelled, chats, signalling, listening, shutdown, heard>>
      BY <1>13 DEF Leave, LetGo, Remember
    <2> QED BY <2>1, <2>2
  <1>14. CASE CrashReported(a)
    BY <1>14, <1>a DEF CrashReported, LetGo, Remember
  <1>15. CASE Crash(a)
    BY <1>15, <1>a DEF Crash
  <1> QED BY <1>1, <1>2, <1>3, <1>4, <1>5, <1>6, <1>7, <1>8, <1>9, <1>10, <1>11, <1>12, <1>13, <1>14, <1>15 DEF SlotStep

LEMMA QueueGrows ==
    ASSUME NEW q \in Seq(Entries \cup {Sentinel}), NEW t \in Tasks, NEW target \in Agents \cup {NoAgent}
    PROVE  Append(q, Entry(t, target)) \in Seq(Entries \cup {Sentinel})
  <1>1. Entry(t, target) \in Entries
    BY DEF Entry, Entries
  <1> QED BY <1>1

LEMMA SentinelsFollow ==
    ASSUME NEW q \in Seq(Entries \cup {Sentinel})
    PROVE  LET all == q \o [i \in Agents |-> Sentinel] IN
           /\ all \in Seq(Entries \cup {Sentinel})
           /\ Len(all) = Len(q) + NumAgents
           /\ \A i \in 1..Len(q) : all[i] = q[i]
           /\ \A i \in 1..Len(all) : i > Len(q) => all[i] = Sentinel
  <1> DEFINE row == [i \in Agents |-> Sentinel]
  <1>1. row \in Seq(Entries \cup {Sentinel}) /\ Len(row) = NumAgents /\ \A i \in 1..NumAgents : row[i] = Sentinel
    BY DEF Agents
  <1> HIDE DEF row
  <1>2. q \o row \in Seq(Entries \cup {Sentinel}) /\ Len(q \o row) = Len(q) + NumAgents
    BY <1>1
  <1>3. \A i \in 1..Len(q) : (q \o row)[i] = q[i]
    BY <1>1
  <1>4. \A i \in 1..Len(q \o row) : i > Len(q) => (q \o row)[i] = row[i - Len(q)] /\ i - Len(q) \in 1..NumAgents
    BY <1>1, <1>2
  <1> QED BY <1>1, <1>2, <1>3, <1>4 DEF row

LEMMA SignalledTypes ==
    ASSUME TypeOK, NEW kind \in {"redirect", "cancel"}, NEW t \in Tasks, Signalled(kind, t)
    PROVE  /\ inbox' \in [Agents -> Seq({"redirect", "cancel"})]
           /\ chat' \in [Agents -> Seq({"text", "cancel"})]
  BY DEF Signalled, TypeOK

\* ... and so do the listener's, and those of a shutdown.
LEMMA ListenerTypes ==
    ASSUME TypeOK, NEW t \in Tasks,
           \/ \E target \in Agents \cup {NoAgent} : Assigned(t, target)
           \/ Followup(t) \/ Cancel(t) \/ Redirect(t) \/ Finalize(t) \/ WorkerMessage(t)
    PROVE  TypeOK'
  <1>c. Append(queue, Entry(t, NoAgent)) \in Seq(Entries \cup {Sentinel})
    BY QueueGrows DEF TypeOK
  <1> USE DEF TypeOK, Goto, Ended, Active, Registered, InLoop, listenerVars, registers, slotVars
  <1>a. Without(t) \in Seq(Tasks) /\ Len(Without(t)) <= MaxCancelled
    BY WithoutType
  <1>b. ASSUME Hears PROVE heard' \in 0..MaxMessages
    BY <1>b DEF Hears
  <1>1. ASSUME NEW target \in Agents \cup {NoAgent}, Assigned(t, target) PROVE TypeOK'
    BY <1>1, <1>b, QueueGrows DEF Assigned
  <1>2. CASE Followup(t)
    <2>1. queue' \in Seq(Entries \cup {Sentinel})
      BY <1>2, <1>c DEF Followup
    <2>3. known' \subseteq Tasks
      BY <1>2 DEF Followup
    <2>2. again' \subseteq Tasks
      BY <1>2 DEF Followup, Remember, Repeats
    <2> QED BY <2>1, <2>2, <2>3, <1>2, <1>b DEF Followup
  <1>3. CASE Cancel(t)
    <2>1. cancelled' \in Seq(Tasks) /\ Len(cancelled') <= MaxCancelled
      <3> DEFINE marks == Append(Without(t), t)
      <3>1. marks \in Seq(Tasks) /\ Len(marks) <= MaxCancelled + 1 /\ Len(marks) > 0
        BY <1>a
      <3>2. cancelled' = IF Len(marks) > MaxCancelled THEN Tail(marks) ELSE marks
        BY <1>3 DEF Cancel
      <3> HIDE DEF marks
      <3> QED BY <3>1, <3>2
    <2>2. /\ inbox' \in [Agents -> Seq({"redirect", "cancel"})]
          /\ chat' \in [Agents -> Seq({"text", "cancel"})]
      BY <1>3, SignalledTypes DEF Cancel
    <2>3. signalling' \in {<<>>} \cup ({"redirect", "cancel"} \X Tasks)
      BY <1>3 DEF Cancel
    <2>4. stopped' \subseteq Agents
      BY <1>3 DEF Cancel, Working
    <2>5. UNCHANGED <<queue, pc, job, listening, shutdown, known, redirects, chats, again>> /\ Hears
      BY <1>3 DEF Cancel
    <2> QED BY <2>1, <2>2, <2>3, <2>4, <2>5, <1>b
  <1>4. CASE Redirect(t)
    <2>1. queue' \in Seq(Entries \cup {Sentinel})
      BY <1>4, <1>c DEF Redirect
    <2>2. /\ inbox' \in [Agents -> Seq({"redirect", "cancel"})]
          /\ chat' \in [Agents -> Seq({"text", "cancel"})]
      BY <1>4, SignalledTypes DEF Redirect
    <2>3. signalling' \in {<<>>} \cup ({"redirect", "cancel"} \X Tasks)
      BY <1>4 DEF Redirect
    <2>4. again' \subseteq Tasks
      BY <1>4 DEF Redirect, Remember
    <2>5. UNCHANGED <<pc, job, stopped, listening, shutdown, known, cancelled, redirects, chats>> /\ Hears
      BY <1>4 DEF Redirect
    <2> QED BY <2>1, <2>2, <2>3, <2>4, <2>5, <1>b
  <1>5. CASE Finalize(t)
    BY <1>5, <1>a, <1>b DEF Finalize, Unmark
  <1>6. CASE WorkerMessage(t)
    BY <1>6, <1>b DEF WorkerMessage
  <1> QED BY <1>1, <1>2, <1>3, <1>4, <1>5, <1>6

LEMMA ShutdownTypes ==
    ASSUME TypeOK,
           PutSignal \/ ShutdownMessage \/ ShutdownSignal \/ SendSentinels \/ StopListening
    PROVE  TypeOK'
  <1> USE DEF TypeOK, Ended, Active, Registered, InLoop, Entries, listenerVars, registers, slotVars
  <1>1. CASE PutSignal
    BY <1>1 DEF PutSignal, Signalled
  <1>2. CASE ShutdownMessage
    BY <1>2 DEF ShutdownMessage, Hears
  <1>3. CASE ShutdownSignal
    BY <1>3 DEF ShutdownSignal
  <1>4. CASE SendSentinels
    <2>1. queue' \in Seq(Entries \cup {Sentinel})
      BY <1>4, SentinelsFollow DEF SendSentinels
    <2> QED BY <2>1, <1>4 DEF SendSentinels
  <1>5. CASE StopListening
    BY <1>5 DEF StopListening
  <1> QED BY <1>1, <1>2, <1>3, <1>4, <1>5

\* Every variable of the pool keeps its type.
THEOREM PoolTypeCorrect == Spec => []TypeOK
  <1>1. Init => TypeOK
    BY DEF Init, TypeOK, Ended, Active, Registered, InLoop
  <1>2. TypeOK /\ [Next]_vars => TypeOK'
    <2> SUFFICES ASSUME TypeOK, [Next]_vars PROVE TypeOK'
      OBVIOUS
    <2>1. CASE UNCHANGED vars
      BY <2>1 DEF vars, slotVars, listenerVars, registers, TypeOK
    <2>2. CASE Next
      BY <2>2, SlotTypes, ListenerTypes, ShutdownTypes DEF Next
    <2> QED BY <2>1, <2>2
  <1> QED BY <1>1, <1>2, PTL DEF Spec

-----------------------------------------------------------------------------
(* The inductive invariant *)

OneCopy(t) ==
    /\ \A a, b \in Agents : job[a] = t /\ job[b] = t => a = b
    /\ \A i, j \in DOMAIN queue : queue[i].task = t /\ queue[j].task = t => i = j
    /\ \A a \in Agents, i \in DOMAIN queue : ~(job[a] = t /\ queue[i].task = t)

\* Among the tasks the exceptions do not name, one copy each, known by its id.
Copied ==
    \A t \in Tasks \ again :
        /\ OneCopy(t)
        /\ Held(t) => t \in known

\* A slot is stopped from the loop of its run until it lets go of the task.
StoppedInRun == \A a \in stopped : pc[a] \in Registered \cup {"crashed", "late"}

\* A stopped run of a standard task has the cancel in its queue, or it is marked
\* and the listener is about to put it there: no message comes in between, and
\* only the run itself would clear the mark.
Told(a) ==
    \/ Contains(inbox[a], "cancel")
    \/ signalling = <<"cancel", job[a]>> /\ Marked(job[a])
StopHeeded ==
    \A a \in stopped : shutdown = "no" /\ job[a] \notin again =>
        /\ pc[a] # "pushing"
        /\ pc[a] \in InLoop /\ job[a] \notin Interactive => Told(a)

PoolInv == TypeOK /\ Copied /\ RunReachable /\ StoppedInRun /\ StopHeeded

-----------------------------------------------------------------------------
(* One copy of a task *)

\* The queue's entries after its head was taken, or a task joined.
LEMMA TailEntries ==
    ASSUME TypeOK, queue # <<>>, queue' = Tail(queue)
    PROVE  DOMAIN queue' = 1..Len(queue)-1 /\ \A i \in DOMAIN queue' : queue'[i] = queue[i+1]
  BY DEF TypeOK

LEMMA JoinEntries ==
    ASSUME TypeOK, NEW t, NEW target, queue' = Append(queue, Entry(t, target))
    PROVE  /\ DOMAIN queue = 1..Len(queue) /\ Len(queue) \in Nat
           /\ DOMAIN queue' = 1..Len(queue)+1
           /\ \A i \in 1..Len(queue) : queue'[i] = queue[i]
           /\ queue'[Len(queue)+1].task = t
  BY DEF TypeOK, Entry

\* A task nobody holds has one copy at the most.
LEMMA UnheldCopied ==
    ASSUME NEW t, ~Held(t)
    PROVE  OneCopy(t)
  BY DEF Held, Queued, OneCopy

\* A slot lets go: of its task no copy stays but those the exceptions name.
LEMMA LetGoCopied ==
    ASSUME TypeOK, Copied, NEW a \in Agents, job' = [job EXCEPT ![a] = NoTask], Remember({}),
           UNCHANGED queue, known' = known \/ known' = known \ {job[a]}
    PROVE  Copied'
  <1> SUFFICES ASSUME NEW t \in Tasks, t \notin again'
               PROVE  OneCopy(t)' /\ (Held(t)' => t \in known')
    BY DEF Copied
  <1>1. \A b \in Agents : job'[b] = t => b # a /\ job[b] = t
    BY DEF TypeOK
  <1>2. Held(t)' => Held(t) /\ (t = job[a] => ~OneCopy(t))
    BY <1>1 DEF Held, Queued, OneCopy
  <1>3. CASE t \notin again
    <2>1. OneCopy(t) /\ (Held(t) => t \in known)
      BY <1>3 DEF Copied
    <2>2. OneCopy(t)'
      BY <1>1, <2>1 DEF OneCopy
    <2> QED BY <1>2, <2>1, <2>2
  <1>4. CASE t \in again
    <2>1. ~Held(t)'
      BY <1>4 DEF Remember
    <2>2. OneCopy(t)'
      BY <2>1 DEF Held, Queued, OneCopy
    <2> QED BY <2>1, <2>2
  <1> QED BY <1>3, <1>4

\* A slot takes the head of the queue, or puts it at the back.
LEMMA TakesCopied ==
    ASSUME TypeOK, Copied, NEW a \in Agents, TakeSentinel(a) \/ TakeElsewhere(a) \/ TakeJob(a)
    PROVE  Copied'
  <1> SUFFICES ASSUME NEW t \in Tasks, t \notin again'
               PROVE  OneCopy(t)' /\ (Held(t)' => t \in known')
    BY DEF Copied
  <1>1. again' = again /\ known' = known /\ pc[a] = "free" /\ queue # <<>>
    BY DEF TakeSentinel, TakeElsewhere, TakeJob, Takes, registers
  <1>2. OneCopy(t) /\ (Held(t) => t \in known)
    BY <1>1 DEF Copied
  <1>3. job[a] = NoTask /\ job[a] # t
    BY <1>1 DEF TypeOK
  <1>4. Len(queue) \in Nat \ {0} /\ DOMAIN queue = 1..Len(queue) /\ Head(queue) = queue[1]
    BY <1>1 DEF TypeOK
  <1>5. CASE TakeSentinel(a)
    <2>1. queue' = Tail(queue) /\ job' = job
      BY <1>5 DEF TakeSentinel, Takes
    <2> QED BY <1>1, <1>2, <1>4, <2>1, TailEntries DEF OneCopy, Held, Queued
  <1>6. CASE TakeJob(a)
    <2>1. queue' = Tail(queue) /\ job' = [job EXCEPT ![a] = queue[1].task]
      BY <1>4, <1>6 DEF TakeJob, Takes
    <2>2. DOMAIN queue' = 1..Len(queue)-1 /\ \A i \in DOMAIN queue' : queue'[i] = queue[i+1]
      BY <1>1, <2>1, TailEntries
    <2>3. \A b \in Agents : job'[b] = IF b = a THEN queue[1].task ELSE job[b]
      BY <2>1 DEF TypeOK
    <2>4. Held(t)' => Held(t)
      BY <1>4, <2>2, <2>3 DEF Held, Queued
    <2>5. OneCopy(t)'
      BY <1>2, <1>4, <2>2, <2>3 DEF OneCopy
    <2> QED BY <1>1, <1>2, <2>4, <2>5
  <1>7. CASE TakeElsewhere(a)
    <2>1. queue' = Append(Tail(queue), queue[1]) /\ job' = job
      BY <1>4, <1>7 DEF TakeElsewhere, slotVars
    <2> DEFINE from(i) == IF i = Len(queue) THEN 1 ELSE i+1
    <2>2. DOMAIN queue' = 1..Len(queue) /\ \A i \in DOMAIN queue' : queue'[i] = queue[from(i)]
      BY <1>1, <2>1 DEF TypeOK
    <2>3. /\ \A i \in DOMAIN queue' : from(i) \in DOMAIN queue
          /\ \A i, j \in DOMAIN queue' : from(i) = from(j) => i = j
      BY <1>4, <2>2
    <2> HIDE DEF from
    <2>4. Held(t)' => Held(t)
      BY <2>1, <2>2, <2>3 DEF Held, Queued
    <2>5. OneCopy(t)'
      BY <1>2, <2>1, <2>2, <2>3 DEF OneCopy
    <2> QED BY <1>1, <1>2, <2>4, <2>5
  <1> QED BY <1>5, <1>6, <1>7

\* A task joins the queue: one the worker does not hold, or an exception.
LEMMA JoinsCopied ==
    ASSUME TypeOK, Copied, NEW u \in Tasks, NEW target, queue' = Append(queue, Entry(u, target)),
           UNCHANGED job, known \subseteq known',
           \/ u \notin known /\ u \in known' /\ UNCHANGED again
           \/ u \in known' /\ Remember(Repeats(u))
           \/ Remember({u})
    PROVE  Copied'
  <1> SUFFICES ASSUME NEW t \in Tasks, t \notin again'
               PROVE  OneCopy(t)' /\ (Held(t)' => t \in known')
    BY DEF Copied
  <1>1. /\ DOMAIN queue = 1..Len(queue) /\ Len(queue) \in Nat
        /\ DOMAIN queue' = 1..Len(queue)+1
        /\ \A i \in 1..Len(queue) : queue'[i] = queue[i]
        /\ queue'[Len(queue)+1].task = u
    BY JoinEntries
  <1>2. Held(u)' /\ (Held(t) => Held(t)') /\ (t # u => (Held(t)' <=> Held(t)))
    BY <1>1 DEF Held, Queued
  <1>3. t \in again => ~Held(t)
    BY <1>2 DEF Remember
  <1>4. OneCopy(t) /\ (Held(t) => t \in known)
    BY <1>3, UnheldCopied DEF Copied
  <1>5. CASE t # u
    <2>1. OneCopy(t)'
      BY <1>1, <1>4, <1>5 DEF OneCopy
    <2> QED BY <1>2, <1>4, <1>5, <2>1
  <1>6. CASE t = u
    <2>1. ~Held(u) /\ u \in known'
      BY <1>2, <1>4, <1>6 DEF Remember, Repeats
    <2>2. OneCopy(t)'
      BY <1>1, <1>6, <2>1 DEF OneCopy, Held, Queued
    <2> QED BY <1>6, <2>1, <2>2
  <1> QED BY <1>5, <1>6

\* A follow-up is refused: the id is forgotten, and what the worker holds of the
\* task becomes an exception.
LEMMA RefusesCopied ==
    ASSUME TypeOK, Copied, NEW u \in Tasks, UNCHANGED <<queue, job>>, known' = known \ {u},
           Remember(Repeats(u))
    PROVE  Copied'
  <1> SUFFICES ASSUME NEW t \in Tasks, t \notin again'
               PROVE  OneCopy(t)' /\ (Held(t)' => t \in known')
    BY DEF Copied
  <1>1. (OneCopy(t)' <=> OneCopy(t)) /\ (Held(t)' <=> Held(t))
    BY DEF OneCopy, Held, Queued
  <1>2. Held(t) => t \notin again /\ t # u
    BY <1>1 DEF Remember, Repeats
  <1> QED BY <1>1, <1>2, UnheldCopied DEF Copied

\* The sentinels are nobody's task.
LEMMA SentinelsCopied ==
    ASSUME TypeOK, Copied, SendSentinels
    PROVE  Copied'
  <1> SUFFICES ASSUME NEW t \in Tasks, t \notin again'
               PROVE  OneCopy(t)' /\ (Held(t)' => t \in known')
    BY DEF Copied
  <1>1. UNCHANGED <<job, known, again>> /\ queue' = queue \o [i \in Agents |-> Sentinel]
    BY DEF SendSentinels, slotVars, registers
  <1>2. /\ queue' \in Seq(Entries \cup {Sentinel}) /\ Len(queue') = Len(queue) + NumAgents
        /\ \A i \in 1..Len(queue) : queue'[i] = queue[i]
        /\ \A i \in 1..Len(queue') : i > Len(queue) => queue'[i] = Sentinel
    BY <1>1, SentinelsFollow DEF TypeOK
  <1>3. Sentinel.task # t
    BY DEF Sentinel, Entry
  <1>4. /\ DOMAIN queue = 1..Len(queue) /\ Len(queue) \in Nat
        /\ \A i \in DOMAIN queue' : queue'[i].task = t => i \in DOMAIN queue /\ queue[i].task = t
    <2>1. DOMAIN queue = 1..Len(queue) /\ Len(queue) \in Nat
      BY DEF TypeOK
    <2>2. DOMAIN queue' = 1..Len(queue')
      BY <1>2
    <2>3. ASSUME NEW i \in DOMAIN queue', queue'[i].task = t PROVE i <= Len(queue)
      BY <1>2, <1>3, <2>1, <2>2, <2>3
    <2> QED BY <1>2, <2>1, <2>2, <2>3
  <1>5. OneCopy(t) /\ (Held(t) => t \in known)
    BY <1>1 DEF Copied
  <1>6. Held(t)' => Held(t)
    BY <1>1, <1>4 DEF Held, Queued
  <1>7. OneCopy(t)'
    BY <1>1, <1>4, <1>5 DEF OneCopy
  <1> QED BY <1>1, <1>5, <1>6, <1>7

LEMMA CopiedFrame ==
    ASSUME Copied, UNCHANGED <<queue, job, known, again>>
    PROVE  Copied'
  BY DEF Copied, OneCopy, Held, Queued

LEMMA CopiedStep ==
    ASSUME TypeOK, Copied, [Next]_vars
    PROVE  Copied'
  <1> USE DEF slotVars, listenerVars, registers
  <1>1. ASSUME NEW a \in Agents, SlotStep(a) \/ Crash(a) PROVE Copied'
    <2>1. CASE TakeSentinel(a) \/ TakeElsewhere(a) \/ TakeJob(a)
      BY <2>1, TakesCopied
    <2>2. CASE SkipCancelled(a) \/ SetupAborts(a) \/ Leave(a) \/ CrashReported(a)
      BY <2>2, LetGoCopied DEF SkipCancelled, SetupAborts, Leave, CrashReported, LetGo
    <2>3. CASE Begin(a) \/ SetupDone(a) \/ ProcessStep(a) \/ AfterTurn(a) \/ NextMessage(a)
      BY <2>3, CopiedFrame DEF Begin, SetupDone, ProcessStep, AfterTurn, NextMessage
    <2>4. CASE AfterRun(a) \/ Report(a) \/ Crash(a)
      BY <2>4, CopiedFrame DEF AfterRun, Report, Crash
    <2> QED BY <1>1, <2>1, <2>2, <2>3, <2>4 DEF SlotStep
  <1>2. ASSUME NEW t \in Tasks, NEW target \in Agents \cup {NoAgent}, Assigned(t, target) PROVE Copied'
    BY <1>2, JoinsCopied DEF Assigned
  <1>3. ASSUME NEW t \in Tasks, Followup(t) PROVE Copied'
    <2>1. CASE HasRoom(t, NoAgent)
      BY <1>3, <2>1, JoinsCopied DEF Followup
    <2>2. CASE ~HasRoom(t, NoAgent)
      BY <1>3, <2>2, RefusesCopied DEF Followup
    <2> QED BY <2>1, <2>2
  <1>4. ASSUME NEW t \in Tasks, Redirect(t) PROVE Copied'
    <2>1. CASE UNCHANGED <<queue, again>>
      BY <1>4, <2>1, CopiedFrame DEF Redirect
    <2>2. CASE queue' = Append(queue, Entry(t, NoAgent)) /\ Remember({t})
      BY <1>4, <2>2, JoinsCopied DEF Redirect
    <2> QED BY <1>4, <2>1, <2>2 DEF Redirect
  <1>5. ASSUME NEW t \in Tasks, Cancel(t) \/ Finalize(t) \/ WorkerMessage(t) PROVE Copied'
    BY <1>5, CopiedFrame DEF Cancel, Finalize, WorkerMessage
  <1>6. CASE PutSignal \/ ShutdownMessage \/ ShutdownSignal \/ StopListening
    BY <1>6, CopiedFrame DEF PutSignal, ShutdownMessage, ShutdownSignal, StopListening
  <1>7. CASE UNCHANGED vars
    BY <1>7, CopiedFrame DEF vars
  <1> QED BY <1>1, <1>2, <1>3, <1>4, <1>5, <1>6, <1>7, SentinelsCopied DEF Next

-----------------------------------------------------------------------------
(* Runs can be reached *)

\* A run's task is one the worker holds, so that an exception of it stays one.
LEMMA ExceptionStays ==
    ASSUME NEW a \in Agents, NEW more, job[a] \in again, job'[a] = job[a], Remember(more)
    PROVE  job[a] \in again'
  BY DEF Remember, Held

\* A slot's step concerns that slot, its task's queues and its task's mark.
LEMMA SlotChanges ==
    ASSUME TypeOK, NEW b \in Agents, SlotStep(b) \/ Crash(b)
    PROVE  /\ \A a \in Agents \ {b} : pc'[a] = pc[a] /\ job'[a] = job[a] /\ inbox'[a] = inbox[a]
           /\ stopped' \in {stopped, stopped \ {b}}
           /\ redirects' = redirects \/ \E s \in Agents \cup {NoAgent} : redirects' = [redirects EXCEPT ![job[b]] = s]
           /\ chats' = chats \/ \E s \in Agents \cup {NoAgent} : chats' = [chats EXCEPT ![job[b]] = s]
           /\ UNCHANGED again \/ Remember({})
           /\ UNCHANGED cancelled \/ (job[b] \in Tasks /\ cancelled' = Without(job[b]))
           /\ UNCHANGED <<signalling, shutdown>>
  <1>a. pc[b] \in {"skipping", "exited", "waiting"} => job[b] \in Tasks
    BY DEF TypeOK, Ended
  <1> USE DEF TypeOK, Goto, slotVars, listenerVars, registers
  <1>1. CASE TakeSentinel(b)
    BY <1>1 DEF TakeSentinel, Takes
  <1>2. CASE TakeElsewhere(b)
    BY <1>2 DEF TakeElsewhere
  <1>3. CASE TakeJob(b)
    BY <1>3 DEF TakeJob, Takes
  <1>4. CASE SkipCancelled(b)
    <2>1. job[b] \in Tasks /\ cancelled' = Without(job[b])
      BY <1>4, <1>a DEF SkipCancelled, Unmark
    <2> QED BY <1>4, <2>1 DEF SkipCancelled, LetGo
  <1>5. CASE Begin(b)
    BY <1>5 DEF Begin
  <1>6. CASE SetupAborts(b)
    BY <1>6 DEF SetupAborts, LetGo
  <1>7. CASE SetupDone(b)
    BY <1>7 DEF SetupDone
  <1>8. CASE ProcessStep(b)
    BY <1>8 DEF ProcessStep
  <1>9. CASE AfterRun(b)
    <2>1. UNCHANGED cancelled \/ (job[b] \in Tasks /\ cancelled' = Without(job[b]))
      BY <1>9, <1>a DEF AfterRun, Unmark
    <2>2. /\ \A a \in Agents \ {b} : pc'[a] = pc[a] /\ inbox'[a] = inbox[a]
          /\ UNCHANGED <<job, stopped, redirects, chats, again, signalling, shutdown>>
      BY <1>9 DEF AfterRun
    <2> QED BY <2>1, <2>2
  <1>10. CASE AfterTurn(b)
    BY <1>10 DEF AfterTurn, Unmark
  <1>11. CASE NextMessage(b)
    <2>1. UNCHANGED cancelled \/ (job[b] \in Tasks /\ cancelled' = Without(job[b]))
      BY <1>11, <1>a DEF NextMessage, Unmark
    <2>2. /\ \A a \in Agents \ {b} : pc'[a] = pc[a]
          /\ UNCHANGED <<job, inbox, stopped, redirects, chats, again, signalling, shutdown>>
      BY <1>11 DEF NextMessage
    <2> QED BY <2>1, <2>2
  <1>12. CASE Report(b)
    BY <1>12 DEF Report
  <1>13. CASE Leave(b)
    BY <1>13 DEF Leave, LetGo
  <1>14. CASE CrashReported(b)
    BY <1>14 DEF CrashReported, LetGo
  <1>15. CASE Crash(b)
    BY <1>15 DEF Crash
  <1> QED BY <1>1, <1>2, <1>3, <1>4, <1>5, <1>6, <1>7, <1>8, <1>9, <1>10, <1>11, <1>12, <1>13, <1>14, <1>15 DEF SlotStep

\* A run's loop is entered when its queues are registered, and keeps them.
LEMMA LoopSteps ==
    ASSUME TypeOK, NEW b \in Agents, SlotStep(b) \/ Crash(b), pc'[b] \in InLoop
    PROVE  \/ SetupDone(b)
           \/ pc[b] \in InLoop /\ UNCHANGED <<job, redirects, chats, again>>
           \/ TakeElsewhere(b) /\ UNCHANGED <<pc, job, redirects, chats, again>>
  <1> USE DEF TypeOK, Goto, slotVars, listenerVars, registers, InLoop
  <1>1. CASE TakeSentinel(b)
    BY <1>1 DEF TakeSentinel, Takes
  <1>2. CASE TakeElsewhere(b)
    BY <1>2 DEF TakeElsewhere
  <1>3. CASE TakeJob(b)
    BY <1>3 DEF TakeJob, Takes
  <1>4. CASE SkipCancelled(b)
    BY <1>4 DEF SkipCancelled, LetGo
  <1>5. CASE Begin(b)
    BY <1>5 DEF Begin
  <1>6. CASE SetupAborts(b)
    BY <1>6 DEF SetupAborts, LetGo
  <1>7. CASE SetupDone(b)
    BY <1>7 DEF SetupDone
  <1>8. CASE ProcessStep(b)
    BY <1>8 DEF ProcessStep
  <1>9. CASE AfterRun(b)
    BY <1>9 DEF AfterRun
  <1>10. CASE AfterTurn(b)
    BY <1>10 DEF AfterTurn
  <1>11. CASE NextMessage(b)
    BY <1>11 DEF NextMessage
  <1>12. CASE Report(b)
    BY <1>12 DEF Report
  <1>13. CASE Leave(b)
    BY <1>13 DEF Leave, LetGo
  <1>14. CASE CrashReported(b)
    BY <1>14 DEF CrashReported, LetGo
  <1>15. CASE Crash(b)
    BY <1>15 DEF Crash
  <1> QED BY <1>1, <1>2, <1>3, <1>4, <1>5, <1>6, <1>7, <1>8, <1>9, <1>10, <1>11, <1>12, <1>13, <1>14, <1>15 DEF SlotStep

LEMMA ReachableStep ==
    ASSUME TypeOK, Copied, RunReachable, [Next]_vars
    PROVE  RunReachable'
  <1> SUFFICES ASSUME NEW a \in Agents, pc'[a] \in InLoop, job'[a] \notin again'
               PROVE  /\ redirects'[job'[a]] = a
                      /\ job'[a] \in Interactive => chats'[job'[a]] = a
    BY DEF RunReachable
  <1>1. ASSUME NEW b \in Agents, SlotStep(b) \/ Crash(b)
        PROVE  /\ redirects'[job'[a]] = a
               /\ job'[a] \in Interactive => chats'[job'[a]] = a
    <2>1. CASE a # b
      <3>a. pc'[a] = pc[a] /\ job'[a] = job[a]
        BY <1>1, <2>1, SlotChanges
      <3>1. pc'[a] = pc[a] /\ job'[a] = job[a] /\ job[a] \in Tasks
        BY <3>a DEF TypeOK, InLoop, Ended
      <3>2. job[a] \notin again
        BY <1>1, <3>1, ExceptionStays, SlotChanges
      <3>3. redirects[job[a]] = a /\ (job[a] \in Interactive => chats[job[a]] = a)
        BY <3>1, <3>2 DEF RunReachable
      <3>4. job[b] # job[a]
        BY <2>1, <3>1, <3>2 DEF Copied, OneCopy
      <3>5. redirects'[job[a]] = redirects[job[a]]
        <4>1. redirects' = redirects \/ \E s \in Agents \cup {NoAgent} : redirects' = [redirects EXCEPT ![job[b]] = s]
          BY <1>1, SlotChanges
        <4> QED BY <3>1, <3>4, <4>1 DEF TypeOK
      <3>6. chats'[job[a]] = chats[job[a]]
        <4>1. chats' = chats \/ \E s \in Agents \cup {NoAgent} : chats' = [chats EXCEPT ![job[b]] = s]
          BY <1>1, SlotChanges
        <4> QED BY <3>1, <3>4, <4>1 DEF TypeOK
      <3> QED BY <3>1, <3>3, <3>5, <3>6
    <2>2. CASE a = b
      <3>1. CASE SetupDone(b)
        <4>1. job'[a] = job[a] /\ job[a] \in Tasks
          BY <2>2, <3>1 DEF SetupDone, TypeOK, Ended
        <4> QED BY <2>2, <3>1, <4>1 DEF SetupDone, TypeOK
      <3>2. CASE pc[b] \in InLoop /\ UNCHANGED <<job, redirects, chats, again>>
        BY <2>2, <3>2 DEF RunReachable
      <3>3. CASE UNCHANGED <<pc, job, redirects, chats, again>>
        BY <2>2, <3>3 DEF RunReachable
      <3> QED BY <1>1, <2>2, <3>1, <3>2, <3>3, LoopSteps
    <2> QED BY <2>1, <2>2
  <1>2. ASSUME UNCHANGED <<pc, job, redirects, chats>>,
               UNCHANGED again \/ \E more \in SUBSET Tasks : Remember(more)
        PROVE  /\ redirects'[job'[a]] = a
               /\ job'[a] \in Interactive => chats'[job'[a]] = a
    <2>1. job[a] \notin again
      BY <1>2, ExceptionStays
    <2> QED BY <1>2, <2>1 DEF RunReachable
  <1> USE DEF slotVars, listenerVars, registers
  <1>3. ASSUME NEW t \in Tasks, NEW target \in Agents \cup {NoAgent}, Assigned(t, target)
        PROVE  UNCHANGED <<pc, job, redirects, chats, again>>
    BY <1>3 DEF Assigned
  <1>4. ASSUME NEW t \in Tasks, Followup(t)
        PROVE  UNCHANGED <<pc, job, redirects, chats>> /\ \E more \in SUBSET Tasks : Remember(more)
    BY <1>4 DEF Followup, Repeats
  <1>5. ASSUME NEW t \in Tasks, Redirect(t)
        PROVE  /\ UNCHANGED <<pc, job, redirects, chats>>
               /\ UNCHANGED again \/ \E more \in SUBSET Tasks : Remember(more)
    BY <1>5 DEF Redirect
  <1>6. ASSUME NEW t \in Tasks, Cancel(t) \/ Finalize(t) \/ WorkerMessage(t)
        PROVE  UNCHANGED <<pc, job, redirects, chats, again>>
    BY <1>6 DEF Cancel, Finalize, WorkerMessage
  <1>7. ASSUME PutSignal \/ ShutdownMessage \/ ShutdownSignal \/ SendSentinels \/ StopListening \/ UNCHANGED vars
        PROVE  UNCHANGED <<pc, job, redirects, chats, again>>
    BY <1>7 DEF PutSignal, ShutdownMessage, ShutdownSignal, SendSentinels, StopListening, vars
  <1> QED BY <1>1, <1>2, <1>3, <1>4, <1>5, <1>6, <1>7 DEF Next

-----------------------------------------------------------------------------
(* Cancelled runs do not push *)

\* A stopped slot goes on in its run until it lets go.
LEMMA StoppedSteps ==
    ASSUME TypeOK, StoppedInRun, NEW b \in Agents, SlotStep(b) \/ Crash(b), b \in stopped'
    PROVE  /\ b \in stopped /\ job'[b] = job[b]
           /\ pc'[b] \in Registered \cup {"crashed", "late"}
           /\ \/ AfterRun(b)
              \/ pc'[b] \notin InLoop \cup {"pushing"}
              \/ /\ pc'[b] \in InLoop /\ pc[b] \in InLoop
                 /\ UNCHANGED <<inbox, signalling, again>>
                 /\ job[b] \notin Interactive => UNCHANGED cancelled
  <1> USE DEF TypeOK, Goto, slotVars, listenerVars, registers, StoppedInRun, InLoop, Registered
  <1>1. CASE TakeSentinel(b)
    BY <1>1 DEF TakeSentinel, Takes
  <1>2. CASE TakeElsewhere(b)
    BY <1>2 DEF TakeElsewhere
  <1>3. CASE TakeJob(b)
    BY <1>3 DEF TakeJob, Takes
  <1>4. CASE SkipCancelled(b)
    BY <1>4 DEF SkipCancelled, LetGo
  <1>5. CASE Begin(b)
    BY <1>5 DEF Begin
  <1>6. CASE SetupAborts(b)
    BY <1>6 DEF SetupAborts, LetGo
  <1>7. CASE SetupDone(b)
    BY <1>7 DEF SetupDone
  <1>8. CASE ProcessStep(b)
    BY <1>8 DEF ProcessStep
  <1>9. CASE AfterRun(b)
    BY <1>9 DEF AfterRun
  <1>10. CASE AfterTurn(b)
    BY <1>10 DEF AfterTurn
  <1>11. CASE NextMessage(b)
    BY <1>11 DEF NextMessage
  <1>12. CASE Report(b)
    BY <1>12 DEF Report
  <1>13. CASE Leave(b)
    BY <1>13 DEF Leave, LetGo
  <1>14. CASE CrashReported(b)
    BY <1>14 DEF CrashReported, LetGo
  <1>15. CASE Crash(b)
    BY <1>15 DEF Crash
  <1> QED BY <1>1, <1>2, <1>3, <1>4, <1>5, <1>6, <1>7, <1>8, <1>9, <1>10, <1>11, <1>12, <1>13, <1>14, <1>15 DEF SlotStep

LEMMA StoppedInRunStep ==
    ASSUME TypeOK, StoppedInRun, [Next]_vars
    PROVE  StoppedInRun'
  <1> USE DEF slotVars, listenerVars, registers
  <1>1. ASSUME NEW b \in Agents, SlotStep(b) \/ Crash(b) PROVE StoppedInRun'
    <2> SUFFICES ASSUME NEW a \in stopped' PROVE pc'[a] \in Registered \cup {"crashed", "late"}
      BY DEF StoppedInRun
    <2>1. a \in stopped /\ a \in Agents
      BY <1>1, SlotChanges DEF TypeOK
    <2>2. CASE a # b
      <3>1. pc'[a] = pc[a]
        BY <1>1, <2>1, <2>2, SlotChanges
      <3> QED BY <2>1, <3>1 DEF StoppedInRun
    <2>3. CASE a = b
      BY <1>1, <2>3, StoppedSteps
    <2> QED BY <2>2, <2>3
  <1>2. ASSUME NEW t \in Tasks, Cancel(t) PROVE StoppedInRun'
    BY <1>2 DEF Cancel, StoppedInRun, Registered
  <1>3. ASSUME NEW t \in Tasks, NEW target \in Agents \cup {NoAgent}, Assigned(t, target)
        PROVE  StoppedInRun'
    BY <1>3 DEF Assigned, StoppedInRun
  <1>4. ASSUME NEW t \in Tasks, Followup(t) \/ Redirect(t) \/ Finalize(t) \/ WorkerMessage(t)
        PROVE  StoppedInRun'
    BY <1>4 DEF Followup, Redirect, Finalize, WorkerMessage, StoppedInRun
  <1>5. ASSUME PutSignal \/ ShutdownMessage \/ ShutdownSignal \/ SendSentinels \/ StopListening \/ UNCHANGED vars
        PROVE  StoppedInRun'
    BY <1>5 DEF PutSignal, ShutdownMessage, ShutdownSignal, SendSentinels, StopListening, vars, StoppedInRun
  <1> QED BY <1>1, <1>2, <1>3, <1>4, <1>5 DEF Next

\* What is put in a run's queue joins what is there.
LEMMA SignalledKeeps ==
    ASSUME TypeOK, NEW kind \in {"redirect", "cancel"}, NEW t \in Tasks, Signalled(kind, t), NEW a \in Agents
    PROVE  /\ Contains(inbox[a], "cancel") => Contains(inbox'[a], "cancel")
           /\ kind = "cancel" /\ redirects[t] = a /\ t \notin Interactive => Contains(inbox'[a], "cancel")
  <1>1. inbox[a] \in Seq({"redirect", "cancel"})
    BY DEF TypeOK
  <1>2. inbox'[a] = IF redirects[t] = a /\ t \notin Interactive THEN Append(inbox[a], kind) ELSE inbox[a]
    BY DEF Signalled
  <1>3. CASE redirects[t] = a /\ t \notin Interactive
    <2>1. /\ Len(inbox'[a]) = Len(inbox[a]) + 1 /\ Len(inbox[a]) \in Nat
          /\ inbox'[a][Len(inbox[a]) + 1] = kind
          /\ \A i \in 1..Len(inbox[a]) : inbox'[a][i] = inbox[a][i]
      BY <1>1, <1>2, <1>3
    <2> QED BY <2>1 DEF Contains
  <1>4. CASE ~(redirects[t] = a /\ t \notin Interactive)
    BY <1>2, <1>4 DEF Contains
  <1> QED BY <1>3, <1>4

\* The run itself: a cancel in its queue stays there until the run takes it, and
\* while the listener has it the mark ends the run.
LEMMA AfterRunHeeds ==
    ASSUME TypeOK, NEW a \in Agents, AfterRun(a), shutdown = "no", Told(a)
    PROVE  pc'[a] # "pushing" /\ (pc'[a] \in InLoop => Told(a)')
  <1>1. inbox[a] \in Seq({"redirect", "cancel"}) /\ inbox \in [Agents -> Seq({"redirect", "cancel"})]
    BY DEF TypeOK
  <1>a. \A place : pc' = [pc EXCEPT ![a] = place] => pc'[a] = place
    BY DEF TypeOK
  <1>2. CASE Marked(job[a])
    <2>1. pc' = [pc EXCEPT ![a] = "closing"]
      BY <1>2 DEF AfterRun, Goto
    <2> QED BY <1>a, <2>1 DEF InLoop
  <1>3. CASE ~Marked(job[a])
    <2>1. Contains(inbox[a], "cancel")
      BY <1>3 DEF Told
    <2>2. inbox[a] # <<>> /\ inbox' = [inbox EXCEPT ![a] = Tail(inbox[a])]
      BY <1>1, <1>3, <2>1 DEF AfterRun, Contains
    <2>3. CASE Head(inbox[a]) = "cancel"
      <3>1. pc' = [pc EXCEPT ![a] = "closing"]
        BY <1>3, <2>2, <2>3 DEF AfterRun, Goto
      <3> QED BY <1>a, <3>1 DEF InLoop
    <2>4. CASE Head(inbox[a]) # "cancel"
      <3>1. Head(inbox[a]) = "redirect"
        BY <1>1, <2>2, <2>4
      <3>2. pc' = [pc EXCEPT ![a] = "launching"]
        BY <1>3, <2>2, <3>1 DEF AfterRun, Goto
      <3>3. PICK k \in 1..Len(inbox[a]) : inbox[a][k] = "cancel"
        BY <2>1 DEF Contains
      <3>4. k # 1 /\ k - 1 \in 1..Len(Tail(inbox[a])) /\ Tail(inbox[a])[k-1] = "cancel"
        BY <1>1, <2>2, <2>4, <3>3
      <3>5. inbox'[a] = Tail(inbox[a])
        BY <1>1, <2>2
      <3>6. Contains(inbox'[a], "cancel")
        BY <3>4, <3>5 DEF Contains
      <3> QED BY <1>a, <3>2, <3>6 DEF Told
    <2> QED BY <2>3, <2>4
  <1> QED BY <1>2, <1>3

\* A slot's step: that of the stopped slot, or one of another slot, whose task is
\* another one.
LEMMA SlotHeeds ==
    ASSUME PoolInv, NEW b \in Agents, SlotStep(b) \/ Crash(b)
    PROVE  StopHeeded'
  <1> USE DEF PoolInv
  <1> SUFFICES ASSUME NEW a \in stopped', shutdown' = "no", job'[a] \notin again'
               PROVE  /\ pc'[a] # "pushing"
                      /\ pc'[a] \in InLoop /\ job'[a] \notin Interactive => Told(a)'
    BY DEF StopHeeded
  <1>1. a \in stopped /\ a \in Agents /\ shutdown = "no" /\ signalling' = signalling
    BY SlotChanges DEF TypeOK
  <1>b. pc[a] \in Registered \cup {"crashed", "late"}
    BY <1>1 DEF StoppedInRun
  <1>2. job[a] \in Tasks
    <2>1. pc[a] \notin {"free"} \cup Ended
      BY <1>b DEF Registered, InLoop, Ended
    <2> QED BY <1>1, <2>1 DEF TypeOK
  <1>3. job'[a] = job[a] /\ job[a] \notin again
    <2>1. job'[a] = job[a]
      BY <1>1, SlotChanges, StoppedSteps
    <2> QED BY <1>1, <2>1, ExceptionStays, SlotChanges
  <1>4. /\ pc[a] # "pushing"
        /\ pc[a] \in InLoop /\ job[a] \notin Interactive => Told(a)
    BY <1>1, <1>3 DEF StopHeeded
  <1>5. CASE a = b
    <2>1. CASE AfterRun(b)
      <3>1. Told(a)
        BY <1>4, <1>5, <2>1 DEF AfterRun, InLoop
      <3> QED BY <1>1, <1>5, <2>1, <3>1, AfterRunHeeds
    <2>2. CASE pc'[b] \notin InLoop \cup {"pushing"}
      BY <1>5, <2>2
    <2>3. CASE /\ pc'[b] \in InLoop /\ pc[b] \in InLoop
               /\ UNCHANGED <<inbox, signalling, again>>
               /\ job[b] \notin Interactive => UNCHANGED cancelled
      BY <1>3, <1>4, <1>5, <2>3 DEF Told, Marked, InLoop
    <2> QED BY <1>5, <2>1, <2>2, <2>3, StoppedSteps
  <1>6. CASE a # b
    <2>1. pc'[a] = pc[a] /\ inbox'[a] = inbox[a]
      BY <1>1, <1>6, SlotChanges
    <2>2. job[b] # job[a]
      BY <1>1, <1>2, <1>3, <1>6 DEF Copied, OneCopy
    <2>3. Marked(job[a]) => Marked(job[a])'
      <3>1. UNCHANGED cancelled \/ (job[b] \in Tasks /\ cancelled' = Without(job[b]))
        BY SlotChanges
      <3>2. CASE UNCHANGED cancelled
        BY <1>3, <3>2 DEF Marked
      <3>3. CASE job[b] \in Tasks /\ cancelled' = Without(job[b])
        BY <1>2, <1>3, <2>2, <3>3, WithoutKeeps DEF Marked, TypeOK
      <3> QED BY <3>1, <3>2, <3>3
    <2> QED BY <1>1, <1>3, <1>4, <2>1, <2>3 DEF Told
  <1> QED BY <1>5, <1>6

\* A cancel: its signal goes to the run's queue at once, or it has the listener and
\* the newest mark.
LEMMA CancelHeeds ==
    ASSUME PoolInv, NEW t \in Tasks, Cancel(t)
    PROVE  StopHeeded'
  <1> USE DEF PoolInv
  <1> SUFFICES ASSUME NEW a \in stopped', shutdown' = "no", job'[a] \notin again'
               PROVE  /\ pc'[a] # "pushing"
                      /\ pc'[a] \in InLoop /\ job'[a] \notin Interactive => Told(a)'
    BY DEF StopHeeded
  <1>1. UNCHANGED <<pc, job, shutdown, again, redirects>> /\ signalling = <<>>
    BY DEF Cancel, Hears
  <1>2. a \in Agents /\ (a \notin stopped => job[a] = t /\ pc[a] \in InLoop)
    BY DEF Cancel, Working, TypeOK
  <1>3. pc[a] # "pushing"
    BY <1>1, <1>2 DEF StopHeeded, InLoop
  <1>4. ASSUME pc[a] \in InLoop, job[a] \notin Interactive PROVE Told(a)'
    <2>1. CASE job[a] = t
      <3>1. CASE HasProcess(t)
        <4>1. signalling' = <<"cancel", job'[a]>>
          BY <1>1, <2>1, <3>1 DEF Cancel
        <4> DEFINE marks == Append(Without(t), t)
        <4>2. marks \in Seq(Tasks) /\ Len(marks) \in Nat \ {0} /\ marks[Len(marks)] = t
          BY WithoutType DEF TypeOK
        <4>3. cancelled' = IF Len(marks) > MaxCancelled THEN Tail(marks) ELSE marks
          BY DEF Cancel
        <4> HIDE DEF marks
        <4>4. CASE Len(marks) > MaxCancelled
          <5>1. /\ cancelled' = Tail(marks) /\ Len(Tail(marks)) = Len(marks) - 1 /\ Len(marks) > 1
                /\ Tail(marks)[Len(marks) - 1] = t
            BY <4>2, <4>3, <4>4
          <5>2. Contains(cancelled', t)
            BY <4>2, <5>1 DEF Contains
          <5> QED BY <1>1, <2>1, <4>1, <5>2 DEF Told, Marked
        <4>5. CASE ~(Len(marks) > MaxCancelled)
          <5>1. Contains(cancelled', t)
            BY <4>2, <4>3, <4>5 DEF Contains
          <5> QED BY <1>1, <2>1, <4>1, <5>1 DEF Told, Marked
        <4> QED BY <4>4, <4>5
      <3>2. CASE ~HasProcess(t)
        <4>1. Signalled("cancel", t)
          BY <3>2 DEF Cancel
        <4>2. redirects[t] = a
          BY <1>1, <1>2, <1>4, <2>1 DEF RunReachable
        <4> QED BY <1>2, <1>4, <2>1, <4>1, <4>2, SignalledKeeps DEF Told
      <3> QED BY <3>1, <3>2
    <2>2. CASE job[a] # t
      <3>1. Contains(inbox[a], "cancel")
        BY <1>1, <1>2, <1>4, <2>2 DEF StopHeeded, Told
      <3>2. Contains(inbox'[a], "cancel")
        BY <1>2, <3>1, SignalledKeeps DEF Cancel
      <3> QED BY <3>2 DEF Told
    <2> QED BY <2>1, <2>2
  <1> QED BY <1>1, <1>3, <1>4

\* The other messages, and the second half of a signal.
LEMMA OthersHeed ==
    ASSUME PoolInv, UNCHANGED <<pc, job, shutdown, stopped>>,
           UNCHANGED again \/ \E more \in SUBSET Tasks : Remember(more),
           \/ signalling = <<>> /\ UNCHANGED inbox
           \/ \E t \in Tasks : signalling = <<>> /\ Signalled("redirect", t)
           \/ PutSignal
    PROVE  StopHeeded'
  <1> USE DEF PoolInv
  <1> SUFFICES ASSUME NEW a \in stopped, shutdown = "no", job[a] \notin again',
                      pc[a] \in InLoop, job[a] \notin Interactive
               PROVE  Told(a)'
    <2>1. ASSUME NEW a \in stopped, shutdown = "no", job[a] \notin again' PROVE pc[a] # "pushing"
      BY <2>1, ExceptionStays DEF StopHeeded, TypeOK
    <2> QED BY <2>1 DEF StopHeeded
  <1>1. a \in Agents /\ job[a] \notin again
    BY ExceptionStays DEF TypeOK
  <1>2. Told(a)
    BY <1>1 DEF StopHeeded
  <1>3. CASE signalling = <<>> /\ UNCHANGED inbox
    BY <1>2, <1>3 DEF Told
  <1>4. ASSUME NEW t \in Tasks, signalling = <<>>, Signalled("redirect", t) PROVE Told(a)'
    BY <1>1, <1>2, <1>4, SignalledKeeps DEF Told
  <1>5. CASE PutSignal
    <2>1. PICK kind \in {"redirect", "cancel"}, t \in Tasks : signalling = <<kind, t>> /\ Signalled(kind, t)
      BY <1>5 DEF PutSignal, TypeOK
    <2>2. CASE Contains(inbox[a], "cancel")
      BY <1>1, <2>1, <2>2, SignalledKeeps DEF Told
    <2>3. CASE signalling = <<"cancel", job[a]>>
      <3>1. kind = "cancel" /\ t = job[a] /\ redirects[t] = a
        BY <1>1, <2>1, <2>3 DEF RunReachable
      <3> QED BY <1>1, <2>1, <3>1, SignalledKeeps DEF Told
    <2> QED BY <1>2, <2>2, <2>3 DEF Told
  <1> QED BY <1>3, <1>4, <1>5

LEMMA StopHeededStep ==
    ASSUME PoolInv, [Next]_vars
    PROVE  StopHeeded'
  <1> USE DEF slotVars, listenerVars, registers
  <1>1. ASSUME NEW t \in Tasks, NEW target \in Agents \cup {NoAgent}, Assigned(t, target)
        PROVE  StopHeeded'
    BY <1>1, OthersHeed DEF Assigned, Hears
  <1>2. ASSUME NEW t \in Tasks, Followup(t) PROVE StopHeeded'
    <2>1. \E more \in SUBSET Tasks : Remember(more)
      BY <1>2 DEF Followup, Repeats
    <2> QED BY <1>2, <2>1, OthersHeed DEF Followup, Hears
  <1>3. ASSUME NEW t \in Tasks, Redirect(t) PROVE StopHeeded'
    <2>1. /\ UNCHANGED <<pc, job, shutdown, stopped>>
          /\ UNCHANGED again \/ \E more \in SUBSET Tasks : Remember(more)
          /\ signalling = <<>>
          /\ UNCHANGED inbox \/ Signalled("redirect", t)
      BY <1>3 DEF Redirect, Hears
    <2> QED BY <2>1, OthersHeed
  <1>4. ASSUME NEW t \in Tasks, Finalize(t) \/ WorkerMessage(t) PROVE StopHeeded'
    BY <1>4, OthersHeed DEF Finalize, WorkerMessage, Hears
  <1>5. CASE PutSignal
    BY <1>5, OthersHeed DEF PutSignal
  <1>6. CASE ShutdownMessage \/ ShutdownSignal \/ SendSentinels
    BY <1>6 DEF ShutdownMessage, ShutdownSignal, SendSentinels, StopHeeded
  <1>7. CASE StopListening
    BY <1>7 DEF StopListening, StopHeeded
  <1>8. CASE UNCHANGED vars
    BY <1>8 DEF vars, StopHeeded, Told, Marked, PoolInv
  <1> QED BY <1>1, <1>2, <1>3, <1>4, <1>5, <1>6, <1>7, <1>8, SlotHeeds, CancelHeeds DEF Next

-----------------------------------------------------------------------------
\* The conjunction that is inductive: what RunReachable and CancelStopsPush need to
\* know of the queue, of the copies of a task and of the runs that were stopped.
THEOREM PoolInvariance == Spec => []PoolInv
  <1>1. Init => PoolInv
    <2>1. Init => Copied
      BY DEF Init, Copied, OneCopy, Held, Queued
    <2>2. Init => RunReachable /\ StoppedInRun /\ StopHeeded
      BY DEF Init, RunReachable, InLoop, StoppedInRun, StopHeeded
    <2>3. Init => TypeOK
      BY DEF Init, TypeOK, Ended, Active, Registered, InLoop
    <2> QED BY <2>1, <2>2, <2>3 DEF PoolInv
  <1>2. PoolInv /\ TypeOK' /\ [Next]_vars => PoolInv'
    BY CopiedStep, ReachableStep, StoppedInRunStep, StopHeededStep DEF PoolInv
  <1> QED BY <1>1, <1>2, PoolTypeCorrect, PTL DEF Spec

\* Counting: what has one copy at the most is counted at most once.
LEMMA OneAtMost ==
    ASSUME NEW S, \A x, y \in S : x = y
    PROVE  Cardinality(S) \in {0, 1} /\ (Cardinality(S) = 1 => S # {})
  <1>1. CASE S = {}
    BY <1>1, FS_EmptySet
  <1>2. CASE S # {}
    <2>1. PICK x : x \in S
      BY <1>2
    <2>2. S = {x}
      BY <2>1
    <2> QED BY <2>2, FS_Singleton, <1>2
  <1> QED BY <1>1, <1>2

\* No dispatch is doubled: a task is in the queue or on a slot at most once, but for
\* a follow-up of a task the worker held, the refusal of one, and a redirect
\* outside a run.
THEOREM DispatchesNotDoubled == Spec => []NoReplayDuplicates
  <1>1. PoolInv => NoReplayDuplicates
    <2> SUFFICES ASSUME PoolInv, NEW t \in Tasks, t \notin again PROVE Copies(t) <= 1
      BY DEF NoReplayDuplicates
    <2> DEFINE slots == {a \in Agents : job[a] = t}
               entries == {i \in DOMAIN queue : queue[i].task = t}
    <2>1. OneCopy(t)
      BY DEF PoolInv, Copied
    <2>2. Cardinality(slots) \in {0, 1} /\ (Cardinality(slots) = 1 => slots # {})
      BY <2>1, OneAtMost DEF OneCopy
    <2>3. Cardinality(entries) \in {0, 1} /\ (Cardinality(entries) = 1 => entries # {})
      BY <2>1, OneAtMost DEF OneCopy
    <2>4. slots = {} \/ entries = {}
      BY <2>1 DEF OneCopy
    <2>5. Copies(t) = Cardinality(slots) + Cardinality(entries)
      BY DEF Copies
    <2> HIDE DEF slots, entries
    <2> QED BY <2>2, <2>3, <2>4, <2>5
  <1> QED BY <1>1, PoolInvariance, PTL

\* What is sent to a task while its run is in its loop reaches that run.
THEOREM RunsReached == Spec => []RunReachable
  <1>1. PoolInv => RunReachable
    BY DEF PoolInv
  <1> QED BY <1>1, PoolInvariance, PTL

\* A run cancelled before its loop looked at it does not go on to push, whatever
\* became of its mark and whatever was ahead of the cancel in its queue.
THEOREM CancelledNotPushed == Spec => []CancelStopsPush
  <1>1. PoolInv => CancelStopsPush
    BY DEF PoolInv, StopHeeded, CancelStopsPush
  <1> QED BY <1>1, PoolInvariance, PTL

-----------------------------------------------------------------------------
(* Shutdown *)

\* f gives each slot whose coroutine goes on a sentinel of the queue of its own.
Wakes(f) ==
    /\ \A a \in Agents : pc[a] \notin Ended => f[a] \in DOMAIN queue /\ queue[f[a]] = Sentinel
    /\ \A a, b \in Agents : pc[a] \notin Ended /\ pc[b] \notin Ended /\ f[a] = f[b] => a = b

\* Once the sentinels are in, there is one for each slot that has not ended.
EachWoken == shutdown = "sent" => \E f \in [Agents -> Nat] : Wakes(f)

\* A slot that waits at the queue then finds something in it.
NoneAsleep == shutdown = "sent" => \A a \in Agents : pc[a] = "free" => queue # <<>>

\* A slot that takes a step has not ended, and the queue changes by what it takes.
LEMMA LiveSteps ==
    ASSUME TypeOK, NEW b \in Agents, SlotStep(b) \/ Crash(b)
    PROVE  /\ pc[b] \notin Ended
           /\ UNCHANGED queue \/ TakeSentinel(b) \/ TakeElsewhere(b) \/ TakeJob(b)
  BY DEF SlotStep, TakeSentinel, TakeElsewhere, TakeJob, Takes, SkipCancelled, Begin, SetupAborts,
         SetupDone, ProcessStep, AfterRun, AfterTurn, NextMessage, Report, Leave, Crash,
         CrashReported, Ended, Registered, InLoop

\* What no step of a slot disturbs: no slot comes back, entries are left where they
\* are or join behind.
LEMMA WakesStay ==
    ASSUME NEW f \in [Agents -> Nat], Wakes(f),
           \A a \in Agents : pc'[a] \notin Ended => pc[a] \notin Ended,
           DOMAIN queue \subseteq DOMAIN queue', \A i \in DOMAIN queue : queue'[i] = queue[i]
    PROVE  Wakes(f)'
  BY DEF Wakes

\* Who takes an entry that is no sentinel leaves each slot its own, one place nearer.
LEMMA WakesNearer ==
    ASSUME TypeOK, queue # <<>>, Head(queue) # Sentinel,
           NEW f \in [Agents -> Nat], Wakes(f),
           \A a \in Agents : pc'[a] \notin Ended => pc[a] \notin Ended,
           1..Len(queue)-1 \subseteq DOMAIN queue',
           \A i \in 1..Len(queue)-1 : queue'[i] = queue[i+1]
    PROVE  \E g \in [Agents -> Nat] : Wakes(g)'
  <1> DEFINE g == [a \in Agents |-> IF f[a] = 0 THEN 0 ELSE f[a] - 1]
  <1>1. g \in [Agents -> Nat] /\ \A a \in Agents : f[a] > 1 => g[a] = f[a] - 1
    OBVIOUS
  <1> HIDE DEF g
  <1>2. queue[1] # Sentinel /\ DOMAIN queue = 1..Len(queue) /\ Len(queue) \in Nat
    BY DEF TypeOK
  <1>3. ASSUME NEW a \in Agents, pc'[a] \notin Ended
        PROVE  /\ f[a] \in Nat /\ f[a] > 1 /\ g[a] = f[a] - 1
               /\ g[a] \in DOMAIN queue' /\ queue'[g[a]] = Sentinel
    <2>1. f[a] \in 1..Len(queue) /\ queue[f[a]] = Sentinel
      BY <1>2, <1>3 DEF Wakes
    <2>2. f[a] > 1 /\ f[a] - 1 \in 1..Len(queue)-1 /\ (f[a] - 1) + 1 = f[a]
      BY <1>2, <2>1
    <2>3. g[a] = f[a] - 1
      BY <1>1, <2>2
    <2>4. g[a] \in DOMAIN queue' /\ queue'[g[a]] = queue[f[a]]
      BY <2>2, <2>3
    <2> QED BY <2>1, <2>2, <2>3, <2>4
  <1>4. ASSUME NEW a \in Agents, NEW b \in Agents, pc'[a] \notin Ended, pc'[b] \notin Ended, g[a] = g[b]
        PROVE  a = b
    <2>1. f[a] = f[b]
      BY <1>3, <1>4
    <2> QED BY <1>4, <2>1 DEF Wakes
  <1>5. Wakes(g)'
    BY <1>3, <1>4 DEF Wakes
  <1> QED BY <1>1, <1>5

\* The slot that takes a sentinel ends. If it was another's, that one's is the taker's.
LEMMA WakesOne ==
    ASSUME TypeOK, NEW b \in Agents, TakeSentinel(b), NEW f \in [Agents -> Nat], Wakes(f)
    PROVE  \E g \in [Agents -> Nat] : Wakes(g)'
  <1> DEFINE before(n) == IF n = 0 THEN 0 ELSE n - 1
             g == [a \in Agents |-> IF f[a] = 1 THEN before(f[b]) ELSE before(f[a])]
  <1>1. \A n \in Nat : before(n) \in Nat /\ (n >= 1 => before(n) = n - 1)
    OBVIOUS
  <1> HIDE DEF before
  <1>2. /\ g \in [Agents -> Nat]
        /\ \A a \in Agents : g[a] = IF f[a] = 1 THEN before(f[b]) ELSE before(f[a])
    BY <1>1
  <1> HIDE DEF g
  <1>3. /\ pc[b] = "free" /\ pc' = [pc EXCEPT ![b] = "gone"]
        /\ queue # <<>> /\ queue' = Tail(queue)
    BY DEF TakeSentinel, Takes, Goto
  <1>4. /\ Len(queue) \in Nat /\ DOMAIN queue = 1..Len(queue) /\ DOMAIN queue' = 1..Len(queue)-1
        /\ \A i \in 1..Len(queue)-1 : queue'[i] = queue[i+1]
    BY <1>3 DEF TypeOK
  <1>5. /\ pc[b] \notin Ended
        /\ \A a \in Agents : pc'[a] \notin Ended => a # b /\ pc[a] \notin Ended
    BY <1>3 DEF TypeOK, Ended
  <1>6. ASSUME NEW a \in Agents, pc'[a] \notin Ended
        PROVE  /\ f[a] # f[b] /\ f[a] \in 1..Len(queue) /\ f[b] \in 1..Len(queue)
               /\ queue[f[a]] = Sentinel /\ queue[f[b]] = Sentinel
    BY <1>4, <1>5, <1>6 DEF Wakes
  <1>7. ASSUME NEW a \in Agents, pc'[a] \notin Ended
        PROVE  g[a] \in DOMAIN queue' /\ queue'[g[a]] = Sentinel
    <2>1. CASE f[a] = 1
      <3>1. f[b] \in 1..Len(queue) /\ f[b] # 1 /\ queue[f[b]] = Sentinel
        BY <1>6, <1>7, <2>1
      <3>2. f[b] \in Nat /\ f[b] >= 1 /\ f[b] - 1 \in 1..Len(queue)-1 /\ (f[b] - 1) + 1 = f[b]
        BY <1>4, <3>1
      <3>3. g[a] = f[b] - 1
        BY <1>1, <1>2, <2>1, <3>2
      <3> QED BY <1>4, <3>1, <3>2, <3>3
    <2>2. CASE f[a] # 1
      <3>1. f[a] \in 1..Len(queue) /\ queue[f[a]] = Sentinel
        BY <1>6, <1>7
      <3>2. f[a] \in Nat /\ f[a] >= 1 /\ f[a] - 1 \in 1..Len(queue)-1 /\ (f[a] - 1) + 1 = f[a]
        BY <1>4, <2>2, <3>1
      <3>3. g[a] = f[a] - 1
        BY <1>1, <1>2, <2>2, <3>2
      <3> QED BY <1>4, <3>1, <3>2, <3>3
    <2> QED BY <2>1, <2>2
  <1>8. ASSUME NEW a \in Agents, NEW c \in Agents, pc'[a] \notin Ended, pc'[c] \notin Ended, g[a] = g[c]
        PROVE  a = c
    <2>1. /\ f[a] # f[b] /\ f[c] # f[b]
          /\ f[a] \in Nat \ {0} /\ f[b] \in Nat \ {0} /\ f[c] \in Nat \ {0}
      BY <1>4, <1>6, <1>8
    <2>2. /\ g[a] = IF f[a] = 1 THEN f[b] - 1 ELSE f[a] - 1
          /\ g[c] = IF f[c] = 1 THEN f[b] - 1 ELSE f[c] - 1
      BY <1>1, <1>2, <2>1
    <2>3. f[a] = f[c]
      <3>1. g[a] = g[c]
        BY <1>8
      <3>2. CASE f[a] = 1 /\ f[c] # 1
        <4>1. f[b] - 1 = f[c] - 1
          BY <2>2, <3>1, <3>2
        <4> QED BY <2>1, <4>1
      <3>3. CASE f[a] # 1 /\ f[c] = 1
        <4>1. f[a] - 1 = f[b] - 1
          BY <2>2, <3>1, <3>3
        <4> QED BY <2>1, <4>1
      <3>4. CASE f[a] # 1 /\ f[c] # 1
        <4>1. f[a] - 1 = f[c] - 1
          BY <2>2, <3>1, <3>4
        <4> QED BY <2>1, <4>1
      <3> QED BY <3>2, <3>3, <3>4
    <2>4. pc[a] \notin Ended /\ pc[c] \notin Ended
      BY <1>5, <1>8
    <2> QED BY <2>3, <2>4 DEF Wakes
  <1>9. Wakes(g)'
    BY <1>7, <1>8 DEF Wakes
  <1> QED BY <1>2, <1>9

\* A step of a slot.
LEMMA SlotWakes ==
    ASSUME TypeOK, EachWoken, NEW b \in Agents, SlotStep(b) \/ Crash(b)
    PROVE  EachWoken'
  <1> SUFFICES ASSUME shutdown' = "sent" PROVE \E g \in [Agents -> Nat] : Wakes(g)'
    BY DEF EachWoken
  <1>1. PICK f \in [Agents -> Nat] : Wakes(f)
    BY SlotChanges DEF EachWoken
  <1>2. \A a \in Agents : pc'[a] \notin Ended => pc[a] \notin Ended
    BY LiveSteps, SlotChanges
  <1>3. CASE UNCHANGED queue
    BY <1>1, <1>2, <1>3, WakesStay
  <1>4. CASE TakeSentinel(b)
    BY <1>1, <1>4, WakesOne
  <1>5. CASE TakeElsewhere(b)
    <2>1. /\ queue # <<>> /\ Head(queue) # Sentinel
          /\ queue' = Append(Tail(queue), Head(queue))
      BY <1>5 DEF TakeElsewhere, Sentinel, Entry
    <2>2. /\ 1..Len(queue)-1 \subseteq DOMAIN queue'
          /\ \A i \in 1..Len(queue)-1 : queue'[i] = queue[i+1]
      <3>1. Tail(queue) \in Seq(Entries \cup {Sentinel}) /\ Len(Tail(queue)) = Len(queue) - 1
              /\ Len(queue) \in Nat \ {0} /\ \A i \in 1..Len(queue)-1 : Tail(queue)[i] = queue[i+1]
        BY <2>1 DEF TypeOK
      <3> QED BY <2>1, <3>1
    <2> QED BY <1>1, <1>2, <2>1, <2>2, WakesNearer
  <1>6. CASE TakeJob(b)
    <2>1. queue # <<>> /\ Head(queue) # Sentinel /\ queue' = Tail(queue)
      BY <1>6 DEF TakeJob, Takes
    <2>2. /\ 1..Len(queue)-1 \subseteq DOMAIN queue'
          /\ \A i \in 1..Len(queue)-1 : queue'[i] = queue[i+1]
      BY <2>1, TailEntries
    <2> QED BY <1>1, <1>2, <2>1, <2>2, WakesNearer
  <1> QED BY <1>3, <1>4, <1>5, <1>6, LiveSteps

\* A message: at the most an entry joins behind the sentinels.
LEMMA ListenerWakes ==
    ASSUME TypeOK, EachWoken, NEW t \in Tasks,
           \/ \E target \in Agents \cup {NoAgent} : Assigned(t, target)
           \/ Followup(t) \/ Cancel(t) \/ Redirect(t) \/ Finalize(t) \/ WorkerMessage(t)
    PROVE  EachWoken'
  <1>1. /\ UNCHANGED <<pc, shutdown>>
        /\ \/ UNCHANGED queue
           \/ \E target \in Agents \cup {NoAgent} : queue' = Append(queue, Entry(t, target))
    BY DEF Assigned, Followup, Cancel, Redirect, Finalize, WorkerMessage, slotVars
  <1>2. DOMAIN queue \subseteq DOMAIN queue' /\ \A i \in DOMAIN queue : queue'[i] = queue[i]
    BY <1>1, JoinEntries
  <1> QED BY <1>1, <1>2, WakesStay DEF EachWoken

\* The sentinels are put: the a-th of them is slot a's.
LEMMA SentinelsWake ==
    ASSUME TypeOK, SendSentinels
    PROVE  EachWoken'
  <1>1. Len(queue) \in Nat /\ Agents \subseteq Nat \ {0} /\ \A a \in Agents : a <= NumAgents
    BY DEF TypeOK, Agents
  <1>2. PICK f \in [Agents -> Nat] : \A a \in Agents : f[a] = Len(queue) + a
    <2>1. [a \in Agents |-> Len(queue) + a] \in [Agents -> Nat]
      BY <1>1
    <2> QED BY <2>1
  <1>3. /\ DOMAIN queue' = 1..Len(queue) + NumAgents
        /\ \A i \in DOMAIN queue' : i > Len(queue) => queue'[i] = Sentinel
    <2>1. queue' = queue \o [i \in Agents |-> Sentinel] /\ queue \in Seq(Entries \cup {Sentinel})
      BY DEF SendSentinels, TypeOK
    <2> DEFINE all == queue \o [i \in Agents |-> Sentinel]
    <2>2. /\ all \in Seq(Entries \cup {Sentinel}) /\ Len(all) = Len(queue) + NumAgents
          /\ \A i \in 1..Len(all) : i > Len(queue) => all[i] = Sentinel
      BY <2>1, SentinelsFollow
    <2>3. queue' = all
      BY <2>1
    <2> HIDE DEF all
    <2> QED BY <2>2, <2>3
  <1>4. \A a \in Agents : f[a] \in DOMAIN queue' /\ queue'[f[a]] = Sentinel
    <2> SUFFICES ASSUME NEW a \in Agents PROVE f[a] \in DOMAIN queue' /\ queue'[f[a]] = Sentinel
      OBVIOUS
    <2>1. f[a] \in 1..Len(queue) + NumAgents /\ f[a] > Len(queue)
      BY <1>1, <1>2
    <2> QED BY <1>3, <2>1
  <1>5. \A a, b \in Agents : f[a] = f[b] => a = b
    BY <1>1, <1>2
  <1>6. Wakes(f)'
    BY <1>4, <1>5 DEF Wakes
  <1> QED BY <1>2, <1>6 DEF EachWoken

\* From the moment the sentinels are in the queue there is one of its own for each
\* slot that goes on, whatever joins the queue behind them and whoever takes which:
\* no slot is left waiting at an empty queue, the safety half of SentinelsDrain.
THEOREM NoSlotLeftWaiting == Spec => [](EachWoken /\ NoneAsleep)
  <1>1. Init => EachWoken
    BY DEF Init, EachWoken
  <1>2. TypeOK /\ EachWoken /\ [Next]_vars => EachWoken'
    <2> SUFFICES ASSUME TypeOK, EachWoken, [Next]_vars PROVE EachWoken'
      OBVIOUS
    <2>1. CASE PutSignal \/ ShutdownMessage \/ ShutdownSignal \/ StopListening \/ UNCHANGED vars
      <3>1. UNCHANGED <<queue, pc>> /\ (shutdown' = "sent" => shutdown = "sent")
        BY <2>1 DEF PutSignal, ShutdownMessage, ShutdownSignal, StopListening, vars, slotVars,
                    listenerVars
      <3>2. ASSUME NEW f \in [Agents -> Nat], Wakes(f) PROVE Wakes(f)'
        BY <3>1, <3>2 DEF Wakes
      <3> QED BY <3>1, <3>2 DEF EachWoken
    <2> QED BY <2>1, SlotWakes, ListenerWakes, SentinelsWake DEF Next
  <1>3. TypeOK /\ EachWoken => NoneAsleep
    <2> SUFFICES ASSUME TypeOK, EachWoken, shutdown = "sent", NEW a \in Agents, pc[a] = "free"
                 PROVE  queue # <<>>
      BY DEF NoneAsleep
    <2>1. PICK f \in [Agents -> Nat] : Wakes(f)
      BY DEF EachWoken
    <2>2. f[a] \in DOMAIN queue
      BY <2>1 DEF Wakes, Ended
    <2> QED BY <2>2
  <1> QED BY <1>1, <1>2, <1>3, PoolTypeCorrect, PTL DEF Spec

=============================================================================
