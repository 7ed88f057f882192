---------------------------- MODULE DiscordFeed ----------------------------
(***************************************************************************)
(* What the backend posts to Discord (discord_notifier.py): the terminal   *)
(* lines of a task, buffered and flushed by a timer, by size and when the  *)
(* task ends; the CI checks of a pull request, combined by a timer; single *)
(* notifications; and the threads they go to, looked up or created by any  *)
(* number of posts at a time. Discord and GitHub are external.             *)
(***************************************************************************)
EXTENDS Naturals, Sequences, SequencesExt

CONSTANTS
    MaxLines,     \* terminal lines of the task
    FlushSize,    \* _STREAM_FLUSH_CHARS, in lines
    Checks,       \* CI checks of its pull request
    Events,       \* notifications that create the thread they need
    Replies,      \* notifications for a thread that exists
    Cases,        \* what may come in: in a behaviour, one of these
    MaxFaults     \* bound on failed requests, failed queries and restarts

ASSUME LinesType == MaxLines \in Nat /\ FlushSize \in Nat \ {0}
ASSUME FaultsType == MaxFaults \in Nat

Lines == 1..MaxLines
Contents == Lines \cup Checks \cup Events \cup Replies
ASSUME ContentsDistinct ==
    /\ Checks \cap Lines = {} /\ Events \cap Lines = {} /\ Replies \cap Lines = {}
    /\ Checks \cap Events = {} /\ Checks \cap Replies = {} /\ Events \cap Replies = {}

ASSUME CasesType == Cases \subseteq SUBSET Contents

\* A thread is bound to a task's stream, to an issue, or to a pull request whose
\* issue is not known.
Subjects == {"stream", "issue", "pr"}
NoThread == 0
Threads == Nat \ {NoThread}

VARIABLES
    buf,        \* _stream_buffers[task]: registered, its lines, its timer
    flushes,    \* flushes that a full buffer scheduled and that have not run
    batch,      \* _ci_batches[pr].entries, with its timer while there are any
    jobs,       \* coroutines on their way to a post
    linked,     \* the pull request's issue is known
    binding,    \* discord_thread_bindings
    created,    \* threads created in Discord
    unsaved,    \* those whose binding was not written, or not read back
    coming,     \* what comes in
    fate,       \* what became of a line, a check, a notification
    posted,     \* the thread it was posted in
    faults

bufferVars == <<buf, flushes, batch>>
threadVars == <<binding, created, unsaved>>
fateVars == <<coming, fate, posted>>
vars == <<bufferVars, jobs, linked, threadVars, fateVars, faults>>

NoBuffer == [registered |-> FALSE, lines |-> <<>>, timer |-> FALSE]

Places == {"coords", "lookup", "create", "save", "refetch", "post", "flat"}

\* The domains of the variables; pending lines always have a flush coming, and a
\* notification for a thread that exists never creates one.
JobOK(j) ==
    /\ j \in [what : SUBSET Contents, at : Places, subject : Subjects, thread : Threads \cup {NoThread}]
    /\ j.what # {}
    /\ j.at \in {"save", "refetch", "post"} => j.thread # NoThread
    /\ j.what \subseteq Replies => j.at \notin {"create", "save", "refetch"}

TypeOK ==
    /\ buf \in [registered : BOOLEAN, lines : Seq(Lines), timer : BOOLEAN]
    /\ ~buf.registered => buf = NoBuffer
    /\ buf.lines # <<>> => buf.timer \/ flushes > 0
    /\ flushes \in Nat
    /\ batch \subseteq Checks
    /\ \A j \in jobs : JobOK(j)
    /\ linked \in BOOLEAN
    /\ binding \in [Subjects -> Threads \cup {NoThread}]
    /\ created \in Nat /\ unsaved \subseteq Threads
    /\ fate \in [Contents -> {"new", "held", "posted", "failed", "lost"}]
    /\ posted \in [Contents -> Threads \cup {NoThread}]
    /\ coming \in Cases /\ faults \in 0..MaxFaults

Init ==
    /\ buf = NoBuffer /\ flushes = 0 /\ batch = {} /\ jobs = {}
    /\ linked = FALSE /\ binding = [s \in Subjects |-> NoThread]
    /\ created = 0 /\ unsaved = {}
    /\ coming \in Cases /\ fate = [c \in Contents |-> "new"]
    /\ posted = [c \in Contents |-> NoThread] /\ faults = 0

Fault == faults < MaxFaults /\ faults' = faults + 1

Job(what, at, subject) == [what |-> what, at |-> at, subject |-> subject, thread |-> NoThread]
Comes(c) == c \in coming /\ fate[c] = "new" /\ fate' = [fate EXCEPT ![c] = "held"] /\ UNCHANGED <<coming, posted>>

-----------------------------------------------------------------------------
(* The task's stream. Nothing here suspends between the read of the buffer *)
(* and the end of the action: the buffer's lock is never waited for.       *)

\* _drain_and_post: the pending lines leave the buffer before anything is posted.
Drained(b) ==
    jobs' = IF b.lines = <<>> THEN jobs ELSE jobs \cup {Job(Range(b.lines), "lookup", "stream")}

\* A mutant: a timer that has ended still counts as the buffer's timer.
LineUntimed(n) ==
    /\ Comes(n) /\ \A m \in Lines : m < n => fate[m] # "new"
    /\ buf' = [registered |-> TRUE, lines |-> Append(buf.lines, n),
               timer |-> buf.timer \/ ~buf.registered]
    /\ UNCHANGED <<flushes, batch, jobs, linked, threadVars, faults>>

\* notify_task_stream: a full buffer replaces its timer by a flush of its own.
Line(n) ==
    /\ Comes(n) /\ \A m \in Lines : m < n => fate[m] # "new"
    /\ LET lines == Append(buf.lines, n) IN
       IF Len(lines) >= FlushSize
       THEN /\ buf' = [registered |-> TRUE, lines |-> lines, timer |-> FALSE]
            /\ flushes' = flushes + 1
       ELSE /\ buf' = [registered |-> TRUE, lines |-> lines, timer |-> TRUE]
            /\ UNCHANGED flushes
    /\ UNCHANGED <<batch, jobs, linked, threadVars, faults>>

DelayedFlush ==
    /\ buf.timer
    /\ Drained(buf) /\ buf' = [buf EXCEPT !.timer = FALSE, !.lines = <<>>]
    /\ UNCHANGED <<flushes, batch, linked, threadVars, fateVars, faults>>

SizeFlush ==
    /\ flushes > 0 /\ flushes' = flushes - 1
    /\ Drained(buf) /\ buf' = [buf EXCEPT !.lines = <<>>]
    /\ UNCHANGED <<batch, linked, threadVars, fateVars, faults>>

\* flush_task_stream: the task has ended, or a follow-up of it.
EndFlush ==
    /\ buf.registered
    /\ Drained(buf) /\ buf' = NoBuffer
    /\ UNCHANGED <<flushes, batch, linked, threadVars, fateVars, faults>>

-----------------------------------------------------------------------------
(* The pull request's checks, and single notifications.                    *)

\* notify_ci_check: the first check starts the timer, later ones join the batch.
Check(c) ==
    /\ Comes(c)
    /\ batch' = batch \cup {c}
    /\ UNCHANGED <<buf, flushes, jobs, linked, threadVars, faults>>

\* _flush_ci_batch drops the batch before it posts.
CIFlush ==
    /\ batch # {} /\ batch' = {}
    /\ jobs' = jobs \cup {Job(batch, "coords", "pr")}
    /\ UNCHANGED <<buf, flushes, linked, threadVars, fateVars, faults>>

Notify(e) ==
    /\ Comes(e)
    /\ jobs' = jobs \cup {Job({e}, "coords", "pr")}
    /\ UNCHANGED <<bufferVars, linked, threadVars, faults>>

\* A task's linkage, the branch's name or "Closes #N" becomes known.
Link ==
    /\ ~linked /\ linked' = TRUE
    /\ UNCHANGED <<bufferVars, jobs, threadVars, fateVars, faults>>

-----------------------------------------------------------------------------
(* A post, from its thread to its message, one await after the other.      *)

Becomes(j, k) == jobs' = (jobs \ {j}) \cup {k}
Settles(j, as, thread) ==
    /\ jobs' = jobs \ {j}
    /\ fate' = [c \in Contents |-> IF c \in j.what THEN as ELSE fate[c]]
    /\ posted' = [c \in Contents |-> IF c \in j.what THEN thread ELSE posted[c]]
    /\ UNCHANGED coming

\* _canonical_coords: a failed query leaves the coordinates as given.
Coords(j) ==
    /\ j.at = "coords"
    /\ \/ Becomes(j, [j EXCEPT !.at = "lookup", !.subject = IF linked THEN "issue" ELSE "pr"]) /\ UNCHANGED faults
       \/ linked /\ Becomes(j, [j EXCEPT !.at = "lookup"]) /\ Fault
    /\ UNCHANGED <<bufferVars, linked, threadVars, fateVars>>

\* _lookup_thread: a failed query looks like no thread.
Lookup(j) ==
    /\ j.at = "lookup"
    /\ LET thread == binding[j.subject]
           missing == [j EXCEPT !.at = IF j.what \subseteq Replies THEN "flat" ELSE "create"] IN
       \/ thread # NoThread /\ Becomes(j, [j EXCEPT !.at = "post", !.thread = thread]) /\ UNCHANGED faults
       \/ thread = NoThread /\ Becomes(j, missing) /\ UNCHANGED faults
       \/ thread # NoThread /\ Becomes(j, missing) /\ Fault
    /\ UNCHANGED <<bufferVars, linked, threadVars, fateVars>>

\* _create_thread_in_channel. Without a thread a stream's lines are given up, a
\* notification goes to the channel.
CreateThread(j) ==
    /\ j.at = "create"
    /\ \/ /\ created' = created + 1
          /\ Becomes(j, [j EXCEPT !.at = "save", !.thread = created'])
          /\ UNCHANGED <<fateVars, faults>>
       \/ /\ Fault /\ UNCHANGED created
          /\ IF j.subject = "stream" THEN Settles(j, "failed", NoThread)
             ELSE Becomes(j, [j EXCEPT !.at = "flat"]) /\ UNCHANGED fateVars
    /\ UNCHANGED <<bufferVars, linked, binding, unsaved>>

\* _save_thread: the binding that is there first stays.
Save(j) ==
    /\ j.at = "save"
    /\ Becomes(j, [j EXCEPT !.at = "refetch"])
    /\ \/ /\ binding' = [binding EXCEPT ![j.subject] = IF @ = NoThread THEN j.thread ELSE @]
          /\ UNCHANGED <<unsaved, faults>>
       \/ Fault /\ unsaved' = unsaved \cup {j.thread} /\ UNCHANGED binding
    /\ UNCHANGED <<bufferVars, linked, created, fateVars>>

\* A mutant: a caller posts in the thread it created, whatever the binding says.
RefetchOwn(j) ==
    /\ j.at = "refetch"
    /\ Becomes(j, [j EXCEPT !.at = "post"])
    /\ UNCHANGED <<bufferVars, linked, threadVars, fateVars, faults>>

\* The binding decides, whoever wrote it.
Refetch(j) ==
    /\ j.at = "refetch"
    /\ LET thread == binding[j.subject] IN
       \/ /\ Becomes(j, [j EXCEPT !.at = "post", !.thread = IF thread # NoThread THEN thread ELSE @])
          /\ UNCHANGED <<unsaved, faults>>
       \/ /\ thread # NoThread /\ Fault
          /\ Becomes(j, [j EXCEPT !.at = "post"]) /\ unsaved' = unsaved \cup {j.thread}
    /\ UNCHANGED <<bufferVars, linked, binding, created, fateVars>>

\* _bot_request: None after an error, which nobody looks at.
PostMessage(j) ==
    /\ j.at = "post"
    /\ \/ Settles(j, "posted", j.thread) /\ UNCHANGED faults
       \/ Settles(j, "failed", NoThread) /\ Fault
    /\ UNCHANGED <<bufferVars, linked, threadVars>>

PostFlat(j) ==
    /\ j.at = "flat"
    /\ \/ Settles(j, "posted", NoThread) /\ UNCHANGED faults
       \/ Settles(j, "failed", NoThread) /\ Fault
    /\ UNCHANGED <<bufferVars, linked, threadVars>>

\* Buffers, timers and posts are in memory.
Restart ==
    /\ Fault
    /\ buf' = NoBuffer /\ flushes' = 0 /\ batch' = {} /\ jobs' = {}
    /\ fate' = [c \in Contents |-> IF fate[c] = "held" THEN "lost" ELSE fate[c]]
    /\ UNCHANGED <<linked, threadVars, coming, posted>>

-----------------------------------------------------------------------------
Posts ==
    \E j \in jobs :
        Coords(j) \/ Lookup(j) \/ CreateThread(j) \/ Save(j) \/ Refetch(j) \/ PostMessage(j) \/ PostFlat(j)

Next ==
    \/ \E n \in Lines : Line(n)
    \/ \E c \in Checks : Check(c)
    \/ \E e \in Events \cup Replies : Notify(e)
    \/ DelayedFlush \/ SizeFlush \/ EndFlush \/ CIFlush \/ Link
    \/ Posts \/ Restart

Spec == Init /\ [][Next]_vars

\* Timers end, scheduled coroutines run, requests return.
FairSpec ==
    /\ Spec
    /\ WF_vars(DelayedFlush) /\ WF_vars(SizeFlush) /\ WF_vars(CIFlush)
    /\ WF_vars(Posts)

-----------------------------------------------------------------------------
\* Timer, full buffer and end of the task drain one buffer: what came in and has
\* not settled is in exactly one place, and what has settled is in none.
InOnePlace ==
    \A c \in Contents :
        LET pending == IF c \in Range(buf.lines) THEN 1 ELSE 0
            batched == IF c \in batch THEN 1 ELSE 0
            posting == IF \E j \in jobs : c \in j.what THEN 1 ELSE 0
        IN  /\ (pending + batched + posting) = (IF fate[c] = "held" THEN 1 ELSE 0)
            /\ \A j, k \in jobs : c \in j.what \cap k.what => j = k

\* _get_or_create_thread: "both callers converge on the same persisted thread_id".
\* What is posted in a thread is in one that a binding names, so that replies in
\* it find their way back, unless the binding was not written or not read back.
Converges ==
    \A c \in Contents :
        posted[c] # NoThread =>
            posted[c] \in unsaved \/ \E s \in Subjects : binding[s] = posted[c]

\* Everything that came in is posted, or a request for it failed.
Settled == \A c \in Contents : fate[c] = "held" ~> fate[c] # "held"
=============================================================================
