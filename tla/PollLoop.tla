------------------------------ MODULE PollLoop ------------------------------
(***************************************************************************)
(* The poll loop of a guild (_poll_loop, foreman/runner.py) beside the     *)
(* tasks of TaskLifecycle, whose closed issue it cleans up, and beside     *)
(* their conversation, which it archives and closes when nothing happens   *)
(* there.  One loop is registered for a guild; a significant event cancels *)
(* it wherever it is and starts another, other events only make sure that  *)
(* there is one, and a restart of the backend leaves none.  A step is what *)
(* is done between two reads or commits where another handler can run.     *)
(***************************************************************************)
EXTENDS TaskLifecycle

VARIABLES
    poll,    \* where the registered loop is: "none" before the first, "asleep" after
             \* a full cycle, "waiting" after a reset, its start or a failed cycle
    status,  \* Conversation.status of the conversation the tasks belong to
    idle,    \* Conversation.updated_at is before the cut-off for that status
    reply    \* the status read by a reply in progress; "none" without one

pollVars == <<vars, poll, status, idle, reply>>
conversation == <<status, idle, reply>>

Statuses == {"active", "archived", "closed"}

PollTypeOK ==
    /\ poll \in {"none", "waiting", "asleep", "lookup", "closing", "tidy", "archive", "close"}
    /\ status \in Statuses
    /\ idle \in BOOLEAN
    /\ reply \in Statuses \cup {"none"}

PollInit == Init /\ poll = "none" /\ status = "active" /\ idle = FALSE /\ reply = "none"

-----------------------------------------------------------------------------
(* A cycle of the loop *)

\* A soft-deleted task is live for four hours yet (live_tasks_filter): within
\* that grace or after it, of which the row says nothing here.
OpenTask(t, grace) == state[t] \in Open /\ (~deleted[t] \/ grace)
KeptAlive(t) == state[t] \in Terminal /\ ~deleted[t]

Sleeping == {"waiting", "asleep"}

\* Variant: the issues of finished tasks are not looked up.
PollReadsOpenOnly ==
    /\ poll \in Sleeping
    /\ \E grace \in BOOLEAN :
          poll' = IF \E t \in Linked : OpenTask(t, grace) THEN "lookup" ELSE "tidy"
    /\ UNCHANGED <<vars, conversation>>

\* The interval is over: _poll_loop_once reads the issues of the open tasks and
\* of the finished ones that are still listed.
PollReads ==
    /\ poll \in Sleeping
    /\ \E grace \in BOOLEAN :
          poll' = IF \E t \in Linked : OpenTask(t, grace) \/ KeptAlive(t)
                  THEN "lookup" ELSE "tidy"
    /\ UNCHANGED <<vars, conversation>>

\* _sweep_closed_issues: GitHub says the issue is closed, and finalize_closed_issue
\* starts ...
PollCloses ==
    /\ poll = "lookup" /\ PollFindsClosed
    /\ poll' = "closing"
    /\ UNCHANGED conversation

\* ... or says it is open ...
PollSeesOpen ==
    /\ poll = "lookup" /\ github = "open"
    /\ poll' = "tidy"
    /\ UNCHANGED <<vars, conversation>>

\* ... or does not answer: the next sweep of the cycle goes on all the same.
LookupFails ==
    /\ poll = "lookup" /\ github = "closed"
    /\ poll' = "tidy"
    /\ UNCHANGED <<vars, conversation>>

\* The conversation has a task that is not finished.
HasOpenTask(grace) == \E t \in Tasks : OpenTask(t, grace)

\* _sweep_conversations_once: the SELECTs ...
PollTidies ==
    /\ poll = "tidy"
    /\ \E grace \in BOOLEAN :
          poll' = CASE status = "active" /\ idle /\ ~HasOpenTask(grace) -> "archive"
                    [] status = "archived" /\ idle -> "close"
                    [] OTHER -> "asleep"
    /\ UNCHANGED <<vars, conversation>>

\* ... and set_conversation_status, which writes whatever happened since.
PollArchives ==
    /\ poll \in {"archive", "close"}
    /\ status' = IF poll = "archive" THEN "archived" ELSE "closed"
    /\ idle' = FALSE
    /\ poll' = "asleep"
    /\ UNCHANGED <<vars, reply>>

\* An error ends the cycle, and with it the clean-up it may be in.
Interrupted == IF poll = "closing" THEN CloserDies ELSE UNCHANGED vars

PollFails ==
    /\ poll \notin Sleeping \cup {"none"}
    /\ Interrupted
    /\ poll' = "waiting"
    /\ UNCHANGED conversation

Cycle == PollReads \/ PollCloses \/ PollSeesOpen \/ PollTidies \/ PollArchives

-----------------------------------------------------------------------------
(* Those who start the loop *)

\* reset_foreman_poll, when no run is in flight and the foreman was active
\* recently.  (In flight it does nothing; otherwise, or when there is no loop to
\* cancel, it does what Ensure does.)
Reset ==
    /\ poll # "none"
    /\ Interrupted
    /\ poll' = "waiting"
    /\ UNCHANGED conversation

\* ensure_poll_loop, when a worker joins, an agent changes state or a webhook's
\* batch is delivered.
Ensure ==
    /\ poll = "none"
    /\ poll' = "waiting"
    /\ UNCHANGED <<vars, conversation>>

-----------------------------------------------------------------------------
(* The conversation *)

\* A day passes (14 when it is archived) and nothing is written to it.
Idles ==
    /\ ~idle /\ status # "closed"
    /\ idle' = TRUE
    /\ UNCHANGED <<vars, poll, status, reply>>

\* post_conversation_message: the row is read, the message committed ...
ReplyReads ==
    /\ reply = "none"
    /\ reply' = status
    /\ UNCHANGED <<vars, poll, status, idle>>

\* ... and then the row read decides between reactivate and touch_conversation.
ReplyWrites ==
    /\ reply # "none"
    /\ status' = IF reply = "active" THEN status ELSE "active"
    /\ idle' = FALSE
    /\ reply' = "none"
    /\ UNCHANGED <<vars, poll>>

\* close_conversation.
Closes ==
    /\ status # "closed"
    /\ status' = "closed"
    /\ idle' = FALSE
    /\ UNCHANGED <<vars, poll, reply>>

\* create_task outside of a conversation's run takes the user's latest one
\* (get_or_create_active_conversation); inside, the run's.
Creates(t, linked) ==
    /\ CreateTask(t, linked)
    /\ \/ UNCHANGED <<status, idle>>
       \/ status' = "active" /\ idle' = FALSE
    /\ UNCHANGED <<poll, reply>>

-----------------------------------------------------------------------------
\* finalize_closed_issue commits; the poll loop that was in it goes on.
ClosingEnds ==
    /\ CloserStamp
    /\ poll' = IF poll = "closing" THEN "tidy" ELSE poll
    /\ UNCHANGED conversation

\* A webhook's clean-up fails: GitHub is answered 500.
WebhookFails ==
    /\ poll # "closing" /\ CloserDies
    /\ UNCHANGED <<poll, conversation>>

PollRestart ==
    /\ Restart
    /\ poll' = "none" /\ reply' = "none"
    /\ UNCHANGED <<status, idle>>

Closing == CloserRoots \/ (\E t \in Tasks : CloserRoot(t)) \/ CloserSelect

\* The steps of TaskLifecycle that have nothing to do with the loop.
Rows ==
    \/ \E t \in Tasks, w \in Workers : AssignTask(t, w)
    \/ \E t \in Tasks : Finalize(t)
    \/ \E r \in Requests : Calls(r)
    \/ IssueCloses \/ IssueClosesUnseen
    \/ \E edited \in BOOLEAN : IssueTouched(edited)
    \/ Closing
    \/ \E w \in Workers : Frames(w)
    \/ Sweeper
    \/ \E t \in Tasks : LockAges(t)

PollNext ==
    \/ Cycle \/ LookupFails \/ PollFails \/ Reset \/ Ensure
    \/ Idles \/ ReplyReads \/ ReplyWrites \/ Closes
    \/ \E t \in Tasks, linked \in BOOLEAN : Creates(t, linked)
    \/ ClosingEnds \/ WebhookFails \/ PollRestart
    \/ Rows /\ UNCHANGED <<poll, conversation>>

PollSpec == PollInit /\ [][PollNext]_pollVars

-----------------------------------------------------------------------------
(* Properties *)

\* From some time on no restart, no reset and no failure stops a cycle half-way.
Undisturbed == <>[][~(PollRestart \/ Reset \/ PollFails \/ LookupFails \/ WebhookFails)]_pollVars

\* A task that finished while its issue was open is not listed forever once the
\* issue is closed, though the webhook was missed or failed: the poll loop finds it.
MissedCloseIsSwept ==
    Undisturbed =>
        \A t \in Tasks : <>[](github = "closed" /\ state[t] = "done") => <>[]deleted[t]

\* Time passes; the loop's sleep ends and its calls return; workers reconnect, and
\* their joins make sure of a loop.  (Strong, because here a webhook's clean-up holds
\* up the loop's: there is one closer.  In the code both go on.)
PollFairSpec ==
    /\ PollSpec
    /\ SF_pollVars(Cycle \/ Ensure)
    /\ WF_pollVars(ClosingEnds \/ (Closing /\ UNCHANGED <<poll, conversation>>))
=============================================================================
