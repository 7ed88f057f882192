---------------------------- MODULE WebhookIntake ----------------------------
(***************************************************************************)
(* github_webhook of routes/webhooks.py, in front of the debounce queue.   *)
(* GitHub sends a delivery, and may send it again while the first attempt  *)
(* is still being handled; the row of github_events tells them apart.  The *)
(* deliveries are pull_request events of one pull request: requests for a  *)
(* review by the guild's owner, which go through a cool-down to the queue  *)
(* of WebhookDebounce, and events of the task that made it, which go to    *)
(* the task's own queue.  The Events of WebhookDebounce are the attempts.  *)
(* Statements of a handler that no step of another actor can tell apart    *)
(* are one step.                                                           *)
(***************************************************************************)
EXTENDS WebhookDebounce, FiniteSets

CONSTANTS
    Deliveries,
    Heads,           \* commits a review is asked for
    DeliveryOf,      \* [Events -> Deliveries]
    HeadOf,          \* [Deliveries -> Heads \cup {NoHead}]: NoHead for the task's events
    NoHead,
    Closes,          \* the deliveries that say the pull request was closed
    MaxExpiries,     \* bound: ends of a cool-down
    MaxRestarts      \* bound: ends of the backend

ASSUME IntakeConstants ==
    /\ DeliveryOf \in [Events -> Deliveries]
    /\ NoHead \notin Heads
    /\ HeadOf \in [Deliveries -> Heads \cup {NoHead}]
    /\ Closes \subseteq {d \in Deliveries : HeadOf[d] = NoHead}
    /\ MaxExpiries \in Nat /\ MaxRestarts \in Nat

VARIABLES
    step,        \* where the handler of each attempt stands
    task,        \* it found the task of the pull request
    conv,        \* it has a conversation: the task's, the pull request's or one of its own
    accepted,    \* github_events.delivery_id
    taskRow,     \* the task of the pull request: "open", "kept" (ended, still listed), "gone"
    prConv,      \* github_pull_requests.conversation_id is set
    cooldown,    \* heads whose pr_review lock is held
    told,        \* chat lines and Discord notifications of each delivery
    passed,      \* deliveries scheduled on the task's queue
    expiries, restarts

intake == <<step, task, conv, accepted, taskRow, prConv, cooldown, told, passed,
            expiries, restarts>>
allVars == <<vars, intake>>

Of(a) == DeliveryOf[a]
IsReview(d) == HeadOf[d] # NoHead
Steps == {"none", "found", "accepted", "told", "cooled", "over", "died"}
IntakeTypeOK ==
    /\ TypeOK
    /\ step \in [Events -> Steps]
    /\ task \in [Events -> BOOLEAN] /\ conv \in [Events -> BOOLEAN]
    /\ accepted \subseteq Deliveries /\ taskRow \in {"open", "kept", "gone"}
    /\ prConv \in BOOLEAN /\ cooldown \subseteq Heads
    /\ told \in [Deliveries -> Nat] /\ passed \in [Deliveries -> Nat]
    /\ expiries \in [Heads -> 0..MaxExpiries] /\ restarts \in 0..MaxRestarts

IntakeInit ==
    /\ Init
    /\ step = [a \in Events |-> "none"]
    /\ task = [a \in Events |-> FALSE] /\ conv = [a \in Events |-> FALSE]
    /\ accepted = {} /\ taskRow = "open" /\ prConv = FALSE /\ cooldown = {}
    /\ told = [d \in Deliveries |-> 0] /\ passed = [d \in Deliveries |-> 0]
    /\ expiries = [h \in Heads |-> 0] /\ restarts = 0

Goes(a, from, to) == step[a] = from /\ step' = [step EXCEPT ![a] = to]

\* Signature, payload, a first look for the delivery's row; then the task, if it is
\* still listed, and the conversation cached for the pull request.
Arrive(a) ==
    /\ Goes(a, "none", IF Of(a) \in accepted THEN "over" ELSE "found")
    /\ task' = [task EXCEPT ![a] = taskRow # "gone"]
    /\ conv' = [conv EXCEPT ![a] = taskRow # "gone" \/ prConv]
    /\ UNCHANGED <<vars, accepted, taskRow, prConv, cooldown, told, passed, expiries, restarts>>

\* A review of work that has no conversation is given a new one.
OwnConversation(a) ==
    conv' = [conv EXCEPT ![a] = @ \/ IsReview(Of(a))]

\* Variant: whether the row was new is not looked at.
AcceptAgain(a) ==
    /\ Goes(a, "found", "accepted") /\ OwnConversation(a)
    /\ accepted' = accepted \cup {Of(a)}
    /\ UNCHANGED <<vars, task, taskRow, prConv, cooldown, told, passed, expiries, restarts>>

\* INSERT ... ON CONFLICT DO NOTHING, committed: a delivery that is there ends here.
Accept(a) ==
    /\ Goes(a, "found", IF Of(a) \in accepted THEN "over" ELSE "accepted") /\ OwnConversation(a)
    /\ accepted' = accepted \cup {Of(a)}
    /\ UNCHANGED <<vars, task, taskRow, prConv, cooldown, told, passed, expiries, restarts>>

\* upsert_pr keeps the conversation that is there.
Cache(a) == prConv' = (prConv \/ conv[a])

\* finalize_task of the task that was looked up before, if it is not ended.
EndTask(a) ==
    IF Of(a) \in Closes /\ task[a] /\ taskRow = "open"
    THEN taskRow' \in {"kept", "gone"}
    ELSE UNCHANGED taskRow

\* After both: the Discord notification, the broadcast and the chat line.
Tell(a) ==
    /\ Goes(a, "accepted", "told")
    /\ Cache(a) /\ EndTask(a)
    /\ told' = [told EXCEPT ![Of(a)] = @ + 1]
    /\ UNCHANGED <<vars, task, conv, accepted, cooldown, passed, expiries, restarts>>

\* Variant: the cool-down is taken whether or not it is held.
CoolAnyway(a) ==
    /\ IsReview(Of(a)) /\ Goes(a, "told", "cooled")
    /\ cooldown' = cooldown \cup {HeadOf[Of(a)]}
    /\ UNCHANGED <<vars, task, conv, accepted, taskRow, prConv, told, passed, expiries, restarts>>

\* A review: LockService.acquire on (repo, number, head), committed.
Cool(a) ==
    /\ IsReview(Of(a))
    /\ Goes(a, "told", IF HeadOf[Of(a)] \in cooldown THEN "over" ELSE "cooled")
    /\ cooldown' = cooldown \cup {HeadOf[Of(a)]}
    /\ UNCHANGED <<vars, task, conv, accepted, taskRow, prConv, told, passed, expiries, restarts>>

ScheduleReview(a) ==
    /\ Goes(a, "cooled", "over")
    /\ Schedule(a)
    /\ UNCHANGED <<task, conv, accepted, taskRow, prConv, cooldown, told, passed, expiries, restarts>>

\* Another event wakes the foreman if the task, or a conversation, is known.
PassOn(a) ==
    /\ ~IsReview(Of(a)) /\ Goes(a, "told", "over")
    /\ passed' = IF task[a] \/ conv[a] THEN [passed EXCEPT ![Of(a)] = @ + 1] ELSE passed
    /\ UNCHANGED <<vars, task, conv, accepted, taskRow, prConv, cooldown, told, expiries, restarts>>

CooldownEnds(h) ==
    /\ h \in cooldown /\ expiries[h] < MaxExpiries
    /\ cooldown' = cooldown \ {h} /\ expiries' = [expiries EXCEPT ![h] = @ + 1]
    /\ UNCHANGED <<vars, step, task, conv, accepted, taskRow, prConv, told, passed, restarts>>

\* The task ends, or is no longer listed, on a path of TaskLifecycle.
TaskEnds ==
    /\ taskRow # "gone" /\ taskRow' \in {"kept", "gone"} \ {taskRow}
    /\ UNCHANGED <<vars, step, task, conv, accepted, prConv, cooldown, told, passed,
                   expiries, restarts>>

\* The backend stops: rows and locks stay.
Restart ==
    /\ restarts < MaxRestarts /\ restarts' = restarts + 1
    /\ Stops
    /\ step' = [a \in Events |-> IF step[a] \in {"none", "over"} THEN step[a] ELSE "died"]
    /\ UNCHANGED <<task, conv, accepted, taskRow, prConv, cooldown, told, passed, expiries>>

Handle(a) ==
    \/ Accept(a) \/ Tell(a) \/ Cool(a) \/ ScheduleReview(a) \/ PassOn(a)

IntakeNext ==
    \/ \E a \in Events : Arrive(a) \/ Handle(a)
    \/ \E e \in Events : EventLoop(e) /\ UNCHANGED intake
    \/ \E h \in Heads : CooldownEnds(h)
    \/ TaskEnds \/ Restart

\* asyncio runs every ready coroutine, and every window passes; that GitHub sends
\* anything, that a cool-down ends or the backend stops is not assumed.
IntakeSpec ==
    /\ IntakeInit /\ [][IntakeNext]_allVars
    /\ \A e \in Events : /\ WF_allVars(Handle(e))
                         /\ WF_allVars(EventLoop(e) /\ UNCHANGED intake)

-----------------------------------------------------------------------------
(* Properties *)

\* However often GitHub sends a delivery, and however the attempts interleave, it is
\* told once, and wakes the foreman at most once.
ActsOnce ==
    \A d \in Deliveries :
        /\ told[d] <= 1 /\ passed[d] <= 1
        /\ Cardinality({a \in Events : Of(a) = d /\ call[a].pc # "idle"}) <= 1

\* Between two ends of its cool-down a commit is put up for review once, whichever
\* deliveries ask for it at the same time, and over restarts.
ReviewsSpaced ==
    \A h \in Heads :
        Cardinality({a \in Events : HeadOf[Of(a)] = h /\ call[a].pc # "idle"}) <= 1 + expiries[h]

\* A review that took its cool-down reaches the foreman, unless the backend stops or
\* another schedule() of the key overlaps: the cool-down would swallow the next request.
ReviewReaches ==
    \A a \in {b \in Events : IsReview(Of(b))} :
        step[a] = "cooled" ~> \/ delivered[a] > 0 \/ overlapped
                              \/ step[a] = "died" \/ call[a].pc = "lost"
=============================================================================
