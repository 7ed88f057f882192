-------------------------- MODULE WebhookDebounce --------------------------
(***************************************************************************)
(* DebounceQueue of routes/webhooks.py, for one key: webhook handlers call *)
(* schedule() to buffer an event and restart the timer; a timer that sleeps *)
(* for the whole window hands the buffer to the foreman.  The code between *)
(* two awaits of a coroutine is one step.  A timer has the name of the     *)
(* event whose schedule() created it.                                      *)
(***************************************************************************)
EXTENDS Naturals

CONSTANTS Events,   \* deliveries for the key; each is scheduled once
          NoTimer

ASSUME NoTimerType == NoTimer \notin Events

VARIABLES
    buffer,      \* _buffers[key], {} when absent
    registered,  \* _tasks[key]
    generation,  \* _generation[key], 0 when absent
    call,        \* the schedule() call of each event
    timer,       \* the _fire() task created for each event
    delivered,   \* how often each event was handed to run_foreman_ai
    overlapped   \* history: some schedule() ran while another was awaiting

vars == <<buffer, registered, generation, call, timer, delivered, overlapped>>

Call(pc, snapshot, gen, awaits) ==
    [pc |-> pc, snapshot |-> snapshot, gen |-> gen, awaits |-> awaits]
Timer(s, gen) == [state |-> s, gen |-> gen]
Live(t) == timer[t].state \in {"sleeping", "cancelling"}
Waiting == {e \in Events : call[e].pc = "waiting"}

TypeOK ==
    /\ buffer \subseteq Events
    /\ registered \in Events \cup {NoTimer}
    /\ generation \in Nat
    /\ call \in [Events -> [pc : {"idle", "waiting", "returned", "lost"}, snapshot : SUBSET Events,
                            gen : Nat, awaits : Events \cup {NoTimer}]]
    /\ timer \in [Events -> [state : {"none", "sleeping", "cancelling", "done"}, gen : Nat]]
    /\ delivered \in [Events -> Nat]
    /\ overlapped \in BOOLEAN

Init ==
    /\ buffer = {} /\ registered = NoTimer /\ generation = 0
    /\ call = [e \in Events |-> Call("idle", {}, 0, NoTimer)]
    /\ timer = [e \in Events |-> Timer("none", 0)]
    /\ delivered = [e \in Events |-> 0]
    /\ overlapped = FALSE

\* schedule() from its await (or with none) to its end: the buffer is replaced by
\* the snapshot and the event, and a new timer is registered.
Rearm(e, snapshot, gen, timers) ==
    /\ buffer' = snapshot \cup {e}
    /\ timer' = [timers EXCEPT ![e] = Timer("sleeping", gen)]
    /\ registered' = e
    /\ call' = [call EXCEPT ![e] = Call("returned", {}, gen, NoTimer)]

\* schedule() finds no timer that is still running: it does not wait.
ScheduleAtOnce(e) ==
    /\ call[e].pc = "idle"
    /\ registered # NoTimer => ~Live(registered)
    /\ generation' = generation + 1
    /\ Rearm(e, buffer, generation + 1, timer)
    /\ overlapped' = (overlapped \/ Waiting # {})
    /\ UNCHANGED delivered

\* Variant: the snapshot is taken after the wait, from a buffer a timer may have
\* emptied, and the generation is not bumped.
ScheduleNoBump(e) ==
    /\ call[e].pc = "idle" /\ registered # NoTimer /\ Live(registered)
    /\ call' = [call EXCEPT ![e] = Call("waiting", {}, generation, registered)]
    /\ timer' = [timer EXCEPT ![registered] = Timer("cancelling", @.gen)]
    /\ registered' = NoTimer
    /\ overlapped' = (overlapped \/ Waiting # {})
    /\ UNCHANGED <<buffer, generation, delivered>>

\* schedule() up to its await: the registered timer is unregistered and cancelled.
ScheduleCancels(e) ==
    /\ call[e].pc = "idle" /\ registered # NoTimer /\ Live(registered)
    /\ generation' = generation + 1
    /\ call' = [call EXCEPT ![e] = Call("waiting", buffer, generation + 1, registered)]
    /\ timer' = [timer EXCEPT ![registered] = Timer("cancelling", @.gen)]
    /\ registered' = NoTimer
    /\ overlapped' = (overlapped \/ Waiting # {})
    /\ UNCHANGED <<buffer, delivered>>

\* CancelledError ends the sleep of a cancelled timer.
TimerCancelled(t) ==
    /\ timer[t].state = "cancelling"
    /\ timer' = [timer EXCEPT ![t] = Timer("done", @.gen)]
    /\ UNCHANGED <<buffer, registered, generation, call, delivered, overlapped>>

\* The awaited timer has ended: schedule() goes on with the snapshot it took.
ScheduleResumes(e) ==
    /\ call[e].pc = "waiting" /\ ~Live(call[e].awaits)
    /\ Rearm(e, call[e].snapshot, call[e].gen, timer)
    /\ UNCHANGED <<generation, delivered, overlapped>>

\* Variant: the buffer is not cleared when it is delivered.
FireKeepsBuffer(t) ==
    /\ timer[t].state = "sleeping" /\ timer[t].gen = generation
    /\ timer' = [timer EXCEPT ![t] = Timer("done", @.gen)]
    /\ registered' = NoTimer /\ generation' = 0
    /\ delivered' = [e \in Events |-> IF e \in buffer THEN delivered[e] + 1 ELSE delivered[e]]
    /\ UNCHANGED <<buffer, call, overlapped>>

\* The window passed: a timer of a stale generation ends, another pops the key's
\* entries and delivers the buffer.
Fire(t) ==
    /\ timer[t].state = "sleeping"
    /\ timer' = [timer EXCEPT ![t] = Timer("done", @.gen)]
    /\ IF timer[t].gen = generation
       THEN /\ buffer' = {} /\ registered' = NoTimer /\ generation' = 0
            /\ delivered' = [e \in Events |-> IF e \in buffer THEN delivered[e] + 1
                                                              ELSE delivered[e]]
       ELSE UNCHANGED <<buffer, registered, generation, delivered>>
    /\ UNCHANGED <<call, overlapped>>

\* shutdown(), or the end of the process: what is buffered or being scheduled is
\* lost with the memory it is in.
Stops ==
    /\ buffer' = {} /\ registered' = NoTimer /\ generation' = 0
    /\ timer' = [t \in Events |-> IF Live(t) THEN Timer("done", timer[t].gen) ELSE timer[t]]
    /\ call' = [e \in Events |->
                   IF call[e].pc # "idle" /\ delivered[e] = 0 THEN Call("lost", {}, 0, NoTimer)
                   ELSE call[e]]
    /\ UNCHANGED <<delivered, overlapped>>

Schedule(e) == ScheduleAtOnce(e) \/ ScheduleCancels(e)
EventLoop(e) == ScheduleResumes(e) \/ TimerCancelled(e) \/ Fire(e)

Next == (\E e \in Events : Schedule(e) \/ EventLoop(e)) \/ Stops

Spec == Init /\ [][Next]_vars

-----------------------------------------------------------------------------
(* Properties *)

\* While the calls for a key do not overlap, a timer and the schedule() that
\* replaces it cannot both deliver an event, and neither drops one.
DeliveredExactlyOnce ==
    ~overlapped =>
        \A e \in Events :
            /\ delivered[e] <= 1
            /\ call[e].pc = "returned" => (delivered[e] = 0 <=> e \in buffer \/ \E f \in Waiting : e \in call[f].snapshot)

\* A buffered event always has a timer that will deliver it, of the current
\* generation, or a call about to start one.
BufferHasTimer ==
    ~overlapped /\ buffer # {} =>
        \/ Waiting # {}
        \/ registered # NoTimer /\ timer[registered] = Timer("sleeping", generation)

=============================================================================
