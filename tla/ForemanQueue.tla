---------------------------- MODULE ForemanQueue ----------------------------
(***************************************************************************)
(* run_foreman_ai (foreman/runner.py): at most one foreman run at a time   *)
(* for each (guild, user) key.  A turn that finds its key busy is queued   *)
(* if it is a human's or a batch of GitHub events, and dropped otherwise.  *)
(* The run that holds the key drains the queue before it lets go.  A step  *)
(* is the code between two awaits; the inside of a run is ForemanHistory.  *)
(***************************************************************************)
EXTENDS Naturals, Sequences, SequencesExt, FiniteSets

CONSTANTS
    Turns,      \* invocations of run_foreman_ai
    Keys,       \* lock keys (guild_id, user_id)
    KeyOf,
    Human,      \* the turns with is_human
    Github,     \* the turns with trigger github-event
    QueueMax,   \* _HUMAN_QUEUE_MAX
    NoTurn

ASSUME KeyOfType == KeyOf \in [Turns -> Keys]
ASSUME KindsType == Human \subseteq Turns /\ Github \subseteq Turns /\ Human \cap Github = {}
ASSUME QueueMaxType == QueueMax \in Nat \ {0}
ASSUME NoTurnType == NoTurn \notin Turns

VARIABLES
    queue,    \* _human_queues[key]
    pending,  \* the snapshot _drain_human_queue is going through
    current,  \* the turn in _run_foreman_ai, NoTurn when the key is not busy
    phase,    \* where that turn is
    direct,   \* the turn holds the key itself: it was not drained from the queue
    fate      \* what became of each turn

vars == <<queue, pending, current, phase, direct, fate>>

Fates == {"unsent", "accepted", "answered", "failed", "skipped", "evicted", "lost"}

TypeOK ==
    /\ queue \in [Keys -> Seq(Turns)]
    /\ pending \in [Keys -> Seq(Turns)]
    /\ current \in [Keys -> Turns \cup {NoTurn}]
    /\ phase \in [Keys -> {"free", "context", "rounds", "notify"}]
    /\ direct \in [Keys -> BOOLEAN]
    /\ fate \in [Turns -> Fates]
    /\ \A k \in Keys : phase[k] = "free" <=> current[k] = NoTurn

Init ==
    /\ queue = [k \in Keys |-> <<>>]
    /\ pending = [k \in Keys |-> <<>>]
    /\ current = [k \in Keys |-> NoTurn]
    /\ phase = [k \in Keys |-> "free"]
    /\ direct = [k \in Keys |-> FALSE]
    /\ fate = [t \in Turns |-> "unsent"]

-----------------------------------------------------------------------------
(* Invocations *)

\* The busy flag is tested and set with no await in between.
Claim(t) ==
    LET k == KeyOf[t] IN
    /\ fate[t] = "unsent" /\ current[k] = NoTurn
    /\ current' = [current EXCEPT ![k] = t]
    /\ phase' = [phase EXCEPT ![k] = "context"]
    /\ direct' = [direct EXCEPT ![k] = TRUE]
    /\ fate' = [fate EXCEPT ![t] = "accepted"]
    /\ UNCHANGED <<queue, pending>>

\* The key is busy with another run: an automated snapshot is dropped.
Skip(t) ==
    /\ fate[t] = "unsent" /\ current[KeyOf[t]] # NoTurn
    /\ t \notin Human \cup Github
    /\ fate' = [fate EXCEPT ![t] = "skipped"]
    /\ UNCHANGED <<queue, pending, current, phase, direct>>

\* _enqueue_human_turn, with room in the queue.
Enqueue(t) ==
    LET k == KeyOf[t] IN
    /\ fate[t] = "unsent" /\ current[k] # NoTurn
    /\ t \in Human \cup Github
    /\ Len(queue[k]) < QueueMax
    /\ queue' = [queue EXCEPT ![k] = Append(@, t)]
    /\ fate' = [fate EXCEPT ![t] = "accepted"]
    /\ UNCHANGED <<pending, current, phase, direct>>

\* The places of the queued turns that may be dropped for turn t: GitHub batches if
\* there are any, or else a human's for another human's.
Batches(q) == {i \in DOMAIN q : q[i] \in Github}
Droppable(q, t) == IF Batches(q) # {} THEN Batches(q)
                   ELSE IF t \in Github THEN {} ELSE DOMAIN q

\* Variants: the oldest turn goes, whoever sent it; the incoming batch is queued
\* on top of a queue full of humans.
EvictsHead(t) ==
    LET k == KeyOf[t] IN
    /\ fate[t] = "unsent" /\ current[k] # NoTurn
    /\ t \in Human \cup Github /\ Len(queue[k]) >= QueueMax
    /\ queue' = [queue EXCEPT ![k] = Append(Tail(@), t)]
    /\ fate' = [fate EXCEPT ![Head(queue[k])] = "evicted", ![t] = "accepted"]
    /\ UNCHANGED <<pending, current, phase, direct>>
QueuesOnTop(t) ==
    LET k == KeyOf[t] IN
    /\ fate[t] = "unsent" /\ current[k] # NoTurn
    /\ t \in Human \cup Github /\ Len(queue[k]) >= QueueMax
    /\ queue' = [queue EXCEPT ![k] = Append(@, t)]
    /\ fate' = [fate EXCEPT ![t] = "accepted"]
    /\ UNCHANGED <<pending, current, phase, direct>>

\* ... and with none: the oldest droppable turn makes room, or the incoming batch is
\* itself discarded.
EnqueueFull(t) ==
    LET k == KeyOf[t]
        q == queue[k]
    IN
    /\ fate[t] = "unsent" /\ current[k] # NoTurn
    /\ t \in Human \cup Github
    /\ Len(q) >= QueueMax
    /\ \/ /\ Droppable(q, t) = {}
          /\ fate' = [fate EXCEPT ![t] = "evicted"]
          /\ UNCHANGED queue
       \/ \E i \in Droppable(q, t) :
             /\ \A j \in Droppable(q, t) : i <= j
             /\ queue' = [queue EXCEPT ![k] = Append(RemoveAt(q, i), t)]
             /\ fate' = [fate EXCEPT ![q[i]] = "evicted", ![t] = "accepted"]
    /\ UNCHANGED <<pending, current, phase, direct>>

Invoke(t) == Claim(t) \/ Skip(t) \/ Enqueue(t) \/ EnqueueFull(t)

-----------------------------------------------------------------------------
(* The run that holds the key *)

Takes(k, t) ==
    /\ current' = [current EXCEPT ![k] = t]
    /\ phase' = [phase EXCEPT ![k] = "context"]
    /\ direct' = [direct EXCEPT ![k] = FALSE]

Frees(k) ==
    /\ current' = [current EXCEPT ![k] = NoTurn]
    /\ phase' = [phase EXCEPT ![k] = "free"]
    /\ direct' = [direct EXCEPT ![k] = FALSE]
    /\ UNCHANGED <<queue, pending>>

\* Variant: the key is let go after one pass over the queue.
DrainsOnce(k) ==
    IF pending[k] # <<>>
    THEN /\ Takes(k, Head(pending[k]))
         /\ pending' = [pending EXCEPT ![k] = Tail(@)]
         /\ UNCHANGED queue
    ELSE IF queue[k] # <<>> /\ direct[k]
    THEN /\ Takes(k, Head(queue[k]))
         /\ pending' = [pending EXCEPT ![k] = Tail(queue[k])]
         /\ queue' = [queue EXCEPT ![k] = <<>>]
    ELSE Frees(k)

\* _drain_human_queue from the end of one turn to the first await of the next:
\* the rest of the snapshot, then a new snapshot of what was queued meanwhile,
\* and when both are empty the key is freed in the same step.
NextTurn(k) ==
    \/ /\ pending[k] # <<>>
       /\ Takes(k, Head(pending[k]))
       /\ pending' = [pending EXCEPT ![k] = Tail(@)]
       /\ UNCHANGED queue
    \/ /\ pending[k] = <<>> /\ queue[k] # <<>>
       /\ Takes(k, Head(queue[k]))
       /\ pending' = [pending EXCEPT ![k] = Tail(queue[k])]
       /\ queue' = [queue EXCEPT ![k] = <<>>]
    \/ pending[k] = <<>> /\ queue[k] = <<>> /\ Frees(k)

\* _run_foreman_ai has read the workers, tasks and conversation it shows the model.
ContextLoaded(k) ==
    /\ phase[k] = "context"
    /\ phase' = [phase EXCEPT ![k] = "rounds"]
    /\ UNCHANGED <<queue, pending, current, direct, fate>>

\* One of those reads raised: run_foreman_ai drains the queue and raises again ...
ContextFails(k) ==
    /\ phase[k] = "context" /\ direct[k]
    /\ fate' = [fate EXCEPT ![current[k]] = "failed"]
    /\ NextTurn(k)

\* ... a drained turn's error is told to its author first.
DrainedFails(k) ==
    /\ phase[k] = "context" /\ ~direct[k]
    /\ phase' = [phase EXCEPT ![k] = "notify"]
    /\ UNCHANGED <<queue, pending, current, direct, fate>>

FailureTold(k) ==
    /\ phase[k] = "notify"
    /\ fate' = [fate EXCEPT ![current[k]] = "failed"]
    /\ NextTurn(k)

\* The rounds are over; an error among them was caught and sent to the chat.
RoundsEnd(k) ==
    /\ phase[k] = "rounds"
    /\ fate' = [fate EXCEPT ![current[k]] = "answered"]
    /\ NextTurn(k)

Step(k) ==
    \/ ContextLoaded(k) \/ ContextFails(k) \/ DrainedFails(k)
    \/ FailureTold(k) \/ RoundsEnd(k)

\* The backend restarts: locks and queues are in memory only.
Restart ==
    /\ queue' = [k \in Keys |-> <<>>]
    /\ pending' = [k \in Keys |-> <<>>]
    /\ current' = [k \in Keys |-> NoTurn]
    /\ phase' = [k \in Keys |-> "free"]
    /\ direct' = [k \in Keys |-> FALSE]
    /\ fate' = [t \in Turns |-> IF fate[t] = "accepted" THEN "lost" ELSE fate[t]]

Next ==
    \/ \E t \in Turns : Invoke(t)
    \/ \E k \in Keys : Step(k)
    \/ Restart

Spec == Init /\ [][Next]_vars

\* Every await of a run returns: database calls, tools, and model calls, which
\* have timeouts.
FairSpec == Spec /\ \A k \in Keys : WF_vars(Step(k))

-----------------------------------------------------------------------------
(* Properties *)

Backlog(k) == pending[k] \o queue[k]

\* Nothing waits for a key that no run holds: the drain and the release of the key
\* leave no gap for a message to fall into.
NoTurnStranded == \A k \in Keys : current[k] = NoTurn => Backlog(k) = <<>>

\* The bound of the queue bounds each half of the backlog, so the whole by twice
\* the queue's, less the turn that left the snapshot.
BacklogBounded == \A k \in Keys : Len(queue[k]) <= QueueMax /\ Len(pending[k]) < QueueMax

\* An accepted turn is answered, or its failure is told, or it is evicted: it does
\* not wait forever, however many others arrive.  (A restart may lose it.  The turns
\* are finitely many and each is invoked once, so this is the same as each of them
\* being settled, and cheaper to check.)
AcceptedIsSettled == []<>(\A t \in Turns : fate[t] # "accepted")

\* The queue and the snapshot together behave as the one backlog of TurnBacklog.
Promise == INSTANCE TurnBacklog WITH
               serving <- current, waiting <- [k \in Keys |-> Backlog(k)]
KeepsPromise == Promise!Spec
=============================================================================
