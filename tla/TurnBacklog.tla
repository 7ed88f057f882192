---------------------------- MODULE TurnBacklog ----------------------------
(***************************************************************************)
(* What the foreman's queue promises the people of a guild: for each key   *)
(* the turns are served one at a time and in the order they arrived, none  *)
(* waits while nothing is being served, and a waiting turn is given up     *)
(* only to make room for another, a human's only for another human's.      *)
(***************************************************************************)
EXTENDS Naturals, Sequences, SequencesExt

CONSTANTS Turns, Keys, KeyOf, Human, QueueMax, NoTurn

VARIABLES
    serving,  \* the turn each key is serving, or NoTurn
    waiting   \* the turns waiting for it, oldest first

vars == <<serving, waiting>>

Init ==
    /\ serving = [k \in Keys |-> NoTurn]
    /\ waiting = [k \in Keys |-> <<>>]

Serve(t) ==
    LET k == KeyOf[t] IN
    /\ serving[k] = NoTurn /\ waiting[k] = <<>>
    /\ serving' = [serving EXCEPT ![k] = t]
    /\ UNCHANGED waiting

Wait(t) ==
    LET k == KeyOf[t] IN
    /\ serving[k] # NoTurn
    /\ waiting' = [waiting EXCEPT ![k] = Append(@, t)]
    /\ UNCHANGED serving

\* t takes the place of the i-th waiting turn, at the end.
Displace(t, i) ==
    LET k == KeyOf[t] IN
    /\ serving[k] # NoTurn
    /\ i \in DOMAIN waiting[k] /\ Len(waiting[k]) >= QueueMax
    /\ waiting[k][i] \in Human => t \in Human
    /\ waiting' = [waiting EXCEPT ![k] = Append(RemoveAt(@, i), t)]
    /\ UNCHANGED serving

Finish(k) ==
    /\ serving[k] # NoTurn
    /\ serving' = [serving EXCEPT ![k] = IF waiting[k] = <<>> THEN NoTurn ELSE Head(waiting[k])]
    /\ waiting' = [waiting EXCEPT ![k] = IF @ = <<>> THEN @ ELSE Tail(@)]

\* The process stops: nothing of it is kept.
Forget == Init'

Next ==
    \/ \E t \in Turns : Serve(t) \/ Wait(t) \/ \E i \in 1..2*QueueMax : Displace(t, i)
    \/ \E k \in Keys : Finish(k)
    \/ Forget

Spec == Init /\ [][Next]_vars
=============================================================================
