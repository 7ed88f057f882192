------------------------ MODULE WebhookIntake_proofs ------------------------
(***************************************************************************)
(* What holds of the webhook handlers and of the debounce queue for any    *)
(* number of deliveries, attempts, commits, expiries and restarts, and of  *)
(* a repository's webhook and its secret for any number of workers.        *)
(***************************************************************************)
EXTENDS WebhookIntake, HookSetup, FiniteSetTheorems, TLAPS

-----------------------------------------------------------------------------
(* The queue *)

LEMMA QueueInit == Init => TypeOK
<1> SUFFICES ASSUME Init PROVE TypeOK
  OBVIOUS
<1>1. call \in [Events -> [pc : {"idle", "waiting", "returned", "lost"}, snapshot : SUBSET Events,
                           gen : Nat, awaits : Events \cup {NoTimer}]]
  BY DEF Init, Call
<1>2. timer \in [Events -> [state : {"none", "sleeping", "cancelling", "done"}, gen : Nat]]
  BY DEF Init, Timer
<1> QED
  BY <1>1, <1>2 DEF Init, TypeOK

LEMMA QueueType ==
    ASSUME TypeOK, [Next]_vars
    PROVE  TypeOK'
<1> USE DEF TypeOK, Call, Timer
<1>1. ASSUME NEW e \in Events, ScheduleAtOnce(e) PROVE TypeOK'
  BY <1>1 DEF ScheduleAtOnce, Rearm
<1>2. ASSUME NEW e \in Events, ScheduleCancels(e) PROVE TypeOK'
  BY <1>2 DEF ScheduleCancels
<1>3. ASSUME NEW e \in Events, ScheduleResumes(e) PROVE TypeOK'
  BY <1>3 DEF ScheduleResumes, Rearm
<1>4. ASSUME NEW e \in Events, TimerCancelled(e) PROVE TypeOK'
  BY <1>4 DEF TimerCancelled
<1>5. ASSUME NEW e \in Events, Fire(e) PROVE TypeOK'
  BY <1>5 DEF Fire
<1>6. CASE Stops
  BY <1>6 DEF Stops, Live
<1>7. CASE UNCHANGED vars
  BY <1>7 DEF vars
<1> QED
  BY <1>1, <1>2, <1>3, <1>4, <1>5, <1>6, <1>7 DEF Next, Schedule, EventLoop

\* While calls do not overlap there is one timer asleep at most, the registered one;
\* a call that waits for its predecessor's end holds a snapshot of the buffer, and
\* nothing can touch either.
Owed(e) == call[e].pc = "returned" /\ delivered[e] = 0

Quiet ==
    /\ registered # NoTimer => timer[registered] = Timer("sleeping", generation)
    /\ \A t \in Events : timer[t].state = "sleeping" => t = registered
    /\ \A e \in Waiting : /\ registered = NoTimer
                          /\ call[e].snapshot = buffer /\ call[e].gen = generation
                          /\ \A f \in Waiting : f = e
    /\ \A e \in Events : /\ e \in buffer <=> Owed(e)
                         /\ delivered[e] <= 1
                         /\ call[e].pc # "returned" => delivered[e] = 0
    /\ buffer # {} => registered # NoTimer \/ Waiting # {}

QueueInv == TypeOK /\ (overlapped \/ Quiet)

LEMMA QueueStep ==
    ASSUME QueueInv, [Next]_vars
    PROVE  QueueInv'
<1> USE NoTimerType DEF QueueInv, TypeOK, Quiet, Owed, Waiting, Call, Timer
<1>0. TypeOK'
  BY QueueType
<1> SUFFICES ASSUME ~overlapped' PROVE Quiet'
  BY <1>0
<1>1. ASSUME NEW e \in Events, ScheduleAtOnce(e) PROVE Quiet'
  <2>0. ~overlapped /\ Waiting = {}
    BY <1>1 DEF ScheduleAtOnce
  <2>1. registered = NoTimer /\ Waiting = {} /\ ~overlapped /\ Quiet
    <3>1. Quiet
      BY <2>0
    <3>2. registered # NoTimer => ~Live(registered)
      BY <1>1 DEF ScheduleAtOnce
    <3>3. registered = NoTimer
      BY <3>1, <3>2 DEF Live
    <3> QED
      BY <2>0, <3>1, <3>3
  <2>2. /\ registered' = e /\ buffer' = buffer \cup {e} /\ delivered' = delivered
        /\ timer' = [timer EXCEPT ![e] = Timer("sleeping", generation')]
        /\ call' = [call EXCEPT ![e] = Call("returned", {}, generation', NoTimer)]
        /\ call[e].pc = "idle"
    BY <1>1 DEF ScheduleAtOnce, Rearm
  <2>3. timer'[e] = Timer("sleeping", generation')
        /\ \A t \in Events \ {e} : timer'[t] = timer[t] /\ timer[t].state # "sleeping"
    BY <2>1, <2>2
  <2>4. call'[e].pc = "returned" /\ \A f \in Events \ {e} : call'[f] = call[f]
    BY <2>2
  <2>5. Waiting' = {}
    BY <2>1, <2>4
  <2>6. \A f \in Events : /\ f \in buffer' <=> Owed(f)'
                          /\ delivered'[f] <= 1
                          /\ call'[f].pc # "returned" => delivered'[f] = 0
    BY <2>1, <2>2, <2>4
  <2>7. registered' # NoTimer /\ timer'[registered'] = Timer("sleeping", generation')
    BY <2>2, <2>3
  <2>8. \A t \in Events : timer'[t].state = "sleeping" => t = registered'
    BY <2>2, <2>3
  <2>9. \A f \in Waiting' : /\ registered' = NoTimer
                           /\ call'[f].snapshot = buffer' /\ call'[f].gen = generation'
                           /\ \A g \in Waiting' : g = f
    BY <2>5
  <2> HIDE DEF QueueInv, TypeOK, Call, Timer, Waiting, Owed
  <2> QED
    BY <2>6, <2>7, <2>8, <2>9 DEF Quiet
<1>2. ASSUME NEW e \in Events, ScheduleCancels(e) PROVE Quiet'
  <2>1. registered \in Events /\ Waiting = {} /\ ~overlapped /\ Quiet
    BY <1>2 DEF ScheduleCancels
  <2>2. /\ registered' = NoTimer /\ buffer' = buffer /\ delivered' = delivered
        /\ timer' = [timer EXCEPT ![registered] = Timer("cancelling", @.gen)]
        /\ call' = [call EXCEPT ![e] = Call("waiting", buffer, generation', registered)]
        /\ call[e].pc = "idle"
    BY <1>2 DEF ScheduleCancels
  <2> QED
    BY <2>1, <2>2
<1>3. ASSUME NEW e \in Events, ScheduleResumes(e) PROVE Quiet'
  <2>1. e \in Waiting /\ ~overlapped /\ Quiet
    BY <1>3 DEF ScheduleResumes
  <2>2. /\ registered' = e /\ buffer' = buffer \cup {e} /\ delivered' = delivered
        /\ generation' = generation
        /\ timer' = [timer EXCEPT ![e] = Timer("sleeping", generation)]
        /\ call' = [call EXCEPT ![e] = Call("returned", {}, generation, NoTimer)]
    BY <1>3, <2>1 DEF ScheduleResumes, Rearm
  <2> QED
    BY <2>1, <2>2
<1>4. ASSUME NEW e \in Events, TimerCancelled(e) PROVE Quiet'
  BY <1>4 DEF TimerCancelled
<1>5. ASSUME NEW e \in Events, Fire(e) PROVE Quiet'
  <2>1. e = registered /\ timer[e].gen = generation /\ Waiting = {} /\ Quiet
    BY <1>5 DEF Fire
  <2> QED
    BY <1>5, <2>1 DEF Fire
<1>6. CASE Stops
  BY <1>6 DEF Stops, Live
<1>7. CASE UNCHANGED vars
  BY <1>7 DEF vars
<1> QED
  BY <1>1, <1>2, <1>3, <1>4, <1>5, <1>6, <1>7 DEF Next, Schedule, EventLoop

LEMMA QueueHolds == Spec => []QueueInv
<1>1. Init => QueueInv
  BY QueueInit, NoTimerType DEF Init, QueueInv, Quiet, Owed, Waiting, Call, Timer
<1>2. QueueInv /\ [Next]_vars => QueueInv'
  BY QueueStep
<1> QED
  BY <1>1, <1>2, PTL DEF Spec

LEMMA QuietDelivers == QueueInv => DeliveredExactlyOnce /\ BufferHasTimer
BY DEF QueueInv, TypeOK, Quiet, Owed, Waiting, DeliveredExactlyOnce, BufferHasTimer

-----------------------------------------------------------------------------
(* The handlers in front of the queue *)

LEMMA IntakeUsesQueueStep == [IntakeNext]_allVars => [Next]_vars
<1> SUFFICES ASSUME IntakeNext PROVE [Next]_vars
  BY DEF allVars
<1>1. ASSUME NEW a \in Events, Arrive(a) \/ Accept(a) \/ Tell(a) \/ Cool(a) \/ PassOn(a)
      PROVE  UNCHANGED vars
  BY <1>1 DEF Arrive, Accept, Tell, Cool, PassOn
<1>2. ASSUME NEW a \in Events, ScheduleReview(a) PROVE Next
  BY <1>2 DEF ScheduleReview, Next
<1>3. ASSUME NEW e \in Events, EventLoop(e) PROVE Next
  BY <1>3 DEF Next
<1>4. ASSUME NEW h \in Heads, CooldownEnds(h) PROVE UNCHANGED vars
  BY <1>4 DEF CooldownEnds
<1>5. CASE TaskEnds
  BY <1>5 DEF TaskEnds
<1>6. CASE Restart
  BY <1>6 DEF Restart, Next
<1> QED
  BY <1>1, <1>2, <1>3, <1>4, <1>5, <1>6 DEF IntakeNext, Handle

\* Every step of the handlers is a step of the queue or leaves the queue alone, so
\* the queue behind them is the one of WebhookDebounce, restarts included.
THEOREM IntakeUsesQueue == IntakeSpec => Spec
<1>1. IntakeInit => Init
  BY DEF IntakeInit
<1>2. [IntakeNext]_allVars => [Next]_vars
  BY IntakeUsesQueueStep
<1> QED
  BY <1>1, <1>2, PTL DEF IntakeSpec, Spec

\* However GitHub repeats its deliveries and the backend restarts, an event that
\* reached the queue is handed to the foreman once or still waits there, as long as
\* no two calls overlap.
THEOREM IntakeDelivers == IntakeSpec => []DeliveredExactlyOnce
<1>1. QueueInv => DeliveredExactlyOnce
  BY QuietDelivers
<1> QED
  BY <1>1, IntakeUsesQueue, QueueHolds, PTL

-----------------------------------------------------------------------------
(* One attempt of a delivery acts *)

Called == {a \in Events : call[a].pc # "idle"}

LEMMA CallsGrow ==
    /\ \A a \in Events : Schedule(a) /\ TypeOK => a \notin Called /\ Called' = Called \cup {a}
    /\ \A e \in Events : EventLoop(e) /\ TypeOK => Called' = Called
    /\ Stops /\ TypeOK => Called' = Called
    /\ UNCHANGED vars => Called' = Called
<1> USE DEF Called, Call, TypeOK
<1>1. ASSUME NEW a \in Events, Schedule(a), TypeOK
      PROVE  a \notin Called /\ Called' = Called \cup {a}
  BY <1>1 DEF Schedule, ScheduleAtOnce, ScheduleCancels, Rearm
<1>2. ASSUME NEW e \in Events, EventLoop(e), TypeOK PROVE Called' = Called
  <2>1. ASSUME ScheduleResumes(e) PROVE Called' = Called
    BY <1>2, <2>1 DEF ScheduleResumes, Rearm
  <2>2. ASSUME TimerCancelled(e) \/ Fire(e) PROVE Called' = Called
    BY <2>2 DEF TimerCancelled, Fire
  <2> QED
    BY <1>2, <2>1, <2>2 DEF EventLoop
<1>3. ASSUME Stops, TypeOK PROVE Called' = Called
  BY <1>3 DEF Stops
<1>4. UNCHANGED vars => Called' = Called
  BY DEF vars
<1> QED
  BY <1>1, <1>2, <1>3, <1>4

\* The attempt that inserted the row has not finished.
Acting(a) == step[a] \in {"accepted", "told", "cooled"}

OneActs ==
    /\ \A a \in Events :
        /\ a \in Called => step[a] = "over" /\ Of(a) \in accepted
        /\ Of(a) \notin accepted => step[a] \in {"none", "found", "died"}
        /\ Acting(a) => /\ passed[Of(a)] = 0
                        /\ \A b \in Called : Of(b) # Of(a)
                        /\ \A b \in Events : Acting(b) /\ Of(b) = Of(a) => b = a
        /\ step[a] = "accepted" => told[Of(a)] = 0
    /\ \A a, b \in Called : Of(a) = Of(b) => a = b
    /\ \A d \in Deliveries : /\ told[d] <= 1 /\ passed[d] <= 1
                             /\ d \notin accepted => told[d] = 0 /\ passed[d] = 0

IntakeInv == IntakeTypeOK /\ OneActs

LEMMA IntakeType ==
    ASSUME IntakeTypeOK, [IntakeNext]_allVars
    PROVE  IntakeTypeOK'
<1> USE IntakeConstants DEF IntakeTypeOK, Steps, Of, IsReview
<1>1. UNCHANGED vars => TypeOK'
  BY DEF TypeOK, vars
<1>2. TypeOK'
  BY IntakeUsesQueueStep, QueueType
<1>3. ASSUME NEW a \in Events, Arrive(a) PROVE IntakeTypeOK'
  BY <1>2, <1>3 DEF Arrive, Goes
<1>4. ASSUME NEW a \in Events, Accept(a) PROVE IntakeTypeOK'
  BY <1>2, <1>4 DEF Accept, Goes, OwnConversation
<1>5. ASSUME NEW a \in Events, Tell(a) PROVE IntakeTypeOK'
  BY <1>2, <1>5 DEF Tell, Goes, Cache, EndTask
<1>6. ASSUME NEW a \in Events, Cool(a) PROVE IntakeTypeOK'
  BY <1>2, <1>6 DEF Cool, Goes
<1>7. ASSUME NEW a \in Events, ScheduleReview(a) PROVE IntakeTypeOK'
  BY <1>2, <1>7 DEF ScheduleReview, Goes
<1>8. ASSUME NEW a \in Events, PassOn(a) PROVE IntakeTypeOK'
  BY <1>2, <1>8 DEF PassOn, Goes
<1>9. ASSUME NEW e \in Events, EventLoop(e) /\ UNCHANGED intake PROVE IntakeTypeOK'
  BY <1>2, <1>9 DEF intake
<1>10. ASSUME NEW h \in Heads, CooldownEnds(h) PROVE IntakeTypeOK'
  BY <1>2, <1>10 DEF CooldownEnds
<1>11. CASE TaskEnds
  BY <1>2, <1>11 DEF TaskEnds
<1>12. CASE Restart
  BY <1>2, <1>12 DEF Restart
<1>13. CASE UNCHANGED allVars
  BY <1>2, <1>13 DEF allVars, intake
<1> QED
  BY <1>3, <1>4, <1>5, <1>6, <1>7, <1>8, <1>9, <1>10, <1>11, <1>12, <1>13
     DEF IntakeNext, Handle

LEMMA OneActsStep ==
    ASSUME IntakeInv, [IntakeNext]_allVars
    PROVE  IntakeInv'
<1>0. IntakeTypeOK /\ IntakeTypeOK' /\ TypeOK /\ TypeOK'
  BY IntakeType DEF IntakeInv, IntakeTypeOK
<1> SUFFICES OneActs'
  BY <1>0 DEF IntakeInv
<1> USE <1>0, IntakeConstants DEF IntakeInv, IntakeTypeOK, OneActs, Acting, Of, Steps
<1> HIDE DEF TypeOK
<1> USE DEF Called
<1>1. ASSUME UNCHANGED vars PROVE Called' = Called
  BY <1>1, CallsGrow
<1> HIDE DEF Called
<1>3. ASSUME NEW a \in Events, Arrive(a) PROVE OneActs'
  BY <1>1, <1>3 DEF Arrive, Goes
<1>4. ASSUME NEW a \in Events, Accept(a) PROVE OneActs'
  <2>1. Called' = Called /\ UNCHANGED <<told, passed>> /\ accepted' = accepted \cup {Of(a)}
        /\ step[a] = "found"
    BY <1>1, <1>4 DEF Accept, Goes
  <2>2. CASE Of(a) \in accepted
    <3>1. step' = [step EXCEPT ![a] = "over"]
      BY <1>4, <2>2 DEF Accept, Goes
    <3> QED
      BY <2>1, <2>2, <3>1
  <2>3. CASE Of(a) \notin accepted
    <3>1. step' = [step EXCEPT ![a] = "accepted"]
      BY <1>4, <2>3 DEF Accept, Goes
    <3>2. /\ told[Of(a)] = 0 /\ passed[Of(a)] = 0 /\ a \notin Called
          /\ \A b \in Events : Of(b) = Of(a) => ~Acting(b) /\ b \notin Called
      BY <2>3
    <3>3. \A b \in Events : /\ b # a => step'[b] = step[b]
                            /\ Acting(b)' /\ Of(b) = Of(a) => b = a
      BY <2>3, <3>1, <3>2
    <3>4. ASSUME NEW b \in Events
          PROVE  /\ b \in Called' => step'[b] = "over" /\ Of(b) \in accepted'
                 /\ Of(b) \notin accepted' => step'[b] \in {"none", "found", "died"}
                 /\ step'[b] = "accepted" => told'[Of(b)] = 0
      BY <2>1, <3>1, <3>2
    <3>5. ASSUME NEW b \in Events, Acting(b)'
          PROVE  /\ passed'[Of(b)] = 0
                 /\ \A c \in Called' : Of(c) # Of(b)
                 /\ \A c \in Events : Acting(c)' /\ Of(c) = Of(b) => c = b
      <4>1. CASE b = a
        <5>1. passed'[Of(a)] = 0 /\ \A c \in Called' : Of(c) # Of(a)
          BY <2>1, <3>2 DEF Called
        <5> QED
          BY <3>3, <4>1, <5>1
      <4>2. CASE b # a
        <5>1. Acting(b) /\ Of(b) # Of(a)
          BY <3>2, <3>3, <3>5, <4>2
        <5> QED
          BY <2>1, <3>3, <5>1
      <4> QED
        BY <4>1, <4>2
    <3>6. /\ \A b, c \in Called' : Of(b) = Of(c) => b = c
          /\ \A d \in Deliveries : /\ told'[d] <= 1 /\ passed'[d] <= 1
                                   /\ d \notin accepted' => told'[d] = 0 /\ passed'[d] = 0
      BY <2>1
    <3> QED
      BY <3>4, <3>5, <3>6
  <2> QED
    BY <2>2, <2>3
<1>5. ASSUME NEW a \in Events, Tell(a) PROVE OneActs'
  BY <1>1, <1>5 DEF Tell, Goes
<1>6. ASSUME NEW a \in Events, Cool(a) PROVE OneActs'
  BY <1>1, <1>6 DEF Cool, Goes
<1>7. ASSUME NEW a \in Events, ScheduleReview(a) PROVE OneActs'
  <2>1. Called' = Called \cup {a} /\ a \notin Called
    BY <1>7, CallsGrow DEF ScheduleReview
  <2> QED
    BY <1>7, <2>1 DEF ScheduleReview, Goes
<1>8. ASSUME NEW a \in Events, PassOn(a) PROVE OneActs'
  BY <1>1, <1>8 DEF PassOn, Goes
<1>9. ASSUME NEW e \in Events, EventLoop(e) /\ UNCHANGED intake PROVE OneActs'
  <2>1. Called' = Called
    BY <1>9, CallsGrow
  <2> QED
    BY <1>9, <2>1 DEF intake
<1>10. ASSUME NEW h \in Heads, CooldownEnds(h) PROVE OneActs'
  BY <1>1, <1>10 DEF CooldownEnds
<1>11. CASE TaskEnds
  BY <1>1, <1>11 DEF TaskEnds
<1>12. CASE Restart
  <2>1. Called' = Called
    BY <1>12, CallsGrow DEF Restart
  <2> QED
    BY <1>12, <2>1 DEF Restart
<1>13. CASE UNCHANGED allVars
  BY <1>1, <1>13 DEF allVars, intake
<1> QED
  BY <1>3, <1>4, <1>5, <1>6, <1>7, <1>8, <1>9, <1>10, <1>11, <1>12, <1>13
     DEF IntakeNext, Handle

LEMMA OneActsHolds == IntakeSpec => []IntakeInv
<1>1. IntakeInit => IntakeInv
  <2> SUFFICES ASSUME IntakeInit PROVE IntakeInv
    OBVIOUS
  <2>1. IntakeTypeOK
    <3>1. TypeOK
      BY QueueInit DEF IntakeInit
    <3>2. expiries \in [Heads -> 0..MaxExpiries] /\ restarts \in 0..MaxRestarts
      BY IntakeConstants DEF IntakeInit
    <3>3. told \in [Deliveries -> Nat] /\ passed \in [Deliveries -> Nat]
      BY DEF IntakeInit
    <3>4. step \in [Events -> Steps] /\ task \in [Events -> BOOLEAN] /\ conv \in [Events -> BOOLEAN]
      BY DEF IntakeInit, Steps
    <3> QED
      BY <3>1, <3>2, <3>3, <3>4 DEF IntakeInit, IntakeTypeOK
  <2>2. Called = {}
    BY DEF IntakeInit, Init, Called, Call
  <2> QED
    BY <2>1, <2>2, IntakeConstants DEF IntakeInit, IntakeInv, OneActs, Acting, Of
<1>2. IntakeInv /\ [IntakeNext]_allVars => IntakeInv'
  BY OneActsStep
<1> QED
  BY <1>1, <1>2, PTL DEF IntakeSpec

\* For any number of attempts at any deliveries, whatever steps of theirs interleave
\* and wherever the backend restarts: a delivery is told and passed on at most once,
\* and one attempt at it reaches the queue at most.
THEOREM IntakeActsOnce == IntakeSpec => []ActsOnce
<1>1. IntakeInv => ActsOnce
  <2> SUFFICES ASSUME IntakeInv, NEW d \in Deliveries
               PROVE  /\ told[d] <= 1 /\ passed[d] <= 1
                      /\ Cardinality({a \in Events : Of(a) = d /\ call[a].pc # "idle"}) <= 1
    BY DEF ActsOnce
  <2> DEFINE S == {a \in Events : Of(a) = d /\ call[a].pc # "idle"}
  <2>1. \A a, b \in S : a = b
    BY DEF IntakeInv, OneActs, Called
  <2>2. Cardinality(S) <= 1
    <3>1. CASE S = {}
      BY <3>1, FS_EmptySet
    <3>2. ASSUME NEW a \in S PROVE Cardinality(S) <= 1
      <4>1. S = {a}
        BY <2>1
      <4>2. Cardinality({a}) = 1
        BY FS_Singleton
      <4> HIDE DEF S
      <4> QED
        BY <4>1, <4>2
    <3> QED
      BY <3>1, <3>2
  <2> QED
    BY <2>2 DEF IntakeInv, OneActs
<1> QED
  BY <1>1, OneActsHolds, PTL

-----------------------------------------------------------------------------
(* The cool-down *)

\* The attempts a commit's cool-down was given to.
Spent(h) == {a \in Events : HeadOf[Of(a)] = h /\ (step[a] = "cooled" \/ a \in Called)}
Allowed(h) == expiries[h] + (IF h \in cooldown THEN 1 ELSE 0)
Spaced == \A h \in Heads : IsFiniteSet(Spent(h)) /\ Cardinality(Spent(h)) <= Allowed(h)

LEMMA SpentFewer ==
    ASSUME NEW S, NEW T, IsFiniteSet(S), T \subseteq S
    PROVE  IsFiniteSet(T) /\ Cardinality(T) <= Cardinality(S)
           /\ Cardinality(T) \in Nat /\ Cardinality(S) \in Nat
BY FS_Subset, FS_CardinalityType

LEMMA SpentMore ==
    ASSUME NEW S, NEW x, IsFiniteSet(S)
    PROVE  IsFiniteSet(S \cup {x}) /\ Cardinality(S \cup {x}) <= Cardinality(S) + 1
<1>1. Cardinality(S) \in Nat
  BY FS_CardinalityType
<1>2. /\ IsFiniteSet(S \cup {x})
      /\ Cardinality(S \cup {x}) = IF x \in S THEN Cardinality(S) ELSE Cardinality(S) + 1
  BY FS_AddElement, Zenon
<1> QED
  BY <1>1, <1>2

LEMMA SpacedStep ==
    ASSUME IntakeInv, Spaced, [IntakeNext]_allVars
    PROVE  Spaced'
<1>0. IntakeTypeOK /\ TypeOK
  BY DEF IntakeInv, IntakeTypeOK
<1>1. /\ UNCHANGED vars => Called' = Called
      /\ \A e \in Events : EventLoop(e) => Called' = Called
      /\ \A a \in Events : Schedule(a) => Called' = Called \cup {a}
      /\ Stops => Called' = Called
  BY <1>0, CallsGrow
<1> SUFFICES ASSUME NEW h \in Heads
             PROVE  IsFiniteSet(Spent(h)') /\ Cardinality(Spent(h)') <= Allowed(h)'
  BY DEF Spaced
<1>2. /\ IsFiniteSet(Spent(h)) /\ Cardinality(Spent(h)) <= Allowed(h)
      /\ Cardinality(Spent(h)) \in Nat /\ expiries[h] \in Nat
  BY <1>0, FS_CardinalityType DEF Spaced, IntakeTypeOK
\* All steps but Cool leave the attempts that were let through as they are, and all
\* but Cool and the end of a cool-down what is allowed.
<1>3. ASSUME Spent(h)' \subseteq Spent(h), UNCHANGED <<cooldown, expiries>>
      PROVE  IsFiniteSet(Spent(h)') /\ Cardinality(Spent(h)') <= Allowed(h)'
  <2>1. IsFiniteSet(Spent(h)') /\ Cardinality(Spent(h)') <= Cardinality(Spent(h))
        /\ Cardinality(Spent(h)') \in Nat
    BY <1>2, <1>3, SpentFewer
  <2>2. Allowed(h)' = Allowed(h) /\ Allowed(h) \in Nat
    BY <1>2, <1>3 DEF Allowed
  <2> QED
    BY <1>2, <2>1, <2>2
<1> USE DEF Goes, Spent
<1>4. ASSUME NEW a \in Events, Arrive(a) \/ Accept(a) \/ Tell(a) \/ PassOn(a)
      PROVE  Spent(h)' \subseteq Spent(h) /\ UNCHANGED <<cooldown, expiries>>
  BY <1>0, <1>1, <1>4 DEF Arrive, Accept, Tell, PassOn, IntakeTypeOK
<1>5. ASSUME NEW a \in Events, ScheduleReview(a)
      PROVE  Spent(h)' \subseteq Spent(h) /\ UNCHANGED <<cooldown, expiries>>
  BY <1>0, <1>1, <1>5 DEF ScheduleReview, IntakeTypeOK
<1>6. ASSUME NEW e \in Events, EventLoop(e), UNCHANGED intake
      PROVE  Spent(h)' \subseteq Spent(h) /\ UNCHANGED <<cooldown, expiries>>
  BY <1>1, <1>6 DEF intake
<1>7. ASSUME TaskEnds \/ Restart \/ UNCHANGED allVars
      PROVE  Spent(h)' \subseteq Spent(h) /\ UNCHANGED <<cooldown, expiries>>
  BY <1>1, <1>7 DEF TaskEnds, Restart, allVars, intake
<1>8. ASSUME NEW g \in Heads, CooldownEnds(g)
      PROVE  IsFiniteSet(Spent(h)') /\ Cardinality(Spent(h)') <= Allowed(h)'
  <2>1. Spent(h)' = Spent(h)
    BY <1>1, <1>8 DEF CooldownEnds
  <2>2. Allowed(h)' = Allowed(h)
    BY <1>0, <1>2, <1>8 DEF CooldownEnds, Allowed, IntakeTypeOK
  <2> QED
    BY <1>2, <2>1, <2>2
<1>9. ASSUME NEW a \in Events, Cool(a)
      PROVE  IsFiniteSet(Spent(h)') /\ Cardinality(Spent(h)') <= Allowed(h)'
  <2>1. Called' = Called /\ UNCHANGED expiries
    BY <1>1, <1>9 DEF Cool
  <2>2. CASE HeadOf[Of(a)] # h \/ HeadOf[Of(a)] \in cooldown
    <3>1. Spent(h)' \subseteq Spent(h)
      BY <1>0, <1>9, <2>1, <2>2 DEF Cool, IntakeTypeOK
    <3>2. h \in cooldown' <=> h \in cooldown
      BY <1>9, <2>2 DEF Cool
    <3>3. Allowed(h)' = Allowed(h)
      BY <2>1, <3>2 DEF Allowed
    <3>4. IsFiniteSet(Spent(h)') /\ Cardinality(Spent(h)') <= Cardinality(Spent(h))
          /\ Cardinality(Spent(h)') \in Nat
      BY <1>2, <3>1, SpentFewer
    <3>5. Allowed(h) \in Nat
      BY <1>2 DEF Allowed
    <3> QED
      BY <1>2, <3>3, <3>4, <3>5
  <2>3. CASE HeadOf[Of(a)] = h /\ h \notin cooldown
    <3>1. Spent(h)' \subseteq Spent(h) \cup {a}
      BY <1>0, <1>9, <2>1, <2>3 DEF Cool, IntakeTypeOK
    <3>2. /\ IsFiniteSet(Spent(h) \cup {a})
          /\ Cardinality(Spent(h) \cup {a}) <= Cardinality(Spent(h)) + 1
      BY <1>2, SpentMore, Zenon
    <3>3. Allowed(h)' = expiries[h] + 1 /\ Allowed(h) = expiries[h]
      BY <1>2, <1>9, <2>1, <2>3 DEF Cool, Allowed
    <3>4. IsFiniteSet(Spent(h)') /\ Cardinality(Spent(h)') <= Cardinality(Spent(h) \cup {a})
          /\ Cardinality(Spent(h)') \in Nat /\ Cardinality(Spent(h) \cup {a}) \in Nat
      BY <3>1, <3>2, SpentFewer
    <3> HIDE DEF Spent
    <3> QED
      BY <1>2, <3>2, <3>3, <3>4
  <2> QED
    BY <2>2, <2>3
<1> QED
  BY <1>3, <1>4, <1>5, <1>6, <1>7, <1>8, <1>9 DEF IntakeNext, Handle

\* For any number of deliveries, commits, ends of a cool-down and restarts, the reviews
\* of one commit are spaced by its cool-down.
THEOREM IntakeSpacesReviews == IntakeSpec => []ReviewsSpaced
<1>1. IntakeInit => Spaced
  <2> SUFFICES ASSUME IntakeInit, NEW h \in Heads
               PROVE  IsFiniteSet(Spent(h)) /\ Cardinality(Spent(h)) <= Allowed(h)
    BY DEF Spaced
  <2>1. Spent(h) = {}
    BY DEF IntakeInit, Init, Spent, Called, Call
  <2>2. Allowed(h) = 0
    BY DEF IntakeInit, Allowed
  <2> QED
    BY <2>1, <2>2, FS_EmptySet
<1>2. IntakeInv /\ Spaced /\ [IntakeNext]_allVars => Spaced'
  BY SpacedStep
<1>3. IntakeInv /\ Spaced => ReviewsSpaced
  <2> SUFFICES ASSUME IntakeInv, Spaced, NEW h \in Heads
               PROVE  Cardinality({a \in Events : HeadOf[Of(a)] = h /\ call[a].pc # "idle"})
                        <= 1 + expiries[h]
    BY DEF ReviewsSpaced
  <2> DEFINE S == {a \in Events : HeadOf[Of(a)] = h /\ call[a].pc # "idle"}
  <2>1. S \subseteq Spent(h) /\ IsFiniteSet(Spent(h)) /\ Cardinality(Spent(h)) <= Allowed(h)
    BY DEF Spaced, Spent, Called
  <2>2. Cardinality(S) <= Cardinality(Spent(h)) /\ Cardinality(S) \in Nat
        /\ Cardinality(Spent(h)) \in Nat
    BY <2>1, SpentFewer
  <2>3. Allowed(h) <= 1 + expiries[h] /\ Allowed(h) \in Nat /\ expiries[h] \in Nat
    BY DEF Allowed, IntakeInv, IntakeTypeOK
  <2> HIDE DEF S
  <2> QED
    BY <2>1, <2>2, <2>3 DEF S
<1> QED
  BY <1>1, <1>2, <1>3, OneActsHolds, PTL DEF IntakeSpec

-----------------------------------------------------------------------------
(* The repository's webhook and its secret *)

\* A set-up past the backend's answer has a secret, and then so has the guild.
Told ==
    \A w \in Workers :
        /\ stage[w] \in {"minting", "listing", "writing"} => got[w] \in 1..issued
        /\ stage[w] \in {"listing", "writing"} => secret # 0

\* The repository's webhook signs with a secret that the backend generated, and the
\* guild whose deliveries it signs has one to compare with: no worker installs a
\* webhook with nothing, and nothing takes the guild's secret away.
Signs == hook.id # 0 => hook.secret \in 1..issued /\ secret # 0

HookInv == HookTypeOK /\ secret \in 0..issued /\ Told /\ Signs

LEMMA HookInvInit == HookInit => HookInv
BY HookAssumption DEF HookInit, HookInv, HookTypeOK, NoHook, Told, Signs

\* The end of a set-up, whether it has written or failed.
LEMMA FinishKeeps ==
    ASSUME HookInv, NEW w \in Workers, Finish(w),
           issued' = issued, secret' \in 0..issued, secret # 0 => secret' # 0
    PROVE  /\ stage' \in [Workers -> {"idle", "asking", "minting", "listing", "writing"}]
           /\ got' \in [Workers -> Nat] /\ listed' \in [Workers -> Nat]
           /\ Told'
<1> USE DEF HookInv, HookTypeOK, Finish, Moves
<1>1. /\ stage' \in [Workers -> {"idle", "asking", "minting", "listing", "writing"}]
      /\ got' \in [Workers -> Nat] /\ listed' \in [Workers -> Nat]
  OBVIOUS
<1>2. Told'
  <2> SUFFICES ASSUME NEW v \in Workers
               PROVE  /\ stage'[v] \in {"minting", "listing", "writing"} => got'[v] \in 1..issued
                      /\ stage'[v] \in {"listing", "writing"} => secret' # 0
    BY DEF Told
  <2>1. CASE v = w
    BY <2>1
  <2>2. CASE v # w
    BY <2>2 DEF Told
  <2> QED
    BY <2>1, <2>2
<1> QED
  BY <1>1, <1>2

LEMMA HookInvStep ==
    ASSUME HookInv, [HookNext]_hookVars
    PROVE  HookInv'
<1> USE HookAssumption DEF HookInv, HookTypeOK
<1>1. CASE Rotate
  <2>1. /\ issued' = issued + 1 /\ secret' = issued + 1
        /\ rotations' \in 0..MaxRotations /\ UNCHANGED <<hook, made, stage, got, listed, faults>>
    BY <1>1 DEF Rotate
  <2>2. HookTypeOK' /\ secret' \in 0..issued'
    BY <2>1
  <2>3. Told' /\ Signs'
    BY <2>1 DEF Told, Signs
  <2> QED
    BY <2>2, <2>3
<1>2. CASE DeleteHook
  BY <1>2 DEF DeleteHook, NoHook, Told, Signs
<1>3. ASSUME NEW w \in Workers, OpenPull(w) PROVE HookInv'
  BY <1>3 DEF OpenPull, Moves, Told, Signs
<1>4. ASSUME NEW w \in Workers, ReadSecret(w) PROVE HookInv'
  BY <1>4 DEF ReadSecret, Moves, Told, Signs
<1>5. ASSUME NEW w \in Workers, Generate(w) PROVE HookInv'
  BY <1>5 DEF Generate, Moves, Told, Signs
<1>6. ASSUME NEW w \in Workers, StoreSecret(w) PROVE HookInv'
  BY <1>6 DEF StoreSecret, Moves, Told, Signs
<1>7. ASSUME NEW w \in Workers, ListHooks(w) PROVE HookInv'
  BY <1>7 DEF ListHooks, Moves, Told, Signs
<1>8. ASSUME NEW w \in Workers, PatchHook(w) PROVE HookInv'
  <2>1. Finish(w) /\ stage[w] = "writing" /\ UNCHANGED <<secret, issued, made, rotations, faults>>
    BY <1>8 DEF PatchHook
  <2>2. /\ hook' \in [id : Nat, secret : Nat] /\ hook'.id = hook.id
        /\ hook'.secret \in {hook.secret, got[w]}
    BY <1>8 DEF PatchHook
  <2>3. Signs'
    BY <2>1, <2>2 DEF Told, Signs
  <2> QED
    BY <2>1, <2>2, <2>3, FinishKeeps
<1>9. ASSUME NEW w \in Workers, CreateHook(w) PROVE HookInv'
  <2>1. Finish(w) /\ stage[w] = "writing" /\ UNCHANGED <<secret, issued, rotations, faults>>
    BY <1>9 DEF CreateHook
  <2>2. /\ made' \in Nat /\ hook' \in [id : Nat, secret : Nat]
        /\ hook' = hook \/ hook'.secret = got[w]
    BY <1>9 DEF CreateHook
  <2>3. Signs'
    BY <2>1, <2>2 DEF Told, Signs
  <2> QED
    BY <2>1, <2>2, <2>3, FinishKeeps
<1>10. ASSUME NEW w \in Workers, Fail(w) PROVE HookInv'
  <2>1. Finish(w) /\ faults' \in 0..MaxFaults /\ UNCHANGED <<issued, hook, made, rotations>>
    BY <1>10 DEF Fail
  <2>2. secret' \in 0..issued /\ (secret # 0 => secret' # 0)
    BY <1>10 DEF Fail, Told
  <2>3. Signs'
    BY <2>1, <2>2 DEF Signs
  <2> QED
    BY <2>1, <2>2, <2>3, FinishKeeps
<1>11. CASE UNCHANGED hookVars
  BY <1>11 DEF hookVars, Told, Signs
<1> QED
  BY <1>1, <1>2, <1>3, <1>4, <1>5, <1>6, <1>7, <1>8, <1>9, <1>10, <1>11 DEF HookNext, SetUp

\* The types, and what a delivery's signature is made and checked with, for any
\* number of workers, rotations, deletions and failed calls.
THEOREM HookSigned == HookSpec => [](HookTypeOK /\ Signs)
<1>1. HookInv => HookTypeOK /\ Signs
  BY DEF HookInv
<1> QED
  BY <1>1, HookInvInit, HookInvStep, PTL DEF HookSpec

=============================================================================
