---------------------------- MODULE Foreman_proofs ----------------------------
(* What is proved of the foreman: the bounded queue of run_foreman_ai keeps the *)
(* promise of TurnBacklog, for any number of turns and keys and any bound; a    *)
(* call to the proxy waits at one that has, or had, the seat, for any number of *)
(* proxies, runs, calls and connections; and every request of a conversation is *)
(* well formed and, while no budget cuts it, complete, for any number of runs   *)
(* and rounds.                                                                  *)
EXTENDS ForemanQueue, ForemanProxy, ForemanHistory, SequenceTheorems,
        WellFoundedInduction, TLAPS

\* The inductive invariant: types, nothing stranded, both halves bounded.
QueueInv == TypeOK /\ NoTurnStranded /\ BacklogBounded

-----------------------------------------------------------------------------
(* Sequences *)

\* Dropping one place of a sequence shortens it by one.
LEMMA RemoveAtType ==
    ASSUME NEW S, NEW s \in Seq(S), NEW i \in 1..Len(s)
    PROVE  /\ RemoveAt(s, i) \in Seq(S)
           /\ Len(RemoveAt(s, i)) = Len(s) - 1
           /\ \A j \in 1..Len(s) - 1 :
                 RemoveAt(s, i)[j] = IF j < i THEN s[j] ELSE s[j+1]
<1> DEFINE a == SubSeq(s, 1, i-1)
           b == SubSeq(s, i+1, Len(s))
<1>0. Len(s) \in Nat /\ \A j \in 1..Len(s) : s[j] \in S
  BY ElementOfSeq
<1>1. /\ a \in Seq(S) /\ Len(a) = i - 1
      /\ \A j \in 1..i-1 : a[j] = s[j]
  BY <1>0, SubSeqProperties
<1>2. /\ b \in Seq(S) /\ Len(b) = Len(s) - i
      /\ \A j \in 1..Len(s)-i : b[j] = s[i+j]
  BY <1>0, SubSeqProperties
<1> HIDE DEF a, b
<1>3. /\ a \o b \in Seq(S) /\ Len(a \o b) = Len(a) + Len(b)
      /\ \A j \in 1..Len(a) + Len(b) :
            (a \o b)[j] = IF j <= Len(a) THEN a[j] ELSE b[j - Len(a)]
  BY <1>1, <1>2, ConcatProperties
<1>4. Len(a \o b) = Len(s) - 1
  BY <1>0, <1>1, <1>2, <1>3
<1>5. ASSUME NEW j \in 1..Len(s) - 1
      PROVE  (a \o b)[j] = IF j < i THEN s[j] ELSE s[j+1]
  <2>1. CASE j < i
    BY <1>0, <1>1, <1>2, <1>3, <2>1
  <2>2. CASE j >= i
    <3>1. (a \o b)[j] = b[j - (i-1)]
      BY <1>0, <1>1, <1>2, <1>3, <2>2
    <3>2. j - (i-1) \in 1..Len(s)-i /\ i + (j - (i-1)) = j + 1
      BY <1>0, <2>2
    <3> QED
      BY <1>2, <2>2, <3>1, <3>2
  <2>3. j < i \/ j >= i
    BY <1>0
  <2> QED
    BY <2>1, <2>2, <2>3
<1>6. RemoveAt(s, i) = a \o b
  BY DEF RemoveAt, a, b
<1> QED
  BY <1>3, <1>4, <1>5, <1>6

\* Dropping a place of the second half of a sequence.
LEMMA RemoveAtConcat ==
    ASSUME NEW S, NEW s \in Seq(S), NEW t \in Seq(S), NEW i \in 1..Len(t)
    PROVE  RemoveAt(s \o t, Len(s) + i) = s \o RemoveAt(t, i)
<1>1. /\ Len(s) \in Nat /\ Len(t) \in Nat
      /\ s \o t \in Seq(S) /\ Len(s \o t) = Len(s) + Len(t)
      /\ \A j \in 1..Len(s) + Len(t) :
            (s \o t)[j] = IF j <= Len(s) THEN s[j] ELSE t[j - Len(s)]
  BY ConcatProperties
<1> DEFINE x == RemoveAt(s \o t, Len(s) + i)
           r == RemoveAt(t, i)
           y == s \o r
<1>2. /\ r \in Seq(S) /\ Len(r) = Len(t) - 1
      /\ \A j \in 1..Len(t) - 1 : r[j] = IF j < i THEN t[j] ELSE t[j+1]
  BY RemoveAtType
<1>3. Len(s) + i \in 1..Len(s \o t)
  BY <1>1
<1>4. /\ x \in Seq(S) /\ Len(x) = Len(s \o t) - 1
      /\ \A j \in 1..Len(s \o t) - 1 :
            x[j] = IF j < Len(s) + i THEN (s \o t)[j] ELSE (s \o t)[j+1]
  BY <1>1, <1>3, RemoveAtType
<1> HIDE DEF x, r
<1>5. /\ y \in Seq(S) /\ Len(y) = Len(s) + Len(r)
      /\ \A j \in 1..Len(s) + Len(r) :
            y[j] = IF j <= Len(s) THEN s[j] ELSE r[j - Len(s)]
  BY <1>2, ConcatProperties
<1> HIDE DEF y
<1>6. Len(x) = Len(y) /\ Len(x) = Len(s) + Len(t) - 1
  BY <1>1, <1>2, <1>4, <1>5
<1>7. ASSUME NEW j \in 1..Len(x) PROVE x[j] = y[j]
  <2>1. CASE j <= Len(s)
    BY <1>1, <1>2, <1>4, <1>5, <1>6, <2>1
  <2>2. CASE j > Len(s)
    <3> DEFINE n == j - Len(s)
    <3>1. n \in 1..Len(t) - 1 /\ n = j - Len(s)
      BY <1>1, <1>6, <2>2
    <3> HIDE DEF n
    <3>2. y[j] = r[n]
      <4>1. j \in 1..Len(s) + Len(r) /\ ~(j <= Len(s))
        BY <1>1, <1>2, <1>6, <2>2
      <4>2. y[j] = r[j - Len(s)]
        BY <1>5, <4>1
      <4> QED
        BY <3>1, <4>2
    <3>3. CASE n < i
      <4>1. x[j] = t[n]
        BY <1>1, <1>4, <1>6, <2>2, <3>1, <3>3
      <4>2. r[n] = IF n < i THEN t[n] ELSE t[n+1]
        BY <1>2, <3>1
      <4> QED
        BY <3>2, <3>3, <4>1, <4>2
    <3>4. CASE n >= i
      <4>1. x[j] = t[n+1]
        <5>1. j \in 1..Len(s \o t) - 1 /\ ~(j < Len(s) + i)
          BY <1>1, <1>6, <3>1, <3>4
        <5>2. x[j] = (s \o t)[j+1]
          BY <1>4, <5>1
        <5>3. j+1 \in 1..Len(s) + Len(t) /\ ~(j+1 <= Len(s)) /\ j+1 - Len(s) = n+1
          BY <1>1, <1>6, <2>2, <3>1
        <5>4. (s \o t)[j+1] = t[j+1 - Len(s)]
          BY <1>1, <5>3
        <5> QED
          BY <5>2, <5>3, <5>4
      <4>2. r[n] = IF n < i THEN t[n] ELSE t[n+1]
        BY <1>2, <3>1
      <4>3. ~(n < i)
        BY <1>1, <3>1, <3>4
      <4> QED
        BY <3>2, <4>1, <4>2, <4>3
    <3>5. n < i \/ n >= i
      BY <1>1, <3>1
    <3> QED
      BY <3>3, <3>4, <3>5
  <2>3. j <= Len(s) \/ j > Len(s)
    BY <1>1, <1>6
  <2> QED
    BY <2>1, <2>2, <2>3
<1>8. x = y
  BY <1>4, <1>5, <1>6, <1>7, SeqEqual
<1> QED
  BY <1>8 DEF x, y, r

\* Appending to the second half of a sequence.
LEMMA ConcatAppend ==
    ASSUME NEW S, NEW s \in Seq(S), NEW t \in Seq(S), NEW e \in S
    PROVE  s \o Append(t, e) = Append(s \o t, e)
<1>1. <<e>> \in Seq(S) /\ s \o t \in Seq(S)
  BY ConcatProperties
<1>2. Append(t, e) = t \o <<e>> /\ Append(s \o t, e) = (s \o t) \o <<e>>
  BY <1>1, AppendIsConcat
<1>3. s \o (t \o <<e>>) = (s \o t) \o <<e>>
  BY <1>1, ConcatAssociative
<1> QED
  BY <1>2, <1>3

\* A place of the second half, seen from the whole.
LEMMA PlaceInConcat ==
    ASSUME NEW S, NEW s \in Seq(S), NEW t \in Seq(S), NEW i \in 1..Len(t)
    PROVE  /\ Len(s) \in Nat /\ Len(t) \in Nat
           /\ Len(s \o t) = Len(s) + Len(t) /\ DOMAIN (s \o t) = 1..Len(s) + Len(t)
           /\ (s \o t)[Len(s) + i] = t[i]
<1>1. /\ Len(s) \in Nat /\ Len(t) \in Nat
      /\ s \o t \in Seq(S) /\ Len(s \o t) = Len(s) + Len(t)
      /\ \A j \in 1..Len(s) + Len(t) :
            (s \o t)[j] = IF j <= Len(s) THEN s[j] ELSE t[j - Len(s)]
  BY ConcatProperties
<1>2. DOMAIN (s \o t) = 1..Len(s) + Len(t)
  BY <1>1, LenProperties
<1>3. Len(s) + i \in 1..Len(s) + Len(t) /\ ~(Len(s) + i <= Len(s)) /\ Len(s) + i - Len(s) = i
  BY <1>1
<1>4. (s \o t)[Len(s) + i] = t[Len(s) + i - Len(s)]
  BY <1>1, <1>3
<1> QED
  BY <1>1, <1>2, <1>3, <1>4

\* s without its i-th place, and e at the end.
Displaced(s, i, e) == Append(RemoveAt(s, i), e)

\* The head of a sequence of two halves is the first half's, if that has one.
LEMMA HeadTailConcat ==
    ASSUME NEW S, NEW s \in Seq(S), NEW t \in Seq(S), s # <<>>
    PROVE  /\ s \o t # <<>>
           /\ Head(s \o t) = Head(s)
           /\ Tail(s \o t) = Tail(s) \o t
<1>1. /\ Len(s) \in Nat /\ Len(t) \in Nat /\ Len(s) > 0
      /\ s \o t \in Seq(S) /\ Len(s \o t) = Len(s) + Len(t)
      /\ \A j \in 1..Len(s) + Len(t) :
            (s \o t)[j] = IF j <= Len(s) THEN s[j] ELSE t[j - Len(s)]
  BY ConcatProperties, EmptySeq, LenProperties
<1>2. s \o t # <<>>
  BY <1>1, EmptySeq
<1>3. (s \o t)[1] = s[1]
  BY <1>1
<1>4. Head(s \o t) = (s \o t)[1] /\ Head(s) = s[1]
  BY <1>1, <1>2
<1> DEFINE x == Tail(s \o t)
           r == Tail(s)
           y == r \o t
<1>5. /\ r \in Seq(S) /\ Len(r) = Len(s) - 1
      /\ \A j \in 1..Len(r) : r[j] = s[j+1]
  BY HeadTailProperties
<1>6. /\ x \in Seq(S) /\ Len(x) = Len(s \o t) - 1
      /\ \A j \in 1..Len(x) : x[j] = (s \o t)[j+1]
  BY <1>1, <1>2, HeadTailProperties
<1> HIDE DEF x, r
<1>7. /\ y \in Seq(S) /\ Len(y) = Len(r) + Len(t)
      /\ \A j \in 1..Len(r) + Len(t) :
            y[j] = IF j <= Len(r) THEN r[j] ELSE t[j - Len(r)]
  BY <1>5, ConcatProperties
<1> HIDE DEF y
<1>8. Len(x) = Len(y) /\ Len(x) = Len(s) + Len(t) - 1
  BY <1>1, <1>5, <1>6, <1>7
<1>9. ASSUME NEW j \in 1..Len(x) PROVE x[j] = y[j]
  <2>1. j+1 \in 1..Len(s) + Len(t) /\ x[j] = (s \o t)[j+1]
    BY <1>1, <1>6, <1>8
  <2>2. j \in 1..Len(r) + Len(t) /\ (j <= Len(r) <=> j+1 <= Len(s))
        /\ j - Len(r) = j+1 - Len(s)
    BY <1>1, <1>5, <1>8
  <2>3. CASE j <= Len(r)
    BY <1>1, <1>5, <1>7, <2>1, <2>2, <2>3
  <2>4. CASE ~(j <= Len(r))
    <3>1. x[j] = t[j+1 - Len(s)]
      BY <1>1, <2>1, <2>2, <2>4
    <3>2. y[j] = t[j - Len(r)]
      BY <1>7, <2>2, <2>4
    <3> QED
      BY <2>2, <3>1, <3>2
  <2> QED
    BY <2>3, <2>4
<1>10. x = y
  BY <1>6, <1>7, <1>8, <1>9, SeqEqual
<1> QED
  BY <1>2, <1>3, <1>4, <1>10 DEF x, y, r

-----------------------------------------------------------------------------
(* The invariant *)

LEMMA InitInv == Init => QueueInv
<1> SUFFICES ASSUME Init PROVE QueueInv
  OBVIOUS
<1>1. TypeOK
  BY NoTurnType DEF Init, TypeOK, Fates
<1>2. NoTurnStranded /\ BacklogBounded
  BY QueueMaxType, ConcatEmptySeq, EmptySeq DEF Init, NoTurnStranded, Backlog, BacklogBounded
<1> QED
  BY <1>1, <1>2 DEF QueueInv

LEMMA InvokeInv ==
    ASSUME QueueInv, NEW t \in Turns, Invoke(t)
    PROVE  QueueInv'
<1> DEFINE k == KeyOf[t]
<1> USE KeyOfType, NoTurnType, QueueMaxType DEF QueueInv
<1>1. CASE Claim(t)
  BY <1>1 DEF Claim, TypeOK, Fates, NoTurnStranded, Backlog, BacklogBounded
<1>2. CASE Skip(t)
  BY <1>2 DEF Skip, TypeOK, Fates, NoTurnStranded, Backlog, BacklogBounded
<1>3. CASE Enqueue(t)
  <2>1. queue[k] \in Seq(Turns) /\ Append(queue[k], t) \in Seq(Turns)
        /\ Len(Append(queue[k], t)) = Len(queue[k]) + 1
    BY AppendProperties DEF TypeOK
  <2>2. TypeOK'
    BY <1>3, <2>1 DEF Enqueue, TypeOK, Fates
  <2>3. NoTurnStranded' /\ BacklogBounded'
    BY <1>3, <2>1, LenProperties DEF Enqueue, TypeOK, NoTurnStranded, Backlog, BacklogBounded
  <2> QED
    BY <2>2, <2>3
<1>4. CASE EnqueueFull(t)
  <2>1. CASE UNCHANGED queue /\ fate' = [fate EXCEPT ![t] = "evicted"]
    BY <1>4, <2>1 DEF EnqueueFull, TypeOK, Fates, NoTurnStranded, Backlog, BacklogBounded
  <2>2. ASSUME NEW i \in Droppable(queue[k], t),
               queue' = [queue EXCEPT ![k] = Append(RemoveAt(queue[k], i), t)],
               fate' = [fate EXCEPT ![queue[k][i]] = "evicted", ![t] = "accepted"]
        PROVE  QueueInv'
    <3>1. queue[k] \in Seq(Turns) /\ i \in 1..Len(queue[k])
      BY <2>2, LenProperties DEF TypeOK, Droppable, Batches
    <3>2. /\ Append(RemoveAt(queue[k], i), t) \in Seq(Turns)
          /\ Len(Append(RemoveAt(queue[k], i), t)) = Len(queue[k])
      <4>1. RemoveAt(queue[k], i) \in Seq(Turns) /\ Len(RemoveAt(queue[k], i)) = Len(queue[k]) - 1
        BY <3>1, RemoveAtType
      <4> QED
        BY <3>1, <4>1, AppendProperties, LenProperties
    <3>3. TypeOK'
      BY <1>4, <2>2, <3>2 DEF EnqueueFull, TypeOK, Fates
    <3>4. NoTurnStranded' /\ BacklogBounded'
      BY <1>4, <2>2, <3>2 DEF EnqueueFull, TypeOK, NoTurnStranded, Backlog, BacklogBounded
    <3> QED
      BY <3>3, <3>4
  <2> QED
    BY <1>4, <2>1, <2>2 DEF EnqueueFull
<1> QED
  BY <1>1, <1>2, <1>3, <1>4 DEF Invoke

\* From one turn of a key to the next, or to the key's release.
LEMMA NextTurnInv ==
    ASSUME QueueInv, NEW k \in Keys, current[k] # NoTurn, NextTurn(k),
           fate' \in [Turns -> Fates]
    PROVE  QueueInv'
<1> USE NoTurnType, QueueMaxType DEF QueueInv, Takes, Frees
<1>0. queue[k] \in Seq(Turns) /\ pending[k] \in Seq(Turns)
  BY DEF TypeOK
<1>1. CASE pending[k] # <<>> /\ Takes(k, Head(pending[k]))
           /\ pending' = [pending EXCEPT ![k] = Tail(@)] /\ UNCHANGED queue
  <2>1. /\ Head(pending[k]) \in Turns /\ Tail(pending[k]) \in Seq(Turns)
        /\ Len(Tail(pending[k])) = Len(pending[k]) - 1
    BY <1>0, <1>1, HeadTailProperties
  <2>2. TypeOK'
    BY <1>1, <2>1 DEF TypeOK
  <2>3. NoTurnStranded' /\ BacklogBounded'
    BY <1>0, <1>1, <2>1, LenProperties DEF TypeOK, NoTurnStranded, Backlog, BacklogBounded
  <2> QED
    BY <2>2, <2>3
<1>2. CASE pending[k] = <<>> /\ queue[k] # <<>> /\ Takes(k, Head(queue[k]))
           /\ pending' = [pending EXCEPT ![k] = Tail(queue[k])]
           /\ queue' = [queue EXCEPT ![k] = <<>>]
  <2>1. /\ Head(queue[k]) \in Turns /\ Tail(queue[k]) \in Seq(Turns)
        /\ Len(Tail(queue[k])) = Len(queue[k]) - 1
    BY <1>0, <1>2, HeadTailProperties
  <2>2. <<>> \in Seq(Turns) /\ Len(<<>>) = 0
    BY EmptySeq
  <2>3. TypeOK'
    BY <1>2, <2>1, <2>2 DEF TypeOK
  <2>4. NoTurnStranded' /\ BacklogBounded'
    BY <1>0, <1>2, <2>1, <2>2, LenProperties DEF TypeOK, NoTurnStranded, Backlog, BacklogBounded
  <2> QED
    BY <2>3, <2>4
<1>3. CASE pending[k] = <<>> /\ queue[k] = <<>> /\ Frees(k)
  <2>1. <<>> \o <<>> = <<>>
    BY EmptySeq, ConcatEmptySeq
  <2>2. TypeOK'
    BY <1>3 DEF TypeOK
  <2>3. NoTurnStranded' /\ BacklogBounded'
    BY <1>3, <2>1 DEF TypeOK, NoTurnStranded, Backlog, BacklogBounded
  <2> QED
    BY <2>2, <2>3
<1> QED
  BY <1>1, <1>2, <1>3 DEF NextTurn

LEMMA StepInv ==
    ASSUME QueueInv, NEW k \in Keys, Step(k)
    PROVE  QueueInv'
<1>0. TypeOK /\ (phase[k] # "free" => current[k] # NoTurn /\ current[k] \in Turns)
  BY DEF QueueInv, TypeOK
<1>1. CASE ContextLoaded(k)
  BY <1>1 DEF ContextLoaded, QueueInv, TypeOK, NoTurnStranded, Backlog, BacklogBounded
<1>2. CASE DrainedFails(k)
  BY <1>2 DEF DrainedFails, QueueInv, TypeOK, NoTurnStranded, Backlog, BacklogBounded
<1>3. CASE ContextFails(k)
  <2>1. current[k] # NoTurn /\ fate' \in [Turns -> Fates]
    BY <1>0, <1>3 DEF ContextFails, TypeOK, Fates
  <2> QED
    BY <1>3, <2>1, NextTurnInv DEF ContextFails
<1>4. CASE FailureTold(k)
  <2>1. current[k] # NoTurn /\ fate' \in [Turns -> Fates]
    BY <1>0, <1>4 DEF FailureTold, TypeOK, Fates
  <2> QED
    BY <1>4, <2>1, NextTurnInv DEF FailureTold
<1>5. CASE RoundsEnd(k)
  <2>1. current[k] # NoTurn /\ fate' \in [Turns -> Fates]
    BY <1>0, <1>5 DEF RoundsEnd, TypeOK, Fates
  <2> QED
    BY <1>5, <2>1, NextTurnInv DEF RoundsEnd
<1> QED
  BY <1>1, <1>2, <1>3, <1>4, <1>5 DEF Step

LEMMA RestartInv == QueueInv /\ Restart => QueueInv'
<1> SUFFICES ASSUME QueueInv, Restart PROVE QueueInv'
  OBVIOUS
<1>1. <<>> \in Seq(Turns) /\ Len(<<>>) = 0 /\ <<>> \o <<>> = <<>>
  BY EmptySeq, ConcatEmptySeq
<1>2. TypeOK'
  BY <1>1 DEF Restart, QueueInv, TypeOK, Fates
<1>3. NoTurnStranded' /\ BacklogBounded'
  BY <1>1, QueueMaxType DEF Restart, NoTurnStranded, Backlog, BacklogBounded
<1> QED
  BY <1>2, <1>3 DEF QueueInv

\* The invariant holds in every reachable state.
THEOREM QueueInvariance == Spec => []QueueInv
<1>1. Init => QueueInv
  BY InitInv
<1>2. QueueInv /\ [Next]_vars => QueueInv'
  <2> SUFFICES ASSUME QueueInv, [Next]_vars PROVE QueueInv'
    OBVIOUS
  <2>1. CASE UNCHANGED vars
    BY <2>1 DEF vars, QueueInv, TypeOK, NoTurnStranded, Backlog, BacklogBounded
  <2>2. CASE Next
    BY <2>2, InvokeInv, StepInv, RestartInv DEF Next
  <2> QED
    BY <2>1, <2>2
<1> QED
  BY <1>1, <1>2, PTL DEF Spec

\* The variables of the foreman's queue keep their types.
THEOREM QueueTypeCorrect == Spec => []TypeOK
  BY QueueInvariance, PTL DEF QueueInv

\* No accepted turn is left behind when a key is let go.
THEOREM NothingStranded == Spec => []NoTurnStranded
  BY QueueInvariance, PTL DEF QueueInv

\* Neither half of the backlog outgrows _HUMAN_QUEUE_MAX.
THEOREM Bounded == Spec => []BacklogBounded
  BY QueueInvariance, PTL DEF QueueInv
-----------------------------------------------------------------------------
(* The refinement of TurnBacklog *)

LEMMA InitMaps == Init => Promise!Init
<1> SUFFICES ASSUME Init PROVE Promise!Init
  OBVIOUS
<1>1. \A k \in Keys : Backlog(k) = <<>>
  BY EmptySeq, ConcatEmptySeq DEF Init, Backlog
<1> QED
  BY <1>1 DEF Init, Promise!Init

\* Displacing a place of the queue displaces a place of the backlog.
LEMMA DisplacesPlace ==
    ASSUME NEW k \in Keys, NEW i \in 1..Len(queue[k]), NEW e \in Turns,
           queue[k] \in Seq(Turns), pending[k] \in Seq(Turns),
           QueueMax <= Len(queue[k]), Len(queue[k]) <= QueueMax, Len(pending[k]) < QueueMax
    PROVE  LET n == Len(pending[k]) + i IN
           /\ n \in 1..2*QueueMax /\ n \in DOMAIN Backlog(k)
           /\ Len(Backlog(k)) >= QueueMax /\ Backlog(k)[n] = queue[k][i]
           /\ Displaced(Backlog(k), n, e) = pending[k] \o Displaced(queue[k], i, e)
<1>1. Len(pending[k]) \in Nat /\ Len(queue[k]) \in Nat
  BY LenProperties
<1>2. Len(pending[k] \o queue[k]) = Len(pending[k]) + Len(queue[k])
  BY PlaceInConcat
<1>3. DOMAIN (pending[k] \o queue[k]) = 1..Len(pending[k]) + Len(queue[k])
  BY PlaceInConcat
<1>4. (pending[k] \o queue[k])[Len(pending[k]) + i] = queue[k][i]
  BY PlaceInConcat
<1>5. /\ Len(pending[k]) + i \in 1..2*QueueMax
      /\ Len(pending[k]) + i \in 1..Len(pending[k]) + Len(queue[k])
      /\ Len(pending[k]) + Len(queue[k]) >= QueueMax
  <2>1. ASSUME NEW p \in Nat, NEW q \in Nat, NEW n \in 1..q, p < QueueMax, q = QueueMax
        PROVE  p + n \in 1..2*QueueMax /\ p + n \in 1..p+q /\ p + q >= QueueMax
    BY <2>1, QueueMaxType
  <2>2. Len(queue[k]) = QueueMax
    BY <1>1, QueueMaxType
  <2> QED
    BY <1>1, <2>1, <2>2
<1>6. Displaced(pending[k] \o queue[k], Len(pending[k]) + i, e) = pending[k] \o Displaced(queue[k], i, e)
  <2> DEFINE End(x) == Append(x, e)
  <2>1. RemoveAt(pending[k] \o queue[k], Len(pending[k]) + i) = pending[k] \o RemoveAt(queue[k], i)
    BY RemoveAtConcat
  <2>2. RemoveAt(queue[k], i) \in Seq(Turns)
    BY RemoveAtType
  <2>3. ASSUME NEW p, p \in Seq(Turns), NEW r, r \in Seq(Turns)
        PROVE  p \o End(r) = End(p \o r)
    BY <2>3, ConcatAppend
  <2>4. ASSUME NEW x, NEW j PROVE Displaced(x, j, e) = End(RemoveAt(x, j))
    BY DEF Displaced
  <2> HIDE DEF End
  <2>5. pending[k] \o End(RemoveAt(queue[k], i)) = End(pending[k] \o RemoveAt(queue[k], i))
    BY <2>2, <2>3
  <2> QED
    BY <2>1, <2>4, <2>5
<1> QED
  BY <1>2, <1>3, <1>4, <1>5, <1>6 DEF Backlog

\* An invocation serves, waits, displaces or is dropped.
LEMMA InvokeMaps ==
    ASSUME QueueInv, NEW t \in Turns, Invoke(t)
    PROVE  [Promise!Next]_Promise!vars
<1> DEFINE k == KeyOf[t]
<1>0. k \in Keys /\ queue[k] \in Seq(Turns) /\ pending[k] \in Seq(Turns) /\ TypeOK
  BY KeyOfType DEF QueueInv, TypeOK
<1>1. CASE Claim(t)
  <2>1. Backlog(k) = <<>>
    BY <1>0, <1>1 DEF Claim, QueueInv, NoTurnStranded
  <2>2. Promise!Serve(t)
    BY <1>0, <1>1, <2>1 DEF Claim, Promise!Serve, Backlog
  <2> QED
    BY <2>2 DEF Promise!Next
<1>2. CASE Skip(t)
  BY <1>2 DEF Skip, Promise!vars, Backlog
<1>3. CASE Enqueue(t)
  <2>1. Backlog(k)' = Append(Backlog(k), t)
    BY <1>0, <1>3, ConcatAppend DEF Enqueue, TypeOK, Backlog
  <2>2. \A l \in Keys : l # k => Backlog(l)' = Backlog(l)
    BY <1>0, <1>3 DEF Enqueue, TypeOK, Backlog
  <2>3. Promise!Wait(t)
    BY <1>0, <1>3, <2>1, <2>2 DEF Enqueue, Promise!Wait
  <2> QED
    BY <2>3 DEF Promise!Next
<1>4. CASE EnqueueFull(t)
  <2>1. CASE UNCHANGED queue
    BY <1>4, <2>1 DEF EnqueueFull, Promise!vars, Backlog
  <2>2. ASSUME NEW i \in Droppable(queue[k], t),
               queue' = [queue EXCEPT ![k] = Append(RemoveAt(queue[k], i), t)]
        PROVE  Promise!Next
    <3> DEFINE n == Len(pending[k]) + i
    <3>0. /\ queue[k] \in Seq(Turns) /\ pending[k] \in Seq(Turns)
          /\ i \in 1..Len(queue[k])
      BY <1>0, <2>2, LenProperties DEF Droppable, Batches
    <3>1. QueueMax <= Len(queue[k]) /\ Len(queue[k]) <= QueueMax /\ Len(pending[k]) < QueueMax
      BY <1>0, <1>4, LenProperties, QueueMaxType DEF EnqueueFull, QueueInv, BacklogBounded
    <3>2. /\ n \in 1..2*QueueMax /\ n \in DOMAIN Backlog(k)
          /\ Len(Backlog(k)) >= QueueMax /\ Backlog(k)[n] = queue[k][i]
          /\ Displaced(Backlog(k), n, t) = pending[k] \o Displaced(queue[k], i, t)
      BY <1>0, <3>0, <3>1, DisplacesPlace
    <3>4. queue[k][i] \in Human => t \in Human
      BY <1>4, <2>2, KindsType DEF EnqueueFull, Droppable, Batches
    <3>5. Backlog(k)' = Displaced(Backlog(k), n, t)
      <4>1. queue'[k] = Displaced(queue[k], i, t) /\ pending' = pending
        BY <1>0, <1>4, <2>2 DEF EnqueueFull, TypeOK, Displaced
      <4>2. Backlog(k)' = pending[k] \o Displaced(queue[k], i, t)
        BY <4>1 DEF Backlog
      <4> QED
        BY <3>2, <4>2
    <3>6. \A l \in Keys : l # k => Backlog(l)' = Backlog(l)
      BY <1>0, <1>4, <2>2 DEF EnqueueFull, TypeOK, Backlog
    <3> HIDE DEF n
    <3>7. Promise!Displace(t, n)
      <4>1. Displaced(Backlog(k), n, t) = Append(Promise!RemoveAt(Backlog(k), n), t)
        BY DEF Displaced, RemoveAt, Promise!RemoveAt
      <4>2. current[k] # NoTurn /\ UNCHANGED current
        BY <1>4 DEF EnqueueFull
      <4> QED
        BY <1>0, <3>2, <3>4, <3>5, <3>6, <4>1, <4>2 DEF Promise!Displace
    <3> QED
      BY <3>2, <3>7 DEF Promise!Next
  <2> QED
    BY <1>4, <2>1, <2>2 DEF EnqueueFull
<1> QED
  BY <1>1, <1>2, <1>3, <1>4 DEF Invoke

\* Going on to the next turn is the backlog's Finish.
LEMMA NextTurnMaps ==
    ASSUME QueueInv, NEW k \in Keys, current[k] # NoTurn, NextTurn(k)
    PROVE  Promise!Finish(k)
<1>0. queue[k] \in Seq(Turns) /\ pending[k] \in Seq(Turns) /\ TypeOK
  BY DEF QueueInv, TypeOK
<1>1. CASE pending[k] # <<>> /\ Takes(k, Head(pending[k]))
           /\ pending' = [pending EXCEPT ![k] = Tail(@)] /\ UNCHANGED queue
  <2>1. /\ Backlog(k) # <<>> /\ Head(Backlog(k)) = Head(pending[k])
        /\ Tail(Backlog(k)) = Tail(pending[k]) \o queue[k]
    BY <1>0, <1>1, HeadTailConcat DEF Backlog
  <2>2. Backlog(k)' = Tail(Backlog(k)) /\ \A l \in Keys : l # k => Backlog(l)' = Backlog(l)
    BY <1>0, <1>1, <2>1 DEF Backlog, TypeOK
  <2> QED
    BY <1>0, <1>1, <2>1, <2>2 DEF Takes, Promise!Finish
<1>2. CASE pending[k] = <<>> /\ queue[k] # <<>> /\ Takes(k, Head(queue[k]))
           /\ pending' = [pending EXCEPT ![k] = Tail(queue[k])]
           /\ queue' = [queue EXCEPT ![k] = <<>>]
  <2>1. Tail(queue[k]) \in Seq(Turns)
    BY <1>0, <1>2, HeadTailProperties
  <2>2. Backlog(k) = queue[k]
    BY <1>0, <1>2, ConcatEmptySeq DEF Backlog
  <2>3. Backlog(k)' = Tail(queue[k]) \o <<>>
    BY <1>0, <1>2 DEF Backlog, TypeOK
  <2>4. @ = Tail(queue[k])
    BY <2>1, ConcatEmptySeq
  <2>5. \A l \in Keys : l # k => Backlog(l)' = Backlog(l)
    BY <1>0, <1>2 DEF Backlog, TypeOK
  <2> QED
    BY <1>0, <1>2, <2>2, <2>3, <2>4, <2>5 DEF Takes, Promise!Finish
<1>3. CASE pending[k] = <<>> /\ queue[k] = <<>> /\ Frees(k)
  <2>1. Backlog(k) = <<>>
    BY <1>3, EmptySeq, ConcatEmptySeq DEF Backlog
  <2>2. \A l \in Keys : Backlog(l)' = Backlog(l)
    BY <1>3 DEF Frees, Backlog
  <2> QED
    BY <1>0, <1>3, <2>1, <2>2 DEF Frees, Promise!Finish
<1> QED
  BY <1>1, <1>2, <1>3 DEF NextTurn

LEMMA StepMaps ==
    ASSUME QueueInv, NEW k \in Keys, Step(k)
    PROVE  [Promise!Next]_Promise!vars
<1>0. phase[k] # "free" => current[k] # NoTurn
  BY DEF QueueInv, TypeOK
<1>1. CASE ContextLoaded(k) \/ DrainedFails(k)
  BY <1>1 DEF ContextLoaded, DrainedFails, Promise!vars, Backlog
<1>2. CASE ContextFails(k) \/ FailureTold(k) \/ RoundsEnd(k)
  <2>1. current[k] # NoTurn /\ NextTurn(k)
    BY <1>0, <1>2 DEF ContextFails, FailureTold, RoundsEnd
  <2>2. Promise!Finish(k)
    BY <2>1, NextTurnMaps
  <2> QED
    BY <2>2 DEF Promise!Next
<1> QED
  BY <1>1, <1>2 DEF Step

LEMMA RestartMaps == Restart => Promise!Forget
<1> SUFFICES ASSUME Restart PROVE Promise!Forget
  OBVIOUS
<1>1. \A k \in Keys : Backlog(k)' = <<>>
  BY EmptySeq, ConcatEmptySeq DEF Restart, Backlog
<1> QED
  BY <1>1 DEF Restart, Promise!Forget, Promise!Init

\* The busy flag, the queue and the snapshot of every key behave as one backlog:
\* served in order, never stranded, a human's turn dropped only for a human's.
THEOREM ImplementsBacklog == Spec => KeepsPromise
<1>1. Init => Promise!Init
  BY InitMaps
<1>2. QueueInv /\ [Next]_vars => [Promise!Next]_Promise!vars
  <2> SUFFICES ASSUME QueueInv, [Next]_vars PROVE [Promise!Next]_Promise!vars
    OBVIOUS
  <2>1. CASE UNCHANGED vars
    BY <2>1 DEF vars, Promise!vars, Backlog
  <2>2. CASE Next
    BY <2>2, InvokeMaps, StepMaps, RestartMaps DEF Next, Promise!Next
  <2> QED
    BY <2>1, <2>2
<1> QED
  BY <1>1, <1>2, QueueInvariance, PTL DEF Spec, KeepsPromise, Promise!Spec

-------------------------------------------------------------------------------
(* The proxy *)

\* The connections keep their type when one of them gets another record of it.
LEMMA LinkSet ==
    ASSUME link \in Seq(Link), NEW s \in Links, NEW l \in Link, link' = [link EXCEPT ![s] = l]
    PROVE  link' \in Seq(Link) /\ Len(link') = Len(link)
  BY ExceptSeq DEF Links

\* The parts of a connection, and what it is after one part changed.
LEMMA LinkParts ==
    ASSUME link \in Seq(Link), NEW s \in Links
    PROVE  /\ link[s] \in Link
           /\ link[s].toBackend \in Seq(Frames) /\ link[s].toProxy \in Seq(Frames)
           /\ \A q \in Seq(Frames) : [link[s] EXCEPT !.toBackend = q] \in Link
           /\ \A q \in Seq(Frames) : [link[s] EXCEPT !.toProxy = q] \in Link
  <1>1. link[s] \in Link
    BY DEF Links
  <1> QED BY <1>1 DEF Link

\* The queues of a connection that has a frame, after it is read or one is sent.
LEMMA QueueParts ==
    ASSUME NEW q \in Seq(Frames)
    PROVE  /\ \A f \in Frames : Append(q, f) \in Seq(Frames)
           /\ q # <<>> => Head(q) \in Frames /\ Tail(q) \in Seq(Frames)
  OBVIOUS

LEMMA EmptyQueue == <<>> \in Seq(Frames)
  OBVIOUS

\* The calls keep their type at an outcome.
LEMMA ReturnTyped ==
    ASSUME request \in [LLMRuns -> Call], NEW r, NEW at \in Ended \cup {"local"}, Return(r, at)
    PROVE  request' \in [LLMRuns -> Call]
  <1>0. 0 \in 0..MaxLinks
    BY ProxyConstants
  <1>1. ASSUME r \in LLMRuns PROVE [request[r] EXCEPT !.at = at, !.via = 0] \in Call
    <2>1. request[r] \in Call
      BY <1>1
    <2> QED BY <1>0, <2>1 DEF Call
  <1>2. request' = [request EXCEPT ![r] = [request[r] EXCEPT !.at = at, !.via = 0]]
    BY DEF Return
  <1> QED BY <1>1, <1>2

LEMMA ProxyTypeInit == ProxyInit => ProxyTypeOK
  <1> SUFFICES ASSUME ProxyInit PROVE ProxyTypeOK
    OBVIOUS
  <1>1. link \in Seq(Link) /\ Len(link) = 0 /\ MaxLinks \in Nat
    BY ProxyConstants DEF ProxyInit
  <1>2. [at |-> "idle", round |-> 1, client |-> FALSE, via |-> 0] \in Call
    BY ProxyConstants DEF Call
  <1>3. request \in [LLMRuns -> Call]
    BY <1>2 DEF ProxyInit
  <1>4. seat \in 0..Len(link) /\ superseded \subseteq Links
    BY <1>1 DEF ProxyInit
  <1>5. working \in [1..MaxLinks -> SUBSET LLMRuns] /\ embedded \in BOOLEAN /\ overtaken \in BOOLEAN
    BY DEF ProxyInit
  <1> QED BY <1>1, <1>3, <1>4, <1>5 DEF ProxyTypeOK

\* Every variable of the seat keeps its type.
LEMMA ProxyTypeInductive ==
    ASSUME ProxyTypeOK, [ProxyNext]_proxyVars
    PROVE  ProxyTypeOK'
  <1> USE ProxyConstants
  <1>0. link \in Seq(Link) /\ Len(link) \in Nat /\ 0 \in 0..MaxLinks /\ DOMAIN link = Links
    BY DEF ProxyTypeOK, Links
  <1>1. ASSUME NEW p \in Proxies, Connect(p) PROVE ProxyTypeOK'
    <2>1. NewLink(p) \in Link
      BY <1>0 DEF NewLink, Link, Frames
    <2>2. link' \in Seq(Link) /\ Len(link') = Len(link) + 1
      BY <1>0, <1>1, <2>1 DEF Connect
    <2> QED BY <1>0, <1>1, <2>2 DEF Connect, ProxyTypeOK, Links
  <1>2. ASSUME NEW s \in Links, ProxyReads(s) PROVE ProxyTypeOK'
    <2>1. link[s] \in Link /\ link[s].toProxy \in Seq(Frames) /\ link[s].toProxy # <<>>
      BY <1>0, <1>2, LinkParts DEF ProxyReads
    <2>2. PICK frame \in {Head(link[s].toProxy)} :
              \/ /\ frame.is = "request"
                 /\ link' = [link EXCEPT ![s].toProxy = Tail(@)]
                 /\ working' = [working EXCEPT ![s] = @ \cup {frame.run}]
              \/ /\ frame.is = "evicted"
                 /\ link' = [link EXCEPT ![s].toProxy = <<>>, ![s].up = FALSE]
                 /\ working' = [working EXCEPT ![s] = {}]
      BY <1>2 DEF ProxyReads
    <2>3. frame \in Frames /\ Tail(link[s].toProxy) \in Seq(Frames)
      BY <2>1, <2>2, QueueParts
    <2>4. working' \in [1..MaxLinks -> SUBSET LLMRuns]
      BY <2>2, <2>3 DEF ProxyTypeOK, Frames
    <2>5. PICK l \in Link : link' = [link EXCEPT ![s] = l]
      <3>1. CASE frame.is = "request"
        <4>1. [link[s] EXCEPT !.toProxy = Tail(@)] \in Link
          BY <2>1, <2>3 DEF Link
        <4> QED BY <2>2, <3>1, <4>1
      <3>2. CASE frame.is = "evicted"
        <4>1. [link[s] EXCEPT !.toProxy = <<>>, !.up = FALSE] \in Link
          BY <2>1, EmptyQueue DEF Link
        <4> QED BY <2>2, <3>2, <4>1
      <3> QED BY <2>2, <3>1, <3>2
    <2>6. link' \in Seq(Link) /\ Len(link') = Len(link)
      BY <1>0, <2>5, LinkSet
    <2> QED BY <1>2, <2>4, <2>6 DEF ProxyReads, ProxyTypeOK, Links
  <1>3. ASSUME NEW s \in Links, NEW r \in LLMRuns, ProxyAnswers(s, r) PROVE ProxyTypeOK'
    <2>1. PICK ok \in BOOLEAN :
              link' = [link EXCEPT ![s].toBackend = Append(@, [is |-> "answer", run |-> r, ok |-> ok])]
      BY <1>3 DEF ProxyAnswers
    <2>2. Append(link[s].toBackend, [is |-> "answer", run |-> r, ok |-> ok]) \in Seq(Frames)
      <3>1. [is |-> "answer", run |-> r, ok |-> ok] \in Frames
        BY DEF Frames
      <3> QED BY <1>0, <3>1, LinkParts, QueueParts
    <2>3. link' \in Seq(Link) /\ Len(link') = Len(link)
      BY <1>0, <2>1, <2>2, LinkParts, LinkSet
    <2>4. working' \in [1..MaxLinks -> SUBSET LLMRuns]
      BY <1>3 DEF ProxyAnswers, ProxyTypeOK
    <2> QED BY <1>3, <2>3, <2>4 DEF ProxyAnswers, ProxyTypeOK, Links
  <1>4. ASSUME NEW s \in Links, ProxyLost(s) PROVE ProxyTypeOK'
    <2>1. PICK kept \in {<<>>, link[s].toBackend} :
              link' = [link EXCEPT ![s].up = FALSE, ![s].toBackend = kept, ![s].toProxy = <<>>]
      BY <1>4 DEF ProxyLost
    <2>2. [link[s] EXCEPT !.up = FALSE, !.toBackend = kept, !.toProxy = <<>>] \in Link
      <3>1. link[s] \in Link /\ link[s].toBackend \in Seq(Frames)
        BY <1>0, LinkParts
      <3>2. kept \in Seq(Frames)
        BY <2>1, <3>1, EmptyQueue
      <3> QED BY <3>1, <3>2, EmptyQueue DEF Link
    <2> DEFINE lost == [link[s] EXCEPT !.up = FALSE, !.toBackend = kept, !.toProxy = <<>>]
    <2>5. link' = [link EXCEPT ![s] = lost] /\ lost \in Link
      BY <2>1, <2>2
    <2> HIDE DEF lost
    <2>3. link' \in Seq(Link) /\ Len(link') = Len(link)
      BY <1>0, <2>5, LinkSet
    <2>4. working' \in [1..MaxLinks -> SUBSET LLMRuns]
      BY <1>4 DEF ProxyLost, ProxyTypeOK
    <2> QED BY <1>4, <2>3, <2>4 DEF ProxyLost, ProxyTypeOK, Links
  <1>8. ASSUME NEW s \in Links, SocketGone(s) PROVE ProxyTypeOK'
    <2>1. link[s] \in Link
      BY <1>0, LinkParts
    <2>2. [link[s] EXCEPT !.handler = "gone"] \in Link
      BY <2>1 DEF Link
    <2>3. link' \in Seq(Link) /\ Len(link') = Len(link)
      BY <1>0, <1>8, <2>2, LinkSet DEF SocketGone, HandlerEnds
    <2>4. request' \in [LLMRuns -> Call] /\ seat' \in 0..Len(link)
      <3>1. CASE seat = s /\ seat' = 0 /\ FailPending(s)
        <4>1. \A r \in LLMRuns : [request[r] EXCEPT !.at = "failed", !.via = 0] \in Call
          BY <1>0 DEF ProxyTypeOK, Call, Ended
        <4>2. request \in [LLMRuns -> Call]
          BY DEF ProxyTypeOK
        <4>3. request' = [r \in LLMRuns |-> IF r \in Owned(s) THEN [request[r] EXCEPT !.at = "failed", !.via = 0]
                                                              ELSE request[r]]
          BY <3>1 DEF FailPending
        <4>4. request' \in [LLMRuns -> Call]
          BY <4>1, <4>2, <4>3
        <4> QED BY <1>0, <3>1, <4>4
      <3>2. CASE UNCHANGED <<seat, request>>
        BY <3>2 DEF ProxyTypeOK
      <3> QED BY <1>8, <3>1, <3>2 DEF SocketGone
    <2> QED BY <1>8, <2>3, <2>4 DEF SocketGone, ProxyTypeOK, Links
  <1>5. ASSUME NEW s \in Links, ReadsJoin(s) PROVE ProxyTypeOK'
    <2>1. link[s] \in Link /\ link[s].toBackend \in Seq(Frames) /\ link[s].toBackend # <<>>
      BY <1>0, <1>5, LinkParts DEF ReadsJoin, Reads
    <2>2. Tail(link[s].toBackend) \in Seq(Frames)
      BY <2>1, QueueParts
    <2>3. CASE seat \in {0, s} /\ TakesSeat(s) /\ link' = [link EXCEPT ![s].toBackend = Tail(@)]
      <3>1. link' \in Seq(Link) /\ Len(link') = Len(link)
        BY <1>0, <2>2, <2>3, LinkParts, LinkSet
      <3>2. seat' \in 0..Len(link) /\ superseded' \subseteq Links
        BY <1>0, <2>3 DEF TakesSeat, ProxyTypeOK, Links
      <3> QED BY <1>5, <3>1, <3>2 DEF ReadsJoin, ProxyTypeOK, Links
    <2>4. CASE seat \notin {0, s} /\ UNCHANGED <<seat, superseded>>
      <3> DEFINE evicting == [link[s] EXCEPT !.toBackend = Tail(@), !.handler = "evicting", !.evicts = seat]
                 told == [link[seat] EXCEPT !.toProxy = IF link[seat].up
                                                        THEN Append(@, [is |-> "evicted"]) ELSE @]
      <3>1. seat \in Links /\ seat \in 0..MaxLinks
        BY <1>0, <2>4 DEF ProxyTypeOK, Links
      <3>2. evicting \in Link
        BY <2>1, <2>2, <3>1 DEF Link
      <3>3. told \in Link
        <4>1. link[seat] \in Link /\ link[seat].toProxy \in Seq(Frames)
          BY <1>0, <3>1, LinkParts
        <4>2. Append(link[seat].toProxy, [is |-> "evicted"]) \in Seq(Frames)
          BY <4>1, QueueParts DEF Frames
        <4> QED BY <4>1, <4>2 DEF Link
      <3>4. link' = [[link EXCEPT ![s] = evicting] EXCEPT ![seat] = told]
        BY <1>0, <1>5, <2>4, <3>1 DEF ReadsJoin
      <3> HIDE DEF evicting, told
      <3>5. [link EXCEPT ![s] = evicting] \in Seq(Link) /\ Len([link EXCEPT ![s] = evicting]) = Len(link)
        BY <1>0, <3>2, ExceptSeq DEF Links
      <3>6. link' \in Seq(Link) /\ Len(link') = Len(link)
        BY <3>1, <3>3, <3>4, <3>5, ExceptSeq DEF Links
      <3> QED BY <1>5, <2>4, <3>6 DEF ReadsJoin, ProxyTypeOK, Links
    <2> QED BY <1>5, <2>3, <2>4 DEF ReadsJoin
  <1>6. ASSUME NEW s \in Links, Seated(s) PROVE ProxyTypeOK'
    <2>1. link[s] \in Link
      BY <1>0, LinkParts
    <2>2. [link[s] EXCEPT !.handler = "reads", !.evicts = 0] \in Link
      BY <1>0, <2>1 DEF Link
    <2>3. link' \in Seq(Link) /\ Len(link') = Len(link)
      BY <1>0, <1>6, <2>2, LinkSet DEF Seated
    <2>4. seat' \in 0..Len(link) /\ superseded' \subseteq Links
      BY <1>0, <1>6 DEF Seated, TakesSeat, ProxyTypeOK, Links
    <2>5. overtaken' \in BOOLEAN
      BY <1>6 DEF Seated, ProxyTypeOK
    <2> QED BY <1>6, <2>3, <2>4, <2>5 DEF Seated, ProxyTypeOK, Links
  <1>7. ASSUME NEW s \in Links, ReadsAnswer(s) PROVE ProxyTypeOK'
    <2>1. link[s].toBackend \in Seq(Frames) /\ link[s].toBackend # <<>>
      BY <1>0, <1>7, LinkParts DEF ReadsAnswer, Reads
    <2>2. link' \in Seq(Link) /\ Len(link') = Len(link)
      <3>1. Tail(link[s].toBackend) \in Seq(Frames)
        BY <2>1, QueueParts
      <3> QED BY <1>0, <1>7, <3>1, LinkParts, LinkSet DEF ReadsAnswer
    <2>3. request' \in [LLMRuns -> Call]
      <3>1. request \in [LLMRuns -> Call]
        BY DEF ProxyTypeOK
      <3>2. PICK answer \in {Head(link[s].toBackend)} :
                \/ Return(answer.run, "done") \/ Return(answer.run, "failed") \/ UNCHANGED request
        BY <1>7 DEF ReadsAnswer
      <3> QED BY <3>1, <3>2, ReturnTyped DEF Ended
    <2> QED BY <1>7, <2>2, <2>3 DEF ReadsAnswer, ProxyTypeOK, Links
  <1>9. ASSUME NEW r \in LLMRuns, CallProceeds(r) PROVE ProxyTypeOK'
    <2>1. CASE CallProxy(r)
      <3> DEFINE asked == [link[seat] EXCEPT !.toProxy = IF link[seat].up
                              THEN Append(@, [is |-> "request", run |-> r]) ELSE @]
      <3>1. seat \in Links /\ seat \in 0..MaxLinks
        BY <1>0, <2>1 DEF CallProxy, ProxyTypeOK, Links
      <3>2. asked \in Link
        <4>1. link[seat] \in Link /\ link[seat].toProxy \in Seq(Frames)
          BY <1>0, <3>1, LinkParts
        <4>2. Append(link[seat].toProxy, [is |-> "request", run |-> r]) \in Seq(Frames)
          BY <4>1, QueueParts DEF Frames
        <4> QED BY <4>1, <4>2 DEF Link
      <3>3. link' = [link EXCEPT ![seat] = asked]
        BY <2>1 DEF CallProxy
      <3> HIDE DEF asked
      <3>4. link' \in Seq(Link) /\ Len(link') = Len(link)
        BY <1>0, <3>1, <3>2, <3>3, LinkSet
      <3>5. request' \in [LLMRuns -> Call]
        BY <2>1, <3>1 DEF CallProxy, ProxyTypeOK, Call, Ended
      <3> QED BY <2>1, <3>4, <3>5 DEF CallProxy, ProxyTypeOK, Links
    <2>2. CASE ~CallProxy(r)
      <3>1. UNCHANGED <<seat, link, working, embedded, superseded, overtaken>>
        BY <1>9, <2>2 DEF CallProceeds, ResolveClient, CallDirectly, LocalAnswer, CallTimesOut, NextCall
      <3>2. request' \in [LLMRuns -> Call]
        <4>1. request \in [LLMRuns -> Call]
          BY DEF ProxyTypeOK
        <4>2. CASE ResolveClient(r)
          <5> DEFINE client == seat = 0 /\ embedded
          <5>1. client \in BOOLEAN
            OBVIOUS
          <5>2. PICK at \in {"failed", "resolved"} :
                    request' = [request EXCEPT ![r].at = at, ![r].client = client]
            BY <4>2 DEF ResolveClient
          <5> HIDE DEF client
          <5>3. [request[r] EXCEPT !.at = at, !.client = client] \in Call
            BY <4>1, <5>1 DEF Call, Ended
          <5> QED BY <4>1, <5>2, <5>3
        <4>3. CASE NextCall(r)
          BY <4>1, <4>3 DEF NextCall, Call, Ended
        <4>4. CASE CallDirectly(r)
          BY <4>1, <4>4, ReturnTyped DEF CallDirectly, Ended
        <4>5. CASE LocalAnswer(r)
          BY <4>1, <4>5, ReturnTyped DEF LocalAnswer
        <4>6. CASE CallTimesOut(r)
          BY <4>1, <4>6, ReturnTyped DEF CallTimesOut, Ended
        <4> QED BY <1>9, <2>2, <4>2, <4>3, <4>4, <4>5, <4>6 DEF CallProceeds
      <3> QED BY <3>1, <3>2 DEF ProxyTypeOK, Links
    <2> QED BY <2>1, <2>2
  <1> QED BY <1>1, <1>2, <1>3, <1>4, <1>5, <1>6, <1>7, <1>8, <1>9 DEF ProxyNext, LinkProceeds, proxyVars, ProxyTypeOK, Links

\* A waiting call has a connection; with WaitsForTheSeat this is inductive.
CallsHaveLinks == \A r \in LLMRuns : request[r].at = "waiting" => request[r].via # 0
ProxyInv == ProxyTypeOK /\ CallsHaveLinks /\ WaitsForTheSeat

\* A step that leaves the seat and what lost it alone, and lets a call wait only
\* for the one that has the seat.
LEMMA SeatStays ==
    ASSUME ProxyInv, UNCHANGED seat, superseded' = superseded,
           \A r \in LLMRuns : request'[r].at = "waiting" =>
               \/ request'[r].via = seat /\ seat # 0
               \/ request[r].at = "waiting" /\ request'[r].via = request[r].via
    PROVE  (CallsHaveLinks /\ WaitsForTheSeat)'
  BY DEF ProxyInv, CallsHaveLinks, WaitsForTheSeat

\* Who loses the seat to another connection is among those that lost it.
LEMMA SeatTaken ==
    ASSUME ProxyInv, NEW s \in Links, TakesSeat(s), UNCHANGED request
    PROVE  (CallsHaveLinks /\ WaitsForTheSeat)'
  BY DEF ProxyInv, CallsHaveLinks, WaitsForTheSeat, TakesSeat

\* The end of a connection leaves no call waiting for it that had the seat.
LEMMA SeatFreed ==
    ASSUME ProxyInv, NEW s \in Links, SocketGone(s)
    PROVE  (CallsHaveLinks /\ WaitsForTheSeat)'
  <1>1. superseded' = superseded
    BY DEF SocketGone
  <1>2. CASE seat = s /\ seat' = 0 /\ FailPending(s)
    <2>1. ASSUME NEW r \in LLMRuns, request'[r].at = "waiting"
          PROVE  request[r].at = "waiting" /\ request'[r] = request[r] /\ request[r].via # s
      <3>1. request[r] \in Call
        BY DEF ProxyInv, ProxyTypeOK
      <3>2. request'[r] = IF r \in Owned(s) THEN [request[r] EXCEPT !.at = "failed", !.via = 0] ELSE request[r]
        BY <1>2 DEF FailPending
      <3>3. r \notin Owned(s)
        BY <2>1, <3>1, <3>2 DEF Call
      <3> QED BY <2>1, <3>2, <3>3 DEF Owned
    <2> QED BY <1>1, <1>2, <2>1 DEF ProxyInv, CallsHaveLinks, WaitsForTheSeat
  <1>3. CASE UNCHANGED <<seat, request>>
    BY <1>1, <1>3, SeatStays
  <1> QED BY <1>2, <1>3 DEF SocketGone

\* A call that ends, or is not being waited for, is not waiting.
LEMMA CallsProceed ==
    ASSUME ProxyInv, NEW s, NEW r, ReadsAnswer(s) \/ (r \in LLMRuns /\ CallProceeds(r))
    PROVE  (CallsHaveLinks /\ WaitsForTheSeat)'
  <1>1. UNCHANGED seat /\ superseded' = superseded
    BY DEF ReadsAnswer, CallProceeds, ResolveClient, CallProxy, CallDirectly, LocalAnswer, CallTimesOut, NextCall
  <1>2. request \in [LLMRuns -> Call]
    BY DEF ProxyInv, ProxyTypeOK
  <1>3. ASSUME NEW q \in LLMRuns, request'[q].at = "waiting"
        PROVE  \/ request'[q].via = seat /\ seat # 0
               \/ request[q].at = "waiting" /\ request'[q].via = request[q].via
    <2>1. request[q] \in Call
      BY <1>2
    <2>2. CASE ReadsAnswer(s)
      <3>1. PICK answer \in {Head(link[s].toBackend)} :
                \/ Return(answer.run, "done") \/ Return(answer.run, "failed") \/ UNCHANGED request
        BY <2>2 DEF ReadsAnswer
      <3> QED BY <1>2, <1>3, <2>1, <3>1 DEF Return, Call
    <2>3. CASE CallProxy(r)
      BY <1>2, <1>3, <2>1, <2>3 DEF CallProxy, Call
    <2>4. CASE CallDirectly(r) \/ LocalAnswer(r) \/ CallTimesOut(r)
      <3>1. PICK at \in Ended \cup {"local"} : Return(r, at)
        BY <2>4 DEF CallDirectly, LocalAnswer, CallTimesOut, Ended
      <3> QED BY <1>2, <1>3, <2>1, <3>1 DEF Return, Call, Ended
    <2>5. CASE ResolveClient(r) \/ NextCall(r)
      BY <1>2, <1>3, <2>1, <2>5 DEF ResolveClient, NextCall, Call
    <2> QED BY <2>2, <2>3, <2>4, <2>5 DEF CallProceeds
  <1> QED BY <1>1, <1>3, SeatStays

-----------------------------------------------------------------------------
\* Every variable of the seat keeps its type: the seat and what lost it are
\* connections there are, and every frame is one a peer sends.
THEOREM ProxyTypeCorrect == ProxySpec => []ProxyTypeOK
  <1>1. ProxyInit => ProxyTypeOK
    BY ProxyTypeInit
  <1> QED BY <1>1, ProxyTypeInductive, PTL DEF ProxySpec

\* No call is left to wait for nobody: it waits for the proxy in the seat, or for
\* one that lost the seat to another.
THEOREM CallsAwaitTheSeat == ProxySpec => []WaitsForTheSeat
  <1>1. ProxyInit => ProxyInv
    BY ProxyTypeInit DEF ProxyInit, ProxyInv, CallsHaveLinks, WaitsForTheSeat
  <1>2. ASSUME ProxyInv, [ProxyNext]_proxyVars PROVE ProxyInv'
    <2>1. ProxyTypeOK'
      BY <1>2, ProxyTypeInductive DEF ProxyInv
    <2>2. (CallsHaveLinks /\ WaitsForTheSeat)'
      <3>1. CASE UNCHANGED proxyVars
        BY <1>2, <3>1, SeatStays DEF proxyVars
      <3>2. ASSUME NEW p \in Proxies, Connect(p) PROVE (CallsHaveLinks /\ WaitsForTheSeat)'
        BY <1>2, <3>2, SeatStays DEF Connect
      <3>3. ASSUME NEW s \in Links, ProxyReads(s) \/ ProxyLost(s) PROVE (CallsHaveLinks /\ WaitsForTheSeat)'
        BY <1>2, <3>3, SeatStays DEF ProxyReads, ProxyLost
      <3>4. ASSUME NEW s \in Links, NEW r \in LLMRuns, ProxyAnswers(s, r)
            PROVE  (CallsHaveLinks /\ WaitsForTheSeat)'
        BY <1>2, <3>4, SeatStays DEF ProxyAnswers
      <3>5. ASSUME NEW s \in Links, ReadsJoin(s) \/ Seated(s) PROVE (CallsHaveLinks /\ WaitsForTheSeat)'
        BY <1>2, <3>5, SeatStays, SeatTaken DEF ReadsJoin, Seated
      <3>6. ASSUME NEW s \in Links, SocketGone(s) PROVE (CallsHaveLinks /\ WaitsForTheSeat)'
        BY <1>2, <3>6, SeatFreed
      <3>7. ASSUME NEW s \in Links, ReadsAnswer(s) PROVE (CallsHaveLinks /\ WaitsForTheSeat)'
        BY <1>2, <3>7, CallsProceed
      <3>8. ASSUME NEW r \in LLMRuns, CallProceeds(r) PROVE (CallsHaveLinks /\ WaitsForTheSeat)'
        BY <1>2, <3>8, CallsProceed
      <3> QED BY <1>2, <3>1, <3>2, <3>3, <3>4, <3>5, <3>6, <3>7, <3>8 DEF ProxyNext, LinkProceeds
    <2> QED BY <2>1, <2>2 DEF ProxyInv
  <1>3. ProxyInv => WaitsForTheSeat
    BY DEF ProxyInv
  <1> QED BY <1>1, <1>2, <1>3, PTL DEF ProxySpec

-----------------------------------------------------------------------------
(* Induction *)

\* Induction on the naturals, for a set: if it has 0 and the successor of each of
\* its numbers, it has them all.
LEMMA SetInduction ==
    ASSUME NEW S, 0 \in S, \A n \in Nat : n \in S => n + 1 \in S
    PROVE  Nat \subseteq S
<1> DEFINE T == Nat \ S
           less == OpToRel(<, Nat)
<1>1. SUFFICES ASSUME T # {} PROVE FALSE
  OBVIOUS
<1>2. IsWellFoundedOn(less, Nat)
  BY NatLessThanWellFounded, Zenon
<1> HIDE DEF less
<1>3. PICK n \in T : \A k \in T : ~ (<<k, n>> \in less)
  BY <1>1, <1>2, WFMin
<1>4. n \in Nat /\ n # 0 /\ n \notin S
  BY <1>3
<1>5. n - 1 \in Nat /\ n - 1 < n /\ (n - 1) + 1 = n
  BY <1>4
<1>6. <<n - 1, n>> \in less
  BY <1>4, <1>5 DEF less, OpToRel
<1>7. n - 1 \in S
  BY <1>3, <1>5, <1>6
<1> QED
  BY <1>4, <1>5, <1>7

\* A set of naturals with a member has a least one.
LEMMA LeastMember ==
    ASSUME NEW S, S \subseteq Nat, S # {}
    PROVE  Min(S) \in S /\ \A n \in S : Min(S) <= n
<1> DEFINE less == OpToRel(<, Nat)
<1>1. IsWellFoundedOn(less, Nat)
  BY NatLessThanWellFounded, Zenon
<1> HIDE DEF less
<1>2. PICK n \in S : \A k \in S : ~ (<<k, n>> \in less)
  BY <1>1, WFMin
<1>3. ASSUME NEW k \in S PROVE n <= k
  <2>1. k \in Nat /\ n \in Nat
    OBVIOUS
  <2>2. ~ (k < n)
    BY <1>2, <2>1 DEF less, OpToRel
  <2> QED
    BY <2>1, <2>2
<1> QED
  BY <1>2, <1>3 DEF Min

-----------------------------------------------------------------------------
(* The history: what Paired leaves of a list of messages *)

\* A list that begins with a human's words.
OpensWithHuman(m) == m # <<>> /\ m[1].role = "user" /\ m[1].text

\* The i-th message as Paired leaves it after the ones before it, and the list
\* with it, when anything of it is left.
Pruned(m, i, before) ==
    [m[i] EXCEPT !.tool = @ /\ (\/ m[i].role = "assistant" /\ Answered(m, i)
                                \/ m[i].role = "user" /\ Answers(before, m[i]))]
Extended(m, i, before) ==
    IF Pruned(m, i, before).text \/ Pruned(m, i, before).tool
    THEN Append(before, Pruned(m, i, before)) ELSE before
Pairing(m, out) == [i \in 0..Len(m) |-> IF i = 0 THEN <<>> ELSE Extended(m, i, out[i-1])]

\* The recursive function of Paired exists: up to each n there is one, which the
\* next place extends.
LEMMA PairingExists ==
    ASSUME NEW m, Len(m) \in Nat
    PROVE  \E out : out = Pairing(m, out) /\ Paired(m) = out[Len(m)]
<1> DEFINE Upto(n, f) == [i \in 0..n |-> IF i = 0 THEN <<>> ELSE Extended(m, i, f[i-1])]
           S == {n \in Nat : \E f : f = Upto(n, f)}
<1>1. 0 \in S
  <2>1. [i \in 0..0 |-> <<>>] = Upto(0, [i \in 0..0 |-> <<>>])
    OBVIOUS
  <2> QED
    BY <2>1
<1>2. ASSUME NEW n \in Nat, n \in S PROVE n + 1 \in S
  <2>1. PICK f : f = Upto(n, f)
    BY <1>2
  <2> DEFINE g == [i \in 0..n+1 |-> IF i <= n THEN f[i] ELSE Extended(m, i, f[n])]
  <2>2. ASSUME NEW i \in 0..n+1
        PROVE  g[i] = IF i = 0 THEN <<>> ELSE Extended(m, i, g[i-1])
    <3>1. CASE i = 0
      BY <2>1, <3>1
    <3>2. CASE i # 0 /\ i <= n
      <4>1. i \in 0..n /\ i - 1 \in 0..n /\ i - 1 <= n /\ i - 1 \in 0..n+1
        BY <3>2
      <4>2. g[i] = f[i] /\ g[i-1] = f[i-1]
        BY <3>2, <4>1
      <4> QED
        BY <2>1, <3>2, <4>1, <4>2
    <3>3. CASE i = n + 1
      <4>1. i # 0 /\ ~ (i <= n) /\ i - 1 = n /\ n <= n /\ n \in 0..n+1
        BY <3>3
      <4>2. g[n] = f[n]
        BY <4>1
      <4> QED
        BY <4>1, <4>2
    <3> QED
      BY <3>1, <3>2, <3>3
  <2>3. g = Upto(n + 1, g)
    BY <2>2
  <2> HIDE DEF g
  <2>4. \E h : h = Upto(n + 1, h)
    BY <2>3
  <2> QED
    BY <2>4
<1>3. Len(m) \in S
  BY <1>1, <1>2, SetInduction
<1>4. PICK f : f = Pairing(m, f)
  BY <1>3 DEF Pairing
<1> DEFINE out == CHOOSE h : h = Pairing(m, h)
<1>5. out = Pairing(m, out)
  BY <1>4
<1>6. Paired(m) = out[Len(m)]
  BY DEF Paired, Pairing, Extended, Pruned
<1> QED
  BY <1>5, <1>6

\* A message that calls tools, and one that has results of calls.
IsCall(x) == x.role = "assistant" /\ x.tool
IsResult(x) == x.role = "user" /\ x.tool

\* A message keeps everything but a tool block that has lost its counterpart.
LEMMA PrunedFields ==
    ASSUME NEW m \in Seq(Messages), NEW i \in 1..Len(m), NEW before
    PROVE  LET x == Pruned(m, i, before) IN
           /\ x \in Messages
           /\ x.role = m[i].role /\ x.id = m[i].id /\ x.text = m[i].text
           /\ IsCall(x) <=> IsCall(m[i]) /\ Answered(m, i)
           /\ IsResult(x) <=> IsResult(m[i]) /\ Answers(before, m[i])
<1> DEFINE kept == \/ m[i].role = "assistant" /\ Answered(m, i)
                   \/ m[i].role = "user" /\ Answers(before, m[i])
           x == [m[i] EXCEPT !.tool = @ /\ kept]
<1>1. Pruned(m, i, before) = x
  BY DEF Pruned
<1>2. m[i] \in Messages
  BY ElementOfSeq
<1>3. (m[i].tool /\ kept) \in BOOLEAN
  OBVIOUS
<1> HIDE DEF kept
<1>4. x \in Messages /\ x.role = m[i].role /\ x.id = m[i].id /\ x.text = m[i].text
      /\ x.tool = (m[i].tool /\ kept)
  BY <1>2, <1>3 DEF Messages
<1>5. m[i].role \in {"user", "assistant"}
  BY <1>2 DEF Messages
<1>6. IsCall(x) <=> IsCall(m[i]) /\ Answered(m, i)
  BY <1>4, <1>5 DEF IsCall, kept
<1>7. IsResult(x) <=> IsResult(m[i]) /\ Answers(before, m[i])
  BY <1>4, <1>5 DEF IsResult, kept
<1> QED
  BY <1>1, <1>4, <1>6, <1>7

\* A list in which no tool block has lost its counterpart, but for a call that
\* may still come last.
Linked(o) ==
    \A j \in 1..Len(o) :
       /\ o[j].text \/ o[j].tool
       /\ IsResult(o[j]) => j > 1 /\ IsCall(o[j-1]) /\ o[j-1].id = o[j].id
       /\ IsCall(o[j]) => j = Len(o) \/ Answered(o, j)

\* A call that comes last is the i-th of m, and the next of m is its result.
LastPending(o, m, i) ==
    o # <<>> /\ IsCall(Last(o)) => i >= 1 /\ Last(o).id = m[i].id /\ Answered(m, i)

\* One message more keeps the tool blocks linked: the result of a pending call is
\* kept, and a result is kept only behind its call.
LEMMA ExtendedLinked ==
    ASSUME NEW m \in Seq(Messages), NEW i \in 0..Len(m) - 1, NEW o \in Seq(Messages),
           Linked(o), LastPending(o, m, i)
    PROVE  LET e == Extended(m, i + 1, o) IN
           e \in Seq(Messages) /\ Linked(e) /\ LastPending(e, m, i + 1)
<1> DEFINE x == Pruned(m, i + 1, o)
<1>0. i \in Nat /\ Len(m) \in Nat /\ i + 1 \in 1..Len(m) /\ Len(o) \in Nat
      /\ m[i+1] \in Messages
  BY ElementOfSeq
<1>1. /\ x \in Messages
      /\ x.role = m[i+1].role /\ x.id = m[i+1].id /\ x.text = m[i+1].text
      /\ IsCall(x) <=> IsCall(m[i+1]) /\ Answered(m, i + 1)
      /\ IsResult(x) <=> IsResult(m[i+1]) /\ Answers(o, m[i+1])
  BY <1>0, PrunedFields
<1>2. o # <<>> /\ IsCall(Last(o)) => IsResult(x) /\ x.id = Last(o).id
  <2> SUFFICES ASSUME o # <<>>, IsCall(Last(o)) PROVE IsResult(x) /\ x.id = Last(o).id
    OBVIOUS
  <2>1. Answered(m, i) /\ Last(o).id = m[i].id
    BY DEF LastPending
  <2>2. IsResult(m[i+1]) /\ m[i+1].id = Last(o).id
    BY <2>1 DEF Answered, IsResult
  <2>3. Answers(o, m[i+1])
    BY <2>2 DEF Answers, IsCall
  <2> QED
    BY <1>1, <2>2, <2>3
<1> HIDE DEF x
<1>3. CASE ~ (x.text \/ x.tool)
  <2>1. Extended(m, i + 1, o) = o
    BY <1>3 DEF Extended, x
  <2>2. ~ (o # <<>> /\ IsCall(Last(o)))
    BY <1>2, <1>3 DEF IsResult
  <2> QED
    BY <2>1, <2>2 DEF LastPending
<1>4. CASE x.text \/ x.tool
  <2> DEFINE e == Append(o, x)
  <2>1. Extended(m, i + 1, o) = e
    BY <1>4 DEF Extended, x
  <2>2. /\ e \in Seq(Messages) /\ e # <<>> /\ Len(e) = Len(o) + 1
        /\ \A j \in 1..Len(o) : e[j] = o[j]
        /\ e[Len(o)+1] = x
    BY <1>1, AppendProperties
  <2> HIDE DEF e
  <2>3. Last(e) = x
    BY <2>2 DEF Last
  <2>4. LastPending(e, m, i + 1)
    BY <1>0, <1>1, <2>3 DEF LastPending
  <2>5. ASSUME NEW j \in 1..Len(e)
        PROVE  /\ e[j].text \/ e[j].tool
               /\ IsResult(e[j]) => j > 1 /\ IsCall(e[j-1]) /\ e[j-1].id = e[j].id
               /\ IsCall(e[j]) => j = Len(e) \/ Answered(e, j)
    <3>1. CASE j = Len(o) + 1
      <4>1. e[j] = x /\ j = Len(e)
        BY <2>2, <3>1
      <4>2. ASSUME IsResult(x) PROVE j > 1 /\ IsCall(e[j-1]) /\ e[j-1].id = x.id
        <5>1. o # <<>> /\ IsCall(Last(o)) /\ Last(o).id = x.id
          BY <1>1, <4>2 DEF Answers, IsCall
        <5>2. Len(o) \in 1..Len(o)
          BY <1>0, <5>1, EmptySeq
        <5>3. j - 1 = Len(o) /\ j > 1
          BY <1>0, <3>1, <5>2
        <5>4. e[j-1] = Last(o)
          BY <2>2, <5>2, <5>3 DEF Last
        <5> QED
          BY <5>1, <5>3, <5>4
      <4> QED
        BY <1>4, <4>1, <4>2
    <3>2. CASE j \in 1..Len(o)
      <4>1. e[j] = o[j] /\ (j > 1 => e[j-1] = o[j-1])
        BY <1>0, <2>2, <3>2
      <4>2. IsResult(e[j]) => j > 1 /\ IsCall(e[j-1]) /\ e[j-1].id = e[j].id
        BY <3>2, <4>1 DEF Linked
      <4>3. ASSUME IsCall(e[j]) PROVE Answered(e, j)
        <5>1. CASE j = Len(o)
          <6>1. o # <<>> /\ Last(o) = o[j]
            BY <1>0, <3>2, <5>1 DEF Last
          <6>2. IsResult(x) /\ x.id = e[j].id
            BY <1>2, <4>1, <4>3, <6>1
          <6>3. j < Len(e) /\ e[j+1] = x
            BY <1>0, <2>2, <5>1
          <6> QED
            BY <6>2, <6>3 DEF Answered, IsResult
        <5>2. CASE j # Len(o)
          <6>1. Answered(o, j)
            BY <3>2, <4>1, <4>3, <5>2 DEF Linked
          <6>2. j < Len(e) /\ j + 1 \in 1..Len(o) /\ e[j+1] = o[j+1]
            BY <1>0, <2>2, <3>2, <5>2
          <6> QED
            BY <4>1, <6>1, <6>2 DEF Answered
        <5> QED
          BY <5>1, <5>2
      <4> QED
        BY <3>2, <4>1, <4>2, <4>3 DEF Linked
    <3> QED
      BY <1>0, <2>2, <3>1, <3>2
  <2>6. Linked(e)
    BY <2>5 DEF Linked
  <2> QED
    BY <2>1, <2>2, <2>4, <2>6
<1> QED
  BY <1>3, <1>4

\* Paired leaves a list with every call followed by its result, every result
\* preceded by its call, and no message without anything in it.
LEMMA PairedLinked ==
    ASSUME NEW m \in Seq(Messages)
    PROVE  /\ Paired(m) \in Seq(Messages) /\ Linked(Paired(m))
           /\ \A j \in 1..Len(Paired(m)) : IsCall(Paired(m)[j]) => Answered(Paired(m), j)
<1>0. Len(m) \in Nat
  BY LenProperties
<1>1. PICK out : out = Pairing(m, out) /\ Paired(m) = out[Len(m)]
  BY <1>0, PairingExists
<1> DEFINE Good(i) == out[i] \in Seq(Messages) /\ Linked(out[i]) /\ LastPending(out[i], m, i)
           S == {i \in Nat : i <= Len(m) => Good(i)}
<1>2. 0 \in S
  <2>1. out[0] = <<>>
    BY <1>0, <1>1 DEF Pairing
  <2>2. <<>> \in Seq(Messages) /\ Linked(<<>>)
    BY EmptySeq DEF Linked
  <2>3. LastPending(<<>>, m, 0)
    BY DEF LastPending
  <2> QED
    BY <2>1, <2>2, <2>3
<1>3. ASSUME NEW i \in Nat, i \in S PROVE i + 1 \in S
  <2>1. SUFFICES ASSUME i + 1 <= Len(m) PROVE Good(i + 1)
    OBVIOUS
  <2>2. i \in 0..Len(m) - 1 /\ i + 1 \in 0..Len(m) /\ i + 1 # 0 /\ (i + 1) - 1 = i
    BY <1>0, <2>1
  <2>3. Good(i)
    BY <1>0, <1>3, <2>2
  <2>4. out[i+1] = Extended(m, i + 1, out[i])
    BY <1>1, <2>2 DEF Pairing
  <2> QED
    BY <2>2, <2>3, <2>4, ExtendedLinked
<1>4. Len(m) \in S
  BY <1>0, <1>2, <1>3, SetInduction
<1> DEFINE p == Paired(m)
<1>5. p \in Seq(Messages) /\ Linked(p) /\ LastPending(p, m, Len(m))
  BY <1>0, <1>1, <1>4
<1> HIDE DEF p
<1>6. ASSUME NEW j \in 1..Len(p), IsCall(p[j]) PROVE Answered(p, j)
  <2>1. CASE j = Len(p)
    <3>1. p # <<>> /\ IsCall(Last(p))
      BY <1>5, <1>6, <2>1, EmptySeq DEF Last
    <3>2. Answered(m, Len(m))
      BY <1>5, <3>1 DEF LastPending
    <3> QED
      BY <1>0, <3>2 DEF Answered
  <2>2. CASE j # Len(p)
    BY <1>5, <1>6, <2>2 DEF Linked
  <2> QED
    BY <2>1, <2>2
<1> QED
  BY <1>5, <1>6 DEF p

\* What RequestWellFormed says of the messages of one request.
WellFormed(m) ==
    \A i \in DOMAIN m :
       /\ i = 1 => m[i].role = "user" /\ ~m[i].tool
       /\ m[i].role = "assistant" /\ m[i].tool => Answered(m, i)
       /\ m[i].role = "user" /\ m[i].tool => Answers(SubSeq(m, 1, i-1), m[i])
       /\ m[i].text \/ m[i].tool

\* The first message of a user with text of its own, which Strip looks for: it is
\* in its place, and it is the first of all when the list begins with such a one.
LEMMA FirstUserText ==
    ASSUME NEW m \in Seq(Messages)
    PROVE  LET first == SelectInSeq(m, LAMBDA x : x.role = "user" /\ x.text) IN
           /\ first \in 0..Len(m)
           /\ first # 0 => m[first].role = "user" /\ m[first].text
           /\ m # <<>> /\ m[1].role = "user" /\ m[1].text => first = 1
<1> DEFINE I == {i \in 1..Len(m) : m[i].role = "user" /\ m[i].text}
           first == IF I # {} THEN Min(I) ELSE 0
<1>0. Len(m) \in Nat /\ (m # <<>> => 1 \in 1..Len(m))
  BY LenProperties, EmptySeq
<1>1. SelectInSeq(m, LAMBDA x : x.role = "user" /\ x.text) = first
  BY DEF SelectInSeq
<1>2. ASSUME I # {} PROVE first \in I /\ \A i \in I : first <= i
  <2>1. I \subseteq Nat
    OBVIOUS
  <2>2. Min(I) \in I /\ \A i \in I : Min(I) <= i
    BY <1>2, <2>1, LeastMember
  <2> QED
    BY <1>2, <2>2
<1>3. first \in 0..Len(m)
  BY <1>0, <1>2
<1>4. first # 0 => m[first].role = "user" /\ m[first].text
  BY <1>2
<1>5. ASSUME m # <<>>, m[1].role = "user", m[1].text PROVE first = 1
  <2>1. 1 \in I
    BY <1>0, <1>5
  <2>2. first \in I /\ first <= 1
    BY <1>2, <2>1
  <2> QED
    BY <1>0, <2>2
<1> QED
  BY <1>1, <1>3, <1>4, <1>5

\* The same of the first message of a user, which fit_token_budget looks for.
LEMMA FirstUser ==
    ASSUME NEW m \in Seq(Messages)
    PROVE  LET first == SelectInSeq(m, LAMBDA x : x.role = "user") IN
           /\ first \in 0..Len(m)
           /\ m # <<>> /\ m[1].role = "user" => first = 1
<1> DEFINE I == {i \in 1..Len(m) : m[i].role = "user"}
           first == IF I # {} THEN Min(I) ELSE 0
<1>0. Len(m) \in Nat /\ (m # <<>> => 1 \in 1..Len(m))
  BY LenProperties, EmptySeq
<1>1. SelectInSeq(m, LAMBDA x : x.role = "user") = first
  BY DEF SelectInSeq
<1>2. ASSUME I # {} PROVE first \in I /\ \A i \in I : first <= i
  <2>1. I \subseteq Nat
    OBVIOUS
  <2>2. Min(I) \in I /\ \A i \in I : Min(I) <= i
    BY <1>2, <2>1, LeastMember
  <2> QED
    BY <1>2, <2>2
<1>3. first \in 0..Len(m)
  BY <1>0, <1>2
<1>4. ASSUME m # <<>>, m[1].role = "user" PROVE first = 1
  <2>1. 1 \in I
    BY <1>0, <1>4
  <2>2. first \in I /\ first <= 1
    BY <1>2, <2>1
  <2> QED
    BY <1>0, <2>2
<1> QED
  BY <1>1, <1>3, <1>4

\* What is left of a list from its i-th place.
LEMMA FromPlaces ==
    ASSUME NEW m \in Seq(Messages), NEW i \in 1..Len(m) + 1
    PROVE  /\ From(m, i) \in Seq(Messages)
           /\ Len(From(m, i)) = Len(m) - i + 1
           /\ \A j \in 1..Len(m) - i + 1 : From(m, i)[j] = m[i + j - 1]
<1>1. Len(m) \in Nat /\ i \in Int /\ Len(m) \in Int /\ i >= 1
  BY LenProperties
<1>2. \A j \in i..Len(m) : m[j] \in Messages
  BY <1>1, ElementOfSeq
<1> QED
  BY <1>1, <1>2, SubSeqProperties DEF From

\* What a budget leaves is a list of messages; nothing is cut from a list that
\* begins with a user's message and is kept whole.
LEMMA FitPlaces ==
    ASSUME NEW m \in Seq(Messages), NEW start \in 1..Len(m)
    PROVE  /\ Fit(m, start) \in Seq(Messages)
           /\ start = 1 /\ m[1].role = "user" => Fit(m, start) = m
<1> DEFINE kept == From(m, start)
           user == SelectInSeq(kept, LAMBDA x : x.role = "user")
<1>0. Len(m) \in Nat /\ start \in 1..Len(m) + 1
  BY LenProperties
<1>1. kept \in Seq(Messages)
  BY <1>0, FromPlaces
<1>2. /\ Len(kept) \in Nat
      /\ user \in 0..Len(kept)
      /\ kept # <<>> /\ kept[1].role = "user" => user = 1
  BY <1>1, FirstUser, LenProperties
<1>3. Fit(m, start) = IF user = 0 THEN <<>> ELSE From(kept, user)
  BY DEF Fit
<1>4. ASSUME start = 1, m[1].role = "user" PROVE kept = m /\ user = 1
  <2>1. kept = m
    BY <1>4, SubSeqFull DEF From
  <2>2. m # <<>>
    BY <1>0, EmptySeq
  <2> QED
    BY <1>2, <1>4, <2>1, <2>2
<1> HIDE DEF kept, user
<1>5. user # 0 => From(kept, user) \in Seq(Messages)
  <2>1. user # 0 => user \in 1..Len(kept) + 1
    BY <1>2
  <2> QED
    BY <1>1, <2>1, FromPlaces
<1>6. Fit(m, start) \in Seq(Messages)
  BY <1>3, <1>5, EmptySeq
<1>7. ASSUME start = 1, m[1].role = "user" PROVE Fit(m, start) = m
  <2>1. From(m, 1) = m
    BY SubSeqFull DEF From
  <2> QED
    BY <1>3, <1>4, <1>7, <2>1
<1> QED
  BY <1>6, <1>7

\* Strip keeps the first user's text and everything Paired left behind it.
LEMMA StripPlaces ==
    ASSUME NEW m \in Seq(Messages)
    PROVE  \/ Strip(m) = <<>> /\ ~ OpensWithHuman(Paired(m))
           \/ \E first \in 1..Len(Paired(m)) :
                 LET p == Paired(m)
                     s == Strip(m)
                 IN  /\ s \in Seq(Messages) /\ s # <<>>
                     /\ Len(s) = Len(p) - first + 1
                     /\ s[1].role = "user" /\ s[1].text /\ ~s[1].tool /\ s[1].id = p[first].id
                     /\ p[first].role = "user" /\ p[first].text
                     /\ \A j \in 2..Len(s) : s[j] = p[first + j - 1]
                     /\ OpensWithHuman(p) => first = 1
<1> DEFINE p == Paired(m)
           first == SelectInSeq(p, LAMBDA x : x.role = "user" /\ x.text)
           head == [p[first] EXCEPT !.tool = FALSE]
           rest == From(p, first + 1)
<1>0. p \in Seq(Messages) /\ Len(p) \in Nat
  BY PairedLinked, LenProperties
<1>1. /\ first \in 0..Len(p)
      /\ first # 0 => p[first].role = "user" /\ p[first].text
      /\ OpensWithHuman(p) => first = 1
  BY <1>0, FirstUserText DEF OpensWithHuman
<1>2. Strip(m) = IF first = 0 THEN <<>> ELSE <<head>> \o rest
  BY DEF Strip
<1> HIDE DEF p, first
<1>3. CASE first = 0
  BY <1>1, <1>2, <1>3 DEF p
<1>4. CASE first # 0
  <2>1. first \in 1..Len(p) /\ first + 1 \in 1..Len(p) + 1
    BY <1>0, <1>1, <1>4
  <2>2. p[first] \in Messages
    BY <1>0, <2>1, ElementOfSeq
  <2>3. /\ head \in Messages /\ head.role = "user" /\ head.text /\ ~head.tool
        /\ head.id = p[first].id
    BY <1>1, <1>4, <2>2 DEF Messages
  <2>4. /\ rest \in Seq(Messages)
        /\ Len(rest) = Len(p) - (first + 1) + 1
        /\ \A j \in 1..Len(p) - (first + 1) + 1 : rest[j] = p[(first + 1) + j - 1]
    BY <1>0, <2>1, FromPlaces
  <2> HIDE DEF head, rest
  <2> DEFINE s == <<head>> \o rest
  <2>5. <<head>> \in Seq(Messages) /\ Len(<<head>>) = 1 /\ <<head>>[1] = head
    BY <2>3
  <2>6. /\ s \in Seq(Messages) /\ Len(s) = 1 + Len(rest)
        /\ \A j \in 1..1 + Len(rest) : s[j] = IF j <= 1 THEN <<head>>[j] ELSE rest[j - 1]
    BY <2>4, <2>5, ConcatProperties
  <2>7. Len(rest) \in Nat /\ Len(s) = Len(p) - first + 1
    BY <1>0, <2>1, <2>4, <2>6, LenProperties
  <2>8. s[1] = head /\ s # <<>>
    <3>1. 1 \in 1..1 + Len(rest) /\ 1 <= 1 /\ Len(s) # 0
      BY <2>6, <2>7
    <3> QED
      BY <2>5, <2>6, <3>1, EmptySeq
  <2>9. ASSUME NEW j \in 2..Len(s) PROVE s[j] = p[first + j - 1]
    <3>1. /\ j \in 1..1 + Len(rest) /\ ~ (j <= 1)
          /\ j - 1 \in 1..Len(p) - (first + 1) + 1
          /\ (first + 1) + (j - 1) - 1 = first + j - 1
      BY <1>0, <2>1, <2>4, <2>6, <2>7
    <3> QED
      BY <2>4, <2>6, <3>1
  <2>10. Strip(m) = s
    BY <1>2, <1>4
  <2> HIDE DEF s
  <2> QED
    BY <1>1, <1>4, <2>1, <2>3, <2>6, <2>7, <2>8, <2>9, <2>10 DEF p
<1> QED
  BY <1>3, <1>4

\* A request that has been stripped is well formed, whatever the messages were.
LEMMA StripWellFormed ==
    ASSUME NEW m \in Seq(Messages)
    PROVE  Strip(m) \in Seq(Messages) /\ WellFormed(Strip(m))
<1>1. CASE Strip(m) = <<>>
  BY <1>1, EmptySeq DEF WellFormed
<1>2. CASE Strip(m) # <<>>
  <2> DEFINE p == Paired(m)
             s == Strip(m)
  <2>0. /\ p \in Seq(Messages) /\ Linked(p)
        /\ \A j \in 1..Len(p) : IsCall(p[j]) => Answered(p, j)
    BY PairedLinked
  <2>1. PICK first \in 1..Len(p) :
           /\ s \in Seq(Messages)
           /\ Len(s) = Len(p) - first + 1
           /\ s[1].role = "user" /\ s[1].text /\ ~s[1].tool
           /\ p[first].role = "user" /\ p[first].text
           /\ \A j \in 2..Len(s) : s[j] = p[first + j - 1]
    BY <1>2, StripPlaces
  <2>2. Len(p) \in Nat /\ Len(s) \in Nat /\ DOMAIN s = 1..Len(s) /\ first \in Nat
    BY <2>0, <2>1, LenProperties
  <2> HIDE DEF p, s
  <2>3. ASSUME NEW i \in 2..Len(s)
        PROVE  /\ s[i].text \/ s[i].tool
               /\ IsCall(s[i]) => Answered(s, i)
               /\ IsResult(s[i]) => Answers(SubSeq(s, 1, i-1), s[i])
    <3> DEFINE k == first + i - 1
    <3>1. k \in 1..Len(p) /\ k \in 2..Len(p) /\ s[i] = p[k]
      BY <2>1, <2>2
    <3>2. s[i].text \/ s[i].tool
      BY <2>0, <3>1 DEF Linked
    <3>3. ASSUME IsCall(s[i]) PROVE Answered(s, i)
      <4>1. Answered(p, k)
        BY <2>0, <3>1, <3>3
      <4>2. k < Len(p)
        BY <4>1 DEF Answered
      <4>3. i + 1 \in 2..Len(s) /\ i < Len(s) /\ first + (i + 1) - 1 = k + 1
        BY <2>1, <2>2, <4>2
      <4>4. s[i+1] = p[first + (i + 1) - 1]
        BY <2>1, <4>3, Zenon
      <4>5. s[i+1] = p[k+1]
        BY <4>3, <4>4
      <4> QED
        BY <3>1, <4>1, <4>3, <4>5 DEF Answered
    <3>4. ASSUME IsResult(s[i]) PROVE Answers(SubSeq(s, 1, i-1), s[i])
      <4>1. IsCall(p[k-1]) /\ p[k-1].id = s[i].id
        BY <2>0, <3>1, <3>4 DEF Linked
      <4>2. i # 2
        <5>1. i = 2 => k - 1 = first
          BY <2>2
        <5> QED
          BY <2>1, <4>1, <5>1 DEF IsCall
      <4>3. i - 1 \in 2..Len(s) /\ first + (i - 1) - 1 = k - 1 /\ i - 1 \in Nat \ {0}
        BY <2>2, <4>2
      <4>4. s[i-1] = p[k-1]
        BY <2>1, <4>3
      <4> DEFINE b == SubSeq(s, 1, i-1)
      <4>5. Len(b) = i - 1 /\ b \in Seq(Messages) /\ b[i-1] = s[i-1]
        <5>1. \A j \in 1..i-1 : s[j] \in Messages
          BY <2>1, <2>2, ElementOfSeq
        <5>2. /\ b \in Seq(Messages) /\ Len(b) = IF 1 <= i-1 THEN (i-1)-1+1 ELSE 0
              /\ \A j \in 1..(i-1)-1+1 : b[j] = s[1+j-1]
          BY <4>3, <5>1, SubSeqProperties
        <5>3. (i-1)-1+1 = i-1 /\ 1 <= i-1 /\ 1+(i-1)-1 = i-1 /\ i-1 \in 1..i-1
          BY <4>3
        <5> QED
          BY <5>2, <5>3
      <4>6. b # <<>> /\ Last(b) = s[i-1]
        BY <4>3, <4>5, EmptySeq DEF Last
      <4> HIDE DEF b
      <4>7. Answers(b, s[i])
        BY <4>1, <4>4, <4>6 DEF Answers, IsCall
      <4> QED
        BY <4>7 DEF b
    <3> QED
      BY <3>2, <3>3, <3>4
  <2>4. ASSUME NEW i \in DOMAIN s
        PROVE  /\ i = 1 => s[i].role = "user" /\ ~s[i].tool
               /\ s[i].role = "assistant" /\ s[i].tool => Answered(s, i)
               /\ s[i].role = "user" /\ s[i].tool => Answers(SubSeq(s, 1, i-1), s[i])
               /\ s[i].text \/ s[i].tool
    <3>1. CASE i = 1
      BY <2>1, <3>1
    <3>2. CASE i # 1
      <4>1. i \in 2..Len(s)
        BY <2>2, <3>2
      <4> QED
        BY <2>3, <3>2, <4>1 DEF IsCall, IsResult
    <3> QED
      BY <3>1, <3>2
  <2>5. s \in Seq(Messages) /\ WellFormed(s)
    BY <2>1, <2>4 DEF WellFormed
  <2> QED
    BY <2>5 DEF s
<1> QED
  BY <1>1, <1>2

-----------------------------------------------------------------------------
(* The history: what a list of messages keeps of another *)

\* m has the text of the i-th message of s, and its call when the result of it
\* follows at once: with that result next to it, and the texts of both.
TextKept(m, s, i) ==
    s[i].text => \E j \in DOMAIN m : m[j].role = s[i].role /\ m[j].id = s[i].id /\ m[j].text
CallKept(m, s, i) ==
    IsCall(s[i]) /\ Answered(s, i) =>
       \E j \in DOMAIN m :
          /\ IsCall(m[j]) /\ m[j].id = s[i].id /\ Answered(m, j)
          /\ s[i].text => m[j].text
          /\ s[i+1].text => m[j+1].text
Conveys(m, s) == \A i \in DOMAIN s : TextKept(m, s, i) /\ CallKept(m, s, i)

\* What is kept of what is kept is kept.
LEMMA ConveysTransitive ==
    ASSUME NEW a, NEW b, NEW c, Conveys(a, b), Conveys(b, c)
    PROVE  Conveys(a, c)
<1> SUFFICES ASSUME NEW i \in DOMAIN c PROVE TextKept(a, c, i) /\ CallKept(a, c, i)
  BY DEF Conveys
<1>1. TextKept(b, c, i) /\ CallKept(b, c, i)
  BY DEF Conveys
<1>2. TextKept(a, c, i)
  <2> SUFFICES ASSUME c[i].text
               PROVE  \E j \in DOMAIN a : a[j].role = c[i].role /\ a[j].id = c[i].id /\ a[j].text
    BY DEF TextKept
  <2>1. PICK k \in DOMAIN b : b[k].role = c[i].role /\ b[k].id = c[i].id /\ b[k].text
    BY <1>1 DEF TextKept
  <2>2. TextKept(a, b, k)
    BY DEF Conveys
  <2> QED
    BY <2>1, <2>2 DEF TextKept
<1>3. CallKept(a, c, i)
  <2> SUFFICES ASSUME IsCall(c[i]), Answered(c, i)
               PROVE  \E j \in DOMAIN a :
                         /\ IsCall(a[j]) /\ a[j].id = c[i].id /\ Answered(a, j)
                         /\ c[i].text => a[j].text
                         /\ c[i+1].text => a[j+1].text
    BY DEF CallKept
  <2>1. PICK k \in DOMAIN b :
           /\ IsCall(b[k]) /\ b[k].id = c[i].id /\ Answered(b, k)
           /\ c[i].text => b[k].text
           /\ c[i+1].text => b[k+1].text
    BY <1>1 DEF CallKept
  <2>2. CallKept(a, b, k)
    BY DEF Conveys
  <2>3. PICK j \in DOMAIN a :
           /\ IsCall(a[j]) /\ a[j].id = b[k].id /\ Answered(a, j)
           /\ b[k].text => a[j].text
           /\ b[k+1].text => a[j+1].text
    BY <2>1, <2>2 DEF CallKept
  <2> QED
    BY <2>1, <2>3
<1> QED
  BY <1>2, <1>3

\* A list keeps the list at whose places it has the same messages, with more
\* text or without the results of the first.
LEMMA ConveysInPlace ==
    ASSUME NEW m \in Seq(Messages), NEW s \in Seq(Messages), Len(s) <= Len(m),
           \A i \in 1..Len(s) : /\ m[i].role = s[i].role /\ m[i].id = s[i].id
                                /\ s[i].text => m[i].text
                                /\ IsCall(s[i]) => IsCall(m[i])
                                /\ IsResult(s[i]) /\ i > 1 => IsResult(m[i])
    PROVE  Conveys(m, s)
<1>0. /\ Len(s) \in Nat /\ Len(m) \in Nat
      /\ DOMAIN s = 1..Len(s) /\ DOMAIN m = 1..Len(m)
  BY LenProperties
<1> SUFFICES ASSUME NEW i \in 1..Len(s) PROVE TextKept(m, s, i) /\ CallKept(m, s, i)
  BY <1>0 DEF Conveys
<1>1. i \in DOMAIN m
  BY <1>0
<1>2. TextKept(m, s, i)
  BY <1>1 DEF TextKept
<1>3. CallKept(m, s, i)
  <2> SUFFICES ASSUME IsCall(s[i]), Answered(s, i)
               PROVE  /\ IsCall(m[i]) /\ m[i].id = s[i].id /\ Answered(m, i)
                      /\ s[i].text => m[i].text
                      /\ s[i+1].text => m[i+1].text
    BY <1>1 DEF CallKept
  <2>1. i + 1 \in 1..Len(s) /\ i + 1 > 1 /\ i < Len(m)
    BY <1>0 DEF Answered
  <2>2. IsResult(s[i+1]) /\ s[i+1].id = s[i].id
    BY DEF Answered, IsResult
  <2>3. IsResult(m[i+1]) /\ m[i+1].id = m[i].id
    BY <2>1, <2>2
  <2> QED
    BY <2>1, <2>3 DEF Answered, IsResult
<1> QED
  BY <1>2, <1>3

\* How much of the first i messages of m Paired has kept when it has seen them:
\* all but the call it has just seen has its result already.
Keeping(o, m, i) ==
    /\ i = 0 => o = <<>>
    /\ i >= 1 /\ OpensWithHuman(m) => OpensWithHuman(o)
    /\ \A k \in 1..i :
          /\ TextKept(o, m, k)
          /\ k < i => CallKept(o, m, k)
          /\ k = i /\ IsCall(m[k]) /\ Answered(m, k) =>
                /\ o # <<>> /\ IsCall(Last(o)) /\ Last(o).id = m[k].id
                /\ m[k].text => Last(o).text

\* One message more takes nothing from what was kept: its text stays, and if it is
\* the result of the call before, the call now has its result.
LEMMA ExtendedKeeps ==
    ASSUME NEW m \in Seq(Messages), NEW i \in 0..Len(m) - 1, NEW o \in Seq(Messages),
           Keeping(o, m, i)
    PROVE  Extended(m, i + 1, o) \in Seq(Messages) /\ Keeping(Extended(m, i + 1, o), m, i + 1)
<1> DEFINE x == Pruned(m, i + 1, o)
           e == Extended(m, i + 1, o)
<1>0. i \in Nat /\ Len(m) \in Nat /\ i + 1 \in 1..Len(m) /\ Len(o) \in Nat
      /\ m[i+1] \in Messages /\ DOMAIN o = 1..Len(o)
  BY ElementOfSeq
<1>1. /\ x \in Messages
      /\ x.role = m[i+1].role /\ x.id = m[i+1].id /\ x.text = m[i+1].text
      /\ IsCall(x) <=> IsCall(m[i+1]) /\ Answered(m, i + 1)
      /\ IsResult(x) <=> IsResult(m[i+1]) /\ Answers(o, m[i+1])
  BY <1>0, PrunedFields
<1>2. e = IF x.text \/ x.tool THEN Append(o, x) ELSE o
  BY DEF Extended
<1> HIDE DEF x, e
<1>3. /\ Append(o, x) \in Seq(Messages) /\ Append(o, x) # <<>>
      /\ Len(Append(o, x)) = Len(o) + 1
      /\ \A j \in 1..Len(o) : Append(o, x)[j] = o[j]
      /\ Append(o, x)[Len(o)+1] = x
  BY <1>1, AppendProperties
<1>4. /\ e \in Seq(Messages) /\ Len(e) \in Nat /\ DOMAIN e = 1..Len(e) /\ Len(o) <= Len(e)
      /\ \A j \in 1..Len(o) : e[j] = o[j]
      /\ x.text \/ x.tool => Len(e) = Len(o) + 1 /\ e[Len(o)+1] = x /\ Last(e) = x /\ e # <<>>
  <2>1. e \in Seq(Messages) /\ Len(o) <= Len(e) /\ \A j \in 1..Len(o) : e[j] = o[j]
    BY <1>0, <1>2, <1>3
  <2>2. ASSUME x.text \/ x.tool
        PROVE  Len(e) = Len(o) + 1 /\ e[Len(o)+1] = x /\ Last(e) = x /\ e # <<>>
    BY <1>2, <1>3, <2>2 DEF Last
  <2> QED
    BY <2>1, <2>2, LenProperties
<1>5. /\ Len(o) <= Len(e) /\ Len(e) \in Nat
      /\ \A j \in DOMAIN o : j \in DOMAIN e /\ e[j] = o[j]
  <2>1. DOMAIN e = 1..Len(e) /\ Len(e) \in Nat /\ Len(o) <= Len(e)
    BY <1>4
  <2>2. ASSUME NEW j \in 1..Len(o) PROVE j \in 1..Len(e)
    BY <1>0, <2>1
  <2>3. \A j \in 1..Len(o) : e[j] = o[j]
    BY <1>4
  <2> QED
    BY <1>0, <2>1, <2>2, <2>3
<1>6. ASSUME NEW k \in 1..i, TextKept(o, m, k) PROVE TextKept(e, m, k)
  <2> SUFFICES ASSUME m[k].text
               PROVE  \E j \in DOMAIN e : e[j].role = m[k].role /\ e[j].id = m[k].id /\ e[j].text
    BY DEF TextKept
  <2>1. PICK j \in DOMAIN o : o[j].role = m[k].role /\ o[j].id = m[k].id /\ o[j].text
    BY <1>6 DEF TextKept
  <2>2. j \in DOMAIN e /\ e[j] = o[j]
    BY <1>5
  <2> QED
    BY <2>1, <2>2
<1>7. ASSUME NEW k \in 1..i, CallKept(o, m, k) PROVE CallKept(e, m, k)
  <2> SUFFICES ASSUME IsCall(m[k]), Answered(m, k)
               PROVE  \E j \in DOMAIN e :
                         /\ IsCall(e[j]) /\ e[j].id = m[k].id /\ Answered(e, j)
                         /\ m[k].text => e[j].text
                         /\ m[k+1].text => e[j+1].text
    BY DEF CallKept
  <2>1. PICK j \in DOMAIN o :
           /\ IsCall(o[j]) /\ o[j].id = m[k].id /\ Answered(o, j)
           /\ m[k].text => o[j].text
           /\ m[k+1].text => o[j+1].text
    BY <1>7 DEF CallKept
  <2>2. j < Len(o)
    BY <2>1 DEF Answered
  <2>3. j + 1 \in DOMAIN o /\ j < Len(e)
    BY <1>0, <1>5, <2>2
  <2>4. j \in DOMAIN e /\ e[j] = o[j] /\ e[j+1] = o[j+1]
    BY <1>5, <2>3
  <2> QED
    BY <2>1, <2>3, <2>4 DEF Answered
<1>8. ASSUME NEW k \in 1..i + 1
      PROVE  /\ TextKept(e, m, k)
             /\ k < i + 1 => CallKept(e, m, k)
             /\ k = i + 1 /\ IsCall(m[k]) /\ Answered(m, k) =>
                   /\ e # <<>> /\ IsCall(Last(e)) /\ Last(e).id = m[k].id
                   /\ m[k].text => Last(e).text
  <2>1. CASE k = i + 1
    <3>1. TextKept(e, m, k)
      <4> SUFFICES ASSUME m[k].text
                   PROVE  \E j \in DOMAIN e : e[j].role = m[k].role /\ e[j].id = m[k].id /\ e[j].text
        BY DEF TextKept
      <4>1. x.text
        BY <1>1, <2>1
      <4>2. Len(o) + 1 \in DOMAIN e /\ e[Len(o)+1] = x
        BY <1>0, <1>4, <4>1
      <4> QED
        BY <1>1, <2>1, <4>1, <4>2
    <3>2. ASSUME IsCall(m[k]), Answered(m, k)
          PROVE  /\ e # <<>> /\ IsCall(Last(e)) /\ Last(e).id = m[k].id
                 /\ m[k].text => Last(e).text
      <4>1. IsCall(x)
        BY <1>1, <2>1, <3>2
      <4>2. Last(e) = x /\ e # <<>>
        BY <1>4, <4>1 DEF IsCall
      <4> QED
        BY <1>1, <2>1, <4>1, <4>2
    <3>3. ~ (k < i + 1)
      BY <1>0, <2>1
    <3> QED
      BY <3>1, <3>2, <3>3
  <2>2. CASE k = i
    <3>0. k \in 1..i /\ k # i + 1
      BY <1>0, <2>2
    <3>1. /\ TextKept(o, m, k)
          /\ IsCall(m[k]) /\ Answered(m, k) =>
                /\ o # <<>> /\ IsCall(Last(o)) /\ Last(o).id = m[k].id
                /\ m[k].text => Last(o).text
      BY <2>2, <3>0 DEF Keeping
    <3>2. TextKept(e, m, k)
      BY <1>6, <3>0, <3>1
    <3>3. CallKept(e, m, k)
      <4> SUFFICES ASSUME IsCall(m[k]), Answered(m, k)
                   PROVE  \E j \in DOMAIN e :
                             /\ IsCall(e[j]) /\ e[j].id = m[k].id /\ Answered(e, j)
                             /\ m[k].text => e[j].text
                             /\ m[k+1].text => e[j+1].text
        BY DEF CallKept
      <4>1. /\ o # <<>> /\ IsCall(Last(o)) /\ Last(o).id = m[k].id
            /\ m[k].text => Last(o).text
        BY <3>1
      <4>2. IsResult(m[i+1]) /\ m[i+1].id = m[k].id
        BY <2>2 DEF Answered, IsResult
      <4>3. IsResult(x) /\ x.id = m[k].id /\ (m[k+1].text => x.text)
        BY <1>1, <2>2, <4>1, <4>2 DEF Answers, IsCall
      <4>4. Len(o) \in 1..Len(o)
        BY <1>0, <4>1, EmptySeq
      <4>5. Len(e) = Len(o) + 1 /\ e[Len(o)+1] = x
        BY <1>4, <4>3 DEF IsResult
      <4>6. Len(o) \in DOMAIN e /\ Len(o) < Len(e) /\ e[Len(o)] = Last(o)
        BY <1>0, <1>4, <4>4, <4>5 DEF Last
      <4> QED
        BY <4>1, <4>3, <4>5, <4>6 DEF Answered, IsResult
    <3> QED
      BY <3>0, <3>2, <3>3
  <2>3. CASE k \in 1..i /\ k < i
    <3>1. TextKept(o, m, k) /\ CallKept(o, m, k)
      BY <2>3 DEF Keeping
    <3>2. k # i + 1
      BY <1>0, <2>3
    <3> QED
      BY <1>6, <1>7, <2>3, <3>1, <3>2
  <2> QED
    BY <1>0, <2>1, <2>2, <2>3
<1>9. OpensWithHuman(m) => OpensWithHuman(e)
  <2> SUFFICES ASSUME OpensWithHuman(m) PROVE OpensWithHuman(e)
    OBVIOUS
  <2>1. CASE i = 0
    <3>1. o = <<>> /\ Len(o) = 0
      BY <2>1, EmptySeq DEF Keeping
    <3>2. x.role = "user" /\ x.text
      BY <1>1, <2>1 DEF OpensWithHuman
    <3>3. e[1] = x /\ e # <<>>
      BY <1>4, <3>1, <3>2
    <3> QED
      BY <3>2, <3>3 DEF OpensWithHuman
  <2>2. CASE i # 0
    <3>1. OpensWithHuman(o)
      BY <1>0, <2>2 DEF Keeping
    <3>2. 1 \in 1..Len(o)
      BY <1>0, <3>1, EmptySeq DEF OpensWithHuman
    <3>3. e[1] = o[1] /\ 1 \in 1..Len(e)
      BY <1>0, <1>4, <1>5, <3>2
    <3>4. e # <<>>
      BY <3>3, EmptySeq
    <3> QED
      BY <3>1, <3>3, <3>4 DEF OpensWithHuman
  <2> QED
    BY <2>1, <2>2
<1> QED
  BY <1>0, <1>4, <1>8, <1>9 DEF Keeping, e

\* Paired loses no text and no call that its result follows.
LEMMA PairedConveys ==
    ASSUME NEW m \in Seq(Messages)
    PROVE  /\ Conveys(Paired(m), m)
           /\ OpensWithHuman(m) => OpensWithHuman(Paired(m))
<1>0. Len(m) \in Nat /\ DOMAIN m = 1..Len(m)
  BY LenProperties
<1>1. PICK out : out = Pairing(m, out) /\ Paired(m) = out[Len(m)]
  BY <1>0, PairingExists
<1> DEFINE Good(i) == out[i] \in Seq(Messages) /\ Keeping(out[i], m, i)
           S == {i \in Nat : i <= Len(m) => Good(i)}
<1>2. 0 \in S
  <2>1. out[0] = <<>>
    BY <1>0, <1>1 DEF Pairing
  <2>2. <<>> \in Seq(Messages) /\ Keeping(<<>>, m, 0)
    BY EmptySeq DEF Keeping
  <2> QED
    BY <2>1, <2>2
<1>3. ASSUME NEW i \in Nat, i \in S PROVE i + 1 \in S
  <2>1. SUFFICES ASSUME i + 1 <= Len(m) PROVE Good(i + 1)
    OBVIOUS
  <2>2. i \in 0..Len(m) - 1 /\ i + 1 \in 0..Len(m) /\ i + 1 # 0 /\ (i + 1) - 1 = i
    BY <1>0, <2>1
  <2>3. Good(i)
    BY <1>0, <1>3, <2>2
  <2>4. out[i+1] = Extended(m, i + 1, out[i])
    BY <1>1, <2>2 DEF Pairing
  <2> QED
    BY <2>2, <2>3, <2>4, ExtendedKeeps
<1>4. Len(m) \in S
  BY <1>0, <1>2, <1>3, SetInduction
<1> DEFINE p == Paired(m)
<1>5. Keeping(p, m, Len(m))
  BY <1>0, <1>1, <1>4
<1> HIDE DEF p
<1>6. ASSUME NEW k \in 1..Len(m) PROVE TextKept(p, m, k) /\ CallKept(p, m, k)
  <2>1. TextKept(p, m, k) /\ (k < Len(m) => CallKept(p, m, k))
    BY <1>5 DEF Keeping
  <2>2. CASE k = Len(m)
    <3>1. ~ Answered(m, k)
      BY <1>0, <2>2 DEF Answered
    <3> QED
      BY <2>1, <3>1 DEF CallKept
  <2>3. CASE k # Len(m)
    <3>1. Len(m) \in Nat
      BY <1>0
    <3>2. k < Len(m)
      BY <2>3, <3>1
    <3> QED
      BY <2>1, <3>2
  <2> QED
    BY <2>2, <2>3
<1>7. OpensWithHuman(m) => OpensWithHuman(p)
  <2> SUFFICES ASSUME OpensWithHuman(m) PROVE OpensWithHuman(p)
    OBVIOUS
  <2>1. Len(m) >= 1
    BY <1>0, EmptySeq DEF OpensWithHuman
  <2> QED
    BY <1>5, <2>1 DEF Keeping
<1> QED
  BY <1>0, <1>6, <1>7 DEF Conveys, p

\* Nor does Strip, of a list that begins with a human's message.
LEMMA StripConveys ==
    ASSUME NEW m \in Seq(Messages), OpensWithHuman(m)
    PROVE  Conveys(Strip(m), m) /\ OpensWithHuman(Strip(m))
<1> DEFINE p == Paired(m)
           s == Strip(m)
<1>1. p \in Seq(Messages) /\ Conveys(p, m) /\ OpensWithHuman(p)
  BY PairedLinked, PairedConveys
<1>2. Len(p) \in Nat /\ DOMAIN p = 1..Len(p) /\ 1 \in 1..Len(p)
  BY <1>1, EmptySeq, LenProperties DEF OpensWithHuman
<1>3. PICK first \in 1..Len(p) :
         /\ s \in Seq(Messages) /\ s # <<>>
         /\ Len(s) = Len(p) - first + 1
         /\ s[1].role = "user" /\ s[1].text /\ ~s[1].tool /\ s[1].id = p[first].id
         /\ p[first].role = "user" /\ p[first].text
         /\ \A j \in 2..Len(s) : s[j] = p[first + j - 1]
         /\ OpensWithHuman(p) => first = 1
  BY <1>1, StripPlaces
<1> HIDE DEF p, s
<1>4. first = 1 /\ Len(s) = Len(p)
  BY <1>1, <1>2, <1>3
<1>5. ASSUME NEW i \in 1..Len(p)
      PROVE  /\ s[i].role = p[i].role /\ s[i].id = p[i].id
             /\ p[i].text => s[i].text
             /\ IsCall(p[i]) => IsCall(s[i])
             /\ IsResult(p[i]) /\ i > 1 => IsResult(s[i])
  <2>1. CASE i = 1
    <3>1. p[i].role = "user" /\ ~ (i > 1) /\ s[i].text /\ s[i].role = "user" /\ s[i].id = p[i].id
      BY <1>3, <1>4, <2>1
    <3> QED
      BY <3>1 DEF IsCall
  <2>2. CASE i # 1
    <3>1. i \in 2..Len(s) /\ 1 + i - 1 = i
      BY <1>2, <1>4, <2>2
    <3>2. s[i] = p[i]
      BY <1>3, <1>4, <3>1
    <3> QED
      BY <3>2
  <2> QED
    BY <2>1, <2>2
<1>6. Len(p) <= Len(s)
  BY <1>2, <1>4
<1>7. Conveys(s, p)
  BY <1>1, <1>3, <1>5, <1>6, ConveysInPlace
<1>8. Conveys(s, m)
  BY <1>1, <1>7, ConveysTransitive
<1>9. OpensWithHuman(s)
  BY <1>3 DEF OpensWithHuman
<1> QED
  BY <1>8, <1>9 DEF s

\* A list with one message more keeps what the list kept.
LEMMA AppendConveys ==
    ASSUME NEW m \in Seq(Messages), NEW x \in Messages
    PROVE  /\ Append(m, x) \in Seq(Messages) /\ Conveys(Append(m, x), m)
           /\ OpensWithHuman(m) => OpensWithHuman(Append(m, x))
           /\ Last(Append(m, x)) = x
<1>1. /\ Append(m, x) \in Seq(Messages) /\ Append(m, x) # <<>>
      /\ Len(Append(m, x)) = Len(m) + 1
      /\ \A j \in 1..Len(m) : Append(m, x)[j] = m[j]
      /\ Append(m, x)[Len(m)+1] = x
  BY AppendProperties
<1>2. Len(m) \in Nat /\ Len(m) <= Len(Append(m, x)) /\ (m # <<>> => 1 \in 1..Len(m))
  BY <1>1, EmptySeq, LenProperties
<1>3. Conveys(Append(m, x), m)
  BY <1>1, <1>2, ConveysInPlace
<1> QED
  BY <1>1, <1>2, <1>3 DEF OpensWithHuman, Last

\* The state of the guild only adds text.
LEMMA WithStateConveys ==
    ASSUME NEW m \in Seq(Messages)
    PROVE  /\ WithState(m) \in Seq(Messages) /\ Conveys(WithState(m), m)
           /\ OpensWithHuman(m) => OpensWithHuman(WithState(m))
<1> DEFINE w == WithState(m)
<1>0. Len(m) \in Nat /\ DOMAIN m = 1..Len(m)
  BY LenProperties
<1>1. ASSUME NEW i \in 1..Len(m)
      PROVE  /\ w[i] \in Messages /\ w[i].role = m[i].role /\ w[i].id = m[i].id
             /\ w[i].tool = m[i].tool
             /\ m[i].text => w[i].text
  <2>1. w[i] = m[i] \/ w[i] = [m[i] EXCEPT !.text = TRUE]
    BY <1>0 DEF WithState
  <2>2. m[i] \in Messages
    BY ElementOfSeq
  <2> QED
    BY <2>1, <2>2 DEF Messages
<1>2. w \in [1..Len(m) -> Messages]
  <2>1. DOMAIN w = 1..Len(m) /\ w = [i \in 1..Len(m) |-> w[i]]
    BY <1>0 DEF WithState
  <2> HIDE DEF w
  <2> QED
    BY <1>1, <2>1
<1> HIDE DEF w
<1>3. w \in Seq(Messages)
  BY <1>0, <1>2, SeqDef
<1>4. Len(w) = Len(m)
  BY <1>0, <1>2, <1>3, LenProperties
<1>5. Len(m) <= Len(w)
  BY <1>0, <1>4
<1>6. Conveys(w, m)
  <2>1. \A i \in 1..Len(m) : /\ w[i].role = m[i].role /\ w[i].id = m[i].id
                             /\ m[i].text => w[i].text
                             /\ IsCall(m[i]) => IsCall(w[i])
                             /\ IsResult(m[i]) /\ i > 1 => IsResult(w[i])
    BY <1>1 DEF IsCall, IsResult
  <2> QED
    BY <1>3, <1>5, <2>1, ConveysInPlace
<1>7. OpensWithHuman(m) => OpensWithHuman(w)
  <2> SUFFICES ASSUME OpensWithHuman(m) PROVE OpensWithHuman(w)
    OBVIOUS
  <2>1. 1 \in 1..Len(m) /\ Len(w) # 0
    BY <1>0, <1>4, EmptySeq DEF OpensWithHuman
  <2> QED
    BY <1>1, <1>3, <2>1, EmptySeq DEF OpensWithHuman
<1> QED
  BY <1>3, <1>6, <1>7 DEF w

-----------------------------------------------------------------------------
(* The history: the runs *)

\* A round of a run: its call, and the results of it.
OwnRound(r, n) == <<AssistantTurn(r, n, FALSE, TRUE), ToolResults(r, n)>>

\* While no budget cut them, a run's messages begin with a human's, and keep the
\* conversation up to its own turn and each round of its own; while its tools run,
\* the last of them is the call.
Told(r) ==
    run[r].pc \in {"fit", "call", "tools"} /\ ~run[r].cut =>
       /\ OpensWithHuman(run[r].messages)
       /\ Conveys(run[r].messages, SubSeq(rows, 1, OwnRow(r)))
       /\ \A n \in 1..run[r].round - 1 : Conveys(run[r].messages, OwnRound(r, n))
       /\ run[r].pc = "tools" => /\ IsCall(Last(run[r].messages))
                                 /\ Last(run[r].messages).id = <<r, run[r].round>>

\* What holds of each run: rounds are counted up to the wrap-up one, which calls no
\* tools; a run that has begun has its own row; what it sends is well formed.
RunInv(r) ==
    /\ run[r].pc \in {"idle", "load"} => run[r].round = 1
    /\ run[r].pc = "tools" => run[r].round <= MaxRounds
    /\ run[r].pc # "idle" => OwnRow(r) # 0
    /\ Told(r)
    /\ Sends(r) => WellFormed(run[r].messages)

\* The inductive invariant: the table begins with a human's message too.
HistoryInv ==
    /\ HistoryTypeOK
    /\ rows # <<>> => OpensWithHuman(rows)
    /\ \A r \in Runs : RunInv(r)

\* What one run may be.
RunStates == [pc : {"idle", "load", "fit", "call", "tools", "ended", "dead"},
              round : 1..MaxRounds + 1, messages : Seq(Messages), cut : BOOLEAN]

\* The turns a run saves are messages.
LEMMA TurnsTyped ==
    ASSUME NEW r \in Runs, NEW n \in 1..MaxRounds + 1, NEW text \in BOOLEAN, NEW tool \in BOOLEAN
    PROVE  /\ HumanTurn(r) \in Messages /\ AssistantTurn(r, n, text, tool) \in Messages
           /\ ToolResults(r, n) \in Messages
<1>1. n \in 0..MaxRounds + 1 /\ 0 \in 0..MaxRounds + 1
  BY MaxRoundsType
<1> QED
  BY <1>1 DEF Messages, Message, HumanTurn, AssistantTurn, ToolResults

\* The first place of h in s, as OwnRow finds it.
FirstPlace(s, h) ==
    IF {i \in 1..Len(s) : s[i] = h} # {} THEN Min({i \in 1..Len(s) : s[i] = h}) ELSE 0

\* OwnRow is that place, before a step and after it.
LEMMA OwnRowPlace ==
    ASSUME NEW r
    PROVE  /\ OwnRow(r) = FirstPlace(rows, HumanTurn(r))
           /\ OwnRow(r)' = FirstPlace(rows', HumanTurn(r))
<1>1. OwnRow(r) = FirstPlace(rows, HumanTurn(r))
  BY DEF OwnRow, SelectInSeq, FirstPlace
<1>2. OwnRow(r)' = FirstPlace(rows', HumanTurn(r))
  BY DEF OwnRow, SelectInSeq, FirstPlace
<1> QED
  BY <1>1, <1>2

\* It is the least of the places of h, and there is one when h is in s.
LEMMA OwnPlace ==
    ASSUME NEW s \in Seq(Messages), NEW h
    PROVE  LET at == FirstPlace(s, h) IN
           /\ at \in 0..Len(s)
           /\ at # 0 => s[at] = h /\ \A i \in 1..Len(s) : s[i] = h => at <= i
           /\ (\E i \in 1..Len(s) : s[i] = h) => at # 0
<1> DEFINE I == {i \in 1..Len(s) : s[i] = h}
           at == IF I # {} THEN Min(I) ELSE 0
<1>0. Len(s) \in Nat
  BY LenProperties
<1>1. FirstPlace(s, h) = at
  BY DEF FirstPlace
<1>2. ASSUME I # {} PROVE at \in I /\ \A i \in I : at <= i
  <2>1. I \subseteq Nat
    OBVIOUS
  <2>2. Min(I) \in I /\ \A i \in I : Min(I) <= i
    BY <1>2, <2>1, LeastMember
  <2> QED
    BY <1>2, <2>2
<1>3. at \in 0..Len(s)
  BY <1>0, <1>2
<1>4. at # 0 => s[at] = h /\ \A i \in 1..Len(s) : s[i] = h => at <= i
  BY <1>2
<1>5. (\E i \in 1..Len(s) : s[i] = h) => at # 0
  BY <1>2
<1> QED
  BY <1>1, <1>3, <1>4, <1>5

\* The row of a run's own turn is where it was when rows are added to the table.
LEMMA OwnPlaceStays ==
    ASSUME NEW s \in Seq(Messages), NEW e \in Messages, NEW h
    PROVE  LET at == FirstPlace(s, h)
               later == FirstPlace(Append(s, e), h)
           IN  /\ at # 0 => later = at /\ SubSeq(Append(s, e), 1, later) = SubSeq(s, 1, at)
               /\ e = h => later # 0
<1> DEFINE t == Append(s, e)
           at == FirstPlace(s, h)
           later == FirstPlace(t, h)
<1>1. /\ t \in Seq(Messages) /\ Len(t) = Len(s) + 1 /\ Len(s) \in Nat
      /\ \A i \in 1..Len(s) : t[i] = s[i]
      /\ t[Len(s)+1] = e
  BY AppendProperties, LenProperties
<1>2. /\ at \in 0..Len(s)
      /\ at # 0 => s[at] = h /\ \A i \in 1..Len(s) : s[i] = h => at <= i
      /\ (\E i \in 1..Len(s) : s[i] = h) => at # 0
  BY OwnPlace
<1>3. /\ later \in 0..Len(t)
      /\ later # 0 => t[later] = h /\ \A i \in 1..Len(t) : t[i] = h => later <= i
      /\ (\E i \in 1..Len(t) : t[i] = h) => later # 0
  BY <1>1, OwnPlace
<1> HIDE DEF t, at, later
<1>4. ASSUME at # 0 PROVE later = at
  <2>1. at \in 1..Len(s) /\ at \in 1..Len(t) /\ t[at] = h
    BY <1>1, <1>2, <1>4
  <2>2. later # 0 /\ later <= at
    BY <1>3, <2>1
  <2>3. later \in 1..Len(s)
    BY <1>1, <1>3, <2>1, <2>2
  <2>4. s[later] = h
    BY <1>1, <1>3, <2>2, <2>3
  <2>5. at <= later
    BY <1>2, <1>4, <2>3, <2>4
  <2> QED
    BY <2>1, <2>2, <2>3, <2>5
<1>5. ASSUME at # 0 PROVE SubSeq(t, 1, at) = SubSeq(s, 1, at)
  <2>1. at \in 1..Len(s) /\ at \in Int /\ 1 \in Int /\ 1 <= at
    BY <1>1, <1>2, <1>5
  <2>2. \A i \in 1..at : s[i] \in Messages /\ t[i] \in Messages /\ t[i] = s[i]
    <3>1. \A i \in 1..at : i \in 1..Len(s)
      BY <1>1, <2>1
    <3> QED
      BY <1>1, <3>1, ElementOfSeq
  <2>3. /\ SubSeq(s, 1, at) \in Seq(Messages) /\ Len(SubSeq(s, 1, at)) = at
        /\ \A i \in 1..at : SubSeq(s, 1, at)[i] = s[i]
    BY <2>1, <2>2, SubSeqProperties
  <2>4. /\ SubSeq(t, 1, at) \in Seq(Messages) /\ Len(SubSeq(t, 1, at)) = at
        /\ \A i \in 1..at : SubSeq(t, 1, at)[i] = t[i]
    BY <2>1, <2>2, SubSeqProperties
  <2> QED
    BY <2>2, <2>3, <2>4, SeqEqual
<1>6. e = h => later # 0
  <2>1. Len(s) + 1 \in 1..Len(t)
    BY <1>1
  <2> QED
    BY <1>1, <1>3, <2>1
<1> QED
  BY <1>4, <1>5, <1>6 DEF t, at, later

\* The same of the table: a row added at its end is behind all that a run was
\* told before its own turn.
LEMMA OwnRowStays ==
    ASSUME NEW r, rows \in Seq(Messages), OwnRow(r) # 0,
           NEW x \in Messages, rows' = Append(rows, x)
    PROVE  /\ OwnRow(r)' = OwnRow(r)
           /\ SubSeq(rows', 1, OwnRow(r)') = SubSeq(rows, 1, OwnRow(r))
<1> DEFINE h == HumanTurn(r)
           e == Append(rows, x)
<1>1. FirstPlace(rows, h) # 0 =>
         /\ FirstPlace(e, h) = FirstPlace(rows, h)
         /\ SubSeq(e, 1, FirstPlace(e, h)) = SubSeq(rows, 1, FirstPlace(rows, h))
  BY OwnPlaceStays
<1> HIDE DEF h, e
<1>2. rows' = e /\ OwnRow(r) = FirstPlace(rows, h) /\ OwnRow(r)' = FirstPlace(rows', h)
  BY OwnRowPlace DEF h, e
<1> QED
  BY <1>1, <1>2

\* A run that does not take the step keeps what holds of it, as the table grows by
\* at most a row.
LEMMA OthersKeep ==
    ASSUME HistoryTypeOK, NEW r \in Runs, RunInv(r), run'[r] = run[r],
           rows' = rows \/ \E x \in Messages : rows' = Append(rows, x)
    PROVE  RunInv(r)'
<1>0. rows \in Seq(Messages)
  BY DEF HistoryTypeOK
<1>1. OwnRow(r) # 0 =>
         OwnRow(r)' = OwnRow(r) /\ SubSeq(rows', 1, OwnRow(r)') = SubSeq(rows, 1, OwnRow(r))
  <2>1. CASE rows' = rows
    BY <2>1, OwnRowPlace
  <2>2. CASE \E x \in Messages : rows' = Append(rows, x)
    <3>1. PICK x \in Messages : rows' = Append(rows, x)
      BY <2>2
    <3> QED
      BY <1>0, <3>1, OwnRowStays
  <2> QED
    BY <2>1, <2>2
<1>2. run[r].pc # "idle" => OwnRow(r) # 0
  BY DEF RunInv
<1>3. Told(r)'
  <2>1. Told(r)
    BY DEF RunInv
  <2> QED
    BY <1>1, <1>2, <2>1 DEF Told
<1>4. (Sends(r) => WellFormed(run[r].messages))'
  BY DEF RunInv, Sends, At
<1> QED
  BY <1>1, <1>2, <1>3, <1>4 DEF RunInv

\* No run has begun and the table is empty.
LEMMA HistoryInitInv == HistoryInit => HistoryInv
<1> SUFFICES ASSUME HistoryInit PROVE HistoryInv
  OBVIOUS
<1>1. rows = <<>> /\ rows \in Seq(Messages) /\ 1 \in 1..MaxRounds + 1
  BY EmptySeq, MaxRoundsType DEF HistoryInit
<1>2. HistoryTypeOK
  BY <1>1, EmptySeq DEF HistoryInit, HistoryTypeOK
<1>3. ASSUME NEW r \in Runs PROVE RunInv(r)
  <2>1. run[r].pc = "idle" /\ run[r].round = 1
    BY DEF HistoryInit
  <2> QED
    BY <2>1 DEF RunInv, Told, Sends, At
<1> QED
  BY <1>1, <1>2, <1>3 DEF HistoryInv

\* HumanSaved: the run's own turn is the last row.
LEMMA HumanSavedInv ==
    ASSUME HistoryInv, NEW r \in Runs, HumanSaved(r)
    PROVE  HistoryInv'
<1>0. /\ HistoryTypeOK /\ rows \in Seq(Messages) /\ HumanTurn(r) \in Messages
      /\ rows' = Append(rows, HumanTurn(r))
  <2>1. 1 \in 1..MaxRounds + 1
    BY MaxRoundsType
  <2> QED
    BY <2>1, TurnsTyped DEF HistoryInv, HistoryTypeOK, HumanSaved
<1>1. /\ run'[r].pc = "load" /\ run'[r].round = run[r].round
      /\ \A s \in Runs \ {r} : run'[s] = run[s]
      /\ run[r].pc = "idle"
  BY <1>0 DEF HistoryTypeOK, HumanSaved, At
<1>2. HistoryTypeOK'
  <2>1. rows' \in Seq(Messages)
    BY <1>0, AppendProperties
  <2> QED
    BY <1>0, <2>1 DEF HistoryTypeOK, HumanSaved
<1>3. (rows # <<>> => OpensWithHuman(rows))'
  <2>1. CASE rows = <<>>
    <3>1. rows' # <<>> /\ rows'[1] = HumanTurn(r)
      BY <1>0, <2>1, AppendProperties, EmptySeq
    <3> QED
      BY <3>1 DEF OpensWithHuman, HumanTurn, Message
  <2>2. CASE rows # <<>>
    BY <1>0, <2>2, AppendConveys DEF HistoryInv
  <2> QED
    BY <2>1, <2>2
<1>4. RunInv(r)'
  <2>1. OwnRow(r)' # 0
    BY <1>0, OwnPlaceStays, OwnRowPlace
  <2>2. run'[r].round = 1
    BY <1>1 DEF HistoryInv, RunInv
  <2> QED
    BY <1>1, <2>1, <2>2 DEF RunInv, Told, Sends, At
<1>5. ASSUME NEW s \in Runs \ {r} PROVE RunInv(s)'
  BY <1>0, <1>1, OthersKeep DEF HistoryInv
<1> QED
  BY <1>2, <1>3, <1>4, <1>5 DEF HistoryInv

\* Loaded: a run that forgets nothing has every row.
LEMMA LoadedInv ==
    ASSUME HistoryInv, NEW r \in Runs, Loaded(r)
    PROVE  HistoryInv'
<1>0. /\ HistoryTypeOK /\ rows \in Seq(Messages) /\ rows' = rows /\ run[r].pc = "load"
      /\ RunInv(r)
  BY DEF HistoryInv, HistoryTypeOK, Loaded, At
<1>1. PICK start \in 1..Len(rows) :
         run' = [run EXCEPT ![r].pc = "fit", ![r].cut = start > 1,
                            ![r].messages = WithState(Fit(rows, start))]
  BY DEF Loaded, Keeps
<1> DEFINE w == WithState(Fit(rows, start))
<1>2. w \in Seq(Messages)
  BY <1>0, FitPlaces, WithStateConveys
<1>3. (start > 1) \in BOOLEAN
  OBVIOUS
<1> HIDE DEF w
<1>4. /\ run'[r].pc = "fit" /\ run'[r].round = run[r].round /\ run'[r].messages = w
      /\ run'[r].cut = (start > 1)
      /\ \A s \in Runs \ {r} : run'[s] = run[s]
  BY <1>0, <1>1 DEF HistoryTypeOK, w
<1>5. HistoryTypeOK'
  <2>1. run' = [run EXCEPT ![r].pc = "fit", ![r].cut = start > 1, ![r].messages = w]
    BY <1>1 DEF w
  <2> DEFINE R == [run[r] EXCEPT !.pc = "fit", !.cut = start > 1, !.messages = w]
  <2>2. R \in RunStates
    BY <1>0, <1>2, <1>3 DEF HistoryTypeOK, RunStates
  <2>3. run' = [run EXCEPT ![r] = R]
    BY <2>1
  <2> HIDE DEF R
  <2> QED
    BY <1>0, <2>2, <2>3 DEF HistoryTypeOK, RunStates
<1>6. run'[r].round = 1 /\ OwnRow(r) # 0 /\ OwnRow(r)' = OwnRow(r)
  BY <1>0, <1>4, OwnRowPlace DEF RunInv
<1>7. ASSUME ~ run'[r].cut
      PROVE  OpensWithHuman(w) /\ Conveys(w, SubSeq(rows, 1, OwnRow(r)))
  <2>1. start = 1
    <3>1. Len(rows) \in Nat
      BY <1>0, LenProperties
    <3>2. ~ (start > 1)
      BY <1>4, <1>7
    <3> QED
      BY <3>1, <3>2
  <2>2. OwnRow(r) \in 1..Len(rows) /\ rows # <<>>
    <3>1. OwnRow(r) \in 0..Len(rows) /\ Len(rows) \in Nat
      BY <1>0, OwnPlace, OwnRowPlace, LenProperties
    <3>2. OwnRow(r) \in 1..Len(rows) /\ Len(rows) # 0
      BY <1>6, <3>1
    <3> QED
      BY <3>2, EmptySeq
  <2>3. OpensWithHuman(rows)
    BY <2>2 DEF HistoryInv
  <2>4. Fit(rows, start) = rows
    BY <1>0, <2>1, <2>3, FitPlaces DEF OpensWithHuman
  <2>5. OpensWithHuman(w) /\ Conveys(w, rows)
    BY <1>0, <2>3, <2>4, WithStateConveys DEF w
  <2>6. Conveys(rows, SubSeq(rows, 1, OwnRow(r)))
    <3> DEFINE k == OwnRow(r)
               b == SubSeq(rows, 1, k)
    <3>1. k \in Int /\ 1 \in Int /\ 1 <= k /\ k <= Len(rows)
      BY <2>2
    <3>2. \A i \in 1..k : rows[i] \in Messages
      <4>1. \A i \in 1..k : i \in 1..Len(rows)
        BY <2>2
      <4> QED
        BY <1>0, <4>1, ElementOfSeq
    <3>3. b \in Seq(Messages) /\ Len(b) = k /\ \A i \in 1..k : b[i] = rows[i]
      BY <3>1, <3>2, SubSeqProperties
    <3> HIDE DEF b, k
    <3>4. Conveys(rows, b)
      BY <1>0, <3>1, <3>3, ConveysInPlace
    <3> QED
      BY <3>4 DEF b, k
  <2> QED
    BY <2>5, <2>6, ConveysTransitive
<1>8. RunInv(r)'
  <2>1. Told(r)'
    <3>1. \A n \in 1..run'[r].round - 1 : FALSE
      BY <1>6
    <3> QED
      BY <1>0, <1>4, <1>6, <1>7, <3>1 DEF Told
  <2> QED
    BY <1>4, <1>6, <2>1 DEF RunInv, Sends, At
<1>9. ASSUME NEW s \in Runs \ {r} PROVE RunInv(s)'
  BY <1>0, <1>4, OthersKeep DEF HistoryInv
<1> QED
  BY <1>0, <1>5, <1>8, <1>9 DEF HistoryInv

\* Fitted: whatever is sent is well formed, and nothing is lost that no budget cut.
LEMMA FittedInv ==
    ASSUME HistoryInv, NEW r \in Runs, Fitted(r)
    PROVE  HistoryInv'
<1> DEFINE m == run[r].messages
<1>0. /\ HistoryTypeOK /\ rows' = rows /\ run[r].pc = "fit" /\ RunInv(r)
      /\ m \in Seq(Messages) /\ run[r].cut \in BOOLEAN
  BY DEF HistoryInv, HistoryTypeOK, Fitted, At
<1>1. PICK start \in 1..Len(m) :
         run' = [run EXCEPT ![r].pc = "call", ![r].cut = @ \/ start > 1,
                            ![r].messages = Strip(Fit(@, start))]
  BY DEF Fitted, Keeps
<1> DEFINE w == Strip(Fit(m, start))
           cut == run[r].cut \/ start > 1
<1>2. w \in Seq(Messages) /\ WellFormed(w)
  BY <1>0, FitPlaces, StripWellFormed
<1>3. cut \in BOOLEAN
  BY <1>0
<1>4. run' = [run EXCEPT ![r] = [run[r] EXCEPT !.pc = "call", !.cut = cut, !.messages = w]]
  BY <1>1
<1> HIDE DEF w, cut
<1>5. /\ run'[r].pc = "call" /\ run'[r].round = run[r].round /\ run'[r].messages = w
      /\ run'[r].cut = cut
      /\ \A s \in Runs \ {r} : run'[s] = run[s]
  BY <1>0, <1>4 DEF HistoryTypeOK
<1>6. HistoryTypeOK'
  <2> DEFINE R == [run[r] EXCEPT !.pc = "call", !.cut = cut, !.messages = w]
  <2>1. R \in RunStates
    BY <1>0, <1>2, <1>3 DEF HistoryTypeOK, RunStates
  <2>2. run' = [run EXCEPT ![r] = R]
    BY <1>4
  <2> HIDE DEF R
  <2> QED
    BY <1>0, <2>1, <2>2 DEF HistoryTypeOK, RunStates
<1>7. OwnRow(r) # 0 /\ OwnRow(r)' = OwnRow(r)
  BY <1>0, OwnRowPlace DEF RunInv
<1>8. ASSUME ~ run'[r].cut
      PROVE  /\ OpensWithHuman(w) /\ Conveys(w, SubSeq(rows, 1, OwnRow(r)))
             /\ \A n \in 1..run[r].round - 1 : Conveys(w, OwnRound(r, n))
  <2>1. ~ run[r].cut /\ ~ (start > 1)
    BY <1>5, <1>8 DEF cut
  <2>2. start = 1
    <3>1. Len(m) \in Nat
      BY <1>0, LenProperties
    <3> QED
      BY <2>1, <3>1
  <2>3. /\ OpensWithHuman(m) /\ Conveys(m, SubSeq(rows, 1, OwnRow(r)))
        /\ \A n \in 1..run[r].round - 1 : Conveys(m, OwnRound(r, n))
    BY <1>0, <2>1 DEF RunInv, Told
  <2> HIDE DEF m
  <2>4. Fit(m, start) = m
    BY <1>0, <2>2, <2>3, FitPlaces DEF OpensWithHuman
  <2>5. OpensWithHuman(w) /\ Conveys(w, m)
    BY <1>0, <2>3, <2>4, StripConveys DEF w
  <2> QED
    BY <2>3, <2>5, ConveysTransitive
<1>9. RunInv(r)'
  <2>1. Told(r)'
    BY <1>0, <1>5, <1>7, <1>8 DEF Told
  <2> QED
    BY <1>2, <1>5, <1>7, <2>1 DEF RunInv
<1>10. ASSUME NEW s \in Runs \ {r} PROVE RunInv(s)'
  BY <1>0, <1>5, OthersKeep DEF HistoryInv
<1> QED
  BY <1>0, <1>6, <1>9, <1>10 DEF HistoryInv

\* Reply: the answer is added to what the run was told, and to the table.
LEMMA ReplyInv ==
    ASSUME HistoryInv, NEW r \in Runs, NEW text \in BOOLEAN, NEW tool \in BOOLEAN,
           Reply(r, text, tool)
    PROVE  HistoryInv'
<1> DEFINE m == run[r].messages
           reply == AssistantTurn(r, run[r].round, text, tool)
           pc == IF tool THEN "tools" ELSE "ended"
           w == Append(m, reply)
<1>0. /\ HistoryTypeOK /\ run[r].pc = "call" /\ RunInv(r) /\ rows \in Seq(Messages)
      /\ m \in Seq(Messages) /\ reply \in Messages
      /\ rows' = Append(rows, reply) /\ (tool => run[r].round <= MaxRounds)
  BY TurnsTyped DEF HistoryInv, HistoryTypeOK, Reply, At
<1>1. run' = [run EXCEPT ![r] = [run[r] EXCEPT !.pc = pc, !.messages = w]]
  BY DEF Reply
<1>2. /\ w \in Seq(Messages) /\ Conveys(w, m) /\ (OpensWithHuman(m) => OpensWithHuman(w))
      /\ Last(w) = reply
  BY <1>0, AppendConveys
<1>3. tool => IsCall(reply) /\ reply.id = <<r, run[r].round>>
  BY DEF AssistantTurn, Message, IsCall
<1>4. pc \in {"tools", "ended"} /\ (pc = "tools" => tool)
  OBVIOUS
<1> HIDE DEF w, pc, reply
<1>5. /\ run'[r].pc = pc /\ run'[r].round = run[r].round /\ run'[r].messages = w
      /\ run'[r].cut = run[r].cut
      /\ \A s \in Runs \ {r} : run'[s] = run[s]
  BY <1>0, <1>1 DEF HistoryTypeOK
<1>6. HistoryTypeOK'
  <2> DEFINE R == [run[r] EXCEPT !.pc = pc, !.messages = w]
  <2>1. R \in RunStates
    BY <1>0, <1>2, <1>4 DEF HistoryTypeOK, RunStates
  <2>2. run' = [run EXCEPT ![r] = R]
    BY <1>1
  <2>3. rows' \in Seq(Messages)
    BY <1>0, AppendProperties
  <2> HIDE DEF R
  <2> QED
    BY <1>0, <2>1, <2>2, <2>3 DEF HistoryTypeOK, RunStates
<1>7. /\ OwnRow(r) # 0 /\ OwnRow(r)' = OwnRow(r)
      /\ SubSeq(rows', 1, OwnRow(r)') = SubSeq(rows, 1, OwnRow(r))
  <2>1. OwnRow(r) # 0
    BY <1>0 DEF RunInv
  <2>2. rows' = Append(rows, reply)
    BY <1>0
  <2> QED
    BY <1>0, <2>1, <2>2, OwnRowStays
<1>8. Told(r)'
  <2> SUFFICES ASSUME run'[r].pc = "tools", ~ run'[r].cut
               PROVE  /\ OpensWithHuman(w) /\ Conveys(w, SubSeq(rows, 1, OwnRow(r)))
                      /\ \A n \in 1..run[r].round - 1 : Conveys(w, OwnRound(r, n))
                      /\ IsCall(Last(w)) /\ Last(w).id = <<r, run[r].round>>
    BY <1>4, <1>5, <1>7 DEF Told
  <2>1. /\ OpensWithHuman(m) /\ Conveys(m, SubSeq(rows, 1, OwnRow(r)))
        /\ \A n \in 1..run[r].round - 1 : Conveys(m, OwnRound(r, n))
    BY <1>0, <1>5 DEF RunInv, Told
  <2>2. IsCall(Last(w)) /\ Last(w).id = <<r, run[r].round>>
    BY <1>2, <1>3, <1>4, <1>5
  <2> HIDE DEF m
  <2> QED
    BY <1>2, <2>1, <2>2, ConveysTransitive
<1>9. RunInv(r)'
  BY <1>0, <1>4, <1>5, <1>7, <1>8 DEF RunInv, Sends, At
<1>10. (rows # <<>> => OpensWithHuman(rows))'
  <2>1. rows # <<>>
    <3>1. FirstPlace(rows, HumanTurn(r)) \in 0..Len(rows) /\ FirstPlace(rows, HumanTurn(r)) # 0
      BY <1>0, <1>7, OwnPlace, OwnRowPlace
    <3> QED
      BY <3>1, EmptySeq
  <2> QED
    BY <1>0, <2>1, AppendConveys DEF HistoryInv
<1>11. ASSUME NEW s \in Runs \ {r} PROVE RunInv(s)'
  BY <1>0, <1>5, OthersKeep DEF HistoryInv
<1> QED
  BY <1>6, <1>9, <1>10, <1>11 DEF HistoryInv

\* The results of a round complete it when its call is the last message.
LEMMA AnswerConveys ==
    ASSUME NEW m \in Seq(Messages), OpensWithHuman(m), NEW r \in Runs, NEW n \in 1..MaxRounds,
           IsCall(Last(m)), Last(m).id = <<r, n>>
    PROVE  Conveys(Append(m, ToolResults(r, n)), OwnRound(r, n))
<1> DEFINE res == ToolResults(r, n)
           call == AssistantTurn(r, n, FALSE, TRUE)
           w == Append(m, res)
           o == OwnRound(r, n)
<1>1. /\ res \in Messages /\ IsResult(res) /\ res.id = <<r, n>> /\ res.text = FALSE
      /\ call.id = <<r, n>> /\ call.text = FALSE /\ ~ IsCall(res)
  <2>1. n \in 1..MaxRounds + 1
    BY MaxRoundsType
  <2> QED
    BY <2>1, TurnsTyped DEF ToolResults, AssistantTurn, Message, IsResult, IsCall
<1>2. Len(o) = 2 /\ DOMAIN o = 1..2 /\ o[1] = call /\ o[2] = res
  BY DEF OwnRound
<1> HIDE DEF res, call, o
<1>3. /\ w \in Seq(Messages) /\ Len(w) = Len(m) + 1
      /\ \A j \in 1..Len(m) : w[j] = m[j]
      /\ w[Len(m)+1] = res
  BY <1>1, AppendProperties
<1>4. DOMAIN w = 1..Len(w)
  BY <1>3, LenProperties
<1> HIDE DEF w
<1>5. Len(m) \in Nat /\ Len(m) # 0
  BY EmptySeq, LenProperties DEF OpensWithHuman
<1>6. Len(m) \in 1..Len(m) /\ Len(m) \in 1..Len(w) /\ Len(m) < Len(w)
  BY <1>3, <1>5
<1>7. w[Len(m)] = Last(m)
  BY <1>3, <1>6 DEF Last
<1>8. Answered(w, Len(m))
  BY <1>1, <1>3, <1>6, <1>7 DEF Answered, IsResult
<1>9. TextKept(w, o, 1) /\ TextKept(w, o, 2)
  BY <1>1, <1>2 DEF TextKept
<1>10. CallKept(w, o, 1)
  <2>1. ~ o[1].text /\ ~ o[1+1].text /\ o[1].id = <<r, n>>
    BY <1>1, <1>2
  <2> QED
    BY <1>4, <1>6, <1>7, <1>8, <2>1 DEF CallKept
<1>11. CallKept(w, o, 2)
  BY <1>1, <1>2 DEF CallKept
<1>12. Conveys(w, o)
  <2>1. \A i \in DOMAIN o : i = 1 \/ i = 2
    BY <1>2
  <2> QED
    BY <1>9, <1>10, <1>11, <2>1 DEF Conveys
<1> QED
  BY <1>12 DEF w, res, o

\* ToolsDone: the round is complete.
LEMMA ToolsDoneInv ==
    ASSUME HistoryInv, NEW r \in Runs, ToolsDone(r)
    PROVE  HistoryInv'
<1> DEFINE m == run[r].messages
           n == run[r].round
           res == ToolResults(r, n)
           w == Append(m, res)
<1>0. /\ HistoryTypeOK /\ run[r].pc = "tools" /\ RunInv(r) /\ rows \in Seq(Messages)
      /\ m \in Seq(Messages) /\ n \in 1..MaxRounds + 1
      /\ rows' = Append(rows, res)
  BY DEF HistoryInv, HistoryTypeOK, ToolsDone, At
<1>1. run' = [run EXCEPT ![r] = [run[r] EXCEPT !.pc = "fit", !.round = n + 1, !.messages = w]]
  BY DEF ToolsDone
<1>2. n \in 1..MaxRounds /\ n + 1 \in 1..MaxRounds + 1
  <2>1. n <= MaxRounds
    BY <1>0 DEF RunInv
  <2> QED
    BY <1>0, <2>1, MaxRoundsType
<1>3. res \in Messages
  BY <1>0, TurnsTyped
<1>4. w \in Seq(Messages) /\ Conveys(w, m) /\ (OpensWithHuman(m) => OpensWithHuman(w))
  BY <1>0, <1>3, AppendConveys
<1>5. OpensWithHuman(m) /\ IsCall(Last(m)) /\ Last(m).id = <<r, n>> =>
         Conveys(w, OwnRound(r, n))
  BY <1>0, <1>2, AnswerConveys
<1> HIDE DEF w, res
<1>6. /\ run'[r].pc = "fit" /\ run'[r].round = n + 1 /\ run'[r].messages = w
      /\ run'[r].cut = run[r].cut
      /\ \A s \in Runs \ {r} : run'[s] = run[s]
  BY <1>0, <1>1 DEF HistoryTypeOK
<1>7. HistoryTypeOK'
  <2> DEFINE R == [run[r] EXCEPT !.pc = "fit", !.round = n + 1, !.messages = w]
  <2>1. R \in RunStates
    BY <1>0, <1>2, <1>4 DEF HistoryTypeOK, RunStates
  <2>2. run' = [run EXCEPT ![r] = R]
    BY <1>1
  <2>3. rows' \in Seq(Messages)
    BY <1>0, <1>3, AppendProperties
  <2> HIDE DEF R
  <2> QED
    BY <1>0, <2>1, <2>2, <2>3 DEF HistoryTypeOK, RunStates
<1>8. /\ OwnRow(r) # 0 /\ OwnRow(r)' = OwnRow(r)
      /\ SubSeq(rows', 1, OwnRow(r)') = SubSeq(rows, 1, OwnRow(r))
  <2>1. OwnRow(r) # 0
    BY <1>0 DEF RunInv
  <2> QED
    BY <1>0, <1>3, <2>1, OwnRowStays
<1>9. Told(r)'
  <2> SUFFICES ASSUME ~ run'[r].cut
               PROVE  /\ OpensWithHuman(w) /\ Conveys(w, SubSeq(rows, 1, OwnRow(r)))
                      /\ \A k \in 1..(n + 1) - 1 : Conveys(w, OwnRound(r, k))
    BY <1>6, <1>8 DEF Told
  <2>1. /\ OpensWithHuman(m) /\ Conveys(m, SubSeq(rows, 1, OwnRow(r)))
        /\ \A k \in 1..n - 1 : Conveys(m, OwnRound(r, k))
        /\ IsCall(Last(m)) /\ Last(m).id = <<r, n>>
    BY <1>0, <1>6 DEF RunInv, Told
  <2> HIDE DEF m
  <2>2. ASSUME NEW k \in 1..(n + 1) - 1 PROVE Conveys(w, OwnRound(r, k))
    <3>1. k = n \/ k \in 1..n - 1
      BY <1>2
    <3>2. CASE k = n
      BY <1>5, <2>1, <3>2
    <3>3. CASE k \in 1..n - 1
      BY <1>4, <2>1, <3>3, ConveysTransitive
    <3> QED
      BY <3>1, <3>2, <3>3
  <2> QED
    BY <1>4, <2>1, <2>2, ConveysTransitive
<1>10. RunInv(r)'
  BY <1>6, <1>8, <1>9 DEF RunInv, Sends, At
<1>11. (rows # <<>> => OpensWithHuman(rows))'
  <2>1. rows # <<>>
    <3>1. FirstPlace(rows, HumanTurn(r)) \in 0..Len(rows) /\ FirstPlace(rows, HumanTurn(r)) # 0
      BY <1>0, <1>8, OwnPlace, OwnRowPlace
    <3> QED
      BY <3>1, EmptySeq
  <2> QED
    BY <1>0, <1>3, <2>1, AppendConveys DEF HistoryInv
<1>12. ASSUME NEW s \in Runs \ {r} PROVE RunInv(s)'
  BY <1>0, <1>3, <1>6, OthersKeep DEF HistoryInv
<1> QED
  BY <1>7, <1>10, <1>11, <1>12 DEF HistoryInv

\* Dies: what the run has saved stays.
LEMMA DiesInv ==
    ASSUME HistoryInv, NEW r \in Runs, Dies(r)
    PROVE  HistoryInv'
<1>0. HistoryTypeOK /\ rows' = rows /\ RunInv(r) /\ run[r].pc # "idle"
  BY DEF HistoryInv, Dies
<1>1. run' = [run EXCEPT ![r] = [run[r] EXCEPT !.pc = "dead"]]
  BY DEF Dies
<1>2. run'[r].pc = "dead" /\ \A s \in Runs \ {r} : run'[s] = run[s]
  BY <1>0, <1>1 DEF HistoryTypeOK
<1>3. HistoryTypeOK'
  <2> DEFINE R == [run[r] EXCEPT !.pc = "dead"]
  <2>1. R \in RunStates
    BY <1>0 DEF HistoryTypeOK, RunStates
  <2>2. run' = [run EXCEPT ![r] = R]
    BY <1>1
  <2> HIDE DEF R
  <2> QED
    BY <1>0, <2>1, <2>2 DEF HistoryTypeOK, RunStates
<1>4. OwnRow(r)' # 0
  BY <1>0, OwnRowPlace DEF RunInv
<1>5. RunInv(r)'
  BY <1>2, <1>4 DEF RunInv, Told, Sends, At
<1>6. ASSUME NEW s \in Runs \ {r} PROVE RunInv(s)'
  BY <1>0, <1>2, OthersKeep DEF HistoryInv
<1> QED
  BY <1>0, <1>3, <1>5, <1>6 DEF HistoryInv

\* One step of the history per action.
LEMMA HistoryStepInv == HistoryInv /\ [HistoryNext]_historyVars => HistoryInv'
<1> SUFFICES ASSUME HistoryInv, [HistoryNext]_historyVars PROVE HistoryInv'
  OBVIOUS
<1>1. ASSUME NEW r \in Runs, HumanSaved(r) PROVE HistoryInv'
  BY <1>1, HumanSavedInv
<1>2. ASSUME NEW r \in Runs, Loaded(r) PROVE HistoryInv'
  BY <1>2, LoadedInv
<1>3. ASSUME NEW r \in Runs, Fitted(r) PROVE HistoryInv'
  BY <1>3, FittedInv
<1>4. ASSUME NEW r \in Runs, NEW text \in BOOLEAN, NEW tool \in BOOLEAN, Reply(r, text, tool)
      PROVE  HistoryInv'
  BY <1>4, ReplyInv
<1>5. ASSUME NEW r \in Runs, ToolsDone(r) PROVE HistoryInv'
  BY <1>5, ToolsDoneInv
<1>6. ASSUME NEW r \in Runs, Dies(r) PROVE HistoryInv'
  BY <1>6, DiesInv
<1>7. CASE UNCHANGED historyVars
  <2>1. rows' = rows /\ run' = run
    BY <1>7 DEF historyVars
  <2>2. ASSUME NEW r \in Runs PROVE RunInv(r)'
    BY <2>1, OthersKeep DEF HistoryInv
  <2> QED
    BY <2>1, <2>2 DEF HistoryInv, HistoryTypeOK
<1> QED
  BY <1>1, <1>2, <1>3, <1>4, <1>5, <1>6, <1>7 DEF HistoryNext, RunStep

\* The history of a conversation, shared by any number of runs of any number of
\* rounds, keeps its inductive invariant.
THEOREM HistoryInvariance == HistorySpec => []HistoryInv
<1> QED
  BY HistoryInitInv, HistoryStepInv, PTL DEF HistorySpec

\* In every reachable state the table's rows and the messages of each run are what
\* HistoryTypeOK says: no run counts a round beyond the wrap-up one.
THEOREM HistoryTypeCorrect == HistorySpec => []HistoryTypeOK
<1>1. HistoryInv => HistoryTypeOK
  BY DEF HistoryInv
<1> QED
  BY <1>1, HistoryInvariance, PTL

\* RequestWellFormed: every request is one the model's API accepts, whatever a budget
\* cut off, whichever run died half way and whatever others wrote in between.
THEOREM RequestsWellFormed == HistorySpec => []RequestWellFormed
<1>1. HistoryInv => RequestWellFormed
  BY DEF HistoryInv, RunInv, RequestWellFormed, WellFormed, Sends
<1> QED
  BY <1>1, HistoryInvariance, PTL

\* What a run was told, which the invariant keeps, is what AllSent asks of its
\* request.
LEMMA ToldIsIntact ==
    ASSUME HistoryInv, NEW r \in Runs, Sends(r), ~ run[r].cut
    PROVE  /\ \A i \in 1..OwnRow(r) - 1 :
                 /\ rows[i].text => Recalls(run[r].messages, [rows[i] EXCEPT !.tool = FALSE])
                 /\ rows[i].role = "assistant" /\ rows[i].tool /\ Answered(rows, i)
                       => Recalls(run[r].messages, rows[i]) /\ Recalls(run[r].messages, rows[i+1])
           /\ Recalls(run[r].messages, HumanTurn(r))
           /\ \A n \in 1..run[r].round - 1 :
                 /\ Recalls(run[r].messages, AssistantTurn(r, n, FALSE, TRUE))
                 /\ Recalls(run[r].messages, ToolResults(r, n))
<1> DEFINE m == run[r].messages
           k == OwnRow(r)
           b == SubSeq(rows, 1, k)
<1>0. /\ rows \in Seq(Messages) /\ m \in Seq(Messages) /\ run[r].round \in Nat
      /\ k # 0 /\ run[r].pc = "call" /\ Told(r)
  BY MaxRoundsType DEF HistoryInv, HistoryTypeOK, RunInv, Sends, At
<1>1. /\ Conveys(m, b)
      /\ \A n \in 1..run[r].round - 1 : Conveys(m, OwnRound(r, n))
  BY <1>0 DEF Told
<1>2. k \in 1..Len(rows) /\ Len(rows) \in Nat /\ rows[k] = HumanTurn(r)
  <2>1. /\ k \in 0..Len(rows) /\ Len(rows) \in Nat
        /\ rows[k] = HumanTurn(r)
    BY <1>0, OwnPlace, OwnRowPlace, LenProperties
  <2> QED
    BY <1>0, <2>1
<1> HIDE DEF k, m
<1>3. b \in Seq(Messages) /\ Len(b) = k /\ DOMAIN b = 1..k /\ \A i \in 1..k : b[i] = rows[i]
  <2>1. k \in Int /\ 1 \in Int /\ 1 <= k
    BY <1>2
  <2>2. \A i \in 1..k : rows[i] \in Messages
    <3>1. \A i \in 1..k : i \in 1..Len(rows)
      BY <1>2
    <3> QED
      BY <1>0, <3>1, ElementOfSeq
  <2>3. b \in Seq(Messages) /\ Len(b) = k /\ \A i \in 1..k : b[i] = rows[i]
    BY <2>1, <2>2, SubSeqProperties
  <2> QED
    BY <2>3, LenProperties
<1> HIDE DEF b
<1>4. DOMAIN m = 1..Len(m) /\ Len(m) \in Nat
  BY <1>0, LenProperties
<1>5. ASSUME NEW s, NEW i \in DOMAIN s, s[i] \in Messages, s[i+1] \in Messages,
             Conveys(m, s), IsCall(s[i]), Answered(s, i)
      PROVE  Recalls(m, s[i]) /\ Recalls(m, s[i+1])
  <2>1. PICK j \in DOMAIN m :
           /\ IsCall(m[j]) /\ m[j].id = s[i].id /\ Answered(m, j)
           /\ s[i].text => m[j].text
           /\ s[i+1].text => m[j+1].text
    BY <1>5 DEF Conveys, CallKept
  <2>2. Recalls(m, s[i])
    BY <1>5, <2>1 DEF Recalls, IsCall
  <2>3. j + 1 \in DOMAIN m
    <3>1. j < Len(m)
      BY <2>1 DEF Answered
    <3> QED
      BY <1>4, <3>1
  <2>4. Recalls(m, s[i+1])
    BY <1>5, <2>1, <2>3 DEF Recalls, Answered
  <2> QED
    BY <2>2, <2>4
<1>6. ASSUME NEW i \in 1..k - 1
      PROVE  /\ rows[i].text => Recalls(m, [rows[i] EXCEPT !.tool = FALSE])
             /\ rows[i].role = "assistant" /\ rows[i].tool /\ Answered(rows, i)
                   => Recalls(m, rows[i]) /\ Recalls(m, rows[i+1])
  <2>1. i \in 1..k /\ i + 1 \in 1..k /\ i < k
    BY <1>2
  <2>2. b[i] = rows[i] /\ b[i+1] = rows[i+1] /\ i \in DOMAIN b
    BY <1>3, <2>1
  <2>3. rows[i] \in Messages /\ rows[i+1] \in Messages
    BY <1>3, <2>1, <2>2, ElementOfSeq
  <2>4. ASSUME rows[i].text PROVE Recalls(m, [rows[i] EXCEPT !.tool = FALSE])
    <3>1. TextKept(m, b, i)
      BY <1>1, <2>2 DEF Conveys
    <3>2. PICK j \in DOMAIN m : m[j].role = rows[i].role /\ m[j].id = rows[i].id /\ m[j].text
      BY <2>2, <2>4, <3>1 DEF TextKept
    <3> DEFINE x == [rows[i] EXCEPT !.tool = FALSE]
    <3>3. x.role = rows[i].role /\ x.id = rows[i].id /\ ~ x.tool
      BY <2>3 DEF Messages
    <3> HIDE DEF x
    <3>4. Recalls(m, x)
      BY <3>2, <3>3 DEF Recalls
    <3> QED
      BY <3>4 DEF x
  <2>5. ASSUME rows[i].role = "assistant", rows[i].tool, Answered(rows, i)
        PROVE  Recalls(m, rows[i]) /\ Recalls(m, rows[i+1])
    <3>1. IsCall(b[i]) /\ Answered(b, i)
      BY <1>3, <2>1, <2>2, <2>5 DEF IsCall, Answered
    <3> QED
      BY <1>1, <1>5, <2>2, <2>3, <3>1
  <2> QED
    BY <2>4, <2>5
<1>7. Recalls(m, HumanTurn(r))
  <2>1. k \in DOMAIN b /\ b[k] = HumanTurn(r)
    BY <1>2, <1>3
  <2>2. /\ HumanTurn(r).role = "user" /\ HumanTurn(r).id = <<r, 0>> /\ HumanTurn(r).text = TRUE
        /\ HumanTurn(r).tool = FALSE
    BY DEF HumanTurn, Message
  <2>3. TextKept(m, b, k)
    BY <1>1, <2>1 DEF Conveys
  <2> QED
    BY <2>1, <2>2, <2>3 DEF TextKept, Recalls
<1>8. ASSUME NEW n \in 1..run[r].round - 1
      PROVE  Recalls(m, AssistantTurn(r, n, FALSE, TRUE)) /\ Recalls(m, ToolResults(r, n))
  <2> DEFINE o == OwnRound(r, n)
             call == AssistantTurn(r, n, FALSE, TRUE)
             res == ToolResults(r, n)
  <2>1. n \in 1..MaxRounds + 1
    BY MaxRoundsType DEF HistoryInv, HistoryTypeOK
  <2>2. call \in Messages /\ res \in Messages
    BY <2>1, TurnsTyped
  <2>3. IsCall(call) /\ IsResult(res) /\ res.id = call.id
    BY DEF AssistantTurn, ToolResults, Message, IsCall, IsResult
  <2>4. Len(o) = 2 /\ DOMAIN o = 1..2 /\ o[1] = call /\ o[2] = res
    BY DEF OwnRound
  <2>5. Conveys(m, o)
    BY <1>1
  <2> HIDE DEF o, call, res
  <2>6. 1 \in DOMAIN o /\ 1 + 1 = 2 /\ 1 < Len(o)
    BY <2>4
  <2>7. Answered(o, 1)
    BY <2>3, <2>4, <2>6 DEF Answered, IsResult
  <2>8. Recalls(m, o[1]) /\ Recalls(m, o[1+1])
    BY <1>5, <2>2, <2>3, <2>4, <2>5, <2>6, <2>7
  <2> QED
    BY <2>4, <2>6, <2>8 DEF call, res
<1> QED
  BY <1>6, <1>7, <1>8 DEF k, m

\* AllSent: while no budget cuts them, the messages sent have all that was said before
\* the run and all that the run itself said and was told.
THEOREM EverythingSent == HistorySpec => []AllSent
<1>1. HistoryInv => AllSent
  BY ToldIsIntact DEF AllSent, HistoryIntact, OwnTurnSent
<1> QED
  BY <1>1, HistoryInvariance, PTL

===============================================================================
