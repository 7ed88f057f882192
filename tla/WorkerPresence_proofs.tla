------------------------ MODULE WorkerPresence_proofs ------------------------
(* What is proved of a worker's presence, for any number of processes, sockets *)
(* and faults.                                                                 *)
EXTENDS WorkerPresence, FiniteSetTheorems, TLAPS

\* The domains of what a socket's ownership is about.
Typed ==
    /\ peer \in [Sockets -> Processes \cup {NoPeer}]
    /\ owner \in [Processes -> Sockets \cup {NoSocket}]
    /\ DOMAIN handler = Sockets
    /\ \A s \in Sockets : handler[s] # "unused" => peer[s] # NoPeer

\* An owner has joined, and a handler that is about to own has: its teardown will
\* find what it owns.
OwnersJoined ==
    /\ \A p \in Processes : owner[p] # NoSocket => owner[p] \in joined
    /\ \A s \in Sockets : handler[s] \in {"owning", "replaying"} => s \in joined

OwnerInv == Typed /\ OwnersJoined /\ OwnerServes

\* The steps of the sockets' handlers that are about ownership.
LEMMA JoinSteps ==
    ASSUME OwnerInv, NEW s \in Sockets, JoinPop(s) \/ JoinUpsert(s) \/ JoinOwn(s)
    PROVE  OwnerInv'
  <1> USE DEF OwnerInv, Typed, OwnersJoined, OwnerServes, Goto
  <1>1. CASE JoinPop(s)
    BY <1>1 DEF JoinPop
  <1>2. CASE JoinUpsert(s)
    BY <1>2 DEF JoinUpsert, wireVars, ownerVars
  <1>3. CASE JoinOwn(s)
    <2>1. peer[s] \in Processes /\ s # NoSocket
      BY <1>3 DEF JoinOwn, Sockets, NoSocket
    <2>2. handler' = [handler EXCEPT ![s] = "replaying"] /\ owner' = [owner EXCEPT ![peer[s]] = s]
          /\ UNCHANGED <<peer, joined>> /\ handler[s] = "owning"
      BY <1>3 DEF JoinOwn, wireVars
    <2> QED BY <2>1, <2>2
  <1> QED BY <1>1, <1>2, <1>3

\* The teardown gives up what its socket owns before it lets go of the socket.
LEMMA TeardownSteps ==
    ASSUME OwnerInv, NEW s \in Sockets, Release(s) \/ Stamp(s)
    PROVE  OwnerInv'
  <1> USE DEF OwnerInv, Typed, OwnersJoined, OwnerServes, Goto
  <1>1. CASE Release(s)
    <2>1. peer[s] \in Processes /\ handler' = [handler EXCEPT ![s] = "stamping"] /\ UNCHANGED <<peer, joined>>
      BY <1>1 DEF Release, wireVars
    <2>2. owner' = IF s \in joined /\ owner[peer[s]] = s THEN [owner EXCEPT ![peer[s]] = NoSocket] ELSE owner
      BY <1>1 DEF Release
    <2>3. \A p \in Processes : owner'[p] # NoSocket => owner'[p] = owner[p] /\ owner[p] # s
      BY <2>1, <2>2
    <2>4. owner' \in [Processes -> Sockets \cup {NoSocket}]
      BY <2>1, <2>2
    <2>5. \A r \in Sockets : handler'[r] = IF r = s THEN "stamping" ELSE handler[r]
      BY <2>1
    <2>6. handler[s] = "closing"
      BY <1>1 DEF Release
    <2>7. Typed' /\ OwnersJoined'
      BY <2>1, <2>3, <2>4, <2>5, <2>6
    <2>8. OwnerServes'
      BY <2>1, <2>3, <2>4, <2>5
    <2> QED BY <2>7, <2>8
  <1>2. CASE Stamp(s)
    <2>1. /\ handler[s] = "stamping" /\ handler' = [handler EXCEPT ![s] = "unused"]
          /\ peer' = [peer EXCEPT ![s] = NoPeer] /\ joined' = joined \ {s} /\ owner' = owner
      BY <1>2 DEF Stamp
    <2> QED BY <2>1
  <1> QED BY <1>1, <1>2

LEMMA OwnerInductive ==
    ASSUME OwnerInv, [Next]_vars
    PROVE  OwnerInv'
  <1> USE DEF OwnerInv, Typed, OwnersJoined, OwnerServes
  <1>1. ASSUME NEW s \in Sockets, NEW place \in {"reading", "filtering", "evicting", "popping", "upserting", "closing"},
               handler' = [handler EXCEPT ![s] = place], handler[s] # "unused",
               handler[s] # "stamping", UNCHANGED <<peer, owner, joined>>
        PROVE  OwnerInv'
    BY <1>1
  <1>2. CASE UNCHANGED <<peer, owner, joined, handler>>
    BY <1>2
  <1>3. ASSUME NEW p \in Processes, Connect(p) PROVE OwnerInv'
    <2>1. PICK s \in Sockets : /\ handler[s] = "unused" /\ peer' = [peer EXCEPT ![s] = p]
                               /\ handler' = [handler EXCEPT ![s] = "reading"]
      BY <1>3 DEF Connect, Free
    <2>2. owner' = owner /\ joined' = joined /\ p # NoPeer
      BY <1>3, NoPeerIsNoProcess DEF Connect, ownerVars
    <2> QED BY <2>1, <2>2
  <1>4. CASE SweepMarks
    BY <1>4 DEF SweepMarks, wireVars, endpointVars
  <1>5. CASE Restart
    BY <1>5 DEF Restart
  <1>6. ASSUME NEW s \in Sockets, Endpoint(s) PROVE OwnerInv'
    <2>1. CASE ReadJoin(s) \/ JoinFilter(s) \/ JoinEvict(s) \/ JoinReplay(s) \/ ServerNotices(s)
      <3>1. PICK place \in {"reading", "filtering", "evicting", "popping", "upserting", "closing"} :
                handler' = [handler EXCEPT ![s] = place]
        BY <2>1 DEF ReadJoin, JoinFilter, JoinEvict, JoinReplay, ServerNotices, Goto
      <3>2. handler[s] # "unused" /\ handler[s] # "stamping" /\ UNCHANGED <<peer, owner, joined>>
        BY <2>1 DEF ReadJoin, Reads, JoinFilter, JoinEvict, JoinReplay, ServerNotices, wireVars, ownerVars
      <3> HIDE DEF OwnerInv
      <3> QED BY <1>1, <3>1, <3>2
    <2>2. CASE ReadState(s) \/ ReadPong(s) \/ ReadBye(s)
      BY <1>2, <2>2 DEF ReadState, ReadPong, ReadBye, endpointVars, ownerVars
    <2> HIDE DEF OwnerInv
    <2> QED BY <1>6, <2>1, <2>2, JoinSteps, TeardownSteps DEF Endpoint
  <1>7. CASE \/ \E p \in Processes : Start(p) \/ ClientNotices(p) \/ HearPing(p) \/ HearTask(p) \/ SendState(p) \/ Leave(p) \/ Die(p)
             \/ \E s \in Sockets : Drop(s)
             \/ SweepProbes \/ SweepCondemns \/ Silence \/ Assign \/ UNCHANGED vars
    <2>1. UNCHANGED <<peer, owner, joined, handler>>
      BY <1>7 DEF Start, ClientNotices, HearPing, HearTask, SendState, Leave, Die, Drop, SweepProbes, SweepCondemns, Silence,
                  Assign, AssignWrite, AssignTell, AssignTold, vars, wireVars, endpointVars, ownerVars
    <2> QED BY <1>2, <2>1
  <1> HIDE DEF OwnerInv
  <1> QED BY <1>3, <1>4, <1>5, <1>6, <1>7 DEF Next, Client, Sweep

\* An agent's owner is a socket that serves it, however joins, evictions, teardowns and
\* sweeps of any number of processes and sockets interleave: a teardown that finds
\* another owner leaves it alone, and no message is routed to a socket that is gone.
THEOREM OwnersServe == Spec => []OwnerServes
  <1>1. Init => OwnerInv
    BY DEF Init, OwnerInv, Typed, OwnersJoined, OwnerServes, NoSocket
  <1>2. OwnerInv => OwnerServes
    BY DEF OwnerInv
  <1> QED BY <1>1, <1>2, OwnerInductive, PTL DEF Spec

-----------------------------------------------------------------------------
(* Types, and the list of connections *)

\* A list without repetitions is no longer than there are sockets.
LEMMA ListBound ==
    ASSUME NEW c \in Seq(Sockets), IsInjective(c)
    PROVE  Len(c) \in Nat /\ Len(c) <= MaxSockets
  <1>1. Len(c) \in Nat /\ c \in [1..Len(c) -> Sockets]
    OBVIOUS
  <1>2. c \in Injection(1..Len(c), Sockets)
    BY <1>1 DEF Injection
  <1>3. IsFiniteSet(Sockets) /\ Cardinality(Sockets) = MaxSockets
    BY SocketsType, FS_Interval DEF Sockets
  <1>4. Cardinality(1..Len(c)) <= Cardinality(Sockets)
    BY <1>2, <1>3, FS_Injection
  <1>5. Cardinality(1..Len(c)) = Len(c)
    BY <1>1, FS_Interval
  <1> QED BY <1>1, <1>3, <1>4, <1>5

\* A socket that leaves the list was in it once; the others stay.
LEMMA UnlistedType ==
    ASSUME conns \in Seq(Sockets), IsInjective(conns), NEW s \in Sockets
    PROVE  /\ Unlisted(s) \in Seq(Sockets) /\ IsInjective(Unlisted(s))
           /\ ToSet(Unlisted(s)) \subseteq ToSet(conns) \ {s}
  <1>1. CASE Contains(conns, s)
    <2> DEFINE i == CHOOSE i \in DOMAIN conns : conns[i] = s
    <2>1. i \in 1..Len(conns) /\ conns[i] = s /\ Len(conns) \in Nat
      BY <1>1 DEF Contains
    <2>2. Unlisted(s) = SubSeq(conns, 1, i-1) \o SubSeq(conns, i+1, Len(conns))
      BY <1>1 DEF Unlisted, RemoveAt
    <2> HIDE DEF i
    <2> DEFINE front == SubSeq(conns, 1, i-1)
               rear == SubSeq(conns, i+1, Len(conns))
               rest == front \o rear
    <2>3. front \in Seq(Sockets) /\ Len(front) = i - 1 /\ \A k \in 1..i-1 : front[k] = conns[k]
      BY <2>1
    <2>4. rear \in Seq(Sockets) /\ Len(rear) = Len(conns) - i
            /\ \A k \in 1..Len(conns)-i : rear[k] = conns[k+i]
      BY <2>1
    <2> HIDE DEF front, rear
    <2>5. /\ rest \in Seq(Sockets) /\ Len(rest) = Len(front) + Len(rear)
          /\ \A k \in 1..Len(rest) : rest[k] = IF k <= Len(front) THEN front[k] ELSE rear[k - Len(front)]
      <3>1. front \in Seq(Sockets) /\ rear \in Seq(Sockets) /\ Len(front) \in Nat /\ Len(rear) \in Nat
        BY <2>3, <2>4
      <3>2. rest \in Seq(Sockets) /\ Len(rest) = Len(front) + Len(rear)
        BY <3>1
      <3>3. ASSUME NEW k \in 1..Len(front) + Len(rear)
            PROVE  rest[k] = IF k <= Len(front) THEN front[k] ELSE rear[k - Len(front)]
        BY <3>1
      <3> HIDE DEF rest
      <3> QED BY <3>2, <3>3
    <2>6. Unlisted(s) = rest
      BY <2>2 DEF front, rear
    <2> HIDE DEF rest
    <2>7. /\ DOMAIN rest = 1..Len(conns)-1 /\ DOMAIN conns = 1..Len(conns)
          /\ \A k \in DOMAIN rest : rest[k] = IF k < i THEN conns[k] ELSE conns[k+1]
      <3>1. Len(rest) = Len(conns) - 1 /\ DOMAIN rest = 1..Len(rest) /\ DOMAIN conns = 1..Len(conns)
        BY <2>1, <2>3, <2>4, <2>5
      <3>2. ASSUME NEW k \in 1..Len(rest), k < i PROVE rest[k] = conns[k]
        BY <2>1, <2>3, <2>5, <3>2
      <3>3. ASSUME NEW k \in 1..Len(rest), ~(k < i) PROVE rest[k] = conns[k+1]
        <4>1. /\ ~(k <= Len(front)) /\ k - Len(front) \in 1..Len(conns)-i
              /\ (k - Len(front)) + i = k + 1
          BY <2>1, <2>3, <3>1, <3>3
        <4> QED BY <2>4, <2>5, <4>1
      <3> QED BY <3>1, <3>2, <3>3
    <2>8. ASSUME NEW k \in DOMAIN rest
          PROVE  \E j \in DOMAIN conns : j # i /\ (j = IF k < i THEN k ELSE k+1) /\ rest[k] = conns[j]
      BY <2>1, <2>7
    <2>9. IsInjective(rest)
      <3> SUFFICES ASSUME NEW k \in DOMAIN rest, NEW l \in DOMAIN rest, rest[k] = rest[l]
                   PROVE  k = l
        BY DEF IsInjective
      <3>1. PICK j \in DOMAIN conns : (j = IF k < i THEN k ELSE k+1) /\ rest[k] = conns[j]
        BY <2>8
      <3>2. PICK m \in DOMAIN conns : (m = IF l < i THEN l ELSE l+1) /\ rest[l] = conns[m]
        BY <2>8
      <3>3. j = m
        BY <3>1, <3>2 DEF IsInjective
      <3> QED BY <2>1, <2>7, <3>1, <3>2, <3>3
    <2>10. ToSet(rest) \subseteq ToSet(conns) \ {s}
      <3> SUFFICES ASSUME NEW k \in DOMAIN rest PROVE rest[k] \in ToSet(conns) /\ rest[k] # s
        BY DEF ToSet
      <3>1. PICK j \in DOMAIN conns : j # i /\ rest[k] = conns[j]
        BY <2>8
      <3> QED BY <2>1, <3>1 DEF ToSet, IsInjective
    <2> QED BY <2>5, <2>6, <2>9, <2>10
  <1>2. CASE ~Contains(conns, s)
    BY <1>2 DEF Unlisted, Contains, ToSet
  <1> QED BY <1>1, <1>2

\* A socket that joins the list was not in it.
LEMMA ListedType ==
    ASSUME conns \in Seq(Sockets), IsInjective(conns), NEW s \in Sockets, s \notin ToSet(conns)
    PROVE  /\ Append(conns, s) \in Seq(Sockets) /\ IsInjective(Append(conns, s))
           /\ ToSet(Append(conns, s)) \subseteq ToSet(conns) \cup {s}
  <1>1. /\ Append(conns, s) \in Seq(Sockets) /\ Len(conns) \in Nat
        /\ DOMAIN conns = 1..Len(conns) /\ DOMAIN Append(conns, s) = 1..Len(conns)+1
        /\ \A i \in 1..Len(conns) : Append(conns, s)[i] = conns[i]
        /\ Append(conns, s)[Len(conns)+1] = s
    OBVIOUS
  <1> DEFINE a == Append(conns, s)
  <1>2. ASSUME NEW i \in DOMAIN a
        PROVE  (i \in DOMAIN conns /\ a[i] = conns[i] /\ a[i] # s) \/ (i = Len(conns)+1 /\ a[i] = s)
    <2>1. CASE i \in 1..Len(conns)
      <3>1. a[i] = conns[i] /\ conns[i] \in ToSet(conns)
        BY <1>1, <2>1 DEF ToSet
      <3> QED BY <1>1, <2>1, <3>1
    <2>2. CASE i = Len(conns)+1
      BY <1>1, <2>2
    <2> QED BY <1>1, <1>2, <2>1, <2>2
  <1> HIDE DEF a
  <1>3. IsInjective(a) /\ ToSet(a) \subseteq ToSet(conns) \cup {s}
    BY <1>2 DEF IsInjective, ToSet
  <1> QED BY <1>1, <1>3 DEF a

\* A connection that breaks loses what was not read.
LEMMA ClosedTypes ==
    ASSUME TypeOK, NEW s, NEW lost \in BOOLEAN, Closed(s, lost)
    PROVE  /\ wire' \subseteq Sockets /\ up' \in [Sockets -> Seq({"join", "state", "pong", "bye"})]
           /\ down' \in [Sockets -> SUBSET {"ping", "task"}]
  <1>1. wire' \subseteq Sockets
    BY DEF TypeOK, Closed
  <1>2. up' = up \/ up' = [up EXCEPT ![s] = <<>>]
    BY DEF Closed
  <1>3. <<>> \in Seq({"join", "state", "pong", "bye"})
    OBVIOUS
  <1>4. up' \in [Sockets -> Seq({"join", "state", "pong", "bye"})]
    BY <1>2, <1>3 DEF TypeOK
  <1>5. down' \in [Sockets -> SUBSET {"ping", "task"}]
    BY DEF TypeOK, Closed
  <1> QED BY <1>1, <1>4, <1>5

\* The client's steps.
LEMMA ClientTypes ==
    ASSUME TypeOK, NEW p \in Processes,
           Start(p) \/ Client(p) \/ SendState(p) \/ Leave(p) \/ Die(p)
    PROVE  TypeOK'
  <1>0. ToSet(conns) \subseteq Sockets
    BY DEF TypeOK, ToSet
  <1> USE <1>0
  <1> USE DEF TypeOK, InJoin, InTeardown
  <1>1. CASE Start(p)
    BY <1>1 DEF Start, wireVars, endpointVars, rowVars, ownerVars, sweepVars, taskVars, listVars
  <1>2. CASE Connect(p)
    <2>1. PICK s \in Sockets :
              /\ handler[s] = "unused"
              /\ link' = [link EXCEPT ![p] = s] /\ peer' = [peer EXCEPT ![s] = p]
              /\ wire' = wire \cup {s}
              /\ up' = [up EXCEPT ![s] = <<"join">>] /\ down' = [down EXCEPT ![s] = {}]
              /\ handler' = [handler EXCEPT ![s] = "reading"] /\ conns' = Append(conns, s)
      BY <1>2 DEF Connect, Free
    <2>2. UNCHANGED <<life, heard, joined, dups, stale, agent, worker, fresh, owner, lock, probe, sweeper,
                      cursor, missed, task, faults>>
      BY <1>2 DEF Connect, rowVars, ownerVars, sweepVars
    <2>3. s \notin ToSet(conns)
      BY <2>1
    <2>4. /\ conns' \in Seq(Sockets) /\ IsInjective(conns')
          /\ ToSet(conns') \subseteq ToSet(conns) \cup {s}
      BY <2>1, <2>3, ListedType
    <2>5. up' \in [Sockets -> Seq({"join", "state", "pong", "bye"})]
      <3>1. <<"join">> \in Seq({"join", "state", "pong", "bye"})
        OBVIOUS
      <3> QED BY <2>1, <3>1
    <2>6. \A r \in ToSet(conns') : handler'[r] \notin {"unused"} \cup InTeardown
      <3> SUFFICES ASSUME NEW r \in ToSet(conns') PROVE handler'[r] \notin {"unused"} \cup InTeardown
        OBVIOUS
      <3>1. CASE r = s
        BY <2>1, <3>1
      <3>2. CASE r \in ToSet(conns) /\ r # s
        BY <2>1, <3>2
      <3> QED BY <2>4, <3>1, <3>2
    <2>7. /\ peer' \in [Sockets -> Processes \cup {NoPeer}]
          /\ \A r \in Sockets : handler'[r] # "unused" => peer'[r] # NoPeer
      BY <2>1, NoPeerIsNoProcess
    <2>8. /\ link' \in [Processes -> Sockets \cup {NoSocket}] /\ wire' \subseteq Sockets
          /\ down' \in [Sockets -> SUBSET {"ping", "task"}]
          /\ handler' \in [Sockets -> {"unused", "reading"} \cup InJoin \cup InTeardown]
      BY <2>1
    <2> QED BY <2>2, <2>4, <2>5, <2>6, <2>7, <2>8
  <1>3. CASE ClientNotices(p)
    BY <1>3 DEF ClientNotices, wireVars, endpointVars, rowVars, ownerVars, sweepVars, taskVars, listVars
  <1>4. CASE SendState(p)
    <2>1. <<"state">> \in Seq({"join", "state", "pong", "bye"})
      OBVIOUS
    <2> QED BY <1>4, <2>1 DEF SendState, clientVars, endpointVars, rowVars, ownerVars, sweepVars, taskVars, listVars
  <1>5. CASE HearPing(p)
    <2>1. link[p] \in Sockets
      BY <1>5 DEF HearPing, Connected
    <2>2. Append(up[link[p]], "pong") \in Seq({"join", "state", "pong", "bye"})
      BY <2>1
    <2>3. up' = [up EXCEPT ![link[p]] = Append(up[link[p]], "pong")]
      BY <1>5 DEF HearPing
    <2>4. up' \in [Sockets -> Seq({"join", "state", "pong", "bye"})]
      BY <2>2, <2>3
    <2>5. down' \in [Sockets -> SUBSET {"ping", "task"}]
      BY <1>5 DEF HearPing
    <2> QED BY <1>5, <2>4, <2>5 DEF HearPing, clientVars, endpointVars, rowVars, ownerVars, sweepVars, taskVars, listVars
  <1>6. CASE HearTask(p)
    BY <1>6 DEF HearTask, endpointVars, rowVars, ownerVars, sweepVars, taskVars, listVars
  <1>7. CASE Leave(p)
    <2>1. link[p] \in Sockets
      BY <1>7 DEF Leave, Connected
    <2>2. Append(up[link[p]], "bye") \in Seq({"join", "state", "pong", "bye"})
      BY <2>1
    <2>3. up' = [up EXCEPT ![link[p]] = Append(up[link[p]], "bye")]
      BY <1>7 DEF Leave
    <2>4. up' \in [Sockets -> Seq({"join", "state", "pong", "bye"})]
      BY <2>2, <2>3
    <2>5. down' \in [Sockets -> SUBSET {"ping", "task"}] /\ wire' \subseteq Sockets
      BY <1>7 DEF Leave
    <2>6. /\ life' \in [Processes -> {"new", "alive", "dead"}]
          /\ link' \in [Processes -> Sockets \cup {NoSocket}] /\ heard' \subseteq Processes
      BY <1>7 DEF Leave
    <2> QED BY <1>7, <2>4, <2>5, <2>6 DEF Leave, endpointVars, rowVars, ownerVars, sweepVars, taskVars, listVars
  <1>8. CASE Die(p)
    <2>1. /\ life' \in [Processes -> {"new", "alive", "dead"}]
          /\ link' \in [Processes -> Sockets \cup {NoSocket}] /\ heard' \subseteq Processes
      BY <1>8 DEF Die
    <2>2. /\ wire' \subseteq Sockets /\ up' \in [Sockets -> Seq({"join", "state", "pong", "bye"})]
          /\ down' \in [Sockets -> SUBSET {"ping", "task"}]
      BY <1>8, ClosedTypes DEF Die
    <2> QED BY <1>8, <2>1, <2>2 DEF Die, endpointVars, rowVars, ownerVars, sweepVars, taskVars, listVars
  <1> QED BY <1>1, <1>2, <1>3, <1>4, <1>5, <1>6, <1>7, <1>8 DEF Client

\* The steps of a socket's handler.
LEMMA EndpointTypes ==
    ASSUME TypeOK, NEW s \in Sockets, Endpoint(s)
    PROVE  TypeOK'
  <1>0. ToSet(conns) \subseteq Sockets
    BY DEF TypeOK, ToSet
  <1> USE <1>0
  <1> USE DEF TypeOK, Goto, InJoin, InTeardown
  <1>1. ASSUME NEW frame, Reads(s, frame)
        PROVE  /\ up' \in [Sockets -> Seq({"join", "state", "pong", "bye"})]
               /\ fresh' = TRUE /\ probe' = "none" /\ handler[s] = "reading"
    BY <1>1 DEF Reads
  <1>2. CASE ReadState(s)
    <2>1. agent' \in [Processes -> {"none", "offline", "live"}]
      BY <1>2 DEF ReadState
    <2> QED BY <1>1, <1>2, <2>1 DEF ReadState, clientVars, endpointVars, ownerVars, taskVars, listVars
  <1>3. CASE ReadPong(s)
    BY <1>1, <1>3 DEF ReadPong, clientVars, endpointVars, ownerVars, taskVars, listVars
  <1>4. CASE ReadBye(s)
    <2>1. agent' \in [Processes -> {"none", "offline", "live"}] /\ worker' = "offline"
      BY <1>4 DEF ReadBye
    <2> QED BY <1>1, <1>4, <2>1 DEF ReadBye, clientVars, endpointVars, ownerVars, taskVars, listVars
  <1>5. CASE ReadJoin(s)
    <2>1. dups' \in [Sockets -> SUBSET Processes]
      BY <1>5 DEF ReadJoin
    <2>2. /\ handler' \in [Sockets -> {"unused", "reading"} \cup InJoin \cup InTeardown]
          /\ \A r \in Sockets : handler'[r] # "unused" => peer[r] # NoPeer
          /\ \A r \in ToSet(conns) : handler'[r] \notin {"unused"} \cup InTeardown
      <3>1. handler[s] = "reading" /\ handler' = [handler EXCEPT ![s] = "filtering"]
        BY <1>1, <1>5 DEF ReadJoin
      <3> QED BY <3>1
    <2> QED BY <1>1, <1>5, <2>1, <2>2 DEF ReadJoin, clientVars, ownerVars, taskVars, listVars
  <1>6. CASE JoinFilter(s)
    BY <1>6 DEF JoinFilter, clientVars, wireVars, rowVars, ownerVars, sweepVars, taskVars, listVars
  <1>7. CASE JoinEvict(s)
    BY <1>7 DEF JoinEvict, clientVars, wireVars, ownerVars, sweepVars, taskVars, listVars
  <1>8. CASE JoinPop(s)
    <2> DEFINE old == {owner[p] : p \in dups[s]} \ {NoSocket, s}
    <2>1. /\ wire' = wire \ old
          /\ down' = [r \in Sockets |-> IF r \in old THEN {} ELSE down[r]]
          /\ up' = [r \in Sockets |-> IF r \in old THEN <<>> ELSE up[r]]
      BY <1>8 DEF JoinPop
    <2> HIDE DEF old
    <2>2. /\ wire' \subseteq Sockets /\ down' \in [Sockets -> SUBSET {"ping", "task"}]
          /\ up' \in [Sockets -> Seq({"join", "state", "pong", "bye"})]
      BY <2>1
    <2>3. /\ owner' \in [Processes -> Sockets \cup {NoSocket}]
          /\ dups' \in [Sockets -> SUBSET Processes]
          /\ handler[s] = "popping" /\ handler' = [handler EXCEPT ![s] = "upserting"]
      BY <1>8 DEF JoinPop
    <2> QED BY <1>8, <2>2, <2>3 DEF JoinPop, clientVars, rowVars, sweepVars, taskVars, listVars
  <1>9. CASE JoinUpsert(s)
    BY <1>9 DEF JoinUpsert, clientVars, wireVars, ownerVars, sweepVars, taskVars, listVars
  <1>10. CASE JoinOwn(s)
    <2>1. owner' \in [Processes -> Sockets \cup {NoSocket}]
      BY <1>10 DEF JoinOwn
    <2> QED BY <1>10, <2>1 DEF JoinOwn, clientVars, wireVars, rowVars, sweepVars, taskVars, listVars
  <1>11. CASE JoinReplay(s)
    <2>1. down' \in [Sockets -> SUBSET {"ping", "task"}]
      BY <1>11 DEF JoinReplay, Sent
    <2> QED BY <1>11, <2>1 DEF JoinReplay, clientVars, rowVars, ownerVars, sweepVars, taskVars, listVars
  <1>12. CASE ServerNotices(s)
    <2>1. /\ conns' \in Seq(Sockets) /\ IsInjective(conns')
          /\ ToSet(conns') \subseteq ToSet(conns) \ {s}
      BY <1>12, UnlistedType DEF ServerNotices
    <2>2. handler[s] = "reading" /\ handler' = [handler EXCEPT ![s] = "closing"] /\ missed' \in BOOLEAN
      BY <1>12 DEF ServerNotices
    <2>3. \A r \in ToSet(conns') : handler'[r] \notin {"unused"} \cup InTeardown
      BY <2>1, <2>2
    <2> QED BY <1>12, <2>1, <2>2, <2>3 DEF ServerNotices, clientVars, wireVars, rowVars, ownerVars, sweepVars
  <1>13. CASE Release(s)
    <2>1. /\ owner' \in [Processes -> Sockets \cup {NoSocket}] /\ stale' \subseteq Sockets
          /\ lock' = s /\ handler[s] = "closing" /\ handler' = [handler EXCEPT ![s] = "stamping"]
      BY <1>13 DEF Release
    <2> QED BY <1>13, <2>1 DEF Release, clientVars, wireVars, rowVars, sweepVars, taskVars, listVars
  <1>14. CASE Stamp(s)
    <2>1. agent' \in [Processes -> {"none", "offline", "live"}] /\ worker' \in {"offline", "online"}
      <3>1. CASE UNCHANGED <<agent, worker>>
        BY <3>1
      <3>2. CASE ~UNCHANGED <<agent, worker>>
        <4>1. agent' = [agent EXCEPT ![peer[s]] = "offline"] /\ worker' = "offline"
          BY <1>14, <3>2 DEF Stamp
        <4> QED BY <4>1
      <3> QED BY <3>1, <3>2
    <2>2. /\ handler[s] = "stamping" /\ handler' = [handler EXCEPT ![s] = "unused"]
          /\ peer' = [peer EXCEPT ![s] = NoPeer] /\ lock' = NoSocket
          /\ stale' = stale \ {s} /\ joined' = joined \ {s}
      BY <1>14 DEF Stamp
    <2> QED BY <1>14, <2>1, <2>2 DEF Stamp, clientVars, sweepVars, taskVars, listVars
  <1> QED BY <1>2, <1>3, <1>4, <1>5, <1>6, <1>7, <1>8, <1>9, <1>10, <1>11, <1>12, <1>13, <1>14 DEF Endpoint

\* The sweeper, time, faults, and the assignment.
LEMMA OtherTypes ==
    ASSUME TypeOK, (\E s \in Sockets : Drop(s)) \/ Sweep \/ Silence \/ Restart \/ Assign
    PROVE  TypeOK'
  <1>0. ToSet(conns) \subseteq Sockets
    BY DEF TypeOK, ToSet
  <1> USE <1>0
  <1> USE DEF TypeOK, InJoin, InTeardown
  <1>1. ASSUME NEW s \in Sockets, Drop(s) PROVE TypeOK'
    <2>1. faults' \in 0..MaxFaults
      BY <1>1, FaultsType DEF Drop, Fault
    <2>2. /\ wire' \subseteq Sockets /\ up' \in [Sockets -> Seq({"join", "state", "pong", "bye"})]
          /\ down' \in [Sockets -> SUBSET {"ping", "task"}]
      BY <1>1, ClosedTypes DEF Drop
    <2> QED BY <1>1, <2>1, <2>2 DEF Drop, clientVars, endpointVars, rowVars, ownerVars, sweepVars, taskVars, listVars
  <1>2. CASE SweepProbes
    <2>1. down' \in [Sockets -> SUBSET {"ping", "task"}]
      <3>1. PICK s \in Owners : down' = [down EXCEPT ![s] = Sent(s, "ping")]
        BY <1>2 DEF SweepProbes
      <3>2. s \in Sockets
        BY <3>1 DEF Owners
      <3>3. Sent(s, "ping") \in SUBSET {"ping", "task"}
        BY <3>2 DEF Sent
      <3> QED BY <3>1, <3>3
    <2> QED BY <1>2, <2>1 DEF SweepProbes, clientVars, endpointVars, rowVars, ownerVars, taskVars, listVars
  <1>3. CASE SweepCondemns
    BY <1>3 DEF SweepCondemns, clientVars, wireVars, endpointVars, rowVars, ownerVars, taskVars, listVars
  <1>4. CASE SweepMarks
    BY <1>4 DEF SweepMarks, clientVars, wireVars, endpointVars, taskVars, listVars
  <1>5. CASE Silence
    BY <1>5 DEF Silence, clientVars, wireVars, endpointVars, ownerVars, sweepVars, taskVars, listVars
  <1>6. CASE Restart
    <2>1. faults' \in 0..MaxFaults
      BY <1>6, FaultsType DEF Restart, Fault
    <2>2. conns' = <<>> /\ cursor' = 0 /\ task' \in {"new", "pending"} /\ missed' = missed
      BY <1>6 DEF Restart
    <2>3. conns' \in Seq(Sockets) /\ IsInjective(conns') /\ ToSet(conns') = {}
      BY <2>2 DEF IsInjective, ToSet
    <2>4. cursor' \in 0..(MaxSockets + 1)
      BY <2>2, SocketsType
    <2> QED BY <1>6, <2>1, <2>2, <2>3, <2>4 DEF Restart, clientVars
  <1>7. CASE AssignWrite
    <2>1. cursor' \in 0..(MaxSockets + 1) /\ cursor' # 0 /\ task' = "telling"
      BY <1>7, SocketsType DEF AssignWrite
    <2> QED BY <1>7, <2>1 DEF AssignWrite, clientVars, wireVars, endpointVars, rowVars, ownerVars, sweepVars
  <1>8. CASE AssignTell
    <2>1. Len(conns) \in Nat /\ Len(conns) <= MaxSockets
      BY ListBound
    <2>2. cursor \in Nat \ {0} /\ cursor <= Len(conns) /\ cursor' = cursor + 1
      BY <1>8 DEF AssignTell
    <2>3. cursor' \in 0..(MaxSockets + 1) /\ cursor' # 0
      BY <2>1, <2>2, SocketsType
    <2>4. down' \in [Sockets -> SUBSET {"ping", "task"}]
      <3>1. conns[cursor] \in Sockets
        BY <2>1, <2>2
      <3> QED BY <1>8, <3>1 DEF AssignTell, Sent
    <2> QED BY <1>8, <2>3, <2>4 DEF AssignTell, clientVars, endpointVars, rowVars, ownerVars, sweepVars
  <1>9. CASE AssignTold
    <2>1. cursor' \in 0..(MaxSockets + 1) /\ cursor' = 0 /\ task' = "pending"
      BY <1>9, SocketsType DEF AssignTold
    <2> QED BY <1>9, <2>1 DEF AssignTold, clientVars, wireVars, endpointVars, rowVars, ownerVars, sweepVars
  <1> QED BY <1>1, <1>2, <1>3, <1>4, <1>5, <1>6, <1>7, <1>8, <1>9 DEF Sweep, Assign

\* Types, and what the list of connections is: each socket once, and none whose
\* teardown has begun, so that a broadcast walks at most MaxSockets places.
THEOREM PresenceTypeCorrect == Spec => []TypeOK
  <1>1. Init => TypeOK
    <2> SUFFICES ASSUME Init PROVE TypeOK
      OBVIOUS
    <2>1. conns \in Seq(Sockets) /\ IsInjective(conns) /\ ToSet(conns) = {}
      BY DEF Init, IsInjective, ToSet
    <2>2. cursor \in 0..(MaxSockets + 1) /\ cursor = 0 /\ task = "new" /\ faults \in 0..MaxFaults
      BY SocketsType, FaultsType DEF Init
    <2>3. /\ <<>> \in Seq({"join", "state", "pong", "bye"}) /\ up = [s \in Sockets |-> <<>>]
          /\ handler = [s \in Sockets |-> "unused"]
      BY DEF Init
    <2>4. up \in [Sockets -> Seq({"join", "state", "pong", "bye"})]
      BY <2>3
    <2>5. /\ life \in [Processes -> {"new", "alive", "dead"}]
          /\ link \in [Processes -> Sockets \cup {NoSocket}] /\ heard \subseteq Processes
          /\ peer \in [Sockets -> Processes \cup {NoPeer}] /\ wire \subseteq Sockets
          /\ down \in [Sockets -> SUBSET {"ping", "task"}]
          /\ joined \subseteq Sockets /\ stale \subseteq Sockets
          /\ dups \in [Sockets -> SUBSET Processes]
          /\ owner \in [Processes -> Sockets \cup {NoSocket}] /\ lock \in Sockets \cup {NoSocket}
          /\ agent \in [Processes -> {"none", "offline", "live"}]
      BY DEF Init
    <2>6. /\ worker \in {"offline", "online"} /\ fresh \in BOOLEAN /\ probe \in {"none", "sent"}
          /\ sweeper \in {"idle", "marking"} /\ missed \in BOOLEAN
      BY DEF Init
    <2> QED BY <2>1, <2>2, <2>3, <2>4, <2>5, <2>6 DEF TypeOK, InJoin, InTeardown
  <1>2. TypeOK /\ [Next]_vars => TypeOK'
    <2> SUFFICES ASSUME TypeOK, [Next]_vars PROVE TypeOK'
      OBVIOUS
    <2>1. CASE UNCHANGED vars
      BY <2>1 DEF vars, clientVars, wireVars, endpointVars, rowVars, ownerVars, sweepVars, taskVars,
                  listVars, TypeOK
    <2> QED BY <2>1, ClientTypes, EndpointTypes, OtherTypes DEF Next
  <1> QED BY <1>1, <1>2, PTL DEF Spec

=============================================================================
