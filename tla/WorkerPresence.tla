-------------------------- MODULE WorkerPresence --------------------------
(***************************************************************************)
(* Whether a worker is there: its WebSocket client, which reconnects for   *)
(* ever (ws_client.py), the backend's endpoint with one handler per socket *)
(* (routes/websocket.py), the join that installs an agent as the owner of  *)
(* its row (ws_handlers.py), the sweeper that probes a silent worker       *)
(* (main.py), and the delivery of one assigned task. One worker row; a     *)
(* process that replaces a dead one joins with an agent id of its own.     *)
(* A handler is split where it awaits the database or the owner lock.      *)
(***************************************************************************)
EXTENDS Naturals, Sequences, SequencesExt

CONSTANTS
    Processes,
    MaxSockets,    \* sockets in use at a time
    MaxFaults      \* bound on broken connections and backend restarts

ASSUME SocketsType == MaxSockets \in Nat \ {0}
ASSUME FaultsType == MaxFaults \in Nat

Sockets == 1..MaxSockets
NoSocket == 0
NoPeer == "no process"
ASSUME NoPeerIsNoProcess == NoPeer \notin Processes

VARIABLES
    life,      \* of a process: "new", "alive", "dead"
    link,      \* the socket its client holds
    heard,     \* the live processes that have the task
    peer,      \* the process at the far end of a socket
    wire,      \* sockets whose connection is intact
    up,        \* frames the backend has not read yet
    down,      \* messages the client has not read yet: their order and a
               \* second copy change nothing, the worker knows its task ids
    handler,   \* where the endpoint of a socket is
    joined,    \* ctx.joined_agents: sockets whose agent has joined
    dups,      \* the duplicates the join of a socket found
    stale,     \* sockets whose teardown owns its agent
    owner,     \* agent_owners
    lock,      \* the socket whose teardown holds the agent_owner_lock
    agent,     \* Agent.state
    worker,    \* Worker.state
    fresh,     \* Worker.last_seen is within WORKER_OFFLINE_AFTER_SECONDS
    probe,     \* pending_worker_probes
    sweeper,   \* the pass of _sweep_stale_workers_once
    conns,     \* connections[guild]: a list, in the order of acceptance
    cursor,    \* where the loop of a broadcast is in it: a send suspends
    missed,    \* a socket that left the list moved another past that loop
    task,      \* the task and its assignment
    faults

clientVars == <<life, link, heard>>
wireVars == <<peer, wire, up, down>>
endpointVars == <<handler, joined, dups, stale>>
rowVars == <<agent, worker, fresh>>
ownerVars == <<owner, lock>>
sweepVars == <<probe, sweeper>>
listVars == <<conns, cursor, missed>>
taskVars == <<listVars, task>>
vars == <<clientVars, wireVars, endpointVars, rowVars, ownerVars, sweepVars, taskVars, faults>>

InJoin == {"filtering", "evicting", "popping", "upserting", "owning", "replaying"}
InTeardown == {"closing", "stamping"}

TypeOK ==
    /\ life \in [Processes -> {"new", "alive", "dead"}]
    /\ link \in [Processes -> Sockets \cup {NoSocket}]
    /\ heard \subseteq Processes
    /\ peer \in [Sockets -> Processes \cup {NoPeer}]
    /\ wire \subseteq Sockets
    /\ up \in [Sockets -> Seq({"join", "state", "pong", "bye"})]
    /\ down \in [Sockets -> SUBSET {"ping", "task"}]
    /\ handler \in [Sockets -> {"unused", "reading"} \cup InJoin \cup InTeardown]
    /\ \A s \in Sockets : handler[s] # "unused" => peer[s] # NoPeer
    /\ joined \subseteq Sockets /\ stale \subseteq Sockets
    /\ dups \in [Sockets -> SUBSET Processes]
    /\ owner \in [Processes -> Sockets \cup {NoSocket}]
    /\ lock \in Sockets \cup {NoSocket}
    /\ agent \in [Processes -> {"none", "offline", "live"}]
    /\ worker \in {"offline", "online"} /\ fresh \in BOOLEAN
    /\ probe \in {"none", "sent"}
    /\ sweeper \in {"idle", "marking"}
    /\ conns \in Seq(Sockets) /\ IsInjective(conns)
    /\ \A s \in ToSet(conns) : handler[s] \notin {"unused"} \cup InTeardown
    /\ cursor \in 0..(MaxSockets + 1) /\ missed \in BOOLEAN
    /\ task \in {"new", "telling", "pending"} /\ (cursor # 0 <=> task = "telling")
    /\ faults \in 0..MaxFaults

Init ==
    /\ life = [p \in Processes |-> "new"]
    /\ link = [p \in Processes |-> NoSocket]
    /\ heard = {}
    /\ peer = [s \in Sockets |-> NoPeer]
    /\ wire = {} /\ joined = {} /\ stale = {}
    /\ up = [s \in Sockets |-> <<>>] /\ down = [s \in Sockets |-> {}]
    /\ handler = [s \in Sockets |-> "unused"]
    /\ dups = [s \in Sockets |-> {}]
    /\ owner = [p \in Processes |-> NoSocket] /\ lock = NoSocket
    /\ agent = [p \in Processes |-> "none"]
    /\ worker = "offline" /\ fresh = FALSE
    /\ probe = "none" /\ sweeper = "idle"
    /\ conns = <<>> /\ cursor = 0 /\ missed = FALSE
    /\ task = "new" /\ faults = 0

-----------------------------------------------------------------------------
(* The worker process and its client.                                      *)

Running(p) == life[p] = "alive"
Connected(p) == Running(p) /\ link[p] # NoSocket
Intact(s) == s \in wire

\* The worker id belongs to one container: a process starts after the death
\* of the one before it, whose socket may still be open at the backend.
Start(p) ==
    /\ life[p] = "new"
    /\ \A q \in Processes : life[q] \in {"new", "dead"}
    /\ life' = [life EXCEPT ![p] = "alive"]
    /\ UNCHANGED <<link, heard, wireVars, endpointVars, rowVars, ownerVars, sweepVars, taskVars, faults>>

Free(s) == handler[s] = "unused" /\ \A p \in Processes : link[p] # s

\* connect() under the client's lock, accepted by the endpoint; the first
\* frame is the join that run() or the on_reconnect hook sends.
Connect(p) ==
    /\ Running(p) /\ link[p] = NoSocket
    /\ \E s \in Sockets :
          /\ Free(s) /\ \A r \in Sockets : r < s => ~Free(r)
          /\ link' = [link EXCEPT ![p] = s]
          /\ peer' = [peer EXCEPT ![s] = p]
          /\ wire' = wire \cup {s}
          /\ up' = [up EXCEPT ![s] = <<"join">>]
          /\ down' = [down EXCEPT ![s] = {}]
          /\ handler' = [handler EXCEPT ![s] = "reading"]
          /\ conns' = Append(conns, s)
    /\ UNCHANGED <<life, heard, joined, dups, stale, rowVars, ownerVars, sweepVars, cursor, missed, task, faults>>

\* recv or send raises: the client closes its end and reconnects.
ClientNotices(p) ==
    /\ Connected(p) /\ ~Intact(link[p])
    /\ link' = [link EXCEPT ![p] = NoSocket]
    /\ UNCHANGED <<life, heard, wireVars, endpointVars, rowVars, ownerVars, sweepVars, taskVars, faults>>

\* A frame of a slot that changed its state. Bound: one after a silence, when the
\* backend took the agent for offline; otherwise it does what a pong does.
SendState(p) ==
    /\ Connected(p) /\ Intact(link[p]) /\ up[link[p]] = <<>> /\ ~fresh /\ (agent[p] = "offline")
    /\ up' = [up EXCEPT ![link[p]] = <<"state">>]
    /\ UNCHANGED <<clientVars, peer, wire, down, endpointVars, rowVars, ownerVars, sweepVars, taskVars, faults>>

HearPing(p) ==
    /\ Connected(p) /\ Intact(link[p])
    /\ LET s == link[p] IN
          /\ "ping" \in down[s]
          /\ down' = [down EXCEPT ![s] = @ \ {"ping"}]
          /\ up' = [up EXCEPT ![s] = Append(@, "pong")]
    /\ UNCHANGED <<clientVars, peer, wire, endpointVars, rowVars, ownerVars, sweepVars, taskVars, faults>>

HearTask(p) ==
    /\ Connected(p) /\ Intact(link[p])
    /\ LET s == link[p] IN
          /\ "task" \in down[s]
          /\ down' = [down EXCEPT ![s] = @ \ {"task"}]
    /\ heard' = heard \cup {p}
    /\ UNCHANGED <<life, link, peer, wire, up, endpointVars, rowVars, ownerVars, sweepVars, taskVars, faults>>

Closed(s, lost) ==
    /\ wire' = wire \ {s}
    /\ down' = [down EXCEPT ![s] = {}]
    /\ up' = IF lost THEN [up EXCEPT ![s] = <<>>] ELSE up

Fault == faults < MaxFaults /\ faults' = faults + 1

\* Bound: the last process lives.
HasSuccessor == \E q \in Processes : life[q] = "new"

\* run() ends: worker-disconnect, then close. What was sent before it arrives.
Leave(p) ==
    /\ Connected(p) /\ Intact(link[p]) /\ HasSuccessor
    /\ life' = [life EXCEPT ![p] = "dead"]
    /\ link' = [link EXCEPT ![p] = NoSocket]
    /\ heard' = heard \ {p}
    /\ wire' = wire \ {link[p]}
    /\ up' = [up EXCEPT ![link[p]] = Append(@, "bye")]
    /\ down' = [down EXCEPT ![link[p]] = {}]
    /\ UNCHANGED <<peer, endpointVars, rowVars, ownerVars, sweepVars, taskVars, faults>>

\* The process is killed: what it sent may or may not arrive.
Die(p) ==
    /\ Running(p) /\ HasSuccessor
    /\ life' = [life EXCEPT ![p] = "dead"]
    /\ link' = [link EXCEPT ![p] = NoSocket]
    /\ heard' = heard \ {p}
    /\ IF link[p] = NoSocket THEN UNCHANGED <<wire, up, down>>
       ELSE \E lost \in BOOLEAN : Closed(link[p], lost)
    /\ UNCHANGED <<peer, endpointVars, rowVars, ownerVars, sweepVars, taskVars, faults>>

Drop(s) ==
    /\ Intact(s) /\ Fault
    /\ \E lost \in BOOLEAN : Closed(s, lost)
    /\ UNCHANGED <<clientVars, peer, endpointVars, rowVars, ownerVars, sweepVars, taskVars>>

-----------------------------------------------------------------------------
(* The endpoint of a socket.                                               *)

Goto(s, place) == handler' = [handler EXCEPT ![s] = place]

\* _touch_agent runs before dispatch, for every frame.
Reads(s, frame) ==
    /\ handler[s] = "reading" /\ up[s] # <<>> /\ Head(up[s]) = frame
    /\ up' = [up EXCEPT ![s] = Tail(@)]
    /\ fresh' = TRUE
    /\ probe' = "none"

ReadState(s) ==
    /\ Reads(s, "state")
    /\ agent' = [agent EXCEPT ![peer[s]] = IF @ = "none" THEN @ ELSE "live"]
    /\ UNCHANGED <<clientVars, peer, wire, down, endpointVars, worker, ownerVars, sweeper, taskVars, faults>>

ReadPong(s) ==
    /\ Reads(s, "pong")
    /\ UNCHANGED <<clientVars, peer, wire, down, endpointVars, agent, worker, ownerVars, sweeper, taskVars, faults>>

ReadBye(s) ==
    /\ Reads(s, "bye")
    /\ agent' = [agent EXCEPT ![peer[s]] = IF s \in joined THEN "offline" ELSE @]
    /\ worker' = "offline"
    /\ UNCHANGED <<clientVars, peer, wire, down, endpointVars, ownerVars, sweeper, taskVars, faults>>

\* handle_join reads the other agents of the worker that are not offline ...
ReadJoin(s) ==
    /\ Reads(s, "join")
    /\ dups' = [dups EXCEPT ![s] = {p \in Processes \ {peer[s]} : agent[p] = "live"}]
    /\ Goto(s, "filtering")
    /\ UNCHANGED <<clientVars, peer, wire, down, joined, stale, agent, worker, ownerVars, sweeper, taskVars, faults>>

\* ... keeps, under the lock, those another socket owns ...
JoinFilter(s) ==
    /\ handler[s] = "filtering" /\ lock = NoSocket
    /\ LET evicted == {p \in dups[s] : owner[p] # s} IN
          /\ dups' = [dups EXCEPT ![s] = evicted]
          /\ Goto(s, IF evicted = {} THEN "upserting" ELSE "evicting")
    /\ UNCHANGED <<clientVars, wireVars, joined, stale, rowVars, ownerVars, sweepVars, taskVars, faults>>

JoinEvict(s) ==
    /\ handler[s] = "evicting"
    /\ agent' = [p \in Processes |-> IF p \in dups[s] THEN "offline" ELSE agent[p]]
    /\ Goto(s, "popping")
    /\ UNCHANGED <<clientVars, wireVars, joined, dups, stale, worker, fresh, ownerVars, sweepVars, taskVars, faults>>

\* ... takes their ownership and closes their sockets ...
JoinPop(s) ==
    /\ handler[s] = "popping" /\ lock = NoSocket
    /\ LET old == {owner[p] : p \in dups[s]} \ {NoSocket, s} IN
          /\ wire' = wire \ old
          /\ down' = [r \in Sockets |-> IF r \in old THEN {} ELSE down[r]]
          /\ up' = [r \in Sockets |-> IF r \in old THEN <<>> ELSE up[r]]
    /\ owner' = [p \in Processes |-> IF p \in dups[s] THEN NoSocket ELSE owner[p]]
    /\ dups' = [dups EXCEPT ![s] = {}]
    /\ Goto(s, "upserting")
    /\ UNCHANGED <<clientVars, peer, joined, stale, rowVars, lock, sweepVars, taskVars, faults>>

\* ... writes its own rows ...
JoinUpsert(s) ==
    /\ handler[s] = "upserting"
    /\ agent' = [agent EXCEPT ![peer[s]] = "live"]
    /\ worker' = "online" /\ fresh' = TRUE
    /\ joined' = joined \cup {s}
    /\ Goto(s, "owning")
    /\ UNCHANGED <<clientVars, wireVars, dups, stale, ownerVars, sweepVars, taskVars, faults>>

\* ... and only then becomes the owner.
JoinOwn(s) ==
    /\ handler[s] = "owning" /\ lock = NoSocket
    /\ owner' = [owner EXCEPT ![peer[s]] = s]
    /\ Goto(s, "replaying")
    /\ UNCHANGED <<clientVars, wireVars, joined, dups, stale, rowVars, lock, sweepVars, taskVars, faults>>

\* A send to a broken socket is lost, or ends the handler: it reads next.
Sent(s, msg) == IF Intact(s) THEN down[s] \cup {msg} ELSE down[s]

JoinReplay(s) ==
    /\ handler[s] = "replaying"
    /\ down' = [down EXCEPT ![s] = IF task \in {"telling", "pending"} THEN Sent(s, "task") ELSE @]
    /\ Goto(s, "reading")
    /\ UNCHANGED <<clientVars, peer, wire, up, joined, dups, stale, rowVars, ownerVars, sweepVars, taskVars, faults>>

\* list.remove, of a list the socket is in.
Unlisted(s) ==
    IF Contains(conns, s) THEN RemoveAt(conns, CHOOSE i \in DOMAIN conns : conns[i] = s) ELSE conns

\* receive_json raises WebSocketDisconnect once nothing is left to read.
ServerNotices(s) ==
    /\ handler[s] = "reading" /\ up[s] = <<>> /\ ~Intact(s)
    /\ Goto(s, "closing")
    /\ conns' = Unlisted(s)
    /\ missed' = (missed \/ \E i \in 1..(cursor - 1) : i \in DOMAIN conns /\ conns[i] = s)
    /\ UNCHANGED <<clientVars, wireVars, joined, dups, stale, rowVars, ownerVars, sweepVars, cursor, task, faults>>

\* Mutant: the teardown stamps the agents it owns but leaves the ownership.
ReleaseKeepsOwner(s) ==
    /\ handler[s] = "closing" /\ lock = NoSocket
    /\ lock' = s
    /\ stale' = IF s \in joined /\ owner[peer[s]] = s THEN stale \cup {s} ELSE stale
    /\ Goto(s, "stamping")
    /\ UNCHANGED <<clientVars, wireVars, joined, dups, owner, rowVars, sweepVars, taskVars, faults>>

\* The teardown: release ownership under the lock, then stamp the rows.
Release(s) ==
    /\ handler[s] = "closing" /\ lock = NoSocket
    /\ lock' = s
    /\ LET owned == s \in joined /\ owner[peer[s]] = s IN
          /\ stale' = IF owned THEN stale \cup {s} ELSE stale
          /\ owner' = IF owned THEN [owner EXCEPT ![peer[s]] = NoSocket] ELSE owner
    /\ Goto(s, "stamping")
    /\ UNCHANGED <<clientVars, wireVars, joined, dups, rowVars, sweepVars, taskVars, faults>>

\* A database error is logged: the rows keep their state until the sweeper runs.
Stamp(s) ==
    /\ handler[s] = "stamping"
    /\ \/ /\ s \in stale
          /\ agent' = [agent EXCEPT ![peer[s]] = "offline"]
          /\ worker' = "offline"
       \/ UNCHANGED <<agent, worker>>
    /\ lock' = NoSocket
    /\ stale' = stale \ {s} /\ joined' = joined \ {s}
    /\ peer' = [peer EXCEPT ![s] = NoPeer]
    /\ Goto(s, "unused")
    /\ UNCHANGED <<clientVars, wire, up, down, dups, fresh, owner, sweepVars, taskVars, faults>>

-----------------------------------------------------------------------------
(* The sweeper, the clock and the backend's own restart.                   *)

\* A worker is silent for longer than any frame takes to be read and handled.
Silence ==
    /\ fresh /\ fresh' = FALSE
    /\ \A s \in Sockets : handler[s] \in {"unused", "reading"} /\ up[s] = <<>>
    /\ UNCHANGED <<clientVars, wireVars, endpointVars, agent, worker, ownerVars, sweepVars, taskVars, faults>>

\* The sockets of the worker's live agents.
Owners == {owner[p] : p \in {q \in Processes : agent[q] = "live"}} \ {NoSocket}

\* A silent worker is sent a probe ...
SweepProbes ==
    /\ sweeper = "idle" /\ worker = "online" /\ ~fresh /\ probe = "none"
    /\ \E s \in Owners :
          /\ "ping" \notin down[s] /\ ~Contains(up[s], "pong")
          /\ down' = [down EXCEPT ![s] = Sent(s, "ping")]
    /\ probe' = "sent"
    /\ UNCHANGED <<clientVars, peer, wire, up, endpointVars, rowVars, ownerVars, sweeper, taskVars, faults>>

\* Mutant: only a worker that could be probed is condemned.
SweepCondemnsProbed ==
    /\ sweeper = "idle" /\ worker = "online" /\ ~fresh
    /\ probe = "sent" \/ \E s \in Owners : ~Intact(s)
    /\ sweeper' = "marking" /\ probe' = "none"
    /\ UNCHANGED <<clientVars, wireVars, endpointVars, rowVars, ownerVars, taskVars, faults>>

\* ... and is offline when no socket owns it, when the send raises, or when the
\* next pass, later than the probe's timeout, finds the probe pending.
SweepCondemns ==
    /\ sweeper = "idle" /\ worker = "online" /\ ~fresh
    /\ Owners = {} \/ probe = "sent" \/ \E s \in Owners : ~Intact(s)
    /\ sweeper' = "marking" /\ probe' = "none"
    /\ UNCHANGED <<clientVars, wireVars, endpointVars, rowVars, ownerVars, taskVars, faults>>

SweepMarks ==
    /\ sweeper = "marking"
    /\ agent' = [p \in Processes |-> IF agent[p] = "live" THEN "offline" ELSE agent[p]]
    /\ owner' = [p \in Processes |-> IF agent[p] = "live" THEN NoSocket ELSE owner[p]]
    /\ worker' = "offline" /\ sweeper' = "idle"
    /\ UNCHANGED <<clientVars, wireVars, endpointVars, fresh, lock, probe, taskVars, faults>>

\* The process restarts: memory is gone, reset_connection_state runs.
Restart ==
    /\ Fault
    /\ peer' = [s \in Sockets |-> NoPeer] /\ wire' = {}
    /\ up' = [s \in Sockets |-> <<>>] /\ down' = [s \in Sockets |-> {}]
    /\ handler' = [s \in Sockets |-> "unused"] /\ dups' = [s \in Sockets |-> {}]
    /\ joined' = {} /\ stale' = {}
    /\ owner' = [p \in Processes |-> NoSocket] /\ lock' = NoSocket
    /\ agent' = [p \in Processes |-> IF agent[p] = "none" THEN "none" ELSE "offline"]
    /\ worker' = "offline" /\ probe' = "none" /\ sweeper' = "idle"
    /\ conns' = <<>> /\ cursor' = 0
    /\ task' = IF task = "telling" THEN "pending" ELSE task
    /\ UNCHANGED <<clientVars, fresh, missed>>

-----------------------------------------------------------------------------
(* assign_task, as far as presence goes: the row is committed after a      *)
(* check of the worker's own row, then everyone is told.                   *)

AssignWrite ==
    /\ task = "new" /\ worker = "online"
    /\ task' = "telling" /\ cursor' = 1
    /\ UNCHANGED <<clientVars, wireVars, endpointVars, rowVars, ownerVars, sweepVars, conns, missed, faults>>

\* Mutant: the assignment is sent to the owner of the worker's agent alone.
AssignTellOwner ==
    /\ task = "telling" /\ cursor <= Len(conns)
    /\ down' = IF conns[cursor] \in Owners
               THEN [down EXCEPT ![conns[cursor]] = Sent(conns[cursor], "task")] ELSE down
    /\ cursor' = cursor + 1
    /\ UNCHANGED <<clientVars, peer, wire, up, endpointVars, rowVars, ownerVars, sweepVars, conns, missed, task, faults>>

\* broadcast() walks the list by position and awaits each send.
AssignTell ==
    /\ task = "telling" /\ cursor <= Len(conns)
    /\ down' = [down EXCEPT ![conns[cursor]] = Sent(conns[cursor], "task")]
    /\ cursor' = cursor + 1
    /\ UNCHANGED <<clientVars, peer, wire, up, endpointVars, rowVars, ownerVars, sweepVars, conns, missed, task, faults>>

AssignTold ==
    /\ task = "telling" /\ cursor > Len(conns)
    /\ task' = "pending" /\ cursor' = 0
    /\ UNCHANGED <<clientVars, wireVars, endpointVars, rowVars, ownerVars, sweepVars, conns, missed, faults>>

-----------------------------------------------------------------------------
Client(p) ==
    \/ Connect(p) \/ ClientNotices(p) \/ HearPing(p) \/ HearTask(p)
Endpoint(s) ==
    \/ ReadState(s) \/ ReadPong(s) \/ ReadBye(s) \/ ReadJoin(s)
    \/ JoinFilter(s) \/ JoinEvict(s) \/ JoinPop(s) \/ JoinUpsert(s) \/ JoinOwn(s) \/ JoinReplay(s)
    \/ ServerNotices(s) \/ Release(s) \/ Stamp(s)
Sweep == SweepProbes \/ SweepCondemns \/ SweepMarks
Assign == AssignWrite \/ AssignTell \/ AssignTold

Next ==
    \/ \E p \in Processes : Start(p) \/ Client(p) \/ SendState(p) \/ Leave(p) \/ Die(p)
    \/ \E s \in Sockets : Endpoint(s) \/ Drop(s)
    \/ Sweep \/ Silence \/ Restart \/ Assign

Spec == Init /\ [][Next]_vars

\* The event loops run coroutines that can run, a client hears what reached it,
\* the sweeper's loop and time go on. Nothing is
\* assumed of starts, deaths, drops, restarts, answers to a probe and the frames of a busy slot.
FairSpec ==
    /\ Spec
    /\ WF_vars(\E p \in Processes : Connect(p) \/ ClientNotices(p))
    /\ WF_vars(\E p \in Processes : HearTask(p))
    /\ WF_vars(\E s \in Sockets : Endpoint(s))
    /\ WF_vars(Sweep) /\ WF_vars(Silence)
    /\ WF_vars(AssignTell \/ AssignTold)

-----------------------------------------------------------------------------
(* Properties.                                                             *)

\* An agent's owner is a socket that serves it: a teardown that finds another
\* owner leaves it alone, and a join that evicts takes the ownership with it, so
\* no message is routed to a socket that is gone (agent_owners).
OwnerServes ==
    \A p \in Processes :
        owner[p] # NoSocket =>
            peer[owner[p]] = p /\ handler[owner[p]] \notin {"unused", "stamping"}

\* A task that was assigned reaches the worker for as long as it lives: through
\* the broadcast, or, when that hit no socket or a broken one, through the replay
\* of the next join (ws_handlers.py:376-424).
AssignedIsHeard ==
    (task = "pending" /\ \E p \in Processes : Running(p))
        ~> (missed \/ \A p \in Processes : Running(p) => p \in heard)

\* A worker whose processes are gone is not shown online for ever: the teardown
\* of its socket stamps it, or, when that fails or finds another owner, the
\* sweeper's probe stays unanswered (main.py:112-235).
DeathIsNoticed ==
    (\A p \in Processes : ~Running(p)) ~> (worker = "offline" \/ \E p \in Processes : Running(p))

=============================================================================
