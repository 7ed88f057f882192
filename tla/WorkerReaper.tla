--------------------------- MODULE WorkerReaper ---------------------------
(***************************************************************************)
(* The workers the backend starts and stops: the spawn of a container      *)
(* (routes/workers.py, the foreman's spawn_worker tool), the idle reaper   *)
(* and the escalation behind every shutdown (worker_lifecycle.py), against *)
(* assignments, connections that break, requests that fail and backend     *)
(* restarts. A deadline that passes is a step of its own, so every delay   *)
(* the constants of the code allow is a behaviour.                         *)
(***************************************************************************)
EXTENDS Naturals, FiniteSets

CONSTANTS
    Workers,     \* worker ids, each for one row and one container
    MaxFaults    \* bound on failures, lost connections and restarts

ASSUME FaultsType == MaxFaults \in Nat

VARIABLES
    row,         \* Worker.state
    handle,      \* Worker.container_id and started_at are recorded
    old,         \* started_at is before the reaper's cutoff
    seen,        \* Worker.last_seen: "never", "recent", "old"
    disabled,    \* Worker.disabled, drain_requested_at
    container,   \* "none", "running", "stopped"
    connected,   \* the worker's process is connected
    draining,    \* it has been told to shut down
    stuck,       \* and its slots will never hear of it: see Tell
    task,        \* a pending or working task of the worker
    job,         \* the worker is at work on it
    quiet,       \* no task log of the worker since the cutoff
    spawning,    \* the place of the request that spawns the worker
    assign,      \* assign_task's place, its worker, and whether its row was enabled
    reaper,      \* reap_idle_workers_once: place, worker, candidates left
    escalation,  \* force_kill_worker_if_unresponsive, and who asked for it
    late,        \* the task was written after the reaper had judged the worker, by
                 \* a request that had checked it before its row was disabled
    hole,        \* nobody will stop the container any more: see Abandons
    faults

rowVars == <<row, handle, old, seen, disabled>>
processVars == <<container, connected, draining, stuck>>
workVars == <<task, job, quiet>>
backendVars == <<spawning, assign, reaper, escalation>>
ghostVars == <<late, hole>>
vars == <<rowVars, processVars, workVars, backendVars, ghostVars, faults>>

Nobody == "nobody"
ASSUME NobodyIsNoWorker == Nobody \notin Workers

NoAssign == [at |-> "idle", worker |-> Nobody, open |-> FALSE]
Asleep == [at |-> "asleep", worker |-> Nobody, online |-> {}, offline |-> {}]

Flags == [Workers -> BOOLEAN]

\* The domains of the variables.
Typed ==
    /\ row \in [Workers -> {"none", "launching", "online", "offline", "spawn_failed"}]
    /\ handle \in Flags /\ old \in Flags /\ disabled \in Flags
    /\ seen \in [Workers -> {"never", "recent", "old"}]
    /\ container \in [Workers -> {"none", "running", "stopped"}]
    /\ connected \in Flags /\ draining \in Flags /\ stuck \in Flags
    /\ task \in Flags /\ job \in Flags /\ quiet \in Flags /\ late \in Flags /\ hole \in Flags
    /\ spawning \in [Workers -> {"idle", "start", "record"}]
    /\ assign \in [at : {"idle", "checked", "tell"}, worker : Workers \cup {Nobody}, open : BOOLEAN]
    /\ reaper \in [at : {"asleep", "loop", "disable", "tell", "kill"}, worker : Workers \cup {Nobody},
                   online : SUBSET Workers, offline : SUBSET Workers]
    /\ escalation \in [Workers -> {"none", "reap", "operator", "reap late", "operator late"}]
    /\ faults \in 0..MaxFaults

\* A worker that is connected, told to stop or at work is in a running container;
\* one that is stuck was told to stop; one whose handle is or will be recorded has
\* been started; a job has a task row.
Sensible(w) ==
    /\ connected[w] \/ job[w] \/ draining[w] => container[w] = "running"
    /\ stuck[w] => draining[w]
    /\ handle[w] \/ spawning[w] = "record" => container[w] # "none"
    /\ old[w] => handle[w]
    /\ job[w] => task[w]
TypeOK == Typed /\ \A w \in Workers : Sensible(w)

Init ==
    /\ row = [w \in Workers |-> "none"] /\ seen = [w \in Workers |-> "never"]
    /\ handle = [w \in Workers |-> FALSE] /\ old = handle /\ disabled = handle
    /\ container = [w \in Workers |-> "none"]
    /\ connected = handle /\ draining = handle /\ stuck = handle
    /\ task = handle /\ job = handle /\ quiet = [w \in Workers |-> TRUE]
    /\ spawning = [w \in Workers |-> "idle"] /\ assign = NoAssign
    /\ reaper = Asleep /\ escalation = [w \in Workers |-> "none"]
    /\ late = handle /\ hole = handle /\ faults = 0

Set(f, w, x) == [f EXCEPT ![w] = x]
Fault == faults < MaxFaults /\ faults' = faults + 1
Running(w) == container[w] = "running"

\* A worker that will end by itself once it has no work.
Leaving(w) == draining[w] /\ ~stuck[w]

\* Each way in which a running container is left behind: disabled rows are never
\* looked at again, nor are rows without a handle. One of them is a worker that was
\* told to shut down and is stuck: its row goes offline, which the escalation takes
\* for its exit.
Abandons(w, yes) == hole' = IF yes THEN Set(hole, w, TRUE) ELSE hole

-----------------------------------------------------------------------------
(* spawn-worker and spawn_worker: the row is written, the container started *)
(* and its handle recorded, with waits between.                            *)

SpawnRow(w) ==
    /\ row[w] = "none"
    /\ \E state \in {"offline", "launching"} : row' = Set(row, w, state)
    /\ spawning' = Set(spawning, w, "start")
    /\ UNCHANGED <<handle, old, seen, disabled, processVars, workVars, assign, reaper,
                   escalation, ghostVars, faults>>

\* A start that fails or is given up may leave a container behind all the same.
SpawnStart(w) ==
    /\ spawning[w] = "start"
    /\ \/ /\ container' = Set(container, w, "running")
          /\ spawning' = Set(spawning, w, "record")
          /\ UNCHANGED <<row, hole, faults>>
       \/ /\ Fault /\ row' = Set(row, w, "spawn_failed")
          /\ container' \in {container, Set(container, w, "running")}
          /\ Abandons(w, container' # container)
          /\ spawning' = Set(spawning, w, "idle")
    /\ UNCHANGED <<handle, old, seen, disabled, connected, draining, stuck, workVars, assign, reaper,
                   escalation, late>>

\* record_worker_spawn. When it fails the tool marks the row, the endpoint does not.
SpawnRecord(w) ==
    /\ spawning[w] = "record" /\ spawning' = Set(spawning, w, "idle")
    /\ \/ handle' = Set(handle, w, TRUE) /\ UNCHANGED <<row, hole, faults>>
       \/ /\ Fault /\ row' \in {row, Set(row, w, "spawn_failed")}
          /\ Abandons(w, Running(w)) /\ UNCHANGED handle
    /\ UNCHANGED <<old, seen, disabled, processVars, workVars, assign, reaper, escalation, late>>

Spawn(w) == SpawnStart(w) \/ SpawnRecord(w)

-----------------------------------------------------------------------------
(* The worker's process, and time.                                         *)

\* handle_join, and the pending task its replay brings.
Join(w) ==
    /\ Running(w) /\ ~connected[w]
    /\ connected' = Set(connected, w, TRUE)
    /\ row' = Set(row, w, "online") /\ seen' = Set(seen, w, "recent")
    /\ job' = Set(job, w, job[w] \/ (task[w] /\ ~draining[w]))
    /\ quiet' = Set(quiet, w, quiet[w] /\ ~job'[w])
    /\ UNCHANGED <<handle, old, disabled, container, draining, stuck, task, backendVars, ghostVars, faults>>

Disconnect(w) ==
    /\ connected[w] /\ Fault
    /\ connected' = Set(connected, w, FALSE)
    /\ UNCHANGED <<rowVars, container, draining, stuck, workVars, backendVars, ghostVars>>

\* The teardown of the socket, or the sweeper, whose probe a process that shuts down
\* no longer answers: run() has cancelled its listener.
RowFollows(w) ==
    /\ row[w] = "online" /\ (~connected[w] \/ draining[w])
    /\ row' = Set(row, w, "offline")
    /\ UNCHANGED <<handle, old, seen, disabled, processVars, workVars, backendVars, ghostVars, faults>>

Stops(w) ==
    /\ container' = Set(container, w, "stopped")
    /\ connected' = Set(connected, w, FALSE) /\ draining' = Set(draining, w, FALSE)
    /\ stuck' = Set(stuck, w, FALSE) /\ job' = Set(job, w, FALSE)

\* A worker whose slots hear of the shutdown exits when it has no work.
Exit(w) ==
    /\ Leaving(w) /\ ~job[w] /\ Stops(w)
    /\ UNCHANGED <<rowVars, task, quiet, backendVars, ghostVars, faults>>

JobEnds(w) ==
    /\ job[w] /\ connected[w]
    /\ job' = Set(job, w, FALSE) /\ task' = Set(task, w, FALSE)
    /\ UNCHANGED <<rowVars, processVars, quiet, backendVars, ghostVars, faults>>

\* A pending task is cancelled.
TaskEnds(w) ==
    /\ task[w] /\ ~job[w] /\ task' = Set(task, w, FALSE)
    /\ UNCHANGED <<rowVars, processVars, job, quiet, backendVars, ghostVars, faults>>

Ages(w) ==
    /\ handle[w] /\ ~old[w] /\ old' = Set(old, w, TRUE)
    /\ UNCHANGED <<row, handle, seen, disabled, processVars, workVars, backendVars, ghostVars, faults>>

SeenAges(w) ==
    /\ seen[w] = "recent" /\ ~connected[w] /\ seen' = Set(seen, w, "old")
    /\ UNCHANGED <<row, handle, old, disabled, processVars, workVars, backendVars, ghostVars, faults>>

QuietAges(w) ==
    /\ ~quiet[w] /\ ~job[w] /\ quiet' = Set(quiet, w, TRUE)
    /\ UNCHANGED <<rowVars, processVars, task, job, backendVars, ghostVars, faults>>

-----------------------------------------------------------------------------
(* assign_task, from its check to the broadcast. The tool also asks for a   *)
(* row that is not offline, the endpoint does not. One task at a time.     *)

AssignCheck(w) ==
    /\ assign.at = "idle" /\ ~task[w]
    /\ row[w] # "none" /\ ~disabled[w]
    /\ assign' = [at |-> "checked", worker |-> w, open |-> ~disabled[w]]
    /\ UNCHANGED <<rowVars, processVars, workVars, spawning, reaper, escalation, ghostVars, faults>>

Judged(w) ==
    disabled[w] \/ w \in reaper.offline \/ (reaper.worker = w /\ reaper.at # "loop")

AssignWrite ==
    /\ assign.at = "checked" /\ assign' = [assign EXCEPT !.at = "tell"]
    /\ LET w == assign.worker IN
       /\ task' = Set(task, w, TRUE)
       /\ late' = Set(late, w, Judged(w) /\ assign.open)
    /\ UNCHANGED <<rowVars, processVars, job, quiet, spawning, reaper, escalation, hole, faults>>

\* A worker that is shutting down rejects the task, while it listens.
AssignTell ==
    /\ assign.at = "tell" /\ assign' = NoAssign
    /\ LET w == assign.worker IN
       /\ job' = Set(job, w, job[w] \/ (connected[w] /\ ~draining[w] /\ task[w]))
       /\ \/ UNCHANGED task
          \/ connected[w] /\ draining[w] /\ ~job[w] /\ task' = Set(task, w, FALSE)
       /\ quiet' = Set(quiet, w, quiet[w] /\ ~job'[w])
    /\ UNCHANGED <<rowVars, processVars, spawning, reaper, escalation, ghostVars, faults>>

-----------------------------------------------------------------------------
(* reap_idle_workers_once.                                                 *)

Reaps(at, w) == reaper' = [reaper EXCEPT !.at = at, !.worker = w]
Reaping(at) == reaper.at = at

Candidates == {w \in Workers : handle[w] /\ ~disabled[w] /\ old[w]}

\* The candidates, with the state their rows have now.
ReapBegin ==
    /\ Reaping("asleep") /\ Candidates # {}
    /\ reaper' = [at |-> "loop", worker |-> Nobody,
                  online |-> {w \in Candidates : row[w] # "offline"},
                  offline |-> {w \in Candidates : row[w] = "offline" /\ seen[w] # "recent"}]
    /\ UNCHANGED <<rowVars, processVars, workVars, spawning, assign, escalation, ghostVars, faults>>

Taken(w) == [reaper EXCEPT !.worker = w, !.online = @ \ {w}, !.offline = @ \ {w}]

\* An offline row, by the state it had: disabled, then killed.
ReapOffline(w) ==
    /\ Reaping("loop") /\ w \in reaper.offline
    /\ reaper' = [Taken(w) EXCEPT !.at = "kill"]
    /\ disabled' = Set(disabled, w, TRUE)
    /\ UNCHANGED <<row, handle, old, seen, processVars, workVars, spawning, assign, escalation,
                   ghostVars, faults>>

\* A mutant: work in progress is not looked for.
ReapCheckQuiet(w) ==
    /\ Reaping("loop") /\ w \in reaper.online
    /\ reaper' = IF quiet[w] THEN [Taken(w) EXCEPT !.at = "disable"] ELSE Taken(Nobody)
    /\ UNCHANGED <<rowVars, processVars, workVars, spawning, assign, escalation, ghostVars, faults>>

\* Another row: _worker_is_inactive.
ReapCheck(w) ==
    /\ Reaping("loop") /\ w \in reaper.online
    /\ reaper' = IF ~task[w] /\ ~job[w] /\ quiet[w]
                 THEN [Taken(w) EXCEPT !.at = "disable"] ELSE Taken(Nobody)
    /\ UNCHANGED <<rowVars, processVars, workVars, spawning, assign, escalation, ghostVars, faults>>

ReapDisable ==
    /\ Reaping("disable") /\ Reaps("tell", reaper.worker)
    /\ disabled' = Set(disabled, reaper.worker, TRUE)
    /\ UNCHANGED <<row, handle, old, seen, processVars, workVars, spawning, assign, escalation,
                   ghostVars, faults>>

\* _initiate_shutdown in the listener: the event, a message to the guild, then a
\* sentinel for each slot. run(), which the event wakes, cancels the listener; when
\* it does so before the message is sent, there are no sentinels, and the slots wait
\* for ever.
Tell(w) ==
    /\ draining' = Set(draining, w, draining[w] \/ connected[w])
    /\ \/ UNCHANGED stuck
       \/ connected[w] /\ ~draining[w] /\ stuck' = Set(stuck, w, TRUE)

\* A mutant: no escalation behind the signal.
ReapTellOnly ==
    /\ Reaping("tell") /\ Reaps("loop", Nobody)
    /\ Tell(reaper.worker)
    /\ UNCHANGED <<rowVars, container, connected, workVars, spawning, assign, escalation, ghostVars, faults>>

ReapTell ==
    /\ Reaping("tell") /\ Reaps("loop", Nobody)
    /\ Tell(reaper.worker)
    /\ escalation' = Set(escalation, reaper.worker, "reap")
    /\ UNCHANGED <<rowVars, container, connected, workVars, spawning, assign, ghostVars, faults>>

\* _force_kill_containers: an error is logged, and that is all.
ReapKill ==
    /\ Reaping("kill") /\ Reaps("loop", Nobody)
    /\ LET w == reaper.worker IN
       \/ Running(w) /\ Stops(w) /\ UNCHANGED <<hole, faults>>
       \/ ~Running(w) /\ UNCHANGED <<container, connected, draining, stuck, job, hole, faults>>
       \/ Running(w) /\ Fault /\ Abandons(w, TRUE)
          /\ UNCHANGED <<container, connected, draining, stuck, job>>
    /\ UNCHANGED <<rowVars, task, quiet, spawning, assign, escalation, late>>

ReapEnds ==
    /\ Reaping("loop") /\ reaper.online = {} /\ reaper.offline = {}
    /\ reaper' = Asleep
    /\ UNCHANGED <<rowVars, processVars, workVars, spawning, assign, escalation, ghostVars, faults>>

Reaper ==
    \/ ReapBegin \/ ReapDisable \/ ReapTell \/ ReapKill \/ ReapEnds
    \/ \E w \in Workers : ReapOffline(w) \/ ReapCheck(w)

-----------------------------------------------------------------------------
(* An operator's or the foreman's shutdown, once for a worker, and the     *)
(* escalation.                                                             *)

OperatorShutdown(w) ==
    /\ row[w] # "none" /\ ~disabled[w] /\ escalation[w] = "none"
    /\ Tell(w)
    /\ disabled' = Set(disabled, w, TRUE)
    /\ escalation' = Set(escalation, w, "operator")
    /\ UNCHANGED <<row, handle, old, seen, container, connected, workVars, spawning, assign, reaper,
                   ghostVars, faults>>

\* A row that is offline counts as a graceful exit.
EscalationPolls(w) ==
    /\ escalation[w] # "none" /\ row[w] = "offline"
    /\ escalation' = Set(escalation, w, "none")
    /\ Abandons(w, container[w] # "stopped" /\ ~Leaving(w))
    /\ UNCHANGED <<rowVars, processVars, workVars, spawning, assign, reaper, late, faults>>

EscalationExpires(w) ==
    /\ escalation[w] \in {"reap", "operator"} /\ row[w] # "offline"
    /\ escalation' = Set(escalation, w, IF escalation[w] = "reap" THEN "reap late" ELSE "operator late")
    /\ UNCHANGED <<rowVars, processVars, workVars, spawning, assign, reaper, ghostVars, faults>>

\* The container is stopped, if its handle is known and the request succeeds.
EscalationKills(w) ==
    /\ escalation[w] \in {"reap late", "operator late"} /\ row[w] # "offline"
    /\ escalation' = Set(escalation, w, "none")
    /\ \/ Running(w) /\ handle[w] /\ Stops(w) /\ UNCHANGED <<hole, faults>>
       \/ /\ ~(Running(w) /\ handle[w])
          /\ Abandons(w, container[w] # "stopped" /\ ~Leaving(w))
          /\ UNCHANGED <<container, connected, draining, stuck, job, faults>>
       \/ /\ Running(w) /\ handle[w] /\ Fault /\ Abandons(w, ~Leaving(w))
          /\ UNCHANGED <<container, connected, draining, stuck, job>>
    /\ UNCHANGED <<rowVars, task, quiet, spawning, assign, reaper, late>>

Escalation(w) == EscalationPolls(w) \/ EscalationExpires(w) \/ EscalationKills(w)

\* A restart of the backend: what is in memory is gone, rows are offline.
Restart ==
    /\ Fault
    /\ connected' = [w \in Workers |-> FALSE]
    /\ row' = [w \in Workers |-> IF row[w] = "online" THEN "offline" ELSE row[w]]
    /\ hole' = [w \in Workers |-> hole[w] \/ (Running(w) /\ ~Leaving(w) /\ (disabled[w] \/ ~handle[w]))]
    /\ spawning' = [w \in Workers |-> "idle"] /\ assign' = NoAssign
    /\ reaper' = Asleep /\ escalation' = [w \in Workers |-> "none"]
    /\ UNCHANGED <<handle, old, seen, disabled, container, draining, stuck, workVars, late>>

-----------------------------------------------------------------------------
Time(w) == Ages(w) \/ SeenAges(w) \/ QuietAges(w)

Next ==
    \/ \E w \in Workers :
          \/ SpawnRow(w) \/ Spawn(w)
          \/ Join(w) \/ Disconnect(w) \/ RowFollows(w) \/ Exit(w) \/ JobEnds(w) \/ TaskEnds(w)
          \/ Time(w) \/ AssignCheck(w) \/ OperatorShutdown(w) \/ Escalation(w)
    \/ AssignWrite \/ AssignTell \/ Reaper \/ Restart

Spec == Init /\ [][Next]_vars

\* Requests return, deadlines pass, the reaper runs, and a worker exits that has no
\* work and whose slots have the sentinels. Of one that is stuck nothing is assumed.
Fairness ==
    /\ WF_vars(Reaper)
    /\ WF_vars(AssignWrite \/ AssignTell)
    /\ \A w \in Workers :
          /\ WF_vars(Spawn(w)) /\ WF_vars(Time(w)) /\ WF_vars(Escalation(w))
          /\ WF_vars(RowFollows(w)) /\ WF_vars(Exit(w))

FairSpec == Spec /\ Fairness

-----------------------------------------------------------------------------
\* The reaper's escalation does not kill a worker at work, unless the job was
\* assigned after the reaper had judged the worker: a request that passed its
\* check before the row was disabled.
SparesWork ==
    [][\A w \in Workers :
          escalation[w] = "reap late" /\ job[w] /\ ~job'[w] /\ container'[w] = "stopped" => late[w]]_vars

\* worker_lifecycle.py: "The idle reaper shuts down and force-kills whatever is left
\* once idle". A container runs out of work and is stopped, unless it is left behind
\* in one of the ways Abandons marks: a stop that fails, a start whose handle is
\* never recorded, a restart after its row was disabled, a row that says offline
\* while the worker lives, as that of a worker stuck in its shutdown does.
Disposable ==
    \A w \in Workers :
        Running(w) /\ ~task[w] ~> ~Running(w) \/ task[w] \/ hole[w]
=============================================================================
