-------------------------- MODULE Backend_proofs ---------------------------
(* What is proved of three parts of the backend: the idle reaper, for any    *)
(* number of workers and faults; a guild's members and invitations, for any  *)
(* number of people, invitations and requests under way; and the revisions   *)
(* of the schema, for any releases, stops and downgrades.                    *)
EXTENDS WorkerReaper, GuildAccess, SchemaUpgrade, WellFoundedInduction, TLAPS

\* One entry of a function of workers is set.
LEMMA SetTyped ==
    ASSUME NEW S, NEW f \in [Workers -> S], NEW w, NEW x \in S
    PROVE  Set(f, w, x) \in [Workers -> S]
  BY DEF Set

\* And of a flag.
LEMMA SetFlag ==
    ASSUME NEW f \in Flags, NEW w, NEW x \in BOOLEAN
    PROVE  Set(f, w, x) \in Flags
  BY SetTyped DEF Flags

\* The steps' parts: a fault, what is left behind, a container that is stopped.
LEMMA FaultTyped ==
    ASSUME Typed, Fault
    PROVE  faults' \in 0..MaxFaults
  <1>1. faults \in 0..MaxFaults
    BY DEF Typed
  <1> QED BY <1>1, FaultsType DEF Fault

LEMMA AbandonsTyped ==
    ASSUME Typed, NEW w, NEW yes, Abandons(w, yes)
    PROVE  hole' \in Flags
  BY SetFlag DEF Typed, Abandons

LEMMA StopsTyped ==
    ASSUME Typed, NEW w, Stops(w)
    PROVE  /\ container' \in [Workers -> {"none", "running", "stopped"}]
           /\ connected' \in Flags /\ draining' \in Flags
           /\ stuck' \in Flags /\ job' \in Flags
  BY SetTyped, SetFlag DEF Typed, Stops

LEMMA TellTyped ==
    ASSUME Typed, NEW w, Tell(w)
    PROVE  draining' \in Flags /\ stuck' \in Flags
<1>1. \A b \in BOOLEAN : Set(draining, w, b) \in Flags /\ Set(stuck, w, b) \in Flags
  BY SetFlag DEF Typed
<1>2. draining' \in Flags
  <2>1. (draining[w] \/ connected[w]) \in BOOLEAN
    OBVIOUS
  <2> QED BY <1>1, <2>1 DEF Tell
<1>3. stuck' \in Flags
  BY <1>1 DEF Tell, Typed
<1> QED BY <1>2, <1>3

LEMMA TypedInductive ==
    ASSUME Typed, [Next]_vars
    PROVE  Typed'
  <1> USE NobodyIsNoWorker, FaultsType, SetTyped, SetFlag
      DEF Typed, rowVars, processVars, workVars, backendVars, ghostVars
  <1>1. ASSUME NEW w \in Workers, SpawnRow(w) PROVE Typed'
    <2>1. PICK state \in {"offline", "launching"} : row' = Set(row, w, state)
      BY <1>1 DEF SpawnRow
    <2> QED BY <1>1, <2>1 DEF SpawnRow
  <1>2. ASSUME NEW w \in Workers, SpawnStart(w) PROVE Typed'
    <2>1. CASE container' = Set(container, w, "running") /\ spawning' = Set(spawning, w, "record")
                   /\ UNCHANGED <<row, hole, faults>>
      BY <1>2, <2>1 DEF SpawnStart
    <2>2. CASE /\ Fault /\ row' = Set(row, w, "spawn_failed")
               /\ container' \in {container, Set(container, w, "running")}
               /\ Abandons(w, container' # container)
               /\ spawning' = Set(spawning, w, "idle")
      <3>1. faults' \in 0..MaxFaults /\ hole' \in Flags
        BY <2>2, FaultTyped, AbandonsTyped
      <3>2. row' \in [Workers -> {"none", "launching", "online", "offline", "spawn_failed"}]
        BY <2>2
      <3>3. container' \in [Workers -> {"none", "running", "stopped"}]
        <4>1. Set(container, w, "running") \in [Workers -> {"none", "running", "stopped"}]
          OBVIOUS
        <4> QED BY <2>2, <4>1
      <3>4. spawning' \in [Workers -> {"idle", "start", "record"}]
        BY <2>2
      <3> QED BY <1>2, <3>1, <3>2, <3>3, <3>4 DEF SpawnStart
    <2> QED BY <1>2, <2>1, <2>2 DEF SpawnStart
  <1>3. ASSUME NEW w \in Workers, SpawnRecord(w) PROVE Typed'
    <2>1. CASE handle' = Set(handle, w, TRUE) /\ UNCHANGED <<row, hole, faults>>
      BY <1>3, <2>1 DEF SpawnRecord
    <2>2. CASE /\ Fault /\ row' \in {row, Set(row, w, "spawn_failed")}
               /\ Abandons(w, Running(w)) /\ UNCHANGED handle
      <3>1. faults' \in 0..MaxFaults /\ hole' \in Flags
        BY <2>2, FaultTyped, AbandonsTyped
      <3>2. row' \in [Workers -> {"none", "launching", "online", "offline", "spawn_failed"}]
        <4>1. Set(row, w, "spawn_failed") \in [Workers -> {"none", "launching", "online", "offline", "spawn_failed"}]
          OBVIOUS
        <4> QED BY <2>2, <4>1
      <3>3. spawning' \in [Workers -> {"idle", "start", "record"}]
        BY <1>3 DEF SpawnRecord
      <3> QED BY <1>3, <2>2, <3>1, <3>2, <3>3 DEF SpawnRecord
    <2> QED BY <1>3, <2>1, <2>2 DEF SpawnRecord
  <1>4. ASSUME NEW w \in Workers, Join(w) PROVE Typed'
    BY <1>4 DEF Join, Running
  <1>5. ASSUME NEW w \in Workers, Disconnect(w) PROVE Typed'
    BY <1>5, FaultTyped DEF Disconnect
  <1>6. ASSUME NEW w \in Workers, RowFollows(w) PROVE Typed'
    BY <1>6 DEF RowFollows
  <1>7. ASSUME NEW w \in Workers, Exit(w) PROVE Typed'
    BY <1>7 DEF Exit, Stops
  <1>8. ASSUME NEW w \in Workers, JobEnds(w) PROVE Typed'
    BY <1>8 DEF JobEnds
  <1>9. ASSUME NEW w \in Workers, TaskEnds(w) PROVE Typed'
    BY <1>9 DEF TaskEnds
  <1>10. ASSUME NEW w \in Workers, Ages(w) PROVE Typed'
    BY <1>10 DEF Ages
  <1>11. ASSUME NEW w \in Workers, SeenAges(w) PROVE Typed'
    BY <1>11 DEF SeenAges
  <1>12. ASSUME NEW w \in Workers, QuietAges(w) PROVE Typed'
    BY <1>12 DEF QuietAges
  <1>13. ASSUME NEW w \in Workers, AssignCheck(w) PROVE Typed'
    BY <1>13 DEF AssignCheck
  <1>14. CASE AssignWrite
    <2>1. task' \in Flags
      BY <1>14 DEF AssignWrite
    <2>2. late' \in Flags
      <3>1. (Judged(assign.worker) /\ assign.open) \in BOOLEAN
        BY DEF Judged
      <3> QED BY <1>14, <3>1 DEF AssignWrite
    <2> QED BY <1>14, <2>1, <2>2 DEF AssignWrite
  <1>15. CASE AssignTell
    <2>1. assign' = NoAssign
      BY <1>15 DEF AssignTell
    <2>6. task' \in Flags
      <3>1. Set(task, assign.worker, FALSE) \in Flags
        OBVIOUS
      <3>2. task' = task \/ task' = Set(task, assign.worker, FALSE)
        BY <1>15 DEF AssignTell
      <3> QED BY <3>1, <3>2
    <2>2. assign' \in [at : {"idle", "checked", "tell"}, worker : Workers \cup {Nobody}, open : BOOLEAN]
      BY <2>1 DEF NoAssign
    <2>3. \A b \in BOOLEAN : Set(job, assign.worker, b) \in Flags /\ Set(quiet, assign.worker, b) \in Flags
      OBVIOUS
    <2>4. job' \in Flags
      BY <1>15, <2>3 DEF AssignTell
    <2>5. quiet' \in Flags
      BY <1>15, <2>3 DEF AssignTell
    <2> QED BY <1>15, <2>2, <2>4, <2>5, <2>6 DEF AssignTell
  <1>16. CASE ReapBegin
    BY <1>16 DEF ReapBegin, Candidates
  <1>17. ASSUME NEW w \in Workers, ReapOffline(w) PROVE Typed'
    BY <1>17 DEF ReapOffline, Taken
  <1>18. ASSUME NEW w \in Workers, ReapCheck(w) PROVE Typed'
    BY <1>18 DEF ReapCheck, Taken
  <1>19. CASE ReapDisable
    BY <1>19 DEF ReapDisable, Reaps
  <1>20. CASE ReapTell
    BY <1>20, TellTyped DEF ReapTell, Reaps
  <1>21. CASE ReapKill
    <2>1. reaper' = [reaper EXCEPT !.at = "loop", !.worker = Nobody]
      BY <1>21 DEF ReapKill, Reaps
    <2>2. CASE Stops(reaper.worker) /\ UNCHANGED <<hole, faults>>
      BY <1>21, <2>1, <2>2, StopsTyped DEF ReapKill
    <2>3. CASE UNCHANGED <<container, connected, draining, stuck, job, hole, faults>>
      BY <1>21, <2>1, <2>3 DEF ReapKill
    <2>4. CASE Fault /\ Abandons(reaper.worker, TRUE)
                   /\ UNCHANGED <<container, connected, draining, stuck, job>>
      BY <1>21, <2>1, <2>4, FaultTyped, AbandonsTyped DEF ReapKill
    <2> QED BY <1>21, <2>2, <2>3, <2>4 DEF ReapKill
  <1>22. CASE ReapEnds
    BY <1>22 DEF ReapEnds, Asleep
  <1>23. ASSUME NEW w \in Workers, OperatorShutdown(w) PROVE Typed'
    BY <1>23, TellTyped DEF OperatorShutdown
  <1>24. ASSUME NEW w \in Workers, EscalationPolls(w) PROVE Typed'
    BY <1>24 DEF EscalationPolls, Abandons
  <1>25. ASSUME NEW w \in Workers, EscalationExpires(w) PROVE Typed'
    BY <1>25 DEF EscalationExpires
  <1>26. ASSUME NEW w \in Workers, EscalationKills(w) PROVE Typed'
    <2>1. CASE Stops(w) /\ UNCHANGED <<hole, faults>>
      BY <1>26, <2>1, StopsTyped DEF EscalationKills
    <2>2. CASE /\ Abandons(w, container[w] # "stopped" /\ ~Leaving(w))
               /\ UNCHANGED <<container, connected, draining, stuck, job, faults>>
      BY <1>26, <2>2, AbandonsTyped DEF EscalationKills
    <2>3. CASE Fault /\ Abandons(w, ~Leaving(w)) /\ UNCHANGED <<container, connected, draining, stuck, job>>
      BY <1>26, <2>3, FaultTyped, AbandonsTyped DEF EscalationKills
    <2> QED BY <1>26, <2>1, <2>2, <2>3 DEF EscalationKills
  <1>27. CASE Restart
    <2>1. faults' \in 0..MaxFaults
      BY <1>27, FaultTyped DEF Restart
    <2>2. hole' \in Flags
      <3>1. \A w \in Workers : (hole[w] \/ (Running(w) /\ ~Leaving(w) /\ (disabled[w] \/ ~handle[w]))) \in BOOLEAN
        OBVIOUS
      <3> QED BY <1>27, <3>1 DEF Restart, Flags
    <2>3. connected' \in Flags /\ spawning' = [w \in Workers |-> "idle"] /\ escalation' = [w \in Workers |-> "none"]
      BY <1>27 DEF Restart, Flags
    <2>4. row' \in [Workers -> {"none", "launching", "online", "offline", "spawn_failed"}]
      BY <1>27 DEF Restart
    <2>5. assign' = NoAssign /\ reaper' = Asleep
      BY <1>27 DEF Restart
    <2>6. spawning' \in [Workers -> {"idle", "start", "record"}]
      BY <2>3
    <2>7. escalation' \in [Workers -> {"none", "reap", "operator", "reap late", "operator late"}]
      BY <2>3
    <2>8. /\ assign' \in [at : {"idle", "checked", "tell"}, worker : Workers \cup {Nobody}, open : BOOLEAN]
          /\ reaper' \in [at : {"asleep", "loop", "disable", "tell", "kill"}, worker : Workers \cup {Nobody},
                          online : SUBSET Workers, offline : SUBSET Workers]
      BY <2>5 DEF NoAssign, Asleep
    <2> QED BY <1>27, <2>1, <2>2, <2>3, <2>4, <2>6, <2>7, <2>8 DEF Restart
  <1>28. CASE UNCHANGED vars
    BY <1>28 DEF vars
  <1> QED BY <1>1, <1>2, <1>3, <1>4, <1>5, <1>6, <1>7, <1>8, <1>9, <1>10, <1>11, <1>12, <1>13, <1>14, <1>15, <1>16, <1>17, <1>18, <1>19, <1>20, <1>21, <1>22, <1>23, <1>24, <1>25, <1>26, <1>27, <1>28 DEF Next, Spawn, Time, Escalation, Reaper

\* A connection, a job, a handle and a task row keep belonging together.
LEMMA SensibleInductive ==
    ASSUME TypeOK, [Next]_vars, NEW v \in Workers
    PROVE  Sensible(v)'
  <1> USE DEF Sensible, Set, rowVars, processVars, workVars, backendVars, ghostVars
  <1>0. /\ Sensible(v) /\ Typed
        /\ handle \in Flags /\ old \in Flags /\ connected \in Flags /\ draining \in Flags
        /\ stuck \in Flags
        /\ task \in Flags /\ job \in Flags
        /\ container \in [Workers -> {"none", "running", "stopped"}]
        /\ spawning \in [Workers -> {"idle", "start", "record"}]
    BY DEF TypeOK, Typed
  <1> USE DEF Flags
  <1>1. ASSUME NEW w \in Workers, SpawnRow(w) PROVE Sensible(v)'
    BY <1>0, <1>1 DEF SpawnRow
  <1>2. ASSUME NEW w \in Workers, SpawnStart(w) PROVE Sensible(v)'
    BY <1>0, <1>2 DEF SpawnStart
  <1>3. ASSUME NEW w \in Workers, SpawnRecord(w) PROVE Sensible(v)'
    BY <1>0, <1>3 DEF SpawnRecord, Running
  <1>4. ASSUME NEW w \in Workers, Join(w) PROVE Sensible(v)'
    BY <1>0, <1>4 DEF Join, Running
  <1>5. ASSUME NEW w \in Workers, Disconnect(w) PROVE Sensible(v)'
    BY <1>0, <1>5 DEF Disconnect
  <1>6. ASSUME NEW w \in Workers, RowFollows(w) PROVE Sensible(v)'
    BY <1>0, <1>6 DEF RowFollows
  <1>7. ASSUME NEW w \in Workers, Exit(w) PROVE Sensible(v)'
    BY <1>0, <1>7 DEF Exit, Leaving, Stops
  <1>8. ASSUME NEW w \in Workers, JobEnds(w) PROVE Sensible(v)'
    BY <1>0, <1>8 DEF JobEnds
  <1>9. ASSUME NEW w \in Workers, TaskEnds(w) PROVE Sensible(v)'
    BY <1>0, <1>9 DEF TaskEnds
  <1>10. ASSUME NEW w \in Workers, Ages(w) PROVE Sensible(v)'
    BY <1>0, <1>10 DEF Ages
  <1>11. ASSUME NEW w \in Workers, SeenAges(w) PROVE Sensible(v)'
    BY <1>0, <1>11 DEF SeenAges
  <1>12. ASSUME NEW w \in Workers, QuietAges(w) PROVE Sensible(v)'
    BY <1>0, <1>12 DEF QuietAges
  <1>13. ASSUME NEW w \in Workers, AssignCheck(w) PROVE Sensible(v)'
    BY <1>0, <1>13 DEF AssignCheck
  <1>14. CASE AssignWrite
    BY <1>0, <1>14 DEF AssignWrite
  <1>15. CASE AssignTell
    BY <1>0, <1>15 DEF AssignTell
  <1>16. CASE ReapBegin
    BY <1>0, <1>16 DEF ReapBegin
  <1>17. ASSUME NEW w \in Workers, ReapOffline(w) PROVE Sensible(v)'
    BY <1>0, <1>17 DEF ReapOffline
  <1>18. ASSUME NEW w \in Workers, ReapCheck(w) PROVE Sensible(v)'
    BY <1>0, <1>18 DEF ReapCheck
  <1>19. CASE ReapDisable
    BY <1>0, <1>19 DEF ReapDisable
  <1>20. CASE ReapTell
    BY <1>0, <1>20 DEF ReapTell, Tell
  <1>21. CASE ReapKill
    BY <1>0, <1>21 DEF ReapKill, Stops, Running
  <1>22. CASE ReapEnds
    BY <1>0, <1>22 DEF ReapEnds
  <1>23. ASSUME NEW w \in Workers, OperatorShutdown(w) PROVE Sensible(v)'
    BY <1>0, <1>23 DEF OperatorShutdown, Tell
  <1>24. ASSUME NEW w \in Workers, EscalationPolls(w) PROVE Sensible(v)'
    BY <1>0, <1>24 DEF EscalationPolls
  <1>25. ASSUME NEW w \in Workers, EscalationExpires(w) PROVE Sensible(v)'
    BY <1>0, <1>25 DEF EscalationExpires
  <1>26. ASSUME NEW w \in Workers, EscalationKills(w) PROVE Sensible(v)'
    BY <1>0, <1>26 DEF EscalationKills, Stops, Running
  <1>27. CASE Restart
    BY <1>0, <1>27 DEF Restart
  <1>28. CASE UNCHANGED vars
    BY <1>0, <1>28 DEF vars
  <1> QED BY <1>1, <1>2, <1>3, <1>4, <1>5, <1>6, <1>7, <1>8, <1>9, <1>10, <1>11, <1>12, <1>13, <1>14, <1>15, <1>16, <1>17, <1>18, <1>19, <1>20, <1>21, <1>22, <1>23, <1>24, <1>25, <1>26, <1>27, <1>28 DEF Next, Spawn, Time, Escalation, Reaper

-----------------------------------------------------------------------------
\* The reaper has found the worker idle and will stop it.
Sentenced(w) ==
    \/ reaper.worker = w /\ reaper.at \in {"disable", "tell"}
    \/ escalation[w] \in {"reap", "reap late"}

\* A worker with a sentence is disabled, or about to be, so no check of an
\* assignment passes any more; a task it has all the same was assigned after, by a
\* request whose check had found the row enabled.
Sentences ==
    /\ assign.at = "checked" => assign.open
    /\ \A w \in Workers : Sentenced(w) =>
           /\ task[w] => late[w]
           /\ disabled[w] \/ (reaper.worker = w /\ reaper.at = "disable")

\* A request whose check has passed found the row enabled.
LEMMA CheckedOpen ==
    ASSUME TypeOK, Sentences, [Next]_vars
    PROVE  assign'.at = "checked" => assign'.open
  <1> USE DEF Sentences, backendVars
  <1>1. ASSUME NEW w \in Workers, AssignCheck(w) PROVE assign'.open
    BY <1>1 DEF AssignCheck
  <1>2. CASE AssignWrite
    BY <1>2 DEF AssignWrite, TypeOK, Typed
  <1>3. CASE AssignTell \/ Restart
    <2>1. assign' = NoAssign
      BY <1>3 DEF AssignTell, Restart
    <2> QED BY <2>1 DEF NoAssign
  <1>4. CASE Reaper
    BY <1>4 DEF Reaper, ReapBegin, ReapDisable, ReapTell, ReapKill, ReapEnds, ReapOffline, ReapCheck
  <1>5. ASSUME NEW w \in Workers,
               SpawnRow(w) \/ Spawn(w) \/ Join(w) \/ Disconnect(w) \/ RowFollows(w) \/ Exit(w)
               \/ JobEnds(w) \/ TaskEnds(w) \/ Time(w) \/ OperatorShutdown(w) \/ Escalation(w)
        PROVE  UNCHANGED assign
    BY <1>5 DEF SpawnRow, Spawn, SpawnStart, SpawnRecord, Join, Disconnect, RowFollows, Exit, JobEnds,
                TaskEnds, Time, Ages, SeenAges, QuietAges, OperatorShutdown, Escalation,
                EscalationPolls, EscalationExpires, EscalationKills
  <1>6. CASE UNCHANGED vars
    BY <1>6 DEF vars
  <1> QED BY <1>1, <1>2, <1>3, <1>4, <1>5, <1>6 DEF Next

LEMMA SentencesInductive ==
    ASSUME TypeOK, Sentences, [Next]_vars
    PROVE  Sentences'
  <1>a. assign'.at = "checked" => assign'.open
    BY CheckedOpen
  <1> SUFFICES ASSUME NEW v \in Workers
               PROVE  Sentenced(v)' => /\ task'[v] => late'[v]
                                       /\ disabled'[v] \/ (reaper'.worker = v /\ reaper'.at = "disable")
    BY <1>a DEF Sentences
  <1> DEFINE Kept == Sentenced(v)' => /\ task'[v] => late'[v]
                                      /\ disabled'[v] \/ (reaper'.worker = v /\ reaper'.at = "disable")
  <1> USE NobodyIsNoWorker DEF Sentenced, Set, Flags, rowVars, processVars, workVars, backendVars, ghostVars
  <1>0. /\ assign.at = "checked" => assign.open
        /\ Sentenced(v) => /\ task[v] => late[v]
                           /\ disabled[v] \/ (reaper.worker = v /\ reaper.at = "disable")
        /\ disabled \in Flags /\ task \in Flags /\ late \in Flags /\ job \in Flags
        /\ job[v] => task[v]
        /\ reaper \in [at : {"asleep", "loop", "disable", "tell", "kill"}, worker : Workers \cup {Nobody},
                       online : SUBSET Workers, offline : SUBSET Workers]
        /\ escalation \in [Workers -> {"none", "reap", "operator", "reap late", "operator late"}]
    BY DEF Sentences, TypeOK, Typed, Sensible
  <1>1. ASSUME NEW w \in Workers, SpawnRow(w) PROVE Kept
    BY <1>0, <1>1 DEF SpawnRow
  <1>2. ASSUME NEW w \in Workers, SpawnStart(w) PROVE Kept
    BY <1>0, <1>2 DEF SpawnStart
  <1>3. ASSUME NEW w \in Workers, SpawnRecord(w) PROVE Kept
    BY <1>0, <1>3 DEF SpawnRecord
  <1>4. ASSUME NEW w \in Workers, Join(w) PROVE Kept
    BY <1>0, <1>4 DEF Join
  <1>5. ASSUME NEW w \in Workers, Disconnect(w) PROVE Kept
    BY <1>0, <1>5 DEF Disconnect
  <1>6. ASSUME NEW w \in Workers, RowFollows(w) PROVE Kept
    BY <1>0, <1>6 DEF RowFollows
  <1>7. ASSUME NEW w \in Workers, Exit(w) PROVE Kept
    BY <1>0, <1>7 DEF Exit
  <1>8. ASSUME NEW w \in Workers, JobEnds(w) PROVE Kept
    BY <1>0, <1>8 DEF JobEnds
  <1>9. ASSUME NEW w \in Workers, TaskEnds(w) PROVE Kept
    BY <1>0, <1>9 DEF TaskEnds
  <1>10. ASSUME NEW w \in Workers, Ages(w) PROVE Kept
    BY <1>0, <1>10 DEF Ages
  <1>11. ASSUME NEW w \in Workers, SeenAges(w) PROVE Kept
    BY <1>0, <1>11 DEF SeenAges
  <1>12. ASSUME NEW w \in Workers, QuietAges(w) PROVE Kept
    BY <1>0, <1>12 DEF QuietAges
  <1>13. ASSUME NEW w \in Workers, AssignCheck(w) PROVE Kept
    BY <1>0, <1>13 DEF AssignCheck
  <1>14. CASE AssignWrite
    BY <1>0, <1>14 DEF AssignWrite, Judged
  <1>15. CASE AssignTell
    BY <1>0, <1>15 DEF AssignTell
  <1>16. CASE ReapBegin
    BY <1>0, <1>16 DEF ReapBegin, Reaping
  <1>17. ASSUME NEW w \in Workers, ReapOffline(w) PROVE Kept
    BY <1>0, <1>17 DEF ReapOffline, Taken, Reaping
  <1>18. ASSUME NEW w \in Workers, ReapCheck(w) PROVE Kept
    BY <1>0, <1>18 DEF ReapCheck, Taken, Reaping
  <1>19. CASE ReapDisable
    BY <1>0, <1>19 DEF ReapDisable, Reaps, Reaping
  <1>20. CASE ReapTell
    BY <1>0, <1>20 DEF ReapTell, Reaps, Reaping
  <1>21. CASE ReapKill
    BY <1>0, <1>21 DEF ReapKill, Reaps, Reaping
  <1>22. CASE ReapEnds
    BY <1>0, <1>22 DEF ReapEnds, Asleep, Reaping
  <1>23. ASSUME NEW w \in Workers, OperatorShutdown(w) PROVE Kept
    BY <1>0, <1>23 DEF OperatorShutdown
  <1>24. ASSUME NEW w \in Workers, EscalationPolls(w) PROVE Kept
    BY <1>0, <1>24 DEF EscalationPolls
  <1>25. ASSUME NEW w \in Workers, EscalationExpires(w) PROVE Kept
    BY <1>0, <1>25 DEF EscalationExpires
  <1>26. ASSUME NEW w \in Workers, EscalationKills(w) PROVE Kept
    BY <1>0, <1>26 DEF EscalationKills
  <1>27. CASE Restart
    BY <1>0, <1>27 DEF Restart, Asleep
  <1>28. CASE UNCHANGED vars
    BY <1>0, <1>28 DEF vars
  <1> QED BY <1>1, <1>2, <1>3, <1>4, <1>5, <1>6, <1>7, <1>8, <1>9, <1>10, <1>11, <1>12, <1>13, <1>14, <1>15, <1>16, <1>17, <1>18, <1>19, <1>20, <1>21, <1>22, <1>23, <1>24, <1>25, <1>26, <1>27, <1>28 DEF Next, Spawn, Time, Escalation, Reaper

-----------------------------------------------------------------------------
ReaperInv == TypeOK /\ Sentences

\* The invariant holds for any number of workers, faults and restarts.
THEOREM ReaperInvariance == Spec => []ReaperInv
  <1>1. Init => ReaperInv
    BY FaultsType DEF Init, ReaperInv, TypeOK, Typed, Sensible, Sentences, Sentenced, Flags, NoAssign, Asleep
  <1>2. ASSUME ReaperInv, [Next]_vars PROVE ReaperInv'
    BY <1>2, TypedInductive, SensibleInductive, SentencesInductive DEF ReaperInv, TypeOK
  <1> QED BY <1>1, <1>2, PTL DEF Spec

\* The reaper's escalation kills no worker at work, unless the job was assigned by
\* a request that had passed its check before the row was disabled.
THEOREM WorkSpared == Spec => SparesWork
  <1>1. ReaperInv /\ [Next]_vars =>
            [\A w \in Workers :
                escalation[w] = "reap late" /\ job[w] /\ ~job'[w] /\ container'[w] = "stopped" => late[w]]_vars
    BY DEF ReaperInv, Sentences, Sentenced, TypeOK, Sensible
  <1> QED BY <1>1, ReaperInvariance, PTL DEF Spec, SparesWork


(***************************************************************************)
(* GuildAccess: members, invitations and logins.                           *)
(***************************************************************************)

\* The invitation a request is about to write is a row; before, it has read none.
RowsRead ==
    \A q \in Clients :
        /\ pc[q] \in {"idle", "allowed"} => loaded[q].id = 0
        /\ At(q, "writing", "invite") /\ loaded[q].id # 0 =>
              loaded[q].id \in InviteIds /\ invites[loaded[q].id].status # "unwritten"
        /\ At(q, "writing", "cancel") => invites[asked[q].on].status # "unwritten"

\* What a request asks for, by its operation.
LEMMA JobParts ==
    ASSUME NEW j \in Jobs \cup {NoJob}
    PROVE  /\ j.op \in {"add", "change"} => j.on \in Users /\ j.role \in Roles
           /\ j.op \in {"remove", "login"} => j.on \in Users
           /\ j.op = "invite" => j.on \in Handles /\ j.role \in Roles
           /\ j.op = "cancel" => j.on \in InviteIds
  BY DEF Jobs, NoJob

\* An answer leaves the request's own state well-typed.
LEMMA AnsweredTyped ==
    ASSUME AccessTypeOK, NEW q \in Clients, Answered(q)
    PROVE  /\ pc' \in [Clients -> {"idle", "allowed", "counting", "writing", "taking"}]
           /\ asked' \in [Clients -> Jobs \cup {NoJob}]
           /\ loaded' \in [Clients -> Rows]
           /\ held' \in [Clients -> SUBSET Holds]
<1>1. pc' \in [Clients -> {"idle", "allowed", "counting", "writing", "taking"}]
  BY DEF AccessTypeOK, Answered, Goes
<1>2. asked' \in [Clients -> Jobs \cup {NoJob}]
  BY DEF AccessTypeOK, Answered
<1>3. loaded' \in [Clients -> Rows]
  <2>1. Nothing \in Rows
    BY DEF Nothing, Rows
  <2> QED BY <2>1 DEF AccessTypeOK, Answered
<1>4. held' \in [Clients -> SUBSET Holds]
  BY DEF AccessTypeOK, Answered
<1> QED BY <1>1, <1>2, <1>3, <1>4

\* A handler that goes on leaves where it stands well-typed.
LEMMA GoesTyped ==
    ASSUME AccessTypeOK, NEW q \in Clients,
           NEW at \in {"idle", "allowed", "counting", "writing", "taking"}, Goes(q, at)
    PROVE  pc' \in [Clients -> {"idle", "allowed", "counting", "writing", "taking"}]
  BY DEF AccessTypeOK, Goes

LEMMA ReadsTyped ==
    ASSUME AccessTypeOK, NEW q \in Clients, NEW id \in Nat, NEW r \in Roles \cup {"none"},
           Reads(q, id, r)
    PROVE  loaded' \in [Clients -> Rows]
<1>1. [id |-> id, role |-> r] \in Rows
  BY DEF Rows
<1> QED BY <1>1 DEF AccessTypeOK, Reads

LEMMA MembersTyped ==
    ASSUME AccessTypeOK, NEW q \in Clients,
           AddMember(q) \/ FindMember(q) \/ CountOwners(q) \/ WriteRole(q) \/ DeleteMember(q)
    PROVE  AccessTypeOK'
<1>0. asked[q] \in Jobs \cup {NoJob} /\ loaded[q] \in Rows
  BY DEF AccessTypeOK
<1>1. CASE AddMember(q)
  <2>1. asked[q].on \in Users /\ asked[q].role \in Roles
    BY <1>0, <1>1, JobParts DEF AddMember, At
  <2> QED BY <1>1, <2>1, AnsweredTyped DEF AddMember, AccessTypeOK
<1>2. CASE FindMember(q)
  <2>1. asked[q].on \in Users
    BY <1>0, <1>2, JobParts DEF FindMember, At
  <2>2. CASE Refused(q)
    BY <2>2, AnsweredTyped DEF Refused, guildRows, AccessTypeOK
  <2>3. CASE ~Refused(q)
    <3>1. Reads(q, 1, member[asked[q].on]) /\ member[asked[q].on] \in Roles \cup {"none"}
      BY <1>2, <2>1, <2>3 DEF FindMember, AccessTypeOK
    <3>2. loaded' \in [Clients -> Rows]
      BY <3>1, ReadsTyped
    <3>3. \E at \in {"counting", "writing"} : Goes(q, at)
      BY <1>2, <2>3 DEF FindMember
    <3>4. pc' \in [Clients -> {"idle", "allowed", "counting", "writing", "taking"}]
      BY <3>3, GoesTyped
    <3> QED BY <1>2, <2>3, <3>2, <3>4 DEF FindMember, guildRows, AccessTypeOK
  <2> QED BY <2>2, <2>3
<1>3. CASE CountOwners(q)
  <2>1. CASE Refused(q)
    BY <2>1, AnsweredTyped DEF Refused, guildRows, AccessTypeOK
  <2>2. CASE ~Refused(q)
    BY <1>3, <2>2, GoesTyped DEF CountOwners, guildRows, AccessTypeOK
  <2> QED BY <2>1, <2>2
<1>4. CASE WriteRole(q)
  <2>1. asked[q].on \in Users /\ asked[q].role \in Roles
    BY <1>0, <1>4, JobParts DEF WriteRole, At
  <2> QED BY <1>4, <2>1, AnsweredTyped DEF WriteRole, AccessTypeOK
<1>5. CASE DeleteMember(q)
  <2>1. asked[q].on \in Users
    BY <1>0, <1>5, JobParts DEF DeleteMember, At
  <2>2. member' \in [Users -> Roles \cup {"none"}]
    BY <1>5, <2>1 DEF DeleteMember, AccessTypeOK
  <2>3. loaded' \in [Clients -> Rows]
    <3>1. Nothing \in Rows
      BY DEF Nothing, Rows
    <3>2. ASSUME NEW p \in Clients PROVE [loaded[p] EXCEPT !.id = 0] \in Rows
      BY DEF AccessTypeOK, Rows
    <3> QED BY <1>5, <3>1, <3>2 DEF DeleteMember, AccessTypeOK
  <2> QED BY <1>5, <2>2, <2>3, GoesTyped DEF DeleteMember, AccessTypeOK
<1> QED BY <1>1, <1>2, <1>3, <1>4, <1>5

LEMMA InvitesTyped ==
    ASSUME AccessTypeOK, RowsRead, NEW q \in Clients,
           FindInvite(q) \/ RenewInvite(q) \/ InsertInvite(q) \/ FindCancelled(q) \/ CancelInvite(q)
    PROVE  AccessTypeOK'
<1>0. asked[q] \in Jobs \cup {NoJob} /\ loaded[q] \in Rows
  BY DEF AccessTypeOK
<1>1. CASE Refused(q)
  BY <1>1, AnsweredTyped DEF Refused, guildRows, AccessTypeOK
<1>2. CASE FindInvite(q) /\ ~Refused(q)
  <2>1. loaded' \in [Clients -> Rows]
    <3>1. CASE UNCHANGED loaded
      BY <3>1 DEF AccessTypeOK
    <3>2. CASE \E i \in PendingUnder(asked[q].on) : Reads(q, i, invites[i].role)
      <4>1. PICK i \in InviteIds : invites[i].status = "pending" /\ Reads(q, i, invites[i].role)
        BY <3>2 DEF PendingUnder
      <4>2. i \in Nat /\ invites[i].role \in Roles
        BY <4>1 DEF AccessTypeOK, Invitations, NoInvite, InviteIds
      <4> QED BY <4>1, <4>2, ReadsTyped
    <3> QED BY <1>2, <3>1, <3>2 DEF FindInvite
  <2> QED BY <1>2, <2>1, GoesTyped DEF FindInvite, guildRows, AccessTypeOK
<1>3. CASE RenewInvite(q)
  <2> DEFINE i == loaded[q].id
             new == [invites[i] EXCEPT !.role = asked[q].role]
  <2>1. asked[q].role \in Roles
    BY <1>0, <1>3, JobParts DEF RenewInvite, At
  <2>2. i \in InviteIds /\ invites[i] \in Invitations
    BY <1>3 DEF RenewInvite, RowsRead, AccessTypeOK, NoInvite, InviteIds
  <2>3. new \in Invitations
    BY <2>1, <2>2 DEF Invitations
  <2>4. invites' = invites \/ invites' = [invites EXCEPT ![i] = new]
    BY <1>3, <2>2 DEF RenewInvite, AccessTypeOK
  <2>5. invites' \in [InviteIds -> Invitations \cup {NoInvite}]
    <3> HIDE DEF new
    <3> QED BY <2>2, <2>3, <2>4 DEF AccessTypeOK
  <2> QED BY <1>3, <2>5, AnsweredTyped DEF RenewInvite, AccessTypeOK
<1>4. CASE InsertInvite(q)
  <2> DEFINE new == [name |-> asked[q].on, role |-> asked[q].role, status |-> "pending"]
  <2>1. asked[q].on \in Handles /\ asked[q].role \in Roles
    BY <1>0, <1>4, JobParts DEF InsertInvite, At
  <2>2. new \in Invitations
    BY <2>1 DEF Invitations
  <2>3. invites' = invites \/ \E i \in InviteIds : invites' = [invites EXCEPT ![i] = new]
    BY <1>4 DEF InsertInvite
  <2>4. invites' \in [InviteIds -> Invitations \cup {NoInvite}]
    <3> HIDE DEF new
    <3> QED BY <2>2, <2>3 DEF AccessTypeOK
  <2> QED BY <1>4, <2>4, AnsweredTyped DEF InsertInvite, AccessTypeOK
<1>5. CASE FindCancelled(q) /\ ~Refused(q)
  BY <1>5, GoesTyped DEF FindCancelled, guildRows, AccessTypeOK
<1>6. CASE CancelInvite(q)
  <2> DEFINE i == asked[q].on
             new == [invites[i] EXCEPT !.status = "cancelled"]
  <2>1. i \in InviteIds
    BY <1>0, <1>6, JobParts DEF CancelInvite, At
  <2>2. invites[i] \in Invitations
    BY <1>6, <2>1 DEF CancelInvite, RowsRead, AccessTypeOK, NoInvite
  <2>3. new \in Invitations
    BY <2>2 DEF Invitations
  <2>4. invites' = [invites EXCEPT ![i] = new]
    BY <1>6 DEF CancelInvite
  <2>5. invites' \in [InviteIds -> Invitations \cup {NoInvite}]
    <3> HIDE DEF new
    <3> QED BY <2>1, <2>3, <2>4 DEF AccessTypeOK
  <2> QED BY <1>6, <2>5, AnsweredTyped DEF CancelInvite, AccessTypeOK
<1> QED BY <1>1, <1>2, <1>3, <1>4, <1>5, <1>6

\* What a login reads and what it writes.
LEMMA LoginTyped ==
    ASSUME AccessTypeOK, HeldStands, NEW q \in Clients, LockInvites(q) \/ CommitLogin(q)
    PROVE  AccessTypeOK'
<1>0. asked[q] \in Jobs \cup {NoJob}
  BY DEF AccessTypeOK
<1>1. CASE LockInvites(q)
  <2> DEFINE read == {[id |-> i, role |-> invites[i].role] : i \in PendingFor(asked[q].on)}
  <2>1. read \in SUBSET Holds
    BY DEF PendingFor, Holds, AccessTypeOK, Invitations, NoInvite
  <2>2. held' = [held EXCEPT ![q] = read]
    BY <1>1 DEF LockInvites
  <2>3. held' \in [Clients -> SUBSET Holds]
    <3> HIDE DEF read
    <3> QED BY <2>1, <2>2 DEF AccessTypeOK
  <2> QED BY <1>1, <2>3, GoesTyped DEF LockInvites, guildRows, AccessTypeOK
<1>2. CASE CommitLogin(q)
  <2>1. asked[q].on \in Users
    BY <1>0, <1>2, JobParts DEF CommitLogin, At
  <2>2. member' \in [Users -> Roles \cup {"none"}]
    BY <1>2, <2>1 DEF CommitLogin, AccessTypeOK, Holds
  <2>3. ASSUME NEW i \in InviteIds
        PROVE  (IF \E h \in held[q] : h.id = i THEN [invites[i] EXCEPT !.status = "accepted"] ELSE invites[i])
                 \in Invitations \cup {NoInvite}
    <3>1. CASE \E h \in held[q] : h.id = i
      <4>1. invites[i].status = "pending"
        BY <3>1 DEF HeldStands
      <4>2. invites[i] \in Invitations
        BY <4>1 DEF AccessTypeOK, NoInvite
      <4>3. [invites[i] EXCEPT !.status = "accepted"] \in Invitations
        BY <4>2 DEF Invitations
      <4> QED BY <3>1, <4>3
    <3>2. CASE ~\E h \in held[q] : h.id = i
      BY <3>2 DEF AccessTypeOK
    <3> QED BY <3>1, <3>2
  <2>4. invites' \in [InviteIds -> Invitations \cup {NoInvite}]
    BY <1>2, <2>3 DEF CommitLogin
  <2> QED BY <1>2, <2>1, <2>2, <2>4, AnsweredTyped DEF CommitLogin, AccessTypeOK
<1> QED BY <1>1, <1>2

\* A step of one request leaves the others where they stand; only the number
\* of a member's row they have read may be taken back.
LEMMA OthersStand ==
    ASSUME AccessTypeOK, NEW q \in Clients, Receive(q) \/ Handle(q) \/ Fail(q),
           NEW p \in Clients, p # q
    PROVE  /\ pc'[p] = pc[p] /\ asked'[p] = asked[p] /\ held'[p] = held[p]
           /\ asked[p].op = "invite" => loaded'[p] = loaded[p]
<1>1. CASE Answered(q)
  BY <1>1 DEF Answered, Goes, AccessTypeOK
<1>2. CASE DeleteMember(q)
  BY <1>2 DEF DeleteMember, HasRead, At, Goes, AccessTypeOK
<1>3. CASE Receive(q)
  BY <1>3 DEF Receive, Goes, AccessTypeOK
<1>4. CASE FindMember(q) \/ CountOwners(q) \/ FindInvite(q) \/ FindCancelled(q) \/ LockInvites(q)
  BY <1>1, <1>4 DEF FindMember, CountOwners, FindInvite, FindCancelled, LockInvites,
       Refused, Reads, Goes, AccessTypeOK
<1>5. CASE AddMember(q) \/ WriteRole(q) \/ RenewInvite(q) \/ InsertInvite(q) \/ CancelInvite(q)
           \/ CommitLogin(q) \/ Fail(q)
  BY <1>1, <1>5 DEF AddMember, WriteRole, RenewInvite, InsertInvite, CancelInvite, CommitLogin,
       Fail, Refused
<1> QED BY <1>2, <1>3, <1>4, <1>5 DEF Handle

\* What a step does to one invitation.
LEMMA InvitationSteps ==
    ASSUME AccessTypeOK, RowsRead, NEW q \in Clients, Receive(q) \/ Handle(q) \/ Fail(q),
           NEW i \in InviteIds
    PROVE  \/ invites'[i] = invites[i]
           \/ /\ RenewInvite(q) /\ ~Locked(i) /\ invites[i].status # "unwritten"
              /\ invites'[i].status = invites[i].status /\ invites'[i].name = invites[i].name
           \/ /\ InsertInvite(q) /\ invites[i].status = "unwritten"
              /\ invites'[i].status = "pending" /\ invites'[i].name = asked[q].on
              /\ PendingUnder(asked[q].on) = {} /\ \A k \in InviteIds : k # i => invites'[k] = invites[k]
           \/ CancelInvite(q) /\ ~Locked(i) /\ invites'[i].status = "cancelled"
           \/ CommitLogin(q) /\ (\E h \in held[q] : h.id = i) /\ invites'[i].status = "accepted"
<1>1. CASE RenewInvite(q)
  <2> DEFINE k == loaded[q].id
             new == [invites[k] EXCEPT !.role = asked[q].role]
  <2>1. k \in InviteIds /\ invites[k] \in Invitations
    BY <1>1 DEF RenewInvite, RowsRead, AccessTypeOK, NoInvite, InviteIds
  <2>2. new.status = invites[k].status /\ new.name = invites[k].name
    BY <2>1 DEF Invitations
  <2>3. invites' = invites \/ (~Locked(k) /\ invites' = [invites EXCEPT ![k] = new])
    BY <1>1 DEF RenewInvite
  <2>4. invites[k].status # "unwritten"
    BY <2>1 DEF Invitations
  <2> HIDE DEF new
  <2> QED BY <1>1, <2>1, <2>2, <2>3, <2>4 DEF AccessTypeOK
<1>2. CASE InsertInvite(q)
  <2> DEFINE new == [name |-> asked[q].on, role |-> asked[q].role, status |-> "pending"]
  <2>1. \/ invites' = invites
        \/ /\ PendingUnder(asked[q].on) = {}
           /\ \E k \in InviteIds : invites[k].status = "unwritten" /\ invites' = [invites EXCEPT ![k] = new]
    BY <1>2 DEF InsertInvite
  <2>2. new.status = "pending" /\ new.name = asked[q].on
    OBVIOUS
  <2> HIDE DEF new
  <2> QED BY <1>2, <2>1, <2>2 DEF AccessTypeOK
<1>3. CASE CancelInvite(q)
  <2> DEFINE k == asked[q].on
             new == [invites[k] EXCEPT !.status = "cancelled"]
  <2>1. k \in InviteIds
    BY <1>3, JobParts DEF CancelInvite, At, AccessTypeOK
  <2>2. invites[k] \in Invitations
    BY <1>3, <2>1 DEF CancelInvite, RowsRead, AccessTypeOK, NoInvite
  <2>3. new.status = "cancelled"
    BY <2>2 DEF Invitations
  <2>4. ~Locked(k) /\ invites' = [invites EXCEPT ![k] = new]
    BY <1>3 DEF CancelInvite
  <2> HIDE DEF new
  <2> QED BY <1>3, <2>1, <2>3, <2>4 DEF AccessTypeOK
<1>4. CASE CommitLogin(q)
  <2>1. [invites[i] EXCEPT !.status = "accepted"].status = "accepted"
    BY DEF AccessTypeOK, Invitations, NoInvite
  <2> QED BY <1>4, <2>1 DEF CommitLogin, AccessTypeOK
<1>5. CASE UNCHANGED invites
  BY <1>5
<1> QED BY <1>1, <1>2, <1>3, <1>4, <1>5 DEF Handle, AddMember, FindMember, CountOwners, WriteRole,
      DeleteMember, FindInvite, FindCancelled, LockInvites, Receive, Fail, Refused, guildRows

\* An invitation is locked by one login at most.
HeldByOne ==
    \A p, q \in Clients : \A h \in held[p], g \in held[q] : h.id = g.id => p = q

AccessInv == AccessTypeOK /\ RowsRead /\ HeldByOne /\ HeldStands /\ OneInvitePending

LEMMA AccessTyped ==
    ASSUME AccessInv, NEW q \in Clients, Receive(q) \/ Handle(q) \/ Fail(q)
    PROVE  AccessTypeOK'
<1>1. CASE Receive(q)
  BY <1>1, GoesTyped DEF AccessInv, Receive, AccessTypeOK
<1>2. CASE Fail(q)
  BY <1>2, AnsweredTyped DEF AccessInv, Fail, Refused, guildRows, AccessTypeOK
<1>3. CASE Handle(q)
  BY <1>3, MembersTyped, InvitesTyped, LoginTyped DEF AccessInv, Handle
<1> QED BY <1>1, <1>2, <1>3

LEMMA RowsStayRead ==
    ASSUME AccessInv, NEW q \in Clients, Receive(q) \/ Handle(q) \/ Fail(q)
    PROVE  RowsRead'
<1>1. ASSUME NEW i \in InviteIds, invites[i].status # "unwritten"
      PROVE  invites'[i].status # "unwritten"
  BY <1>1, InvitationSteps DEF AccessInv
<1>2. ASSUME NEW p \in Clients, p # q
      PROVE  /\ (pc[p] \in {"idle", "allowed"})' => (loaded[p].id = 0)'
             /\ At(p, "writing", "invite")' /\ (loaded[p].id # 0)' =>
                   (loaded[p].id \in InviteIds /\ invites[loaded[p].id].status # "unwritten")'
             /\ At(p, "writing", "cancel")' => (invites[asked[p].on].status # "unwritten")'
  <2>1. pc'[p] = pc[p] /\ asked'[p] = asked[p]
    BY <1>2, OthersStand DEF AccessInv
  <2>2. loaded'[p].id = loaded[p].id \/ (loaded'[p].id = 0 /\ asked[p].op = "change")
    <3>1. CASE DeleteMember(q)
      BY <1>2, <3>1 DEF DeleteMember, HasRead, At, AccessInv, AccessTypeOK, Rows
    <3>2. CASE ~DeleteMember(q)
      BY <1>2, <3>2 DEF Handle, Receive, AddMember, FindMember, CountOwners, WriteRole, FindInvite,
           RenewInvite, InsertInvite, FindCancelled, CancelInvite, LockInvites, CommitLogin, Fail,
           Refused, Answered, Reads, AccessInv, AccessTypeOK
    <3> QED BY <3>1, <3>2
  <2>3. At(p, "writing", "cancel") => asked[p].on \in InviteIds
    BY JobParts DEF At, AccessInv, AccessTypeOK
  <2> QED BY <1>1, <2>1, <2>2, <2>3 DEF At, AccessInv, RowsRead
<1>3. ASSUME (pc[q] \in {"idle", "allowed"})' PROVE (loaded[q].id = 0)'
  <2>1. CASE Answered(q)
    BY <2>1 DEF Answered, Nothing, AccessInv, AccessTypeOK
  <2>2. CASE DeleteMember(q)
    BY <2>2 DEF DeleteMember, Nothing, AccessInv, AccessTypeOK
  <2>3. CASE Receive(q)
    BY <2>3 DEF Receive, AccessInv, RowsRead
  <2> QED BY <1>3, <2>1, <2>2, <2>3 DEF Handle, Fail, Refused, Goes, AddMember, FindMember,
        CountOwners, WriteRole, FindInvite, RenewInvite, InsertInvite, FindCancelled, CancelInvite,
        LockInvites, CommitLogin, AccessInv, AccessTypeOK
<1>4. ASSUME At(q, "writing", "invite")', (loaded[q].id # 0)'
      PROVE  (loaded[q].id \in InviteIds /\ invites[loaded[q].id].status # "unwritten")'
  <2>1. FindInvite(q) /\ ~Refused(q)
    BY <1>4 DEF At, Handle, Fail, Refused, Answered, Receive, Goes, NoJob, AddMember, FindMember,
         CountOwners, WriteRole, DeleteMember, FindInvite, RenewInvite, InsertInvite, FindCancelled,
         CancelInvite, LockInvites, CommitLogin, AccessInv, AccessTypeOK
  <2>2. loaded' # loaded
    BY <1>4, <2>1 DEF FindInvite, At, AccessInv, RowsRead
  <2>3. PICK i \in InviteIds : invites[i].status = "pending" /\ Reads(q, i, invites[i].role)
    BY <2>1, <2>2 DEF FindInvite, PendingUnder
  <2>4. loaded'[q].id = i
    BY <2>3 DEF Reads, AccessInv, AccessTypeOK
  <2> QED BY <1>1, <2>3, <2>4
<1>5. ASSUME At(q, "writing", "cancel")' PROVE (invites[asked[q].on].status # "unwritten")'
  <2>1. FindCancelled(q) /\ ~Refused(q)
    BY <1>5 DEF At, Handle, Fail, Refused, Answered, Receive, Goes, NoJob, AddMember, FindMember,
         CountOwners, WriteRole, DeleteMember, FindInvite, RenewInvite, InsertInvite, FindCancelled,
         CancelInvite, LockInvites, CommitLogin, AccessInv, AccessTypeOK
  <2> QED BY <2>1 DEF FindCancelled, guildRows
<1> QED BY <1>2, <1>3, <1>4, <1>5 DEF RowsRead

\* What the acting request holds after its step.
LEMMA HoldsAfter ==
    ASSUME AccessInv, NEW q \in Clients, Receive(q) \/ Handle(q) \/ Fail(q)
    PROVE  \/ held'[q] = held[q] /\ (UNCHANGED invites \/ RenewInvite(q) \/ CancelInvite(q) \/ InsertInvite(q))
           \/ held'[q] = {}
           \/ /\ LockInvites(q) /\ UNCHANGED invites
              /\ \A h \in held'[q] : /\ h.id \in InviteIds /\ ~Locked(h.id)
                                    /\ invites[h.id].status = "pending" /\ h.role = invites[h.id].role
<1>1. CASE LockInvites(q)
  <2>1. held'[q] = {[id |-> i, role |-> invites[i].role] : i \in PendingFor(asked[q].on)}
    BY <1>1 DEF LockInvites, AccessInv, AccessTypeOK
  <2> QED BY <1>1, <2>1 DEF LockInvites, PendingFor, guildRows
<1>2. CASE Answered(q)
  BY <1>2 DEF Answered, AccessInv, AccessTypeOK
<1>3. CASE ~LockInvites(q) /\ ~Answered(q)
  BY <1>3 DEF Handle, Receive, AddMember, FindMember, CountOwners, WriteRole, DeleteMember, FindInvite,
       RenewInvite, InsertInvite, FindCancelled, CancelInvite, CommitLogin, Fail, Refused, guildRows
<1> QED BY <1>1, <1>2, <1>3

LEMMA HeldStaysWithOne ==
    ASSUME AccessInv, NEW q \in Clients, Receive(q) \/ Handle(q) \/ Fail(q)
    PROVE  HeldByOne'
<1>1. ASSUME NEW p \in Clients, p # q PROVE held'[p] = held[p]
  BY <1>1, OthersStand DEF AccessInv
<1>2. ASSUME NEW p \in Clients, p # q, NEW h \in held[p], NEW g \in held'[q] PROVE h.id # g.id
  BY <1>2, HoldsAfter DEF AccessInv, HeldByOne, Locked
<1>3. ASSUME NEW p \in Clients, NEW r \in Clients, p # q, r # q,
             NEW h \in held'[p], NEW g \in held'[r], h.id = g.id
      PROVE  p = r
  BY <1>1, <1>3 DEF AccessInv, HeldByOne
<1>4. ASSUME NEW p \in Clients, NEW r \in Clients, NEW h \in held'[p], NEW g \in held'[r], h.id = g.id
      PROVE  p = r
  BY <1>1, <1>2, <1>3, <1>4
<1> QED BY <1>4 DEF HeldByOne

LEMMA HeldKeepsStanding ==
    ASSUME AccessInv, NEW q \in Clients, Receive(q) \/ Handle(q) \/ Fail(q)
    PROVE  HeldStands'
<1>0. \A p \in Clients : \A h \in held[p] : h.id \in InviteIds
  BY DEF AccessInv, AccessTypeOK, Holds
<1>1. ASSUME NEW p \in Clients, p # q, NEW h \in held[p] PROVE invites'[h.id] = invites[h.id]
  <2>1. h.id \in InviteIds /\ invites[h.id].status = "pending" /\ Locked(h.id)
    BY <1>0, <1>1 DEF AccessInv, HeldStands, Locked
  <2>2. ~\E g \in held[q] : g.id = h.id
    BY <1>1 DEF AccessInv, HeldByOne
  <2> QED BY <2>1, <2>2, InvitationSteps DEF AccessInv
<1>2. ASSUME NEW p \in Clients, p # q PROVE held'[p] = held[p]
  BY <1>2, OthersStand DEF AccessInv
<1>3. ASSUME NEW h \in held'[q]
      PROVE  invites'[h.id].status = "pending" /\ invites'[h.id].role = h.role
  <2>1. CASE held'[q] = held[q] /\ UNCHANGED invites
    BY <1>3, <2>1 DEF AccessInv, HeldStands
  <2>2. CASE RenewInvite(q) \/ CancelInvite(q) \/ InsertInvite(q)
    BY <1>3, <2>2 DEF RenewInvite, CancelInvite, InsertInvite, Answered, AccessInv, AccessTypeOK
  <2> QED BY <1>3, <2>1, <2>2, HoldsAfter
<1> QED BY <1>1, <1>2, <1>3 DEF AccessInv, HeldStands

LEMMA OneStaysPending ==
    ASSUME AccessInv, NEW q \in Clients, Receive(q) \/ Handle(q) \/ Fail(q)
    PROVE  OneInvitePending'
<1>1. ASSUME NEW i \in InviteIds, invites'[i].status = "pending",
             ~(InsertInvite(q) /\ invites[i].status = "unwritten")
      PROVE  invites[i].status = "pending" /\ invites'[i].name = invites[i].name
  BY <1>1, InvitationSteps DEF AccessInv
<1>2. ASSUME NEW i \in InviteIds, NEW k \in InviteIds, i # k, InsertInvite(q),
             invites[i].status = "unwritten", invites'[i].status = "pending",
             invites'[k].status = "pending"
      PROVE  invites'[i].name # invites'[k].name
  <2>1. invites'[i] # invites[i]
    BY <1>2
  <2>2. /\ invites'[i].name = asked[q].on /\ PendingUnder(asked[q].on) = {}
        /\ invites'[k] = invites[k]
    BY <1>2, <2>1, InvitationSteps DEF AccessInv, RenewInvite, CancelInvite, InsertInvite, CommitLogin, At
  <2> QED BY <1>2, <2>2 DEF PendingUnder
<1> QED BY <1>1, <1>2 DEF AccessInv, OneInvitePending

\* What a login has read of an invitation stands until it commits, and a name
\* has one pending invitation at most, however the requests of owners and of
\* those who log in meet.  Alone neither is kept: that the rows a request is
\* about to write are rows, and that no invitation is locked twice, goes with
\* them.
THEOREM AccessInvariance == AccessSpec => []AccessInv
<1>1. AccessInit => AccessInv
  <2> SUFFICES ASSUME AccessInit PROVE AccessInv
    OBVIOUS
  <2>1. AccessTypeOK
    BY AccessAssumption DEF AccessInit, AccessTypeOK, Rows, Nothing
  <2>2. RowsRead /\ HeldByOne /\ HeldStands /\ OneInvitePending
    BY DEF AccessInit, RowsRead, HeldByOne, HeldStands, OneInvitePending, At, Nothing, NoInvite
  <2> QED BY <2>1, <2>2 DEF AccessInv
<1>2. AccessInv /\ [AccessNext]_accessVars => AccessInv'
  <2> SUFFICES ASSUME AccessInv, [AccessNext]_accessVars PROVE AccessInv'
    OBVIOUS
  <2>1. CASE UNCHANGED accessVars
    BY <2>1 DEF AccessInv, accessVars, AccessTypeOK, RowsRead, HeldByOne, HeldStands, OneInvitePending, At
  <2>2. ASSUME NEW q \in Clients, Receive(q) \/ Handle(q) \/ Fail(q) PROVE AccessInv'
    BY <2>2, AccessTyped, RowsStayRead, HeldStaysWithOne, HeldKeepsStanding, OneStaysPending DEF AccessInv
  <2> QED BY <2>1, <2>2 DEF AccessNext
<1> QED BY <1>1, <1>2, PTL DEF AccessSpec

\* Members, invitations and the places of all requests keep their types.
THEOREM AccessTypeCorrect == AccessSpec => []AccessTypeOK
BY AccessInvariance, PTL DEF AccessInv

\* A login commits what it has read: no other login has consumed those invitations
\* and no owner has changed or withdrawn them meanwhile.
THEOREM ReadInvitesStand == AccessSpec => []HeldStands
BY AccessInvariance, PTL DEF AccessInv

\* Owners who invite the same name at once leave it one pending invitation.
THEOREM OneInvitation == AccessSpec => []OneInvitePending
BY AccessInvariance, PTL DEF AccessInv

-----------------------------------------------------------------------------
(* The schema: what alembic stamps *)

\* No revision of the set without its parents.
WithParents(stamps) == \A i \in stamps : Parents[i] \subseteq stamps

\* What is committed, and what a transaction has.
Recorded(d) == d = [schema |-> d.schema, applied |-> d.applied] /\ d.applied \subseteq Revisions

\* A revision whose turn it is: its parents are there and it is wanted or, going
\* back, nothing is there that follows it and it is not wanted.
Turn(i, stamps) ==
    /\ migration.mode = "up" => i \in migration.goal /\ Parents[i] \subseteq stamps
    /\ migration.mode = "down" => i \notin migration.goal /\ \A j \in stamps : i \notin Parents[j]

\* The stamps of the open transaction are between what is committed and the goal.
OnTheWay ==
    /\ migration.mode = "up" => db.applied \subseteq work.applied /\ work.applied \subseteq migration.goal
    /\ migration.mode = "down" => migration.goal \subseteq work.applied /\ work.applied \subseteq db.applied

\* An autocommit block begins with everything committed, and it was its revision's turn.
BlockInv ==
    block # NoBlock => /\ block.rev \in Revisions /\ migration # NoRun
                       /\ db.applied = work.applied /\ Turn(block.rev, db.applied)

\* The inductive invariant: goals have their parents with them too.
SchemaInv ==
    /\ SchemaTypeOK
    /\ Recorded(db) /\ Recorded(work)
    /\ migration = [mode |-> migration.mode, goal |-> migration.goal]
    /\ migration.mode = "none" => migration = NoRun
    /\ WithParents(db.applied) /\ WithParents(work.applied) /\ WithParents(migration.goal)
    /\ OnTheWay /\ BlockInv

\* The list of revisions is numbered, each after its parents.
LEMMA RevisionNumbers ==
    /\ Latest \in Nat /\ Revisions = 1..Latest
    /\ \A i \in Revisions : Parents[i] \subseteq Revisions
  <1>1. Revisions = 1..Latest /\ Latest \in Nat
    BY DEF Revisions, Latest, AllRevisions
  <1>2. \A i \in Revisions : Parents[i] \subseteq Revisions
    BY DEF Parents
  <1> QED BY <1>1, <1>2

\* A revision is stamped, or its stamp taken, when it is its turn: the rest keeps its
\* parents.
LEMMA StampKeepsParents ==
    ASSUME NEW S \in SUBSET Revisions, NEW i \in Revisions, WithParents(S)
    PROVE  /\ Parents[i] \subseteq S => WithParents(S \cup {i})
           /\ (\A j \in S : i \notin Parents[j]) => WithParents(S \ {i})
  BY DEF WithParents

\* A run that ends without its commit leaves what is committed.
LEMMA RunBroken ==
    ASSUME SchemaInv, work' = db, migration' = NoRun, block' = NoBlock, UNCHANGED db,
           torn' = (torn \/ loose), loose' = FALSE, failed' \in Revisions \cup {0},
           interrupts' \in 0..MaxInterrupts, UNCHANGED downgrades
    PROVE  SchemaInv'
  <1> USE DEF SchemaInv
  <1>1. SchemaTypeOK'
    BY DEF SchemaTypeOK, NoRun, NoBlock, Recorded
  <1>2. (Recorded(db) /\ Recorded(work))'
    BY DEF Recorded
  <1>3. (WithParents(db.applied) /\ WithParents(work.applied) /\ WithParents(migration.goal))'
    BY DEF WithParents, NoRun
  <1>4. OnTheWay' /\ BlockInv'
    BY DEF OnTheWay, BlockInv, NoRun
  <1>5. (migration = [mode |-> migration.mode, goal |-> migration.goal])'
    BY DEF NoRun
  <1> QED BY <1>1, <1>2, <1>3, <1>4, <1>5

\* A run starts: up to all that is there with a lineage, or down to what does not
\* follow a revision, and that revision. Either set has its parents.
LEMMA StartKeeps ==
    ASSUME SchemaInv, NEW i \in Revisions, StartUp(i) \/ StartDown(i)
    PROVE  SchemaInv'
  <1> USE DEF SchemaInv
  <1>1. /\ UNCHANGED <<db, work, block, loose, torn, interrupts>> /\ failed' = 0
        /\ migration = NoRun /\ work = db /\ block = NoBlock /\ ~loose
        /\ downgrades' \in 0..MaxDowngrades
    BY BoundsType DEF StartUp, StartDown, SchemaTypeOK
  <1>2. db.applied \subseteq Revisions /\ WithParents(db.applied)
    BY DEF Recorded
  <1>3. /\ i \in Lineage[i] /\ Lineage[i] \subseteq Revisions
        /\ \A j \in Lineage[i] : Parents[j] \subseteq Lineage[i]
    <2>1. Lineage[i] \subseteq Revisions
      BY LineageOrder, RevisionNumbers
    <2> QED BY <2>1, LineageOrder
  <1>4. PICK mode \in {"up", "down"}, goal \in SUBSET Revisions :
            /\ migration' = [mode |-> mode, goal |-> goal]
            /\ WithParents(goal)
            /\ mode = "up" => db.applied \subseteq goal
            /\ mode = "down" => goal \subseteq db.applied
    <2>1. CASE StartUp(i)
      <3>1. WithParents(db.applied \cup Lineage[i])
        BY <1>2, <1>3 DEF WithParents
      <3> QED BY <1>2, <1>3, <2>1, <3>1 DEF StartUp
    <2>2. CASE StartDown(i)
      <3> DEFINE goal == (db.applied \ Descendants(i)) \cup {i}
      <3>1. i \in db.applied
        BY <2>2 DEF StartDown
      <3>2. ASSUME NEW k \in goal, NEW p \in Parents[k] PROVE p \in goal
        <4>1. k \in Revisions /\ p \in Revisions /\ p \in db.applied /\ p < k
          <5>1. k \in db.applied
            BY <3>1, <3>2
          <5>2. p \in 1..k-1 /\ k \in Revisions
            BY <1>2, <3>2, <5>1, LineageOrder
          <5>3. k \in Nat
            BY <5>2, RevisionNumbers
          <5> QED BY <1>2, <3>2, <5>1, <5>2, <5>3 DEF WithParents
        <4>2. p \in Lineage[k] /\ Lineage[p] \subseteq Lineage[k] /\ Lineage[p] \subseteq 1..p
          BY <3>2, <4>1, LineageOrder
        <4>3. i \notin Lineage[p]
          <5>1. CASE k = i
            <6>1. i \in Nat /\ p \in Nat /\ p < i
              BY <4>1, <5>1, RevisionNumbers
            <6>2. ~(i \in 1..p)
              BY <6>1
            <6> QED BY <4>2, <6>2
          <5>2. CASE k # i
            BY <3>2, <4>1, <4>2, <5>2 DEF Descendants
          <5> QED BY <5>1, <5>2
        <4> QED BY <4>1, <4>3 DEF Descendants
      <3>3. goal \subseteq db.applied
        BY <3>1
      <3>4. migration' = [mode |-> "down", goal |-> goal]
        BY <2>2 DEF StartDown
      <3> HIDE DEF goal
      <3>5. WithParents(goal)
        BY <3>2 DEF WithParents
      <3> QED BY <1>2, <3>3, <3>4, <3>5
    <2> QED BY <2>1, <2>2
  <1>5. SchemaTypeOK'
    BY <1>1, <1>4 DEF SchemaTypeOK, NoRun
  <1>6. (Recorded(db) /\ Recorded(work))'
    BY <1>1 DEF Recorded
  <1>7. (WithParents(db.applied) /\ WithParents(work.applied) /\ WithParents(migration.goal))'
    BY <1>1, <1>4 DEF WithParents
  <1>8. OnTheWay' /\ BlockInv'
    BY <1>1, <1>4 DEF OnTheWay, BlockInv
  <1>9. (/\ migration = [mode |-> migration.mode, goal |-> migration.goal]
         /\ migration.mode = "none" => migration = NoRun)'
    BY <1>4
  <1> QED BY <1>5, <1>6, <1>7, <1>8, <1>9

\* A revision is stamped, up or down, when it is its turn.
LEMMA StampedKeeps ==
    ASSUME SchemaInv, NEW i \in Revisions, Turn(i, work.applied), migration # NoRun
    PROVE  /\ Stamped(i) \subseteq Revisions /\ WithParents(Stamped(i))
           /\ migration.mode = "up" => db.applied \subseteq Stamped(i) /\ Stamped(i) \subseteq migration.goal
           /\ migration.mode = "down" => migration.goal \subseteq Stamped(i) /\ Stamped(i) \subseteq db.applied
  <1>1. work.applied \in SUBSET Revisions /\ WithParents(work.applied)
    BY DEF SchemaInv, Recorded
  <1>2. migration.mode \in {"up", "down"}
    BY DEF SchemaInv, SchemaTypeOK
  <1>3. CASE migration.mode = "up"
    <2>1. Stamped(i) = work.applied \cup {i} /\ WithParents(work.applied \cup {i})
      BY <1>1, <1>3, StampKeepsParents DEF Stamped, Turn
    <2> QED BY <1>1, <1>3, <2>1 DEF SchemaInv, OnTheWay, Turn
  <1>4. CASE migration.mode = "down"
    <2>1. Stamped(i) = work.applied \ {i} /\ WithParents(work.applied \ {i})
      BY <1>1, <1>4, StampKeepsParents DEF Stamped, Turn
    <2> QED BY <1>1, <1>4, <2>1 DEF SchemaInv, OnTheWay, Turn
  <1> QED BY <1>2, <1>3, <1>4

LEMMA DueTurn ==
    ASSUME SchemaInv, NEW i \in Revisions, Due(i)
    PROVE  Turn(i, work.applied) /\ migration # NoRun /\ block = NoBlock
  BY DEF Due, Turn, NoRun

\* A step of a run.
LEMMA ProceedsKeeps ==
    ASSUME SchemaInv, Proceeds
    PROVE  SchemaInv'
  <1>1. ASSUME NEW i \in Revisions, Fails(i) PROVE SchemaInv'
    <2>1. interrupts \in 0..MaxInterrupts
      BY DEF SchemaInv, SchemaTypeOK
    <2> QED BY <1>1, <2>1, RunBroken DEF Fails
  <1>2. ASSUME NEW i \in Revisions, NEW schema, Turn(i, work.applied), migration # NoRun,
               work' = [schema |-> schema, applied |-> Stamped(i)], block' = NoBlock,
               UNCHANGED <<db, migration, loose, torn, failed, interrupts, downgrades>>
        PROVE  SchemaInv'
    <2> USE DEF SchemaInv
    <2>1. /\ Stamped(i) \subseteq Revisions /\ WithParents(Stamped(i))
          /\ migration.mode = "up" => db.applied \subseteq Stamped(i) /\ Stamped(i) \subseteq migration.goal
          /\ migration.mode = "down" => migration.goal \subseteq Stamped(i) /\ Stamped(i) \subseteq db.applied
      BY <1>2, StampedKeeps
    <2>2. work'.applied = Stamped(i)
      BY <1>2
    <2>3. SchemaTypeOK'
      BY <1>2, <2>1, <2>2 DEF SchemaTypeOK, NoBlock
    <2>4. (Recorded(db) /\ Recorded(work))'
      BY <1>2, <2>1 DEF Recorded
    <2>5. (WithParents(db.applied) /\ WithParents(work.applied) /\ WithParents(migration.goal))'
      BY <1>2, <2>1, <2>2 DEF WithParents
    <2>6. OnTheWay' /\ BlockInv'
      BY <1>2, <2>1, <2>2 DEF OnTheWay, BlockInv
    <2> QED BY <1>2, <2>3, <2>4, <2>5, <2>6
  <1>3. ASSUME NEW i \in Revisions, Migrate(i) PROVE SchemaInv'
    <2>1. PICK r : \/ /\ work' = [schema |-> r.schema, applied |-> Stamped(i)]
                      /\ UNCHANGED <<db, migration, block, loose, torn, failed, interrupts, downgrades>>
                   \/ Fails(i)
      BY <1>3 DEF Migrate
    <2>2. Turn(i, work.applied) /\ migration # NoRun /\ block = NoBlock
      BY <1>3, DueTurn DEF Migrate
    <2> QED BY <1>1, <1>2, <2>1, <2>2
  <1>4. ASSUME NEW i \in Revisions, EnterBlock(i) PROVE SchemaInv'
    <2> USE DEF SchemaInv
    <2>1. Turn(i, work.applied) /\ migration # NoRun
      BY <1>4, DueTurn DEF EnterBlock
    <2>2. /\ db' = work /\ loose' = FALSE /\ block' = [rev |-> i, at |-> 1]
          /\ UNCHANGED <<work, migration, torn, failed, interrupts, downgrades>>
      BY <1>4 DEF EnterBlock
    <2>3. SchemaTypeOK'
      BY <2>1, <2>2 DEF SchemaTypeOK, WithParents
    <2>4. (Recorded(db) /\ Recorded(work))'
      BY <2>2 DEF Recorded
    <2>5. (WithParents(db.applied) /\ WithParents(work.applied) /\ WithParents(migration.goal))'
      BY <2>2 DEF WithParents
    <2>6. OnTheWay'
      BY <2>2 DEF OnTheWay
    <2>7. BlockInv'
      BY <2>1, <2>2 DEF BlockInv, Turn
    <2> QED BY <2>2, <2>3, <2>4, <2>5, <2>6, <2>7
  <1>5. CASE BlockStatement
    <2>1. block # NoBlock /\ block.rev \in Revisions
      BY <1>5 DEF BlockStatement, SchemaInv, BlockInv
    <2>2. PICK r : \/ /\ db' = [db EXCEPT !.schema = r.schema]
                      /\ block' = [block EXCEPT !.at = @ + 1]
                      /\ loose' = TRUE
                      /\ UNCHANGED <<work, migration, torn, failed, interrupts, downgrades>>
                   \/ Fails(block.rev)
      BY <1>5 DEF BlockStatement
    <2>3. CASE Fails(block.rev)
      BY <1>1, <2>1, <2>3
    <2>4. CASE ~Fails(block.rev)
      <3> USE DEF SchemaInv
      <3>1. /\ db' = [schema |-> r.schema, applied |-> db.applied]
            /\ block' = [block EXCEPT !.at = @ + 1] /\ loose' = TRUE
            /\ UNCHANGED <<work, migration, torn, failed, interrupts, downgrades>>
        BY <2>2, <2>4 DEF Recorded
      <3>2. block'.rev = block.rev
        BY <3>1
      <3>3. migration # NoRun /\ db'.applied = db.applied
        BY <2>1, <3>1 DEF BlockInv
      <3>4. SchemaTypeOK'
        BY <2>1, <3>1, <3>2, <3>3 DEF SchemaTypeOK
      <3>5. (Recorded(db) /\ Recorded(work))'
        BY <3>1 DEF Recorded
      <3>6. (WithParents(db.applied) /\ WithParents(work.applied) /\ WithParents(migration.goal))'
        BY <3>1, <3>3 DEF WithParents
      <3>7. OnTheWay' /\ BlockInv'
        BY <2>1, <3>1, <3>2, <3>3 DEF OnTheWay, BlockInv, Turn
      <3> QED BY <3>1, <3>4, <3>5, <3>6, <3>7
    <2> QED BY <2>3, <2>4
  <1>6. CASE LeaveBlock
    <2>1. /\ block.rev \in Revisions /\ migration # NoRun /\ Turn(block.rev, work.applied)
      BY <1>6 DEF LeaveBlock, SchemaInv, BlockInv
    <2> QED BY <1>2, <1>6, <2>1 DEF LeaveBlock
  <1>7. CASE FinishRun
    <2> USE DEF SchemaInv
    <2>1. /\ db' = work /\ loose' = FALSE /\ migration' = NoRun /\ block = NoBlock
          /\ UNCHANGED <<work, block, torn, failed, interrupts, downgrades>>
      BY <1>7 DEF FinishRun
    <2>2. SchemaTypeOK'
      BY <2>1 DEF SchemaTypeOK, NoRun, WithParents
    <2>3. (Recorded(db) /\ Recorded(work))'
      BY <2>1 DEF Recorded
    <2>4. (WithParents(db.applied) /\ WithParents(work.applied) /\ WithParents(migration.goal))'
      BY <2>1 DEF WithParents, NoRun
    <2>5. OnTheWay' /\ BlockInv'
      BY <2>1 DEF OnTheWay, BlockInv, NoRun
    <2>6. (migration = [mode |-> migration.mode, goal |-> migration.goal])'
      BY <2>1 DEF NoRun
    <2> QED BY <2>1, <2>2, <2>3, <2>4, <2>5, <2>6
  <1> QED BY <1>3, <1>4, <1>5, <1>6, <1>7 DEF Proceeds

\* The releases are revisions, and there is a last one.
LEMMA ReleasesThere == ReleaseNumbers \subseteq Revisions /\ Latest \in Revisions
  <1>1. ReleaseNumbers \subseteq Revisions
    BY ReleasesKnown DEF ReleaseNumbers, NumberOf
  <1>2. Latest # 0
    BY DEF Latest, AllRevisions
  <1> QED BY <1>1, <1>2, RevisionNumbers

LEMMA SchemaInvInductive == SchemaInv /\ [SchemaNext]_schemaVars => SchemaInv'
  <1> SUFFICES ASSUME SchemaInv, [SchemaNext]_schemaVars PROVE SchemaInv'
    OBVIOUS
  <1>1. CASE StartHead \/ \E i \in ReleaseNumbers : StartUp(i) \/ StartDown(i)
    BY <1>1, ReleasesThere, StartKeeps DEF StartHead
  <1>2. CASE Interrupt
    <2>1. interrupts' \in 0..MaxInterrupts /\ failed \in Revisions \cup {0}
      BY <1>2, BoundsType DEF Interrupt, SchemaInv, SchemaTypeOK
    <2> QED BY <1>2, <2>1, RunBroken DEF Interrupt
  <1>3. CASE UNCHANGED schemaVars
    <2>1. UNCHANGED <<db, work, migration, block, loose, torn, failed, interrupts, downgrades>>
      BY <1>3 DEF schemaVars
    <2> QED BY <2>1 DEF SchemaInv, SchemaTypeOK, Recorded, WithParents, OnTheWay, BlockInv, Turn
  <1> QED BY <1>1, <1>2, <1>3, ProceedsKeeps DEF SchemaNext

\* A set of numbers up to a bound has, when it has any, a least and a greatest.
LEMMA LeastAndGreatest ==
    ASSUME NEW n \in Nat, NEW S \in SUBSET (1..n), S # {}
    PROVE  (\E i \in S : \A j \in S : i <= j) /\ (\E i \in S : \A j \in S : j <= i)
  <1> DEFINE less == OpToRel(<, Nat)
  <1>1. IsWellFoundedOn(less, Nat)
    BY NatLessThanWellFounded, Zenon
  <1>2. \A k, m \in Nat : k < m => <<k, m>> \in less
    BY DEF OpToRel
  <1> HIDE DEF less
  <1>3. S \subseteq Nat
    OBVIOUS
  <1>4. PICK i \in S : \A j \in S : ~(<<j, i>> \in less)
    BY <1>1, <1>3, WFMin
  <1>5. \A j \in S : i <= j
    <2> SUFFICES ASSUME NEW j \in S PROVE i <= j
      OBVIOUS
    <2>1. ~(j < i)
      BY <1>2, <1>3, <1>4
    <2> QED BY <1>3, <2>1
  <1> DEFINE D == {n - j : j \in S}
  <1>6. D \subseteq Nat /\ D # {}
    OBVIOUS
  <1>7. PICK d \in D : \A e \in D : ~(<<e, d>> \in less)
    BY <1>1, <1>6, WFMin
  <1>8. PICK g \in S : d = n - g
    OBVIOUS
  <1>9. \A j \in S : j <= g
    <2> SUFFICES ASSUME NEW j \in S PROVE j <= g
      OBVIOUS
    <2>1. n - j \in D
      OBVIOUS
    <2>2. ~(n - j < n - g)
      BY <1>2, <1>6, <1>7, <1>8, <2>1
    <2> QED BY <2>2
  <1> QED BY <1>5, <1>9

\* A run that is not through always has a next step: a block, or a revision whose
\* turn it is.
RunGoesOn ==
    migration # NoRun =>
        block # NoBlock \/ work.applied = migration.goal \/ \E i \in Revisions : Due(i)

LEMMA InvGoesOn == SchemaInv => RunGoesOn
  <1> SUFFICES ASSUME SchemaInv, migration # NoRun, block = NoBlock, work.applied # migration.goal
               PROVE  \E i \in Revisions : Due(i)
    BY DEF RunGoesOn
  <1>1. /\ work.applied \subseteq Revisions /\ migration.goal \subseteq Revisions
        /\ WithParents(migration.goal) /\ migration.mode \in {"up", "down"}
    BY DEF SchemaInv, SchemaTypeOK, Recorded
  <1>2. CASE migration.mode = "up"
    <2> DEFINE T == migration.goal \ work.applied
    <2>1. T \in SUBSET (1..Latest) /\ T # {}
      BY <1>1, <1>2, RevisionNumbers DEF SchemaInv, OnTheWay
    <2>2. PICK i \in T : \A j \in T : i <= j
      <3> HIDE DEF T
      <3> QED BY <2>1, RevisionNumbers, LeastAndGreatest
    <2>3. ASSUME NEW p \in Parents[i] PROVE p \in work.applied
      <3>1. p \in migration.goal /\ p \in 1..i-1 /\ i \in Nat
        BY <1>1, <2>2, <2>3, RevisionNumbers, LineageOrder DEF WithParents
      <3>2. ~(i <= p)
        BY <3>1
      <3> QED BY <2>2, <3>1, <3>2
    <2> QED BY <1>1, <1>2, <2>2, <2>3 DEF Due
  <1>3. CASE migration.mode = "down"
    <2> DEFINE T == work.applied \ migration.goal
    <2>1. T \in SUBSET (1..Latest) /\ T # {}
      BY <1>1, <1>3, RevisionNumbers DEF SchemaInv, OnTheWay
    <2>2. PICK i \in T : \A j \in T : j <= i
      <3> HIDE DEF T
      <3> QED BY <2>1, RevisionNumbers, LeastAndGreatest
    <2>3. ASSUME NEW j \in work.applied, i \in Parents[j] PROVE FALSE
      <3>1. i \in 1..j-1 /\ j \in Nat
        BY <1>1, <2>3, RevisionNumbers, LineageOrder
      <3>2. ~(j <= i)
        BY <3>1
      <3>3. j \in migration.goal
        BY <2>2, <2>3, <3>2
      <3> QED BY <1>1, <2>2, <2>3, <3>3 DEF WithParents
    <2> QED BY <1>1, <1>3, <2>2, <2>3 DEF Due
  <1> QED BY <1>1, <1>2, <1>3

\* What the schema's runs rest on, for any releases, interrupts and downgrades.
THEOREM SchemaInvariance == SchemaSpec => []SchemaInv
  <1>1. SchemaInit => SchemaInv
    <2> SUFFICES ASSUME SchemaInit PROVE SchemaInv
      OBVIOUS
    <2> USE DEF SchemaInit
    <2>1. SchemaTypeOK
      <3>1. 0 \in 0..MaxInterrupts /\ 0 \in 0..MaxDowngrades
        BY BoundsType
      <3>2. db.applied = {} /\ work.applied = {} /\ migration.mode = "none" /\ migration.goal = {}
        BY DEF NoRun
      <3>3. block.rev = 0 /\ ~loose /\ ~torn /\ loose \in BOOLEAN /\ torn \in BOOLEAN
        BY DEF NoBlock
      <3> QED BY <3>1, <3>2, <3>3 DEF SchemaTypeOK
    <2>2. Recorded(db) /\ Recorded(work)
      BY DEF Recorded
    <2>3. WithParents(db.applied) /\ WithParents(work.applied) /\ WithParents(migration.goal)
      BY DEF WithParents, NoRun
    <2>4. OnTheWay /\ BlockInv
      BY DEF OnTheWay, BlockInv, NoRun
    <2> QED BY <2>1, <2>2, <2>3, <2>4 DEF SchemaInv, NoRun
  <1> QED BY <1>1, SchemaInvInductive, PTL DEF SchemaSpec

\* Types; a revision is never stamped without its parents, in whatever order the
\* branches of the history were applied and wherever a run was stopped.
THEOREM SchemaTypeCorrect == SchemaSpec => []SchemaTypeOK
  <1>1. SchemaInv => SchemaTypeOK
    BY DEF SchemaInv
  <1> QED BY <1>1, SchemaInvariance, PTL

\* An upgrade and a downgrade are never stuck before their goal: the order of the
\* revisions leaves one whose turn it is.
THEOREM RunsGoOn == SchemaSpec => []RunGoesOn
  BY SchemaInvariance, InvGoesOn, PTL

\* What is committed follows the run: an upgrade, stopped or not, takes no stamp
\* away, a downgrade gives none, and outside a run nothing changes.
StampsFollowTheRun ==
    [][/\ migration.mode = "up" => db.applied \subseteq db'.applied
       /\ migration.mode = "down" => db'.applied \subseteq db.applied
       /\ migration.mode = "none" => db' = db]_schemaVars

\* A run that is stopped or fails leaves stamps that a run in its direction can go
\* on from.
THEOREM StampsFollow == SchemaSpec => StampsFollowTheRun
  <1>1. SchemaInv /\ [SchemaNext]_schemaVars =>
            [/\ migration.mode = "up" => db.applied \subseteq db'.applied
             /\ migration.mode = "down" => db'.applied \subseteq db.applied
             /\ migration.mode = "none" => db' = db]_schemaVars
    <2> SUFFICES ASSUME SchemaInv, SchemaNext
                 PROVE  /\ migration.mode = "up" => db.applied \subseteq db'.applied
                        /\ migration.mode = "down" => db'.applied \subseteq db.applied
                        /\ migration.mode = "none" => db' = db
      OBVIOUS
    <2>1. \/ db' = db
          \/ db' = work /\ migration # NoRun
          \/ db'.applied = db.applied /\ migration # NoRun
      <3>1. CASE Proceeds
        <4>1. ASSUME NEW i \in Revisions, Migrate(i) PROVE db' = db
          BY <4>1 DEF Migrate, Fails
        <4>2. ASSUME NEW i \in Revisions, EnterBlock(i) PROVE db' = work /\ migration # NoRun
          BY <4>2, DueTurn DEF EnterBlock
        <4>3. CASE BlockStatement
          <5>1. migration # NoRun /\ \E r : db' = db \/ db' = [db EXCEPT !.schema = r.schema]
            BY <4>3 DEF BlockStatement, Fails, SchemaInv, BlockInv
          <5> QED BY <5>1 DEF SchemaInv, Recorded
        <4>4. CASE LeaveBlock \/ FinishRun
          BY <4>4 DEF LeaveBlock, FinishRun
        <4> QED BY <3>1, <4>1, <4>2, <4>3, <4>4 DEF Proceeds
      <3>2. CASE ~Proceeds
        BY <3>2 DEF SchemaNext, StartHead, StartUp, StartDown, Interrupt
      <3> QED BY <3>1, <3>2
    <2> QED BY <2>1 DEF SchemaInv, OnTheWay
  <1> QED BY <1>1, SchemaInvariance, PTL DEF SchemaSpec, StampsFollowTheRun

=============================================================================
