---------------------------- MODULE MCDeployment ----------------------------
(* The backend's surroundings over the life of a deployment: a behaviour is  *)
(* one of the worker containers it spawns and reaps, or one of the schema of *)
(* its database, which share no state.                                       *)
EXTENDS WorkerReaper, SchemaUpgrade

VARIABLE part

MCInit == part \in {"reaper", "schema"} /\ Init /\ SchemaInit

MCNext ==
    \/ part = "reaper" /\ Next /\ UNCHANGED <<schemaVars, part>>
    \/ part = "schema" /\ SchemaNext /\ UNCHANGED <<vars, part>>

MCFairness ==
    /\ WF_vars(part = "reaper" /\ Reaper)
    /\ WF_vars(part = "reaper" /\ (AssignWrite \/ AssignTell))
    /\ \A w \in Workers :
           /\ WF_vars(part = "reaper" /\ Spawn(w))
           /\ WF_vars(part = "reaper" /\ Time(w))
           /\ WF_vars(part = "reaper" /\ Escalation(w))
           /\ WF_vars(part = "reaper" /\ RowFollows(w))
           /\ WF_vars(part = "reaper" /\ Exit(w))

MCSpec == MCInit /\ [][MCNext]_<<vars, schemaVars, part>> /\ MCFairness
=============================================================================
