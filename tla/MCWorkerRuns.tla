---------------------------- MODULE MCWorkerRuns ----------------------------
(* What surrounds a run on a worker and what is in it, which share no state: *)
(* a behaviour is one of the task's branch and worktrees, or one of the      *)
(* agent's processes and sessions.                                           *)
EXTENDS Worktrees, AgentRunners

VARIABLE part

MCInit ==
    /\ part \in {"worktrees", "runners"}
    /\ Init /\ RunnerInit
    /\ part # "runners" => tool = "claude" /\ resume = NoSession

MCNext ==
    \/ part = "worktrees" /\ Next /\ UNCHANGED <<runnerVars, part>>
    \/ part = "runners" /\ RunnerNext /\ UNCHANGED <<vars, part>>

MCFairness ==
    /\ \A w \in Workers :
           /\ WF_vars(part = "worktrees" /\ RunStep(w))
           /\ WF_vars(part = "worktrees" /\ RegistryStep(w))
           /\ WF_vars(part = "worktrees" /\ Ages(w))
    /\ WF_runnerVars(part = "runners" /\ RunnerSteps)
    /\ WF_runnerVars(part = "runners" /\ Obeys)

MCSpec == MCInit /\ [][MCNext]_<<vars, runnerVars, part>> /\ MCFairness
=============================================================================
