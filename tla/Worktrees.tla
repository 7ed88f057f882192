----------------------------- MODULE Worktrees -----------------------------
(***************************************************************************)
(* What happens to the work of a task: its branch on GitHub, the branch    *)
(* and the worktree each worker has of it, the runs that commit and push,  *)
(* and the registry, sweeper and start-up reclamation that remove          *)
(* worktrees (worker.py, task_worktree.py, git_ops.py, github_pr.py).      *)
(* A commit is a number, and a head the set of commits in its history:     *)
(* main is {}, a fast-forward is a superset.                               *)
(***************************************************************************)
EXTENDS Naturals

CONSTANTS
    Workers,     \* worker processes, each with a clone of its own
    Absent,      \* the value of a branch, a ref or a worktree that is not there
    MaxCommits,  \* bound on commits
    MaxRuns,     \* bound on runs
    MaxFaults    \* bound on crashes and failed commands

ASSUME BoundsType == MaxCommits \in Nat /\ MaxRuns \in Nat /\ MaxFaults \in Nat
ASSUME AbsentType == \A commits \in SUBSET (1..MaxCommits) : Absent # commits

VARIABLES
    origin,      \* the task's branch on GitHub
    branchKnown, \* Task.branch is recorded
    local,       \* the branch in the worker's clone
    track,       \* origin/<branch> in the worker's clone
    upstream,    \* what the branch's upstream is: "main" or "branch"
    reviewing,   \* a worktree of a review task has the branch checked out
    tree,        \* the task's worktree: its head, whether on the branch, edits
    young,       \* the task directory's mtime is within the TTL
    known,       \* the registry's entry: "no", "fresh", "stale"
    swept,       \* the task is in the list a sweep works through
    releasing,   \* a removal of the worktree is under way
    left,        \* the removal failed, and nobody knows the worktree any more
    run,         \* the worker's run of the task: place, mode, agent's success
    alive,       \* the worker's process runs
    reported,    \* the commits of runs that were reported as a success
    made, runs, faults

gitVars == <<local, track, upstream>>
registryVars == <<young, known, swept, releasing, left>>
counters == <<made, runs, faults>>
vars == <<origin, branchKnown, gitVars, reviewing, tree, registryVars, run, alive, reported, counters>>

Commits == 1..MaxCommits
Refs == {Absent} \cup SUBSET Commits
Modes == {"fresh", "followup"}

NoRun == [at |-> "none", mode |-> "fresh", ok |-> FALSE]

Trees == [head : SUBSET Commits, on : BOOLEAN, dirty : SUBSET Commits]
Tree(head, on, dirty) == [head |-> head, on |-> on, dirty |-> dirty]
TypeOK ==
    /\ origin \in Refs /\ branchKnown \in BOOLEAN
    /\ local \in [Workers -> Refs] /\ track \in [Workers -> Refs]
    /\ upstream \in [Workers -> {"main", "branch"}]
    /\ tree \in [Workers -> {Absent} \cup Trees]
    /\ known \in [Workers -> {"no", "fresh", "stale"}]
    /\ reviewing \in [Workers -> BOOLEAN] /\ young \in [Workers -> BOOLEAN]
    /\ swept \in [Workers -> BOOLEAN] /\ releasing \in [Workers -> BOOLEAN]
    /\ left \in [Workers -> BOOLEAN] /\ alive \in [Workers -> BOOLEAN]
    /\ run \in [Workers -> [at : {"none", "look", "reset", "add", "agent", "push"},
                            mode : Modes, ok : BOOLEAN]]
    /\ reported \in SUBSET Commits
    /\ made \in 0..MaxCommits /\ runs \in 0..MaxRuns /\ faults \in 0..MaxFaults

Init ==
    /\ origin = Absent /\ branchKnown = FALSE
    /\ local = [w \in Workers |-> Absent] /\ track = local /\ tree = local
    /\ upstream = [w \in Workers |-> "main"]
    /\ reviewing = [w \in Workers |-> FALSE] /\ young = reviewing /\ swept = reviewing
    /\ releasing = reviewing /\ left = reviewing
    /\ known = [w \in Workers |-> "no"]
    /\ run = [w \in Workers |-> NoRun] /\ alive = [w \in Workers |-> TRUE]
    /\ reported = {} /\ made = 0 /\ runs = 0 /\ faults = 0

Set(f, w, x) == [f EXCEPT ![w] = x]
Fault == faults < MaxFaults /\ faults' = faults + 1
Has(ref) == ref # Absent
Contents(ref) == IF Has(ref) THEN ref ELSE {}

\* git fetch, which may fail unnoticed: a branch that is not there leaves the
\* tracking ref alone.
Fetch(w) ==
    \/ track' = (IF Has(origin) THEN Set(track, w, origin) ELSE track) /\ UNCHANGED faults
    \/ Has(origin) /\ Fault /\ UNCHANGED track

Goes(w, at) == run' = [run EXCEPT ![w].at = at]
RunEnds(w) == run' = Set(run, w, NoRun)
At(w, at) == run[w].at = at

-----------------------------------------------------------------------------
(* The registry: register and touch, release, sweep.                       *)

Touch(w) == known' = IF known[w] = "no" THEN known ELSE Set(known, w, "fresh")

\* The entry goes first, then the worktree.
Release(w) ==
    /\ known' = Set(known, w, "no")
    /\ releasing' = Set(releasing, w, releasing[w] \/ known[w] # "no")

\* git worktree remove: its failure is not noticed.
RemoveDone(w) ==
    /\ releasing[w] /\ releasing' = Set(releasing, w, FALSE)
    /\ \/ tree' = Set(tree, w, Absent) /\ UNCHANGED <<left, faults>>
       \/ Has(tree[w]) /\ Fault /\ left' = Set(left, w, TRUE) /\ UNCHANGED tree
    /\ UNCHANGED <<origin, branchKnown, gitVars, reviewing, young, known, swept, run, alive, reported, made, runs>>

\* A sweep lists the stale tasks no agent runs, and releases one after the other.
SweepList(w) ==
    /\ known[w] = "stale" /\ At(w, "none") /\ ~swept[w]
    /\ swept' = Set(swept, w, TRUE)
    /\ UNCHANGED <<origin, branchKnown, gitVars, reviewing, tree, young, known, releasing, left, run, alive,
                   reported, counters>>

SweepRelease(w) ==
    /\ swept[w] /\ swept' = Set(swept, w, FALSE)
    /\ Release(w)
    /\ UNCHANGED <<origin, branchKnown, gitVars, reviewing, tree, young, left, run, alive, reported, counters>>

\* The listener's task-finalize.
Finalize(w) ==
    /\ known[w] # "no" /\ Release(w)
    /\ UNCHANGED <<origin, branchKnown, gitVars, reviewing, tree, young, swept, left, run, alive, reported, counters>>

\* Time: the entry is never older than the directory.
Ages(w) ==
    /\ \/ young[w] /\ young' = Set(young, w, FALSE) /\ UNCHANGED known
       \/ ~young[w] /\ known[w] = "fresh" /\ known' = Set(known, w, "stale") /\ UNCHANGED young
    /\ UNCHANGED <<origin, branchKnown, gitVars, reviewing, tree, swept, releasing, left, run, alive, reported, counters>>

Crash(w) ==
    /\ alive[w] /\ Fault /\ alive' = Set(alive, w, FALSE)
    /\ RunEnds(w)
    /\ known' = Set(known, w, "no")
    /\ swept' = Set(swept, w, FALSE) /\ releasing' = Set(releasing, w, FALSE)
    /\ UNCHANGED <<origin, branchKnown, gitVars, reviewing, tree, young, left, reported, made, runs>>

\* reclaim_startup: a task directory within the TTL is registered, others go.
Restart(w) ==
    /\ ~alive[w] /\ alive' = Set(alive, w, TRUE)
    /\ left' = Set(left, w, FALSE)
    /\ IF Has(tree[w]) /\ young[w]
       THEN known' = Set(known, w, "fresh") /\ UNCHANGED tree
       ELSE tree' = Set(tree, w, Absent) /\ UNCHANGED known
    /\ UNCHANGED <<origin, branchKnown, gitVars, reviewing, young, swept, releasing, run, reported, counters>>

-----------------------------------------------------------------------------
(* A run: TaskWorktree.acquire, the agent, push_branch.                    *)

Dispatch(w, mode) ==
    /\ alive[w] /\ At(w, "none") /\ runs < MaxRuns /\ runs' = runs + 1
    /\ mode = "followup" => branchKnown
    /\ run' = Set(run, w, [at |-> "look", mode |-> mode, ok |-> FALSE])
    /\ UNCHANGED <<origin, branchKnown, gitVars, reviewing, tree, registryVars, alive, reported, made, faults>>

\* The agent starts, with the worktrees registered and the branch reported.
Starts(w) ==
    /\ Goes(w, "agent") /\ branchKnown' = TRUE
    /\ known' = Set(known, w, "fresh") /\ left' = Set(left, w, FALSE)

\* ensure_repo fetches; a worktree that is there is used again.
Look(w) ==
    /\ At(w, "look") /\ Fetch(w)
    /\ CASE ~Has(tree[w]) -> Goes(w, "add") /\ UNCHANGED <<branchKnown, known, left>>
         [] Has(tree[w]) /\ run[w].mode = "fresh" -> Starts(w)
         [] OTHER -> Goes(w, "reset") /\ UNCHANGED <<branchKnown, known, left>>
    /\ UNCHANGED <<origin, local, upstream, reviewing, tree, young, swept, releasing, alive, reported, made, runs>>

\* fetch and reset --hard origin/<branch>, which fails when there is no such ref.
Reset(w) ==
    /\ At(w, "reset")
    /\ IF ~Has(tree[w])
       THEN RunEnds(w) /\ Touch(w) /\ UNCHANGED <<track, tree, local, branchKnown, left, faults>>
       ELSE /\ Fetch(w) /\ Starts(w)
            /\ tree' = IF Has(track'[w]) THEN Set(tree, w, Tree(track'[w], tree[w].on, {})) ELSE tree
            /\ local' = IF tree[w].on THEN Set(local, w, tree'[w].head) ELSE local
    /\ UNCHANGED <<origin, upstream, reviewing, young, swept, releasing, alive, reported, made, runs>>

NewTree(w, head, on) == tree' = Set(tree, w, Tree(head, on, {}))

\* create_worktree: a new branch from main, or detached at the one there is.
CreateTree(w) ==
    IF Has(local[w])
    THEN NewTree(w, local[w], FALSE) /\ UNCHANGED <<local, upstream>>
    ELSE NewTree(w, {}, TRUE) /\ local' = Set(local, w, {}) /\ upstream' = Set(upstream, w, "main")

\* attach_worktree: the local branch, detached when it is checked out elsewhere;
\* without one, a new one at origin/<branch>.
AttachTree(w) ==
    IF Has(local[w])
    THEN NewTree(w, local[w], ~reviewing[w]) /\ UNCHANGED <<local, upstream>>
    ELSE /\ NewTree(w, track'[w], TRUE) /\ local' = Set(local, w, track'[w])
         /\ upstream' = Set(upstream, w, "branch")

\* Without any ref to attach to, a follow-up creates the branch too.
AddTree(w) ==
    /\ At(w, "add") /\ Fetch(w) /\ Starts(w)
    /\ IF run[w].mode = "fresh" \/ (~Has(local[w]) /\ ~Has(track'[w]))
       THEN CreateTree(w) ELSE AttachTree(w)
    /\ young' = Set(young, w, TRUE)
    /\ UNCHANGED <<origin, reviewing, swept, releasing, alive, reported, made, runs>>

\* No worktree: the run has failed.
AddFails(w) ==
    /\ At(w, "add") /\ Fault /\ RunEnds(w)
    /\ UNCHANGED <<origin, branchKnown, gitVars, reviewing, tree, registryVars, alive, reported, made, runs>>

Works(w) == At(w, "agent") /\ Has(tree[w])

AgentEdits(w) ==
    /\ Works(w) /\ made < MaxCommits /\ made' = made + 1
    /\ tree' = Set(tree, w, Tree(tree[w].head, tree[w].on, tree[w].dirty \cup {made + 1}))
    /\ UNCHANGED <<origin, branchKnown, gitVars, reviewing, registryVars, run, alive, reported, runs, faults>>

\* git add -A, git commit
Commit(w, head) ==
    /\ tree' = Set(tree, w, Tree(head, tree[w].on, {}))
    /\ local' = IF tree[w].on THEN Set(local, w, head) ELSE local

AgentCommits(w) ==
    /\ Works(w) /\ tree[w].dirty # {}
    /\ Commit(w, tree[w].head \cup tree[w].dirty)
    /\ UNCHANGED <<origin, branchKnown, track, upstream, reviewing, registryVars, run, alive, reported, counters>>

FastForward(head) == Contents(origin) \subseteq head

\* The agent is told to push as it goes.
AgentPushes(w) ==
    /\ Works(w) /\ tree[w].head # {} /\ FastForward(tree[w].head)
    /\ origin' = tree[w].head /\ track' = Set(track, w, tree[w].head)
    /\ UNCHANGED <<branchKnown, local, upstream, reviewing, tree, registryVars, run, alive, reported, counters>>

AgentEnds(w) ==
    /\ At(w, "agent")
    /\ \E ok \in BOOLEAN :
          run' = Set(run, w, [at |-> "push", mode |-> run[w].mode, ok |-> ok /\ Has(tree[w])])
    /\ UNCHANGED <<origin, branchKnown, gitVars, reviewing, tree, registryVars, alive, reported, counters>>

\* A mutant: the entry of a cancelled run is dropped, and that is all.
CancelForgets(w) ==
    /\ At(w, "agent") /\ RunEnds(w) /\ known' = Set(known, w, "no")
    /\ UNCHANGED <<origin, branchKnown, gitVars, reviewing, tree, young, swept, releasing, left, alive, reported, counters>>

Cancelled(w) ==
    /\ At(w, "agent") /\ RunEnds(w) /\ Release(w)
    /\ UNCHANGED <<origin, branchKnown, gitVars, reviewing, tree, young, swept, left, alive, reported, counters>>

\* What a push is compared with: the upstream of the branch; for a detached head
\* origin/<branch>, else main.
Base(w) ==
    IF tree[w].on THEN IF upstream[w] = "branch" THEN Contents(track[w]) ELSE {}
    ELSE Contents(track[w])

\* A push with a token names a URL and leaves the tracking ref alone, one without
\* sets it and the upstream.
Pushed(w, head) ==
    /\ FastForward(head) /\ origin' = head /\ UNCHANGED faults
    /\ \/ UNCHANGED <<track, upstream>>
       \/ /\ track' = Set(track, w, head)
          /\ upstream' = IF tree[w].on THEN Set(upstream, w, "branch") ELSE upstream

PushFails(head) ==
    /\ (~FastForward(head) /\ UNCHANGED faults) \/ Fault
    /\ UNCHANGED <<origin, track, upstream>>

\* A mutant: the outcome of the push is not looked at.
PushRunUnchecked(w) ==
    LET head == tree[w].head \cup tree[w].dirty IN
    /\ Commit(w, head)
    /\ reported' = IF run[w].ok THEN reported \cup head ELSE reported
    /\ \/ head \subseteq Base(w) /\ UNCHANGED <<origin, track, upstream, faults>>
       \/ ~(head \subseteq Base(w)) /\ (Pushed(w, head) \/ PushFails(head))

\* The auto-commit is refused.
CommitFails(w) ==
    /\ tree[w].dirty # {} /\ Fault
    /\ UNCHANGED <<origin, gitVars, tree, reported>>

\* The run ends; a success whose commit or push has failed is an error.
PushRun(w) ==
    LET head == tree[w].head \cup tree[w].dirty
        succeeds == reported' = IF run[w].ok THEN reported \cup head ELSE reported IN
    \/ CommitFails(w)
    \/ /\ Commit(w, head)
       /\ \/ head \subseteq Base(w) /\ succeeds /\ UNCHANGED <<origin, track, upstream, faults>>
          \/ ~(head \subseteq Base(w)) /\ Pushed(w, head) /\ succeeds
          \/ ~(head \subseteq Base(w)) /\ PushFails(head) /\ UNCHANGED reported

Push(w) ==
    /\ At(w, "push") /\ RunEnds(w) /\ Touch(w)
    /\ IF Has(tree[w]) THEN PushRun(w)
       ELSE UNCHANGED <<origin, gitVars, tree, reported, faults>>
    /\ UNCHANGED <<branchKnown, reviewing, young, swept, releasing, left, alive, made, runs>>

-----------------------------------------------------------------------------
(* Others at work on the branch.                                           *)

HumanPushes ==
    /\ Has(origin) /\ made < MaxCommits /\ made' = made + 1
    /\ origin' = origin \cup {made + 1}
    /\ UNCHANGED <<branchKnown, gitVars, reviewing, tree, registryVars, run, alive, reported, runs, faults>>

\* The idle puller, and every other task of the repository.
OtherFetch(w) ==
    /\ alive[w] /\ Has(origin) /\ track[w] # origin /\ track' = Set(track, w, origin)
    /\ UNCHANGED <<origin, branchKnown, local, upstream, reviewing, tree, registryVars, run, alive, reported, counters>>

\* checkout_pr_worktree for a review of the branch's pull request.
ReviewStarts(w) ==
    /\ alive[w] /\ Has(origin) /\ ~reviewing[w] /\ ~(Has(tree[w]) /\ tree[w].on)
    /\ Contents(local[w]) \subseteq origin
    /\ reviewing' = Set(reviewing, w, TRUE)
    /\ track' = Set(track, w, origin) /\ local' = Set(local, w, origin)
    /\ upstream' = IF Has(local[w]) THEN upstream ELSE Set(upstream, w, "branch")
    /\ UNCHANGED <<origin, branchKnown, tree, registryVars, run, alive, reported, counters>>

ReviewEnds(w) ==
    /\ reviewing[w] /\ reviewing' = Set(reviewing, w, FALSE)
    /\ UNCHANGED <<origin, branchKnown, gitVars, tree, registryVars, run, alive, reported, counters>>

-----------------------------------------------------------------------------
RunStep(w) == Look(w) \/ Reset(w) \/ AddTree(w) \/ AddFails(w) \/ AgentEnds(w) \/ Push(w)
AgentStep(w) == AgentEdits(w) \/ AgentCommits(w) \/ AgentPushes(w) \/ Cancelled(w)
RegistryStep(w) == RemoveDone(w) \/ SweepList(w) \/ SweepRelease(w)

Next ==
    \/ \E w \in Workers :
          \/ \E mode \in Modes : Dispatch(w, mode)
          \/ RunStep(w) \/ AgentStep(w) \/ RegistryStep(w)
          \/ Finalize(w) \/ Ages(w) \/ Crash(w) \/ Restart(w)
          \/ OtherFetch(w) \/ ReviewStarts(w) \/ ReviewEnds(w)
    \/ HumanPushes

Spec == Init /\ [][Next]_vars

\* Runs end, time passes, the sweeper comes round, commands return.
Fairness ==
    \A w \in Workers : WF_vars(RunStep(w)) /\ WF_vars(RegistryStep(w)) /\ WF_vars(Ages(w))

FairSpec == Spec /\ Fairness

-----------------------------------------------------------------------------
\* worker.py: "A genuine push failure ... must not surface as a reviewable result".
\* The commits of a run that was reported as a success are on GitHub, and stay.
SuccessIsPublished == reported \subseteq Contents(origin)

\* A worktree on a live worker's disk is in the registry, is being removed, or is
\* about to be used again, unless git failed to remove it.
Accounted ==
    \A w \in Workers :
        alive[w] /\ Has(tree[w]) => known[w] # "no" \/ releasing[w] \/ left[w] \/ At(w, "reset")

\* One worktree of a clone is on the branch at a time, at the branch's head, and a
\* worker that is down has no run, no registry and no sweep.
Consistent ==
    \A w \in Workers :
        /\ Has(tree[w]) /\ tree[w].on => tree[w].head = local[w] /\ ~reviewing[w]
        /\ reviewing[w] => Has(local[w])
        /\ ~alive[w] => run[w] = NoRun /\ known[w] = "no" /\ ~swept[w] /\ ~releasing[w]

\* task_worktree.py: "attach_worktree fetches origin/<branch> before checking it
\* out, so the new worktree starts at the latest remote commit." A follow-up
\* whose fetch works starts from all that is on GitHub.
StartsFromLatest ==
    [][\A w \in Workers :
          run[w].mode = "followup" /\ ~At(w, "agent") /\ run'[w].at = "agent" /\ faults' = faults
          => Contents(origin) \subseteq tree'[w].head]_vars
=============================================================================
