---------------------------- MODULE WorkerRuns_proofs ----------------------------
(* What is proved of a run on a worker: of the worktrees it works in, for any     *)
(* number of workers, commits, runs and faults, and of the agent that does the    *)
(* work, for any number of signals and broken starts and reads.                   *)
EXTENDS Worktrees, AgentRunners, TLAPS

LEMMA InitType == Init => TypeOK
<1> SUFFICES ASSUME Init PROVE TypeOK
  OBVIOUS
<1>1. Absent \in Refs
  BY DEF Refs
<1>2. local \in [Workers -> Refs] /\ track \in [Workers -> Refs]
      /\ tree \in [Workers -> {Absent} \cup Trees]
  BY <1>1 DEF Init
<1>3. run \in [Workers -> [at : {"none", "look", "reset", "add", "agent", "push"},
                           mode : Modes, ok : BOOLEAN]]
  BY DEF Init, NoRun, Modes
<1>4. /\ reviewing \in [Workers -> BOOLEAN] /\ young \in [Workers -> BOOLEAN]
      /\ swept \in [Workers -> BOOLEAN] /\ releasing \in [Workers -> BOOLEAN]
      /\ left \in [Workers -> BOOLEAN] /\ alive \in [Workers -> BOOLEAN]
      /\ branchKnown \in BOOLEAN
  BY DEF Init
<1>5. made \in 0..MaxCommits /\ runs \in 0..MaxRuns /\ faults \in 0..MaxFaults
  BY BoundsType DEF Init
<1>6. upstream \in [Workers -> {"main", "branch"}] /\ known \in [Workers -> {"no", "fresh", "stale"}]
      /\ reported \in SUBSET Commits
  BY DEF Init
<1> QED
  BY <1>1, <1>2, <1>3, <1>4, <1>5, <1>6 DEF Init, TypeOK

\* A worktree that is there is a record, a head a set of commits.
LEMMA TreeRecord ==
    ASSUME TypeOK, NEW w \in Workers, Has(tree[w])
    PROVE  /\ tree[w].head \in SUBSET Commits /\ tree[w].dirty \in SUBSET Commits
           /\ tree[w].on \in BOOLEAN
BY DEF TypeOK, Trees, Has

LEMMA TreeType ==
    ASSUME NEW f \in [Workers -> {Absent} \cup Trees], NEW w \in Workers,
           NEW h \in SUBSET Commits, NEW on \in BOOLEAN, NEW d \in SUBSET Commits
    PROVE  Set(f, w, Tree(h, on, d)) \in [Workers -> {Absent} \cup Trees]
<1>1. Tree(h, on, d) \in Trees
  BY DEF Tree, Trees
<1> QED
  BY <1>1 DEF Set

LEMMA RefType ==
    ASSUME NEW f \in [Workers -> Refs], NEW w \in Workers, NEW h \in SUBSET Commits
    PROVE  Set(f, w, h) \in [Workers -> Refs]
BY DEF Set, Refs

LEMMA CommitType ==
    ASSUME TypeOK, NEW w \in Workers, Has(tree[w]), NEW h \in SUBSET Commits, Commit(w, h)
    PROVE  tree' \in [Workers -> {Absent} \cup Trees] /\ local' \in [Workers -> Refs]
<1>1. tree' = Set(tree, w, Tree(h, tree[w].on, {}))
  BY DEF Commit
<1>2. tree \in [Workers -> {Absent} \cup Trees] /\ local \in [Workers -> Refs]
      /\ tree[w].on \in BOOLEAN
  BY TreeRecord DEF TypeOK
<1>3. tree' \in [Workers -> {Absent} \cup Trees]
  BY <1>1, <1>2, TreeType
<1> QED
  BY <1>2, <1>3, RefType DEF Commit

LEMMA NewTreeType ==
    ASSUME TypeOK, NEW w \in Workers, NEW h \in SUBSET Commits, NEW on \in BOOLEAN, NewTree(w, h, on)
    PROVE  tree' \in [Workers -> {Absent} \cup Trees]
BY TreeType DEF NewTree, TypeOK

LEMMA StepType ==
    ASSUME TypeOK, [Next]_vars
    PROVE  TypeOK'
<1> USE BoundsType DEF vars, gitVars, registryVars, counters, Set, Fault, RunEnds, Goes
<1>1. NoRun \in [at : {"none", "look", "reset", "add", "agent", "push"}, mode : Modes, ok : BOOLEAN]
  BY DEF NoRun, Modes
<1>2. ASSUME NEW w \in Workers, Fetch(w)
      PROVE  track' \in [Workers -> Refs] /\ faults' \in 0..MaxFaults
  BY <1>2 DEF Fetch, TypeOK
<1>3. ASSUME NEW w \in Workers, Release(w)
      PROVE  known' \in [Workers -> {"no", "fresh", "stale"}] /\ releasing' \in [Workers -> BOOLEAN]
  BY <1>3 DEF Release, TypeOK
<1>4. ASSUME NEW w \in Workers, Starts(w)
      PROVE  /\ branchKnown' \in BOOLEAN /\ known' \in [Workers -> {"no", "fresh", "stale"}]
             /\ left' \in [Workers -> BOOLEAN]
             /\ run' \in [Workers -> [at : {"none", "look", "reset", "add", "agent", "push"},
                                     mode : Modes, ok : BOOLEAN]]
  BY <1>4 DEF Starts, TypeOK
<1>5. ASSUME NEW w \in Workers, RemoveDone(w) PROVE TypeOK'
  <2>1. tree' \in [Workers -> {Absent} \cup Trees] /\ releasing' \in [Workers -> BOOLEAN]
        /\ left' \in [Workers -> BOOLEAN]
    BY <1>5 DEF RemoveDone, TypeOK
  <2>2. faults' \in 0..MaxFaults
    BY <1>5 DEF RemoveDone, TypeOK
  <2> QED
    BY <1>5, <2>1, <2>2 DEF RemoveDone, TypeOK
<1>6. ASSUME NEW w \in Workers, SweepList(w) PROVE TypeOK'
  BY <1>6 DEF SweepList, TypeOK
<1>7. ASSUME NEW w \in Workers, SweepRelease(w) PROVE TypeOK'
  BY <1>3, <1>7 DEF SweepRelease, TypeOK
<1>8. ASSUME NEW w \in Workers, Finalize(w) PROVE TypeOK'
  BY <1>3, <1>8 DEF Finalize, TypeOK
<1>9. ASSUME NEW w \in Workers, Ages(w) PROVE TypeOK'
  BY <1>9 DEF Ages, TypeOK
<1>10. ASSUME NEW w \in Workers, Crash(w) PROVE TypeOK'
  BY <1>1, <1>10 DEF Crash, TypeOK
<1>11. ASSUME NEW w \in Workers, Restart(w) PROVE TypeOK'
  BY <1>11 DEF Restart, TypeOK
<1>12. ASSUME NEW w \in Workers, NEW mode \in Modes, Dispatch(w, mode) PROVE TypeOK'
  BY <1>12 DEF Dispatch, TypeOK
<1>13. ASSUME NEW w \in Workers, Look(w) PROVE TypeOK'
  <2>1. track' \in [Workers -> Refs] /\ faults' \in 0..MaxFaults
    BY <1>2, <1>13 DEF Look
  <2>2. CASE ~Has(tree[w])
    <3>1. Goes(w, "add") /\ UNCHANGED <<branchKnown, known, left>>
      BY <1>13, <2>2 DEF Look
    <3> QED
      BY <1>13, <2>1, <3>1 DEF Look, TypeOK
  <2>3. CASE Has(tree[w]) /\ run[w].mode = "fresh"
    <3>1. Starts(w)
      BY <1>13, <2>3 DEF Look
    <3> QED
      BY <1>4, <1>13, <2>1, <3>1 DEF Look, TypeOK
  <2>4. CASE Has(tree[w]) /\ run[w].mode # "fresh"
    <3>1. Goes(w, "reset") /\ UNCHANGED <<branchKnown, known, left>>
      BY <1>13, <2>4 DEF Look
    <3> QED
      BY <1>13, <2>1, <3>1 DEF Look, TypeOK
  <2> QED
    BY <2>2, <2>3, <2>4
<1>14. ASSUME NEW w \in Workers, Reset(w) PROVE TypeOK'
  <2>1. CASE ~Has(tree[w])
    BY <1>1, <1>14, <2>1 DEF Reset, Touch, TypeOK
  <2>2. CASE Has(tree[w])
    <3>1. Fetch(w) /\ Starts(w)
      BY <1>14, <2>2 DEF Reset
    <3>2. track' \in [Workers -> Refs] /\ faults' \in 0..MaxFaults
      BY <1>2, <3>1
    <3>3. tree' \in [Workers -> {Absent} \cup Trees] /\ local' \in [Workers -> Refs]
      <4>1. CASE Has(track'[w])
        <5>1. track'[w] \in SUBSET Commits
          BY <3>2, <4>1 DEF Refs, Has
        <5>2. tree' = Set(tree, w, Tree(track'[w], tree[w].on, {}))
          BY <1>14, <2>2, <4>1 DEF Reset
        <5>3. tree'[w].head = track'[w]
          BY <2>2, <5>2 DEF TypeOK, Tree
        <5>4. Commit(w, track'[w])
          BY <1>14, <2>2, <5>2, <5>3 DEF Reset, Commit
        <5> QED
          BY <2>2, <5>1, <5>4, CommitType
      <4>2. CASE ~Has(track'[w])
        <5>1. tree' = tree /\ local' = (IF tree[w].on THEN [local EXCEPT ![w] = tree[w].head] ELSE local)
          BY <1>14, <2>2, <4>2 DEF Reset
        <5> QED
          BY <2>2, <5>1, TreeRecord DEF TypeOK, Refs
      <4> QED
        BY <4>1, <4>2
    <3> QED
      BY <1>4, <1>14, <2>2, <3>1, <3>2, <3>3 DEF Reset, TypeOK
  <2> QED
    BY <2>1, <2>2
<1>15. ASSUME NEW w \in Workers, AddTree(w) PROVE TypeOK'
  <2>1. track' \in [Workers -> Refs] /\ faults' \in 0..MaxFaults
    BY <1>2, <1>15 DEF AddTree
  <2>0. /\ {} \in SUBSET Commits /\ (Has(local[w]) => local[w] \in SUBSET Commits)
        /\ local[w] \in Refs /\ reviewing[w] \in BOOLEAN
    BY DEF TypeOK, Refs, Has
  <2>2. ASSUME CreateTree(w)
        PROVE  /\ tree' \in [Workers -> {Absent} \cup Trees] /\ local' \in [Workers -> Refs]
               /\ upstream' \in [Workers -> {"main", "branch"}]
    <3> HIDE DEF Set
    <3>1. CASE Has(local[w])
      <4>1. NewTree(w, local[w], FALSE) /\ UNCHANGED <<local, upstream>>
        BY <2>2, <3>1 DEF CreateTree
      <4> QED
        BY <2>0, <3>1, <4>1, NewTreeType DEF TypeOK
    <3>2. CASE ~Has(local[w])
      <4>1. upstream' \in [Workers -> {"main", "branch"}]
        BY <2>2, <3>2 DEF CreateTree, TypeOK, Set
      <4> QED
        <5>1. NewTree(w, {}, TRUE) /\ local' = Set(local, w, {})
          BY <2>2, <3>2 DEF CreateTree
        <5>2. local' \in [Workers -> Refs]
          BY <2>0, <5>1, RefType DEF TypeOK
        <5> QED
          BY <2>0, <4>1, <5>1, <5>2, NewTreeType
    <3> QED
      BY <3>1, <3>2
  <2>3. ASSUME AttachTree(w), Has(local[w]) \/ Has(track'[w])
        PROVE  /\ tree' \in [Workers -> {Absent} \cup Trees] /\ local' \in [Workers -> Refs]
               /\ upstream' \in [Workers -> {"main", "branch"}]
    <3>1. local[w] \in SUBSET Commits \/ track'[w] \in SUBSET Commits
      BY <2>0, <2>1, <2>3 DEF Refs, Has
    <3> HIDE DEF Set
    <3>2. CASE Has(local[w])
      <4>1. NewTree(w, local[w], ~reviewing[w]) /\ UNCHANGED <<local, upstream>>
        BY <2>3, <3>2 DEF AttachTree
      <4>2. (~reviewing[w]) \in BOOLEAN
        OBVIOUS
      <4> QED
        BY <2>0, <3>2, <4>1, <4>2, NewTreeType DEF TypeOK
    <3>3. CASE ~Has(local[w])
      <4>1. track'[w] \in SUBSET Commits
        BY <2>1, <2>3, <3>3 DEF Refs, Has
      <4>2. upstream' \in [Workers -> {"main", "branch"}]
        BY <2>3, <3>3 DEF AttachTree, TypeOK, Set
      <4> QED
        <5>1. NewTree(w, track'[w], TRUE) /\ local' = Set(local, w, track'[w])
          BY <2>3, <3>3 DEF AttachTree
        <5>2. local' \in [Workers -> Refs]
          BY <4>1, <5>1, RefType DEF TypeOK
        <5> QED
          BY <4>1, <4>2, <5>1, <5>2, NewTreeType
    <3> QED
      BY <3>2, <3>3
  <2>4. /\ tree' \in [Workers -> {Absent} \cup Trees] /\ local' \in [Workers -> Refs]
        /\ upstream' \in [Workers -> {"main", "branch"}]
    BY <1>15, <2>2, <2>3 DEF AddTree, CreateTree
  <2> QED
    BY <1>4, <1>15, <2>1, <2>4 DEF AddTree, TypeOK
<1>16. ASSUME NEW w \in Workers, AddFails(w) PROVE TypeOK'
  BY <1>1, <1>16 DEF AddFails, TypeOK
<1>17. ASSUME NEW w \in Workers, AgentEdits(w) PROVE TypeOK'
  <2>1. made' \in 1..MaxCommits
    BY <1>17 DEF AgentEdits, TypeOK
  <2>2. tree[w].dirty \cup {made + 1} \in SUBSET Commits /\ tree[w].head \in SUBSET Commits
        /\ tree[w].on \in BOOLEAN
    BY <1>17, <2>1, TreeRecord DEF AgentEdits, Works, Commits
  <2>4. tree' \in [Workers -> {Absent} \cup Trees]
    BY <1>17, <2>2, TreeType DEF AgentEdits, TypeOK
  <2> QED
    BY <1>17, <2>1, <2>4 DEF AgentEdits, TypeOK
<1>18. ASSUME NEW w \in Workers, AgentCommits(w) PROVE TypeOK'
  <2>1. Has(tree[w]) /\ tree[w].head \cup tree[w].dirty \in SUBSET Commits
    BY <1>18, TreeRecord DEF AgentCommits, Works
  <2>2. tree' \in [Workers -> {Absent} \cup Trees] /\ local' \in [Workers -> Refs]
    BY <1>18, <2>1, CommitType DEF AgentCommits
  <2> QED
    BY <1>18, <2>2 DEF AgentCommits, TypeOK
<1>19. ASSUME NEW w \in Workers, AgentPushes(w) PROVE TypeOK'
  <2>1. tree[w].head \in Refs
    BY <1>19, TreeRecord DEF AgentPushes, Works, Refs
  <2> QED
    BY <1>19, <2>1 DEF AgentPushes, TypeOK
<1>20. ASSUME NEW w \in Workers, AgentEnds(w) PROVE TypeOK'
  BY <1>20 DEF AgentEnds, TypeOK
<1>21. ASSUME NEW w \in Workers, Cancelled(w) PROVE TypeOK'
  BY <1>1, <1>3, <1>21 DEF Cancelled, TypeOK
<1>22. ASSUME NEW w \in Workers, Push(w) PROVE TypeOK'
  <2>0. /\ run' \in [Workers -> [at : {"none", "look", "reset", "add", "agent", "push"},
                                 mode : Modes, ok : BOOLEAN]]
        /\ known' \in [Workers -> {"no", "fresh", "stale"}]
    BY <1>1, <1>22 DEF Push, Touch, TypeOK
  <2>1. CASE ~Has(tree[w])
    BY <1>22, <2>0, <2>1 DEF Push, TypeOK
  <2>2. CASE Has(tree[w])
    <3> DEFINE head == tree[w].head \cup tree[w].dirty
    <3>1. head \in SUBSET Commits /\ PushRun(w)
      BY <1>22, <2>2, TreeRecord DEF Push
    <3>2. CASE CommitFails(w)
      BY <1>22, <2>0, <3>2 DEF CommitFails, Push, TypeOK
    <3>3. CASE ~CommitFails(w)
      <4>1. Commit(w, head)
        BY <3>1, <3>3 DEF PushRun
      <4>2. tree' \in [Workers -> {Absent} \cup Trees] /\ local' \in [Workers -> Refs]
        BY <2>2, <3>1, <4>1, CommitType
      <4>3. reported' \in SUBSET Commits
        BY <3>1, <3>3 DEF PushRun, TypeOK
      <4> DEFINE RefsTyped == /\ origin \in Refs /\ track \in [Workers -> Refs]
                              /\ upstream \in [Workers -> {"main", "branch"}]
                              /\ faults \in 0..MaxFaults
      <4>4. RefsTyped'
        <5>1. ASSUME UNCHANGED <<origin, track, upstream>>, UNCHANGED faults \/ Fault
              PROVE  RefsTyped'
          BY <5>1 DEF TypeOK
        <5>2. ASSUME Pushed(w, head) PROVE RefsTyped'
          BY <3>1, <5>2 DEF Pushed, TypeOK, Refs
        <5> QED
          BY <3>1, <3>3, <5>1, <5>2 DEF PushRun, PushFails
      <4> QED
        BY <1>22, <2>0, <4>2, <4>3, <4>4 DEF Push, TypeOK
    <3> QED
      BY <3>2, <3>3
  <2> QED
    BY <2>1, <2>2
<1>23. CASE HumanPushes
  <2>1. origin \cup {made + 1} \in SUBSET Commits /\ made' \in 0..MaxCommits
    BY <1>23 DEF HumanPushes, TypeOK, Refs, Has, Commits
  <2> QED
    BY <1>23, <2>1 DEF HumanPushes, TypeOK, Refs
<1>24. ASSUME NEW w \in Workers, OtherFetch(w) PROVE TypeOK'
  BY <1>24 DEF OtherFetch, TypeOK
<1>25. ASSUME NEW w \in Workers, ReviewStarts(w) PROVE TypeOK'
  BY <1>25 DEF ReviewStarts, TypeOK
<1>26. ASSUME NEW w \in Workers, ReviewEnds(w) PROVE TypeOK'
  BY <1>26 DEF ReviewEnds, TypeOK
<1>27. CASE UNCHANGED vars
  BY <1>27 DEF TypeOK
<1> QED
  BY <1>5, <1>6, <1>7, <1>8, <1>9, <1>10, <1>11, <1>12, <1>13, <1>14, <1>15, <1>16, <1>17, <1>18,
     <1>19, <1>20, <1>21, <1>22, <1>23, <1>24, <1>25, <1>26, <1>27
     DEF Next, RunStep, AgentStep, RegistryStep

LEMMA TypeHolds == Spec => []TypeOK
<1>1. TypeOK /\ [Next]_vars => TypeOK'
  BY StepType
<1> QED
  BY <1>1, InitType, PTL DEF Spec

-----------------------------------------------------------------------------
(* What was reported as a success is on GitHub *)

\* A push is skipped when the head adds nothing to what it is compared with: that is
\* sound because a tracking ref is never ahead of the branch on GitHub.
Published ==
    /\ reported \subseteq Contents(origin)
    /\ \A w \in Workers : Contents(track[w]) \subseteq Contents(origin)

LEMMA HeadContents ==
    ASSUME NEW h \in SUBSET Commits
    PROVE  Has(h) /\ Contents(h) = h
BY AbsentType DEF Has, Contents, Commits

LEMMA PublishedStep ==
    ASSUME TypeOK, Published, [Next]_vars
    PROVE  Published'
<1> USE DEF Published, vars, gitVars, registryVars, counters
<1>1. ASSUME UNCHANGED <<origin, track, reported>> PROVE Published'
  BY <1>1 DEF Contents, Has
<1>2. ASSUME NEW w \in Workers, Fetch(w), UNCHANGED <<origin, reported>> PROVE Published'
  <2>1. track' = [track EXCEPT ![w] = origin] \/ track' = track
    BY <1>2 DEF Fetch, Set
  <2>2. \A v \in Workers : track'[v] = origin \/ track'[v] = track[v]
    BY <2>1 DEF TypeOK
  <2> QED
    BY <1>2, <2>2 DEF Contents, Has
<1>3. ASSUME NEW w \in Workers, NEW h \in SUBSET Commits, Contents(origin) \subseteq h,
             origin' = h, track' = track \/ track' = Set(track, w, h),
             reported' \subseteq reported \cup h
      PROVE  Published'
  <2>1. Contents(origin') = h /\ Contents(h) = h
    BY <1>3, HeadContents
  <2>2. \A v \in Workers : track'[v] = track[v] \/ track'[v] = h
    BY <1>3 DEF Set, TypeOK
  <2>3. \A v \in Workers : Contents(track'[v]) \subseteq h
    BY <1>3, <2>1, <2>2
  <2> QED
    BY <1>3, <2>1, <2>3 DEF Contents, Has
<1>4. ASSUME NEW w \in Workers,
             RemoveDone(w) \/ SweepList(w) \/ SweepRelease(w) \/ Finalize(w) \/ Ages(w) \/ Crash(w)
             \/ Restart(w) \/ AddFails(w) \/ AgentEdits(w) \/ AgentCommits(w) \/ AgentEnds(w)
             \/ Cancelled(w) \/ ReviewEnds(w)
      PROVE  Published'
  <2>1. UNCHANGED <<origin, track, reported>>
    BY <1>4 DEF RemoveDone, SweepList, SweepRelease, Finalize, Ages, Crash, Restart, AddFails, AgentEdits,
                AgentCommits, AgentEnds, Cancelled, ReviewEnds
  <2> QED
    BY <1>1, <2>1
<1>5. ASSUME NEW w \in Workers, NEW mode \in Modes, Dispatch(w, mode) PROVE Published'
  BY <1>1, <1>5 DEF Dispatch
<1>6. ASSUME NEW w \in Workers, Look(w) \/ AddTree(w) PROVE Published'
  BY <1>2, <1>6 DEF Look, AddTree
<1>7. ASSUME NEW w \in Workers, Reset(w) PROVE Published'
  <2>1. CASE Has(tree[w])
    BY <1>2, <1>7, <2>1 DEF Reset
  <2>2. CASE ~Has(tree[w])
    BY <1>1, <1>7, <2>2 DEF Reset
  <2> QED
    BY <2>1, <2>2
<1>8. ASSUME NEW w \in Workers, AgentPushes(w) PROVE Published'
  <2>1. tree[w].head \in SUBSET Commits
    BY <1>8, TreeRecord DEF AgentPushes, Works
  <2> QED
    BY <1>3, <1>8, <2>1 DEF AgentPushes, FastForward
<1>9. ASSUME NEW w \in Workers, Push(w) PROVE Published'
  <2>1. CASE ~Has(tree[w])
    BY <1>1, <1>9, <2>1 DEF Push
  <2>2. CASE Has(tree[w])
    <3> DEFINE head == tree[w].head \cup tree[w].dirty
    <3>1. head \in SUBSET Commits /\ PushRun(w)
      BY <1>9, <2>2, TreeRecord DEF Push
    <3>2. CASE UNCHANGED <<origin, track, reported>>
      BY <1>1, <3>2
    <3>3. ASSUME reported' \subseteq reported \cup head, head \subseteq Base(w),
                 UNCHANGED <<origin, track>>
          PROVE  Published'
      <4>1. head \subseteq Contents(origin)
        BY <3>3 DEF Base
      <4> QED
        BY <3>3, <4>1 DEF Contents, Has
    <3>4. ASSUME reported' \subseteq reported \cup head, Pushed(w, head) PROVE Published'
      BY <1>3, <3>1, <3>4 DEF Pushed, FastForward
    <3> QED
      BY <3>1, <3>2, <3>3, <3>4 DEF PushRun, CommitFails, PushFails, gitVars
  <2> QED
    BY <2>1, <2>2
<1>10. CASE HumanPushes
  <2>1. /\ Contents(origin) = origin /\ origin' = origin \cup {made + 1}
        /\ UNCHANGED <<track, reported>>
    BY <1>10 DEF HumanPushes, Contents
  <2>2. origin' \in SUBSET Commits
    BY <1>10, StepType DEF HumanPushes, TypeOK, Refs, Has, Commits
  <2>3. Contents(origin') = origin'
    BY <2>2, HeadContents
  <2> QED
    BY <2>1, <2>3 DEF Contents, Has
<1>11. ASSUME NEW w \in Workers, OtherFetch(w) \/ ReviewStarts(w) PROVE Published'
  <2>1. track' = [track EXCEPT ![w] = origin] /\ UNCHANGED <<origin, reported>>
    BY <1>11 DEF OtherFetch, ReviewStarts, Set
  <2>2. \A v \in Workers : track'[v] = origin \/ track'[v] = track[v]
    BY <2>1 DEF TypeOK
  <2> QED
    BY <2>1, <2>2 DEF Contents, Has
<1> QED
  BY <1>1, <1>4, <1>5, <1>6, <1>7, <1>8, <1>9, <1>10, <1>11
     DEF Next, RunStep, AgentStep, RegistryStep

\* However many workers hold the branch, whoever else pushes to it, and whichever git
\* commands fail: the commits of a run reported as a success are on GitHub.
THEOREM SuccessPublished == Spec => []SuccessIsPublished
<1>1. Init => Published
  BY DEF Init, Published, Contents, Has
<1>2. TypeOK /\ Published /\ [Next]_vars => Published'
  BY PublishedStep
<1>3. Published => SuccessIsPublished
  BY DEF Published, SuccessIsPublished
<1> QED
  BY <1>1, <1>2, <1>3, TypeHolds, PTL DEF Spec

-----------------------------------------------------------------------------
(* No worktree is forgotten *)

Kept(w) == known[w] # "no" \/ releasing[w] \/ left[w] \/ At(w, "reset")

LEMMA AccountedStep ==
    ASSUME TypeOK, Accounted, [Next]_vars
    PROVE  Accounted'
<1>0. TypeOK'
  BY StepType
<1> SUFFICES ASSUME NEW v \in Workers, alive'[v], Has(tree[v])' PROVE Kept(v)'
  BY DEF Accounted, Kept
<1>1. alive[v] /\ Has(tree[v]) => Kept(v)
  BY DEF Accounted, Kept
<1> USE <1>0 DEF vars, gitVars, registryVars, counters, Set, At, Has, RunEnds, Goes
\* A step of another worker does not touch this one's.
<1>2. ASSUME NEW w \in Workers, Release(w), w = v
      PROVE  known[v] # "no" => releasing'[v]
  BY <1>2 DEF Release, TypeOK
<1>3. ASSUME NEW w \in Workers, Starts(w)
      PROVE  /\ known'[w] = "fresh"
             /\ v # w => /\ known'[v] = known[v] /\ left'[v] = left[v] /\ run'[v] = run[v]
  <2>1. known' = [known EXCEPT ![w] = "fresh"] /\ left' = [left EXCEPT ![w] = FALSE]
        /\ run' = [run EXCEPT ![w].at = "agent"]
    BY <1>3 DEF Starts
  <2>2. /\ known'[w] = "fresh"
        /\ v # w => known'[v] = known[v]
    BY <2>1 DEF TypeOK
  <2>4. v # w => left'[v] = left[v]
    <3>1. left \in [Workers -> BOOLEAN]
      BY DEF TypeOK
    <3> QED
      BY <2>1, <3>1, Zenon
  <2>3. v # w => run'[v] = run[v]
    BY <2>1 DEF TypeOK
  <2> QED
    BY <2>2, <2>3, <2>4, Zenon
<1>4. ASSUME NEW w \in Workers, RemoveDone(w) PROVE Kept(v)'
  BY <1>1, <1>4 DEF RemoveDone, Kept, TypeOK
<1>5. ASSUME NEW w \in Workers, SweepList(w) \/ OtherFetch(w) \/ ReviewStarts(w) \/ ReviewEnds(w)
      PROVE  Kept(v)'
  BY <1>1, <1>5 DEF SweepList, OtherFetch, ReviewStarts, ReviewEnds, Kept
<1>6. ASSUME NEW w \in Workers, SweepRelease(w) \/ Finalize(w) PROVE Kept(v)'
  BY <1>1, <1>6 DEF SweepRelease, Finalize, Release, Kept, TypeOK
<1>7. ASSUME NEW w \in Workers, Ages(w) PROVE Kept(v)'
  BY <1>1, <1>7 DEF Ages, Kept, TypeOK
<1>8. ASSUME NEW w \in Workers, Crash(w) PROVE Kept(v)'
  BY <1>1, <1>8 DEF Crash, Kept, TypeOK
<1>9. ASSUME NEW w \in Workers, Restart(w) PROVE Kept(v)'
  BY <1>1, <1>9 DEF Restart, Kept, TypeOK
<1>10. ASSUME NEW w \in Workers, NEW mode \in Modes, Dispatch(w, mode) PROVE Kept(v)'
  BY <1>1, <1>10 DEF Dispatch, Kept, TypeOK
<1>11. ASSUME NEW w \in Workers, Look(w) PROVE Kept(v)'
  <2>1. tree' = tree /\ alive' = alive /\ releasing' = releasing
    BY <1>11 DEF Look
  <2>2. CASE ~Has(tree[w])
    <3>1. Goes(w, "add") /\ UNCHANGED <<known, left>>
      BY <1>11, <2>2 DEF Look
    <3> QED
      BY <1>1, <2>1, <2>2, <3>1 DEF Kept, TypeOK
  <2>3. CASE Has(tree[w]) /\ run[w].mode = "fresh"
    <3>1. Starts(w)
      BY <1>11, <2>3 DEF Look
    <3> QED
      BY <1>1, <1>3, <2>1, <3>1 DEF Kept
  <2>4. CASE Has(tree[w]) /\ run[w].mode # "fresh"
    <3>1. Goes(w, "reset") /\ UNCHANGED <<known, left>>
      BY <1>11, <2>4 DEF Look
    <3> QED
      BY <1>1, <2>1, <3>1 DEF Kept, TypeOK
  <2> QED
    BY <2>2, <2>3, <2>4
<1>12. ASSUME NEW w \in Workers, Reset(w) PROVE Kept(v)'
  <2>1. alive' = alive /\ releasing' = releasing
    BY <1>12 DEF Reset
  <2>2. CASE ~Has(tree[w])
    <3>1. RunEnds(w) /\ Touch(w) /\ tree' = tree /\ left' = left
      BY <1>12, <2>2 DEF Reset
    <3> QED
      BY <1>1, <2>1, <2>2, <3>1 DEF Touch, Kept, TypeOK
  <2>3. CASE Has(tree[w])
    <3>1. Starts(w) /\ (v # w => tree'[v] = tree[v])
      BY <1>12, <2>3 DEF Reset, TypeOK
    <3> QED
      BY <1>1, <1>3, <2>1, <3>1 DEF Kept
  <2> QED
    BY <2>2, <2>3
<1>13. ASSUME NEW w \in Workers, AddTree(w) PROVE Kept(v)'
  <2>1. Starts(w) /\ alive' = alive /\ releasing' = releasing
    BY <1>13 DEF AddTree
  <2>2. v # w => tree'[v] = tree[v]
    <3>1. ASSUME NEW h, NEW on, NewTree(w, h, on), v # w PROVE tree'[v] = tree[v]
      BY <3>1 DEF NewTree, TypeOK
    <3>2. CreateTree(w) \/ AttachTree(w)
      BY <1>13 DEF AddTree
    <3>3. \E h, on : NewTree(w, h, on)
      <4>1. CASE Has(local[w])
        BY <3>2, <4>1 DEF CreateTree, AttachTree
      <4>2. CASE ~Has(local[w])
        BY <3>2, <4>2 DEF CreateTree, AttachTree
      <4> QED
        BY <4>1, <4>2
    <3> QED
      BY <3>1, <3>3
  <2> QED
    BY <1>1, <1>3, <2>1, <2>2 DEF Kept
<1>14. ASSUME NEW w \in Workers, AddFails(w) PROVE Kept(v)'
  BY <1>1, <1>14 DEF AddFails, Kept, TypeOK
<1>15. ASSUME NEW w \in Workers, AgentEdits(w) \/ AgentCommits(w) PROVE Kept(v)'
  <2>1. Has(tree[w]) /\ UNCHANGED <<alive, known, releasing, left, run>> /\ (v # w => tree'[v] = tree[v])
    BY <1>15 DEF AgentEdits, AgentCommits, Works, Commit, TypeOK
  <2> QED
    BY <1>1, <2>1 DEF Kept
<1>16. ASSUME NEW w \in Workers, AgentPushes(w) PROVE Kept(v)'
  BY <1>1, <1>16 DEF AgentPushes, Kept
<1>17. ASSUME NEW w \in Workers, AgentEnds(w) PROVE Kept(v)'
  BY <1>1, <1>17 DEF AgentEnds, Kept, TypeOK
<1>18. ASSUME NEW w \in Workers, Cancelled(w) PROVE Kept(v)'
  BY <1>1, <1>18 DEF Cancelled, Release, Kept, TypeOK
<1>19. ASSUME NEW w \in Workers, Push(w) PROVE Kept(v)'
  <2>1. /\ run[w].at = "push" /\ UNCHANGED <<alive, releasing, left>>
        /\ run' = [run EXCEPT ![w] = NoRun]
        /\ known'[v] = "no" <=> known[v] = "no"
    BY <1>19 DEF Push, Touch, TypeOK
  <2>2. Has(tree[v])' => Has(tree[v])
    BY <1>19 DEF Push, PushRun, CommitFails, Commit, TypeOK
  <2> QED
    BY <1>1, <2>1, <2>2 DEF Kept, TypeOK
<1>20. CASE HumanPushes
  BY <1>1, <1>20 DEF HumanPushes, Kept
<1>21. CASE UNCHANGED vars
  BY <1>1, <1>21 DEF Kept
<1> QED
  BY <1>4, <1>5, <1>6, <1>7, <1>8, <1>9, <1>10, <1>11, <1>12, <1>13, <1>14, <1>15, <1>16, <1>17,
     <1>18, <1>19, <1>20, <1>21 DEF Next, RunStep, AgentStep, RegistryStep

\* For any number of workers, runs and faults: a worktree on the disk of a worker that
\* runs is known to its registry, on its way out, about to be used, or one git did not
\* remove.
THEOREM NothingForgotten == Spec => []Accounted
<1>1. Init => Accounted
  BY DEF Init, Accounted, Has
<1>2. TypeOK /\ Accounted /\ [Next]_vars => Accounted'
  BY AccountedStep
<1> QED
  BY <1>1, <1>2, TypeHolds, PTL DEF Spec

-----------------------------------------------------------------------------
(* One worktree of a clone is on the branch *)

OnBranch(w) ==
    /\ Has(tree[w]) /\ tree[w].on => tree[w].head = local[w] /\ ~reviewing[w]
    /\ reviewing[w] => Has(local[w])
DownIsIdle(w) ==
    ~alive[w] => run[w] = NoRun /\ known[w] = "no" /\ ~swept[w] /\ ~releasing[w]

LEMMA OnBranchStep ==
    ASSUME TypeOK, NEW v \in Workers, OnBranch(v), [Next]_vars
    PROVE  OnBranch(v)'
<1>0. TypeOK'
  BY StepType
<1> USE <1>0 DEF vars, gitVars, registryVars, counters, Set
<1>1. ASSUME UNCHANGED <<tree, local, reviewing>> PROVE OnBranch(v)'
  BY <1>1 DEF OnBranch, Has
<1>2. ASSUME NEW w \in Workers,
             tree' = tree \/ tree' = [tree EXCEPT ![w] = Absent], UNCHANGED <<local, reviewing>>
      PROVE  OnBranch(v)'
  BY <1>2 DEF OnBranch, Has, TypeOK
<1>3. ASSUME NEW w \in Workers, NEW h \in SUBSET Commits, Has(tree[w]), Commit(w, h),
             UNCHANGED reviewing
      PROVE  OnBranch(v)'
  <2>1. Has(h)
    BY HeadContents
  <2>2. CASE v = w
    <3>1. tree'[v] = Tree(h, tree[v].on, {})
      BY <1>3, <2>2 DEF Commit, TypeOK
    <3>2. tree'[v].on = tree[v].on /\ tree'[v].head = h
      BY <3>1 DEF Tree
    <3>3. local'[v] = IF tree[v].on THEN h ELSE local[v]
      BY <1>3, <2>2 DEF Commit, TypeOK
    <3> QED
      BY <1>3, <2>1, <2>2, <3>2, <3>3 DEF OnBranch, Has
  <2>3. CASE v # w
    <3>1. tree'[v] = tree[v] /\ local'[v] = local[v]
      BY <1>3, <2>3 DEF Commit, TypeOK
    <3> QED
      BY <1>3, <3>1 DEF OnBranch, Has
  <2> QED
    BY <2>2, <2>3
<1>4. ASSUME NEW w \in Workers, NEW h \in SUBSET Commits, NEW on \in BOOLEAN, NewTree(w, h, on),
             UNCHANGED reviewing,
             \/ ~on /\ UNCHANGED local
             \/ on /\ UNCHANGED local /\ h = local[w] /\ ~reviewing[w]
             \/ on /\ ~Has(local[w]) /\ local' = Set(local, w, h)
      PROVE  OnBranch(v)'
  <2>1. Has(h)
    BY HeadContents
  <2>2. CASE v = w
    <3>1. tree'[v] = Tree(h, on, {})
      BY <1>4, <2>2 DEF NewTree, TypeOK
    <3>2. tree'[v].on = on /\ tree'[v].head = h
      BY <3>1 DEF Tree
    <3>3. local'[v] = local[v] \/ local'[v] = h
      BY <1>4, <2>2 DEF TypeOK
    <3>4. on => local'[v] = h /\ ~reviewing[v]
      BY <1>4, <2>2 DEF OnBranch, TypeOK
    <3> QED
      BY <1>4, <2>1, <3>2, <3>3, <3>4 DEF OnBranch, Has
  <2>3. CASE v # w
    <3>1. tree'[v] = tree[v] /\ local'[v] = local[v]
      BY <1>4, <2>3 DEF NewTree, TypeOK
    <3> QED
      BY <1>4, <3>1 DEF OnBranch, Has
  <2> QED
    BY <2>2, <2>3
<1>5. ASSUME NEW w \in Workers,
             SweepList(w) \/ SweepRelease(w) \/ Finalize(w) \/ Ages(w) \/ Crash(w)
             \/ AddFails(w) \/ AgentEnds(w) \/ Cancelled(w) \/ AgentPushes(w) \/ Look(w) \/ OtherFetch(w)
      PROVE  OnBranch(v)'
  <2>1. UNCHANGED <<tree, local, reviewing>>
    BY <1>5 DEF SweepList, SweepRelease, Finalize, Ages, Crash, AddFails, AgentEnds, Cancelled,
                AgentPushes, Look, OtherFetch
  <2> QED
    BY <1>1, <2>1
<1>6. ASSUME NEW w \in Workers, NEW mode \in Modes, Dispatch(w, mode) PROVE OnBranch(v)'
  BY <1>1, <1>6 DEF Dispatch
<1>7. ASSUME NEW w \in Workers, RemoveDone(w) \/ Restart(w) PROVE OnBranch(v)'
  BY <1>2, <1>7 DEF RemoveDone, Restart
<1>8. ASSUME NEW w \in Workers, Reset(w) PROVE OnBranch(v)'
  <2>1. CASE ~Has(tree[w])
    BY <1>1, <1>8, <2>1 DEF Reset
  <2>2. CASE Has(tree[w]) /\ Has(track'[w])
    <3>1. track'[w] \in SUBSET Commits
      BY <2>2 DEF TypeOK, Refs, Has
    <3>2. tree' = Set(tree, w, Tree(track'[w], tree[w].on, {}))
      BY <1>8, <2>2 DEF Reset
    <3>3. tree'[w].head = track'[w]
      BY <3>2 DEF TypeOK, Tree
    <3>4. Commit(w, track'[w]) /\ UNCHANGED reviewing
      BY <1>8, <2>2, <3>2, <3>3 DEF Reset, Commit
    <3> QED
      BY <1>3, <2>2, <3>1, <3>4
  <2>3. CASE Has(tree[w]) /\ ~Has(track'[w])
    <3>1. tree' = tree /\ UNCHANGED reviewing
          /\ local' = (IF tree[w].on THEN [local EXCEPT ![w] = tree[w].head] ELSE local)
      BY <1>8, <2>3 DEF Reset
    <3>2. v # w => local'[v] = local[v]
      BY <3>1 DEF TypeOK
    <3>3. v = w => local'[v] = local[v] \/ (tree[v].on /\ local'[v] = tree[v].head)
      BY <3>1 DEF TypeOK
    <3> QED
      BY <2>3, <3>1, <3>2, <3>3 DEF OnBranch, Has
  <2> QED
    BY <2>1, <2>2, <2>3
<1>9. ASSUME NEW w \in Workers, AddTree(w) PROVE OnBranch(v)'
  <2>1. UNCHANGED reviewing /\ (CreateTree(w) \/ (AttachTree(w) /\ (Has(local[w]) \/ Has(track'[w]))))
    BY <1>9 DEF AddTree
  <2>2. /\ Has(local[w]) => local[w] \in SUBSET Commits
        /\ Has(track'[w]) => track'[w] \in SUBSET Commits
        /\ {} \in SUBSET Commits
    BY DEF TypeOK, Refs, Has
  <2>3. CASE CreateTree(w) /\ Has(local[w])
    BY <1>4, <2>1, <2>2, <2>3 DEF CreateTree
  <2>4. CASE CreateTree(w) /\ ~Has(local[w])
    BY <1>4, <2>1, <2>2, <2>4 DEF CreateTree
  <2>5. CASE AttachTree(w) /\ Has(local[w])
    <3>1. NewTree(w, local[w], ~reviewing[w]) /\ UNCHANGED local
      BY <2>5 DEF AttachTree
    <3>2. (~reviewing[w]) \in BOOLEAN
      OBVIOUS
    <3> QED
      BY <1>4, <2>1, <2>2, <2>5, <3>1, <3>2
  <2>6. CASE AttachTree(w) /\ ~Has(local[w]) /\ Has(track'[w])
    BY <1>4, <2>1, <2>2, <2>6 DEF AttachTree
  <2> QED
    BY <2>1, <2>3, <2>4, <2>5, <2>6
<1>10. ASSUME NEW w \in Workers, AgentEdits(w) PROVE OnBranch(v)'
  <2>1. tree' = Set(tree, w, Tree(tree[w].head, tree[w].on, tree[w].dirty \cup {made + 1}))
        /\ Has(tree[w]) /\ UNCHANGED <<local, reviewing>>
    BY <1>10 DEF AgentEdits, Works
  <2>2. CASE v = w
    <3>1. tree'[v].on = tree[v].on /\ tree'[v].head = tree[v].head
      BY <2>1, <2>2 DEF Tree, TypeOK
    <3> QED
      BY <2>1, <2>2, <3>1 DEF OnBranch, Has
  <2>3. CASE v # w
    <3>1. tree'[v] = tree[v]
      BY <2>1, <2>3 DEF TypeOK
    <3> QED
      BY <2>1, <3>1 DEF OnBranch, Has
  <2> QED
    BY <2>2, <2>3
<1>11. ASSUME NEW w \in Workers, AgentCommits(w) PROVE OnBranch(v)'
  <2>1. tree[w].head \cup tree[w].dirty \in SUBSET Commits
    BY <1>11, TreeRecord DEF AgentCommits, Works
  <2> QED
    BY <1>3, <1>11, <2>1 DEF AgentCommits, Works
<1>12. ASSUME NEW w \in Workers, Push(w) PROVE OnBranch(v)'
  <2>1. CASE ~Has(tree[w])
    BY <1>1, <1>12, <2>1 DEF Push
  <2>2. CASE Has(tree[w])
    <3>1. UNCHANGED <<tree, local, reviewing>> \/ Commit(w, tree[w].head \cup tree[w].dirty)
      BY <1>12, <2>2 DEF Push, PushRun, CommitFails
    <3>2. tree[w].head \cup tree[w].dirty \in SUBSET Commits /\ UNCHANGED reviewing
      BY <1>12, <2>2, TreeRecord DEF Push
    <3> QED
      BY <1>1, <1>3, <2>2, <3>1, <3>2
  <2> QED
    BY <2>1, <2>2
<1>13. ASSUME NEW w \in Workers, ReviewStarts(w) PROVE OnBranch(v)'
  <2>1. Has(origin) /\ ~(Has(tree[w]) /\ tree[w].on) /\ UNCHANGED tree
        /\ reviewing' = [reviewing EXCEPT ![w] = TRUE] /\ local' = [local EXCEPT ![w] = origin]
    BY <1>13 DEF ReviewStarts
  <2>2. v = w => local'[v] = origin
    BY <2>1 DEF TypeOK
  <2>3. v # w => local'[v] = local[v] /\ reviewing'[v] = reviewing[v]
    BY <2>1 DEF TypeOK
  <2> QED
    BY <2>1, <2>2, <2>3 DEF OnBranch, Has
<1>14. ASSUME NEW w \in Workers, ReviewEnds(w) PROVE OnBranch(v)'
  BY <1>14 DEF ReviewEnds, OnBranch, Has, TypeOK
<1>15. CASE HumanPushes \/ UNCHANGED vars
  BY <1>1, <1>15 DEF HumanPushes
<1> QED
  BY <1>5, <1>6, <1>7, <1>8, <1>9, <1>10, <1>11, <1>12, <1>13, <1>14, <1>15
     DEF Next, RunStep, AgentStep, RegistryStep

LEMMA DownStep ==
    ASSUME TypeOK, NEW v \in Workers, DownIsIdle(v), [Next]_vars
    PROVE  DownIsIdle(v)'
<1> USE DEF vars, gitVars, registryVars, counters, Set, At, Goes, RunEnds
\* What the process does needs the process: each of these steps starts from a run, an
\* entry or a removal that a worker that is down does not have.
<1>1. NoRun.at = "none"
  BY DEF NoRun
<1>2. ASSUME NEW w \in Workers,
             RunStep(w) \/ AgentStep(w) \/ RegistryStep(w) \/ Finalize(w) \/ Ages(w)
             \/ (\E mode \in Modes : Dispatch(w, mode))
      PROVE  /\ UNCHANGED alive
             /\ w # v => /\ run'[v] = run[v] /\ known'[v] = known[v] /\ swept'[v] = swept[v]
                         /\ releasing'[v] = releasing[v]
             /\ w = v /\ ~alive[v] => UNCHANGED <<run, known, swept, releasing>>
  <2>1. ASSUME RunStep(w)
        PROVE  /\ UNCHANGED <<alive, swept, releasing>> /\ ~At(w, "none")
               /\ w # v => run'[v] = run[v] /\ known'[v] = known[v]
    <3>1. ASSUME Starts(w), w # v PROVE run'[v] = run[v] /\ known'[v] = known[v]
      BY <3>1 DEF Starts, TypeOK
    <3>2. ASSUME Look(w)
          PROVE  /\ UNCHANGED <<alive, swept, releasing>> /\ ~At(w, "none")
                 /\ w # v => run'[v] = run[v] /\ known'[v] = known[v]
      <4>1. UNCHANGED <<alive, swept, releasing>> /\ ~At(w, "none")
        BY <3>2 DEF Look
      <4>2. CASE ~Has(tree[w])
        <5>1. Goes(w, "add") /\ UNCHANGED known
          BY <3>2, <4>2 DEF Look
        <5> QED
          BY <4>1, <5>1 DEF TypeOK
      <4>3. CASE Has(tree[w]) /\ run[w].mode = "fresh"
        BY <3>1, <3>2, <4>1, <4>3 DEF Look
      <4>4. CASE Has(tree[w]) /\ run[w].mode # "fresh"
        <5>1. Goes(w, "reset") /\ UNCHANGED known
          BY <3>2, <4>4 DEF Look
        <5> QED
          BY <4>1, <5>1 DEF TypeOK
      <4> QED
        BY <4>2, <4>3, <4>4
    <3>3. ASSUME Reset(w)
          PROVE  /\ UNCHANGED <<alive, swept, releasing>> /\ ~At(w, "none")
                 /\ w # v => run'[v] = run[v] /\ known'[v] = known[v]
      <4>1. UNCHANGED <<alive, swept, releasing>> /\ ~At(w, "none")
        BY <3>3 DEF Reset
      <4>2. Starts(w) \/ (RunEnds(w) /\ Touch(w))
        BY <3>3 DEF Reset
      <4>3. ASSUME RunEnds(w), Touch(w), w # v PROVE run'[v] = run[v] /\ known'[v] = known[v]
        BY <4>3 DEF Touch, TypeOK
      <4> QED
        BY <3>1, <4>1, <4>2, <4>3
    <3>4. ASSUME AddTree(w)
          PROVE  /\ UNCHANGED <<alive, swept, releasing>> /\ ~At(w, "none") /\ Starts(w)
      BY <3>4 DEF AddTree
    <3>5. ASSUME AddFails(w) \/ AgentEnds(w) \/ Push(w)
          PROVE  /\ UNCHANGED <<alive, swept, releasing>> /\ ~At(w, "none")
                 /\ w # v => run'[v] = run[v] /\ known'[v] = known[v]
      BY <3>5 DEF AddFails, AgentEnds, Push, Touch, TypeOK
    <3> QED
      BY <2>1, <3>1, <3>2, <3>3, <3>4, <3>5 DEF RunStep
  <2>2. ASSUME AgentStep(w)
        PROVE  /\ UNCHANGED <<alive, swept>> /\ ~At(w, "none")
               /\ w # v => run'[v] = run[v] /\ known'[v] = known[v] /\ releasing'[v] = releasing[v]
    BY <2>2 DEF AgentStep, AgentEdits, AgentCommits, AgentPushes, Cancelled, Works, Release, TypeOK
  <2>3. ASSUME RemoveDone(w)
        PROVE  /\ UNCHANGED <<alive, run, known, swept>> /\ releasing[w]
               /\ w # v => releasing'[v] = releasing[v]
    BY <2>3 DEF RemoveDone, TypeOK
  <2>4. ASSUME SweepList(w)
        PROVE  /\ UNCHANGED <<alive, run, known, releasing>> /\ known[w] # "no"
               /\ w # v => swept'[v] = swept[v]
    BY <2>4 DEF SweepList, TypeOK
  <2>5. ASSUME SweepRelease(w)
        PROVE  /\ UNCHANGED <<alive, run>> /\ swept[w]
               /\ w # v => /\ swept'[v] = swept[v] /\ known'[v] = known[v]
                           /\ releasing'[v] = releasing[v]
    BY <2>5 DEF SweepRelease, Release, TypeOK
  <2>6. ASSUME Finalize(w)
        PROVE  /\ UNCHANGED <<alive, run, swept>> /\ known[w] # "no"
               /\ w # v => known'[v] = known[v] /\ releasing'[v] = releasing[v]
    BY <2>6 DEF Finalize, Release, TypeOK
  <2>7. ASSUME Ages(w)
        PROVE  /\ UNCHANGED <<alive, run, swept, releasing>> /\ (known[w] = "no" => known' = known)
               /\ w # v => known'[v] = known[v]
    BY <2>7 DEF Ages, TypeOK
  <2>8. ASSUME NEW mode \in Modes, Dispatch(w, mode)
        PROVE  /\ UNCHANGED <<alive, known, swept, releasing>> /\ alive[w]
               /\ w # v => run'[v] = run[v]
    BY <2>8 DEF Dispatch, TypeOK
  <2> QED
    BY <1>1, <1>2, <2>1, <2>2, <2>3, <2>4, <2>5, <2>6, <2>7, <2>8 DEF DownIsIdle, RegistryStep
<1>3. ASSUME NEW w \in Workers,
             RunStep(w) \/ AgentStep(w) \/ RegistryStep(w) \/ Finalize(w) \/ Ages(w)
             \/ (\E mode \in Modes : Dispatch(w, mode))
      PROVE  DownIsIdle(v)'
  BY <1>2, <1>3 DEF DownIsIdle
<1>4. ASSUME NEW w \in Workers, Crash(w) PROVE DownIsIdle(v)'
  BY <1>4 DEF Crash, DownIsIdle, TypeOK
<1>5. ASSUME NEW w \in Workers, Restart(w) PROVE DownIsIdle(v)'
  BY <1>5 DEF Restart, DownIsIdle, TypeOK
<1>6. ASSUME NEW w \in Workers, OtherFetch(w) \/ ReviewStarts(w) \/ ReviewEnds(w) PROVE DownIsIdle(v)'
  BY <1>6 DEF OtherFetch, ReviewStarts, ReviewEnds, DownIsIdle
<1>7. CASE HumanPushes \/ UNCHANGED vars
  BY <1>7 DEF HumanPushes, DownIsIdle
<1> QED
  BY <1>3, <1>4, <1>5, <1>6, <1>7 DEF Next

\* In no clone are two worktrees on the task's branch, so no commit of a review or of a
\* follow-up moves the branch under the other; and a worker that is down holds nothing.
THEOREM OneOnBranch == Spec => []Consistent
<1> DEFINE Inv == \A w \in Workers : OnBranch(w) /\ DownIsIdle(w)
<1>1. Init => Inv
  <2> SUFFICES ASSUME Init, NEW w \in Workers PROVE OnBranch(w) /\ DownIsIdle(w)
    OBVIOUS
  <2>1. tree[w] = Absent /\ ~reviewing[w] /\ alive[w]
    BY DEF Init
  <2> QED
    BY <2>1 DEF OnBranch, DownIsIdle, Has
<1>2. TypeOK /\ Inv /\ [Next]_vars => Inv'
  BY OnBranchStep, DownStep
<1>3. Inv => Consistent
  BY DEF OnBranch, DownIsIdle, Consistent
<1> HIDE DEF Inv
<1> QED
  BY <1>1, <1>2, <1>3, TypeHolds, PTL DEF Spec

-----------------------------------------------------------------------------
(* The runners *)

\* A process is what the runner starts, and its session what it was told and resumed.
LEMMA ProcessTyped ==
    ASSUME RunnerTypeOK, NEW from \in SUBSET Numbers
    PROVE  Process(from) \in Agents /\ NoProcess \in Agents /\ ~NoProcess.alive /\ NoProcess.exit = "fail"
  <1>1. Process(from) \in Agents
    BY DEF RunnerTypeOK, Process, Agents
  <1>2. NoSession \in SUBSET Numbers
    BY DEF NoSession
  <1>3. Process(NoSession) \in Agents
    BY <1>2 DEF RunnerTypeOK, Process, Agents
  <1> QED BY <1>1, <1>3 DEF NoProcess, Agents

\* What is left of a process that ended, tells its session or is signalled.
LEMMA AgentParts ==
    ASSUME agent \in Agents
    PROVE  /\ \A code \in {"ok", "fail", "signal"} :
                 /\ [agent EXCEPT !.alive = FALSE, !.exit = code] \in Agents
                 /\ [agent EXCEPT !.alive = FALSE, !.exit = code].alive = FALSE
                 /\ [agent EXCEPT !.alive = FALSE, !.exit = code].exit = code
           /\ /\ [agent EXCEPT !.told = TRUE] \in Agents
              /\ [agent EXCEPT !.told = TRUE].alive = agent.alive
              /\ [agent EXCEPT !.told = TRUE].exit = agent.exit
           /\ /\ [agent EXCEPT !.signalled = TRUE] \in Agents
              /\ [agent EXCEPT !.signalled = TRUE].alive = agent.alive
              /\ [agent EXCEPT !.signalled = TRUE].exit = agent.exit
  BY DEF Agents

LEMMA HeldParts ==
    ASSUME held \in Results
    PROVE  /\ \A stop \in StopReasons \cup {"other"} : [held EXCEPT !.stop = stop] \in Results
           /\ \A session \in SUBSET Numbers : [held EXCEPT !.session = session] \in Results
           /\ \A kind \in {"plain", "marked", "reasoning"} : [held EXCEPT !.text = kind] \in Results
  BY DEF Results

LEMMA ResultsTyped ==
    ASSUME RunnerTypeOK
    PROVE  /\ Asked \in SUBSET Numbers /\ Session \in SUBSET Numbers /\ Captured \in SUBSET Numbers
           /\ \A from \in SUBSET Numbers : Nothing(from) \in Results
           /\ OutcomeOfRun \in Results /\ Quiet \in Streams
  <1>1. NoSession \in SUBSET Numbers
    BY DEF NoSession
  <1>2. Asked \in SUBSET Numbers /\ Session \in SUBSET Numbers /\ Captured \in SUBSET Numbers
    BY <1>1 DEF RunnerTypeOK, Asked, Session, Captured, Agents, Results
  <1>3. \A from \in SUBSET Numbers : Nothing(from) \in Results
    BY <1>1 DEF Nothing, Results, StopReasons
  <1>4. ClaudeOutcome \in Results /\ CodexOutcome \in Results /\ PiOutcome \in Results
    BY DEF RunnerTypeOK, ClaudeOutcome, CodexOutcome, PiOutcome, Results, Streams, StopReasons
  <1>5. Quiet \in Streams
    BY DEF Quiet, Streams
  <1>6. tool \in {"claude", "codex", "pi"}
    BY RunnerConstants DEF RunnerTypeOK
  <1> QED BY <1>2, <1>3, <1>4, <1>5, <1>6 DEF OutcomeOfRun

LEMMA RunnerTypeInductive ==
    ASSUME RunnerTypeOK, [RunnerNext]_runnerVars
    PROVE  RunnerTypeOK'
  <1> USE RunnerConstants DEF fixed, loop, listener
  <1>1. CASE Launch
    BY <1>1, ResultsTyped DEF Launch, RunnerTypeOK
  <1>2. CASE Spawn
    <2>1. Process(Asked) \in Agents /\ Process(Asked).alive /\ Process(Asked).exit = "none"
      BY ResultsTyped, ProcessTyped DEF Process
    <2> QED BY <1>2, <2>1, ResultsTyped DEF Spawn, RunnerTypeOK
  <1>3. CASE NotStarted
    <2>1. agent' \in Agents /\ (agent'.alive <=> agent'.exit = "none")
      BY <1>3, ResultsTyped, ProcessTyped DEF NotStarted, RunnerTypeOK
    <2>2. held' \in Results
      BY <1>3 DEF NotStarted, RunnerTypeOK, Results, StopReasons
    <2> QED BY <1>3, <2>1, <2>2 DEF NotStarted, RunnerTypeOK
  <1>4. CASE TellsSession
    <2>1. agent' \in Agents /\ (agent'.alive <=> agent'.exit = "none")
      BY <1>4, AgentParts DEF TellsSession, RunnerTypeOK
    <2>2. held' \in Results
      BY <1>4, ResultsTyped, HeldParts DEF TellsSession, RunnerTypeOK
    <2> QED BY <1>4, <2>1, <2>2 DEF TellsSession, RunnerTypeOK
  <1>5. ASSUME NEW kind \in {"plain", "marked", "reasoning"}, Says(kind) PROVE RunnerTypeOK'
    BY <1>5 DEF Says, Reads, RunnerTypeOK, Streams, Results
  <1>6. ASSUME NEW subtype \in {"success", "max_turns", "error_during_execution", "other"}, EndsTurn(subtype)
        PROVE  RunnerTypeOK'
    <2>1. stream' \in Streams
      <3>1. stream \in Streams /\ stream' = [stream EXCEPT !.ended = TRUE, !.erred = @ \/ subtype # "success"]
        BY <1>6 DEF EndsTurn, Reads, RunnerTypeOK
      <3> QED BY <3>1 DEF Streams
    <2>2. held' \in Results
      BY <1>6, HeldParts DEF EndsTurn, Reads, RunnerTypeOK, StopReasons
    <2> QED BY <1>6, <2>1, <2>2 DEF EndsTurn, Reads, Then, RunnerTypeOK
  <1>7. CASE Errs
    BY <1>7 DEF Errs, Reads, Then, RunnerTypeOK, Streams, Results, StopReasons
  <1>8. ASSUME NEW code \in {"ok", "fail", "signal"}, Exits(code) PROVE RunnerTypeOK'
    <2>1. agent' \in Agents /\ (agent'.alive <=> agent'.exit = "none")
      BY <1>8, AgentParts DEF Exits, RunnerTypeOK
    <2> QED BY <1>8, <2>1 DEF Exits, RunnerTypeOK
  <1>9. CASE AdriftExits \/ StopsReading \/ Unmapped
    BY <1>9 DEF AdriftExits, StopsReading, Unmapped, RunnerTypeOK
  <1>10. CASE CloseTimesOut
    BY <1>10 DEF CloseTimesOut, RunnerTypeOK, Agents
  <1>11. CASE Finish
    BY <1>11, ResultsTyped DEF Finish, RunnerTypeOK
  <1>12. CASE Breaks
    <2>1. agent' \in Agents /\ (agent'.alive <=> agent'.exit = "none")
      BY <1>12, AgentParts DEF Breaks, RunnerTypeOK
    <2>2. held' \in Results
      BY <1>12, HeldParts DEF Breaks, RunnerTypeOK, StopReasons
    <2>3. adrift' \in 0..MaxBreaks /\ adrift' <= breaks' /\ breaks' \in 0..MaxBreaks
      BY <1>12 DEF Breaks, RunnerTypeOK
    <2> QED BY <1>12, <2>1, <2>2, <2>3 DEF Breaks, RunnerTypeOK
  <1>13. CASE Retry
    BY <1>13, ResultsTyped DEF Retry, RunnerTypeOK, NoSession
  <1>14. CASE ApplyResult
    BY <1>14, ResultsTyped DEF ApplyResult, RunnerTypeOK
  <1>15. CASE EndCancelled \/ EndReported \/ EndCrashed
    BY <1>15 DEF EndCancelled, EndReported, EndCrashed, LetsGo, RunnerTypeOK
  <1>16. CASE FollowRedirect
    BY <1>16 DEF FollowRedirect, RunnerTypeOK
  <1>17. CASE Cancel \/ Redirect
    <2>1. agent' \in Agents /\ (agent'.alive <=> agent'.exit = "none")
      BY <1>17, AgentParts DEF Cancel, Redirect, Signalled, RunnerTypeOK
    <2>2. \E n \in Numbers : putting' = <<n>>
      BY <1>17 DEF Cancel, Redirect, RunnerTypeOK, Numbers
    <2>3. signals' \in 0..MaxSignals
      BY <1>17 DEF Cancel, Redirect, RunnerTypeOK
    <2>5. cancelled' \in BOOLEAN
      BY <1>17 DEF Cancel, Redirect, RunnerTypeOK
    <2>4. UNCHANGED <<fixed, loop, adrift, stage, attempt, handle, stream, held, told, outcome, breaks>>
      BY <1>17 DEF Cancel, Redirect
    <2> QED BY <2>1, <2>2, <2>3, <2>4, <2>5 DEF RunnerTypeOK
  <1>18. CASE Put
    BY <1>18 DEF Put, RunnerTypeOK
  <1>19. CASE UNCHANGED runnerVars
    BY <1>19 DEF runnerVars, RunnerTypeOK
  <1> QED BY <1>1, <1>2, <1>3, <1>4, <1>5, <1>6, <1>7, <1>8, <1>9, <1>10, <1>11, <1>12, <1>13, <1>14, <1>15, <1>16,
             <1>17, <1>18, <1>19 DEF RunnerNext, RunnerSteps

LEMMA RunnerTypeInit == RunnerInit => RunnerTypeOK
  <1> SUFFICES ASSUME RunnerInit PROVE RunnerTypeOK
    OBVIOUS
  <1>1. agent \in Agents /\ (agent.alive <=> agent.exit = "none")
    <2>1. Process(NoSession) \in Agents
      <3>1. instr \in Numbers
        BY RunnerConstants DEF RunnerInit, Numbers
      <3>2. cancelled \in BOOLEAN
        BY DEF RunnerInit
      <3>3. NoSession \in SUBSET Numbers
        BY DEF NoSession
      <3> QED BY <3>1, <3>2, <3>3 DEF Process, Agents
    <2>2. NoProcess \in Agents /\ NoProcess.alive = FALSE /\ NoProcess.exit = "fail"
      BY <2>1 DEF NoProcess, Agents
    <2> QED BY <2>2 DEF RunnerInit
  <1>2. held \in Results /\ stream \in Streams
    BY DEF RunnerInit, Nothing, NoSession, Quiet, Results, Streams, StopReasons
  <1>3. instr \in Numbers /\ resume \in SUBSET Numbers
    BY RunnerConstants DEF RunnerInit, NoSession, Earlier, Numbers
  <1>4. told \in Seq(Numbers)
    BY DEF RunnerInit
  <1>5. cancelled \in BOOLEAN /\ handle \in BOOLEAN /\ sessionKept \in BOOLEAN
    BY DEF RunnerInit
  <1>6. /\ tool \in Tools /\ stage = "ready" /\ attempt \in {1, 2} /\ adrift \in 0..MaxBreaks /\ adrift <= breaks
        /\ putting = NothingToPut /\ outcome = "none" /\ signals \in 0..MaxSignals /\ breaks \in 0..MaxBreaks
    BY RunnerConstants DEF RunnerInit
  <1> QED BY <1>1, <1>2, <1>3, <1>4, <1>5, <1>6 DEF RunnerTypeOK

\* What a signal, and an end, leave of the process.
LEMMA AgentStays ==
    ASSUME RunnerTypeOK
    PROVE  /\ Signalled.instr = agent.instr /\ Signalled.from = agent.from /\ Signalled.told = agent.told
           /\ Signalled.alive = agent.alive /\ Signalled.exit = agent.exit
           /\ \A code : /\ [agent EXCEPT !.alive = FALSE, !.exit = code].instr = agent.instr
                        /\ [agent EXCEPT !.alive = FALSE, !.exit = code].from = agent.from
                        /\ [agent EXCEPT !.alive = FALSE, !.exit = code].told = agent.told
           /\ [agent EXCEPT !.told = TRUE].instr = agent.instr /\ [agent EXCEPT !.told = TRUE].from = agent.from
  <1>1. agent \in Agents
    BY DEF RunnerTypeOK
  <1> QED BY <1>1 DEF Agents, Signalled

-----------------------------------------------------------------------------
(* One agent at a time *)

LEMMA OneAgentStep ==
    ASSUME RunnerTypeOK, OneAgentPerTree, [RunnerNext]_runnerVars
    PROVE  OneAgentPerTree'
  <1> USE DEF OneAgentPerTree, fixed, loop, listener
  <1>0. agent \in Agents /\ tool \in {"claude", "codex", "pi"} /\ adrift \in Nat
    BY RunnerConstants DEF RunnerTypeOK
  <1>1. CASE Launch \/ Retry \/ Unmapped \/ ApplyResult \/ FollowRedirect \/ Put \/ StopsReading \/ UNCHANGED runnerVars
    BY <1>1 DEF Launch, Retry, Unmapped, ApplyResult, FollowRedirect, Put, StopsReading, runnerVars
  <1>2. CASE Spawn \/ NotStarted
    <2>1. NoProcess.alive = FALSE
      BY ProcessTyped DEF NoSession
    <2> QED BY <1>2, <2>1 DEF Spawn, NotStarted
  <1>3. CASE CloseTimesOut \/ \E code \in {"ok", "fail", "signal"} : Exits(code)
    BY <1>0, <1>3, AgentParts DEF CloseTimesOut, Exits
  <1>4. CASE EndCancelled \/ EndReported \/ EndCrashed \/ Finish \/ AdriftExits
    BY <1>0, <1>4 DEF EndCancelled, EndReported, EndCrashed, LetsGo, Finish, AdriftExits
  <1>5. CASE Breaks
    BY <1>0, <1>5, AgentParts DEF Breaks, Reaps
  <1>6. CASE TellsSession
    BY <1>0, <1>6, AgentParts DEF TellsSession
  <1>7. ASSUME NEW does, NEW holds, NEW next \in {stage, Then}, Reads(does, holds, next) PROVE OneAgentPerTree'
    BY <1>7 DEF Reads, Proceeds, Then
  <1>8. CASE \/ \E kind \in {"plain", "marked", "reasoning"} : Says(kind)
             \/ \E subtype \in {"success", "max_turns", "error_during_execution", "other"} : EndsTurn(subtype)
             \/ Errs
    BY <1>7, <1>8 DEF Says, EndsTurn, Errs
  <1>9. CASE Cancel \/ Redirect
    BY <1>9, AgentStays DEF Cancel, Redirect
  <1> QED BY <1>1, <1>2, <1>3, <1>4, <1>5, <1>6, <1>8, <1>9 DEF RunnerNext, RunnerSteps

\* Two agents never edit one worktree, and none goes on after its task has left the
\* slot, with any number of signals and broken reads; only codex's runner may leave
\* a process that its reader gave up.
THEOREM OneAgent == RunnerSpec => []OneAgentPerTree
  <1>1. RunnerInit => OneAgentPerTree
    <2> SUFFICES ASSUME RunnerInit PROVE OneAgentPerTree
      OBVIOUS
    <2>1. NoProcess.alive = FALSE
      BY RunnerTypeInit, ProcessTyped DEF NoSession
    <2> QED BY <2>1 DEF RunnerInit, OneAgentPerTree
  <1>2. RunnerTypeOK /\ OneAgentPerTree /\ [RunnerNext]_runnerVars => RunnerTypeOK' /\ OneAgentPerTree'
    BY RunnerTypeInductive, OneAgentStep
  <1> QED BY <1>1, <1>2, RunnerTypeInit, PTL DEF RunnerSpec

-----------------------------------------------------------------------------
(* What a success stands for *)

\* The result of a run whose last process did what SuccessIsReal says.
Success ==
    /\ agent.exit = "ok" /\ agent.instr = instr
    /\ tool # "codex" => stream.ended /\ ~stream.erred /\ held.stop = "success"
    /\ \/ held.text = stream.said
       \/ stream.said = "nothing" \/ (tool = "codex" /\ ~stream.ended)
       \/ tool = "claude" /\ stream.said = "marked"

\* A start begins with nothing read; while it is read it is no success yet, is
\* about the current instructions, and what is held is what the stream did.
Faithful ==
    /\ tool = "claude" => held.text = stream.said \/ stream.said = "marked"
    /\ tool = "pi" => held.text = stream.said
    /\ tool = "claude" /\ held.stop = "success" => stream.ended /\ ~stream.erred
    /\ tool = "claude" /\ stream.erred => stream.ended

Following ==
    /\ stage = "starting" => held = Nothing(Asked)
    /\ stage \in {"reading", "closing"} => ~held.ok /\ agent.instr = instr /\ Faithful
    /\ held.ok /\ (stage \in {"ended", "raised", "after"} \/ outcome = "reported") => Success
    /\ outcome # "none" <=> stage = "released"

\* The steps that read the stream.
LEMMA ReadsFollow ==
    ASSUME RunnerTypeOK, Following, Proceeds,
           \/ \E kind \in {"plain", "marked", "reasoning"} : Says(kind)
           \/ \E subtype \in {"success", "max_turns", "error_during_execution", "other"} : EndsTurn(subtype)
           \/ Errs
    PROVE  Following'
  <1>0. stream \in Streams /\ held \in Results /\ ~held.ok /\ agent.instr = instr /\ Faithful
        /\ tool \in {"claude", "codex", "pi"} /\ outcome = "none" /\ stage = "reading"
    BY RunnerConstants DEF RunnerTypeOK, Following, Proceeds
  <1>1. UNCHANGED <<agent, instr, tool, outcome>> /\ stage' \in {"reading", "closing"}
    BY <1>0 DEF Says, EndsTurn, Errs, Reads, Then, fixed, loop
  <1>2. ~held'.ok /\ Faithful'
    <2>1. ASSUME NEW kind \in {"plain", "marked", "reasoning"}, Says(kind) PROVE ~held'.ok /\ Faithful'
      <3>1. stream' = IF kind = "reasoning" THEN stream ELSE [stream EXCEPT !.said = kind]
        BY <2>1 DEF Says, Reads
      <3>2. held' = IF Counts(kind) THEN [held EXCEPT !.text = kind] ELSE held
        BY <2>1 DEF Says, Reads
      <3>3. /\ stream'.ended = stream.ended /\ stream'.erred = stream.erred
            /\ stream'.said = IF kind = "reasoning" THEN stream.said ELSE kind
        BY <1>0, <3>1 DEF Streams
      <3>4. held'.ok = held.ok /\ held'.stop = held.stop /\ held'.text = IF Counts(kind) THEN kind ELSE held.text
        BY <1>0, <3>2 DEF Results
      <3>5. /\ tool = "claude" => (Counts(kind) <=> kind = "plain")
            /\ tool = "pi" => (Counts(kind) <=> kind \in {"plain", "marked"})
        BY DEF Counts, ClaudeText, PiText
      <3> QED BY <1>0, <1>1, <3>3, <3>4, <3>5 DEF Faithful
    <2>2. ASSUME NEW subtype \in {"success", "max_turns", "error_during_execution", "other"}, EndsTurn(subtype)
          PROVE  ~held'.ok /\ Faithful'
      <3>1. stream' = [stream EXCEPT !.ended = TRUE, !.erred = @ \/ subtype # "success"] /\ ~stream.ended
        BY <2>2 DEF EndsTurn, Reads
      <3>2. held' = IF tool = "pi" THEN held ELSE [held EXCEPT !.stop = subtype]
        BY <2>2 DEF EndsTurn, Reads
      <3>3. stream'.ended /\ stream'.said = stream.said /\ (stream'.erred <=> stream.erred \/ subtype # "success")
        BY <1>0, <3>1 DEF Streams
      <3>4. held'.ok = held.ok /\ held'.text = held.text /\ held'.stop = IF tool = "pi" THEN held.stop ELSE subtype
        BY <1>0, <3>2 DEF Results
      <3> QED BY <1>0, <1>1, <3>1, <3>3, <3>4 DEF Faithful
    <2>3. CASE Errs
      <3>1. stream' = [stream EXCEPT !.erred = TRUE] /\ tool # "claude"
        BY <2>3 DEF Errs, Reads
      <3>2. held' = IF tool = "pi" THEN held ELSE [held EXCEPT !.stop = "error_during_execution"]
        BY <2>3 DEF Errs, Reads
      <3>3. stream'.said = stream.said /\ held'.ok = held.ok /\ held'.text = held.text
        BY <1>0, <3>1, <3>2 DEF Streams, Results
      <3> QED BY <1>0, <1>1, <3>1, <3>3 DEF Faithful
    <2> QED BY <2>1, <2>2, <2>3
  <1> QED BY <1>0, <1>1, <1>2 DEF Following

\* The end of a start: a run is a success only if its process ended well.
LEMMA FinishSucceeds ==
    ASSUME RunnerTypeOK, Following, Finish
    PROVE  held'.ok => Success'
  <1>0. stream \in Streams /\ held \in Results /\ ~held.ok /\ agent.instr = instr /\ Faithful
        /\ tool \in {"claude", "codex", "pi"}
    BY RunnerConstants DEF RunnerTypeOK, Following, Finish
  <1>1. held' = OutcomeOfRun /\ UNCHANGED <<agent, instr, tool, stream>>
    BY DEF Finish, fixed, loop
  <1>2. CASE tool = "claude"
    <2>1. /\ ClaudeOutcome.ok <=> agent.exit = "ok" /\ ClaudeOutcome.stop = "success"
          /\ ClaudeOutcome.stop = IF agent.exit = "signal" THEN "error_during_execution" ELSE held.stop
          /\ ClaudeOutcome.text = held.text
      BY <1>0 DEF ClaudeOutcome, Results
    <2> QED BY <1>0, <1>1, <1>2, <2>1 DEF OutcomeOfRun, Success, Faithful
  <1>3. CASE tool = "codex"
    <2>1. /\ CodexOutcome.ok <=> agent.exit = "ok"
          /\ CodexOutcome.text = IF stream.ended /\ stream.said # "nothing" THEN stream.said ELSE held.text
      BY <1>0 DEF CodexOutcome, Results
    <2> QED BY <1>0, <1>1, <1>3, <2>1 DEF OutcomeOfRun, Success
  <1>4. CASE tool = "pi"
    <2>1. /\ PiOutcome.ok <=> agent.exit = "ok" /\ stream.ended /\ ~stream.erred
          /\ stream.ended /\ ~stream.erred => PiOutcome.stop = "success"
          /\ PiOutcome.text = held.text
      BY <1>0 DEF PiOutcome, Results, Streams
    <2> QED BY <1>0, <1>1, <1>4, <2>1 DEF OutcomeOfRun, Success, Faithful
  <1> QED BY <1>0, <1>2, <1>3, <1>4

LEMMA FollowingStep ==
    ASSUME RunnerTypeOK, OneAgentPerTree, Following, [RunnerNext]_runnerVars
    PROVE  Following'
  <1> USE DEF fixed, loop, listener
  <1>0. /\ agent \in Agents /\ stream \in Streams /\ held \in Results
        /\ agent.alive => stage \in {"reading", "closing"}
        /\ agent.alive <=> agent.exit = "none"
    BY DEF RunnerTypeOK, OneAgentPerTree
  <1>1. CASE Launch
    <2>1. Asked' = resume
      BY <1>1 DEF Launch, Asked
    <2>2. held' = Nothing(Asked)'
      BY <1>1, <2>1 DEF Launch, Nothing
    <2>3. held'.ok = FALSE /\ stage' = "starting" /\ outcome' = outcome /\ stage = "ready"
      BY <1>1 DEF Launch, Nothing
    <2> QED BY <2>2, <2>3 DEF Following
  <1>2. CASE Retry
    <2>1. Asked' = NoSession
      BY <1>2 DEF Retry, Asked
    <2>2. held' = Nothing(Asked)'
      BY <1>2, <2>1 DEF Retry, Nothing
    <2>3. held'.ok = FALSE /\ stage' = "starting" /\ outcome' = outcome /\ stage = "ended"
      BY <1>2 DEF Retry, Nothing
    <2> QED BY <2>2, <2>3 DEF Following
  <1>3. CASE Spawn
    <2>1. held = Nothing(Asked) /\ held' = held /\ stream' = Quiet /\ stage' = "reading" /\ outcome' = outcome
          /\ stage = "starting" /\ tool' = tool
      BY <1>3 DEF Spawn, Following
    <2>2. agent'.instr = instr'
      BY <1>3 DEF Spawn, Process
    <2>3. Faithful' /\ held'.ok = FALSE
      BY <2>1 DEF Nothing, Quiet, Faithful
    <2> QED BY <2>1, <2>2, <2>3 DEF Following
  <1>4. CASE NotStarted
    <2>1. held.ok = FALSE /\ stage' = "ended" /\ outcome' = outcome /\ stage = "starting"
      BY <1>4 DEF NotStarted, Following, Nothing
    <2>2. held'.ok = held.ok
      BY <1>0, <1>4 DEF NotStarted, Results
    <2> QED BY <2>1, <2>2 DEF Following
  <1>5. CASE Breaks
    <2>1. held.ok = FALSE /\ stage' \in {"ended", "raised"} /\ outcome' = outcome /\ outcome = "none"
      BY <1>0, <1>5 DEF Breaks, Following, Results
    <2>2. held'.ok = held.ok
      BY <1>0, <1>5 DEF Breaks, Results
    <2> QED BY <2>1, <2>2 DEF Following
  <1>6. CASE TellsSession
    <2>1. held'.ok = held.ok /\ held'.text = held.text /\ held'.stop = held.stop
      BY <1>0, <1>6 DEF TellsSession, Results
    <2>2. UNCHANGED <<stream, tool, instr, stage, outcome>> /\ stage = "reading" /\ agent'.instr = agent.instr
      BY <1>6, AgentStays DEF TellsSession, Proceeds
    <2>3. Following => ~held'.ok /\ Faithful'
      BY <2>1, <2>2 DEF Following, Faithful
    <2> QED BY <2>1, <2>2, <2>3 DEF Following
  <1>7. CASE \/ \E kind \in {"plain", "marked", "reasoning"} : Says(kind)
             \/ \E subtype \in {"success", "max_turns", "error_during_execution", "other"} : EndsTurn(subtype)
             \/ Errs
    BY <1>7, ReadsFollow DEF Says, EndsTurn, Errs, Reads
  <1>8. CASE CloseTimesOut \/ (\E code \in {"ok", "fail", "signal"} : Exits(code)) \/ Cancel \/ Redirect
    <2>1. /\ UNCHANGED <<tool, instr, resume, attempt, stage, stream, held, outcome>> /\ agent'.instr = agent.instr
          /\ ~agent.alive => agent'.exit = agent.exit
      <3>1. CASE CloseTimesOut
        BY <3>1, AgentStays DEF CloseTimesOut
      <3>2. CASE \E code \in {"ok", "fail", "signal"} : Exits(code)
        <4>1. PICK code : Exits(code)
          BY <3>2
        <4> QED BY <4>1, AgentStays DEF Exits
      <3>3. CASE Cancel \/ Redirect
        BY <3>3, AgentStays DEF Cancel, Redirect
      <3> QED BY <1>8, <3>1, <3>2, <3>3
    <2>2. Nothing(Asked)' = Nothing(Asked) /\ (Faithful' <=> Faithful)
      BY <2>1 DEF Nothing, Asked, Faithful
    <2>3. CASE stage \in {"reading", "closing"}
      BY <2>1, <2>2, <2>3 DEF Following
    <2>4. CASE stage \notin {"reading", "closing"}
      <3>1. Success => Success'
        BY <1>0, <2>1, <2>4 DEF Success
      <3> QED BY <2>1, <2>2, <2>4, <3>1 DEF Following
    <2> QED BY <2>3, <2>4
  <1>9. CASE Finish
    BY <1>9, FinishSucceeds DEF Finish, Following
  <1>10. CASE \/ StopsReading \/ Unmapped \/ ApplyResult \/ Put \/ AdriftExits
              \/ EndCancelled \/ EndReported \/ EndCrashed \/ UNCHANGED runnerVars
    <2>1. UNCHANGED <<tool, instr, attempt, agent, stream, held>>
      BY <1>10 DEF StopsReading, Unmapped, ApplyResult, Put, AdriftExits, EndCancelled, EndReported, EndCrashed, LetsGo,
                   runnerVars
    <2>2. (Success' <=> Success) /\ (Faithful' <=> Faithful)
      BY <2>1 DEF Success, Faithful
    <2>3. stage' = "starting" => stage = "starting" /\ Nothing(Asked)' = Nothing(Asked)
      BY <1>10, <2>1 DEF StopsReading, Unmapped, ApplyResult, Put, AdriftExits, EndCancelled, EndReported, EndCrashed, LetsGo,
                   runnerVars, Nothing, Asked
    <2>4. /\ stage' \in {"reading", "closing"} => stage \in {"reading", "closing"}
          /\ stage' \in {"ended", "raised", "after"} \/ outcome' = "reported"
                => stage \in {"ended", "raised", "after"} \/ outcome = "reported"
          /\ (outcome # "none" <=> stage = "released") => (outcome' # "none" <=> stage' = "released")
      BY <1>10, <2>1 DEF StopsReading, Unmapped, ApplyResult, Put, AdriftExits, EndCancelled, EndReported, EndCrashed, LetsGo,
                   runnerVars
    <2> QED BY <2>1, <2>2, <2>3, <2>4 DEF Following
  <1>11. CASE FollowRedirect
    <2>1. stage = "after" /\ stage' = "ready" /\ outcome' = outcome
      BY <1>11 DEF FollowRedirect
    <2> QED BY <2>1 DEF Following
  <1> QED BY <1>1, <1>2, <1>3, <1>4, <1>5, <1>6, <1>7, <1>8, <1>9, <1>10, <1>11 DEF RunnerNext, RunnerSteps

\* What is pushed and reported as a success was one: the last process, on the current
\* instructions, ended by itself and had finished its turn, and what the foreman reads
\* is the last the agent wrote (with codex's and claude's exceptions), however
\* signals, exits and reads fall.
THEOREM SuccessReal == RunnerSpec => []SuccessIsReal
  <1>1. RunnerInit => RunnerTypeOK /\ OneAgentPerTree /\ Following
    <2> SUFFICES ASSUME RunnerInit PROVE OneAgentPerTree /\ Following
      BY RunnerTypeInit
    <2>1. NoProcess.alive = FALSE
      BY RunnerTypeInit, ProcessTyped DEF NoSession
    <2> QED BY <2>1 DEF RunnerInit, OneAgentPerTree, Following
  <1>2. RunnerTypeOK /\ OneAgentPerTree /\ Following /\ [RunnerNext]_runnerVars
            => RunnerTypeOK' /\ OneAgentPerTree' /\ Following'
    BY RunnerTypeInductive, OneAgentStep, FollowingStep
  <1>3. Following => SuccessIsReal
    BY DEF Following, SuccessIsReal, Success
  <1> QED BY <1>1, <1>2, <1>3, PTL DEF RunnerSpec

-----------------------------------------------------------------------------
(* The conversation a redirect continues *)

\* The session holds what the last process told, or at least what it resumed.
InSession(session) ==
    /\ agent.told => Session \subseteq session
    /\ tool # "claude" => agent.from \subseteq session

\* What the next launch resumes is kept: from the process to the result, from there
\* to the loop's resume session, until the next process starts.
Continues ==
    /\ stage = "starting" => held.session = Nothing(Asked).session
    /\ stage \in {"reading", "closing"} => InSession(held.session) /\ handle
    /\ stage = "ended" => InSession(Captured)
    /\ stage \in {"after", "ready"} \/ (stage = "starting" /\ attempt = 1) => InSession(resume) /\ ~handle
    /\ stage = "starting" /\ attempt = 2 => agent.instr = instr /\ (HandleKnows => InSession(Session))
    /\ stage \in {"reading", "closing", "ended"} => agent.instr = instr

LEMMA ContinuesStep ==
    ASSUME RunnerTypeOK, Continues, [RunnerNext]_runnerVars
    PROVE  Continues'
  <1> USE DEF fixed, loop, listener
  <1>0. /\ agent \in Agents /\ stream \in Streams /\ held \in Results /\ handle \in BOOLEAN /\ attempt \in {1, 2}
        /\ tool \in {"claude", "codex", "pi"}
    BY RunnerConstants DEF RunnerTypeOK
  <1>1. CASE Launch
    <2>1. Asked' = resume /\ stage' = "starting" /\ attempt' = 1 /\ held' = Nothing(resume) /\ stage = "ready"
          /\ UNCHANGED <<tool, resume, agent, handle>>
      BY <1>1 DEF Launch, Asked
    <2>2. held'.session = Nothing(Asked)'.session
      BY <2>1 DEF Nothing
    <2> QED BY <2>1, <2>2 DEF Continues, InSession, Session
  <1>2. CASE Spawn
    <2>1. /\ agent' = Process(Asked) /\ handle' = TRUE /\ stage' = "reading" /\ held' = held /\ tool' = tool /\ instr' = instr
          /\ held.session = Nothing(Asked).session
      BY <1>2 DEF Spawn, Continues
    <2>2. agent'.told = FALSE /\ agent'.from = Asked /\ agent'.instr = instr
      BY <2>1 DEF Process
    <2>3. tool # "claude" => held.session = Asked
      BY <2>1 DEF Nothing
    <2> QED BY <2>1, <2>2, <2>3 DEF Continues, InSession
  <1>3. CASE NotStarted
    <2>1. NoProcess.told = FALSE /\ NoProcess.from = {} /\ NoProcess.instr = instr
      BY DEF NoProcess, Process, NoSession
    <2>2. /\ stage = "starting" /\ stage' = "ended" /\ agent' = (IF HandleKnows THEN agent ELSE NoProcess)
          /\ UNCHANGED <<tool, handle, instr, resume, attempt>>
      BY <1>3 DEF NotStarted
    <2>3. CASE HandleKnows
      <3>1. attempt = 2 /\ agent' = agent /\ InSession(Session) /\ agent.instr = instr
        BY <1>0, <2>2, <2>3 DEF Continues, HandleKnows
      <3>2. Captured' = Session
        BY <2>2, <2>3, <3>1 DEF Captured, HandleKnows, Session
      <3> QED BY <2>2, <3>1, <3>2 DEF Continues, InSession, Session
    <2>4. CASE ~HandleKnows
      BY <2>1, <2>2, <2>4 DEF Continues, InSession
    <2> QED BY <2>3, <2>4
  <1>4. CASE TellsSession
    <2>1. /\ agent' = [agent EXCEPT !.told = TRUE] /\ held' = [held EXCEPT !.session = Session] /\ stage = "reading"
          /\ UNCHANGED <<tool, handle, instr, resume, attempt, stage>>
      BY <1>4 DEF TellsSession, Proceeds
    <2>2. held'.session = Session /\ agent'.from = agent.from /\ agent'.instr = agent.instr
      BY <1>0, <2>1, AgentStays DEF Results
    <2>3. Session' = Session /\ agent.from \subseteq Session
      BY <2>2 DEF Session
    <2> QED BY <2>1, <2>2, <2>3 DEF Continues, InSession
  <1>5. CASE \/ \E kind \in {"plain", "marked", "reasoning"} : Says(kind)
             \/ \E subtype \in {"success", "max_turns", "error_during_execution", "other"} : EndsTurn(subtype)
             \/ Errs
    <2>1. /\ stage = "reading" /\ stage' \in {"reading", "closing"}
          /\ UNCHANGED <<tool, handle, instr, agent>>
      BY <1>5 DEF Says, EndsTurn, Errs, Reads, Proceeds, Then
    <2>2. held'.session = held.session
      <3>1. \/ held' = held
            \/ \E kind : held' = [held EXCEPT !.text = kind]
            \/ \E stop : held' = [held EXCEPT !.stop = stop]
        BY <1>5 DEF Says, EndsTurn, Errs, Reads
      <3> QED BY <1>0, <3>1 DEF Results
    <2> QED BY <2>1, <2>2 DEF Continues, InSession, Session
  <1>6. CASE CloseTimesOut \/ (\E code \in {"ok", "fail", "signal"} : Exits(code)) \/ Cancel \/ Redirect
    <2>1. /\ UNCHANGED <<tool, instr, resume, attempt, stage, held, handle>>
          /\ agent'.instr = agent.instr /\ agent'.from = agent.from /\ agent'.told = agent.told
      <3>1. CASE CloseTimesOut
        BY <3>1, AgentStays DEF CloseTimesOut
      <3>2. CASE \E code \in {"ok", "fail", "signal"} : Exits(code)
        <4>1. PICK code : Exits(code)
          BY <3>2
        <4> QED BY <4>1, AgentStays DEF Exits
      <3>3. CASE Cancel \/ Redirect
        BY <3>3, AgentStays DEF Cancel, Redirect
      <3> QED BY <1>6, <3>1, <3>2, <3>3
    <2>2. Session' = Session /\ Captured' = Captured /\ HandleKnows' = HandleKnows /\ Nothing(Asked)' = Nothing(Asked)
      BY <2>1 DEF Session, Captured, HandleKnows, Nothing, Asked
    <2> QED BY <2>1, <2>2 DEF Continues, InSession
  <1>7. CASE Finish
    <2>1. /\ stage \in {"reading", "closing"} /\ stage' = "ended" /\ held' = OutcomeOfRun
          /\ UNCHANGED <<tool, handle, instr, agent>>
      BY <1>7 DEF Finish
    <2>2. held'.session = held.session
      <3>1. /\ ClaudeOutcome.session = held.session /\ CodexOutcome.session = held.session
            /\ PiOutcome.session = held.session
        BY <1>0 DEF ClaudeOutcome, CodexOutcome, PiOutcome, Results
      <3> QED BY <1>0, <2>1, <3>1 DEF OutcomeOfRun
    <2> QED BY <2>1, <2>2 DEF Continues, InSession, Captured, HandleKnows, Session
  <1>8. CASE Breaks
    <2>1. /\ stage \in {"reading", "closing"} /\ stage' \in {"ended", "raised"}
          /\ held' = [held EXCEPT !.stop = "error_during_execution"] /\ UNCHANGED <<tool, handle, instr>>
      BY <1>8 DEF Breaks
    <2>2. agent'.instr = agent.instr /\ agent'.from = agent.from /\ agent'.told = agent.told
      BY <1>8, AgentStays DEF Breaks
    <2>3. held'.session = held.session
      BY <1>0, <2>1 DEF Results
    <2> QED BY <2>1, <2>2, <2>3 DEF Continues, InSession, Captured, HandleKnows, Session
  <1>9. CASE Retry
    <2>1. /\ stage = "ended" /\ stage' = "starting" /\ attempt' = 2 /\ held' = Nothing(NoSession)
          /\ UNCHANGED <<tool, handle, instr, agent>>
      BY <1>9 DEF Retry
    <2>2. held'.session = Nothing(Asked)'.session
      BY <2>1 DEF Nothing, Asked
    <2>3. HandleKnows' = HandleKnows /\ Session' = Session /\ (HandleKnows => InSession(Session))
      BY <2>1 DEF HandleKnows, Session, Continues, Captured
    <2>4. agent.instr = instr
      BY <2>1 DEF Continues
    <2> QED BY <2>1, <2>2, <2>3, <2>4 DEF Continues, InSession
  <1>10. CASE ApplyResult
    BY <1>10 DEF ApplyResult, Continues, InSession, Session
  <1>11. CASE FollowRedirect
    BY <1>11 DEF FollowRedirect, Continues, InSession, Session
  <1>12. CASE StopsReading \/ Unmapped \/ Put \/ AdriftExits \/ EndCancelled \/ EndReported \/ EndCrashed \/ UNCHANGED runnerVars
    <2>1. UNCHANGED <<tool, instr, attempt, agent, held, resume>>
      BY <1>12 DEF StopsReading, Unmapped, Put, AdriftExits, EndCancelled, EndReported, EndCrashed, LetsGo, runnerVars
    <2>2. \/ stage' \in {"released", "raised"}
          \/ handle' = handle /\ (stage' = stage \/ (stage = "reading" /\ stage' = "closing"))
      BY <1>12 DEF StopsReading, Unmapped, Put, AdriftExits, EndCancelled, EndReported, EndCrashed, LetsGo, runnerVars
    <2> QED BY <2>1, <2>2 DEF Continues, InSession, Session, Captured, HandleKnows, Nothing, Asked
  <1> QED BY <1>1, <1>2, <1>3, <1>4, <1>5, <1>6, <1>7, <1>8, <1>9, <1>10, <1>11, <1>12 DEF RunnerNext, RunnerSteps

\* A redirect continues the agent's conversation: a process started on new instructions
\* resumes all that the one before it had in its session if that one had told it, else
\* at least, for codex and pi, what was there before it; through starts that fail,
\* second starts, and handles that know a session or do not.
THEOREM ContextIsKept == RunnerSpec => ContextKept
  <1>1. RunnerInit => RunnerTypeOK /\ Continues
    <2> SUFFICES ASSUME RunnerInit PROVE Continues
      BY RunnerTypeInit
    <2>1. NoProcess.told = FALSE /\ NoProcess.from = {}
      BY DEF NoProcess, Process, NoSession
    <2> QED BY <2>1 DEF RunnerInit, Continues, InSession
  <1>2. RunnerTypeOK /\ Continues /\ [RunnerNext]_runnerVars => RunnerTypeOK' /\ Continues'
    BY RunnerTypeInductive, ContinuesStep
  <1>3. ASSUME RunnerTypeOK, Continues, [RunnerNext]_runnerVars, NewInstructions
        PROVE  /\ agent.told => Session \subseteq agent'.from
               /\ tool # "claude" => agent.from \subseteq agent'.from
    <2>1. Spawn
      BY <1>3 DEF NewInstructions, StartsAgent, RunnerNext, RunnerSteps, runnerVars, Launch, Spawn, NotStarted, TellsSession,
              Says, EndsTurn, Errs, Reads, Proceeds, Exits, AdriftExits, StopsReading, CloseTimesOut, Finish, Breaks, Retry,
              Unmapped, ApplyResult, EndCancelled, EndReported, EndCrashed, LetsGo, FollowRedirect, Cancel, Redirect, Put
    <2>2. agent'.from = Asked /\ agent'.instr = instr /\ stage = "starting"
      BY <2>1 DEF Spawn, Process
    <2>3. attempt = 1
      BY <1>3, <2>2 DEF RunnerTypeOK, Continues, NewInstructions
    <2> QED BY <1>3, <2>2, <2>3 DEF Continues, InSession, Asked
  <1> QED BY <1>1, <1>2, <1>3, PTL DEF RunnerSpec, ContextKept

\* Every variable of a run keeps its type; a process is alive until it has an exit.
THEOREM RunnerTypeCorrect == RunnerSpec => []RunnerTypeOK
  BY RunnerTypeInit, RunnerTypeInductive, PTL DEF RunnerSpec
==================================================================================
