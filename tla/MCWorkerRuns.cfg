SPECIFICATION MCSpec
CONSTANTS
    Workers = {w1} Absent = Absent MaxCommits = 2 MaxRuns = 3 MaxFaults = 2
    Tools = {"claude", "codex", "pi"} MaxSignals = 2 MaxBreaks = 1
INVARIANTS SuccessIsPublished Accounted OneAgentPerTree SuccessIsReal
PROPERTIES ContextKept CancelHeeded
CHECK_DEADLOCK FALSE
