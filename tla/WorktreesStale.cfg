SPECIFICATION FairSpec
CONSTANTS
    Workers = {w1}
    Absent = Absent
    MaxCommits = 2
    MaxRuns = 2
    MaxFaults = 0
PROPERTIES StartsFromLatest
CHECK_DEADLOCK FALSE
