SPECIFICATION FairSpec
CONSTANTS
    c1 = c1  c2 = c2  e1 = e1  r1 = r1
    MaxLines = 3
    FlushSize = 2
    Checks = {c1, c2}
    Events = {e1}
    Replies = {r1}
    Cases <- TheCases
    MaxFaults = 2
INVARIANTS Converges
PROPERTIES Settled
CHECK_DEADLOCK FALSE
