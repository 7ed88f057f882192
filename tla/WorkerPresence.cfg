SPECIFICATION FairSpec
CONSTANTS Processes = {p1, p2} MaxSockets = 2 MaxFaults = 1
INVARIANTS OwnerServes
PROPERTIES AssignedIsHeard DeathIsNoticed
CHECK_DEADLOCK FALSE
