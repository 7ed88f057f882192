SPECIFICATION RunnerFairSpec
CONSTANTS Tools = {"codex"} MaxSignals = 1 MaxBreaks = 0
PROPERTIES StoppedStaysStopped
CHECK_DEADLOCK FALSE
