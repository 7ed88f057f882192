CONSTANTS
    Tasks = {batch, talk}
    Interactive = {talk}
    NumAgents = 2
    MaxCancelled = 1
    MaxMessages = 3
    NoTask = NoTask
SPECIFICATION Spec
INVARIANTS NoReplayDuplicates RunReachable CancelStopsPush
PROPERTIES SentinelsDrain QueuedIsTaken
CHECK_DEADLOCK FALSE
