SPECIFICATION PollFairSpec
CONSTANTS
  t1 = t1 t2 = t2 w1 = w1
  Tasks = {t1, t2} Workers = {w1} Agents = {} Requests = {}
  WorkerOf <- NoAgents Parent <- RootAndChild IssueRoots = {t1} Linkable = {t1, t2} PrTasks = {} MaxChainDepth = 20 MaxRuns = 0
  NoTask = NoTask NoWorker = NoWorker NoAgent = NoAgent NoLock = NoLock
INVARIANTS KeptLiveOnlyWhenDone ClosedIssueHidesFinished
PROPERTIES MissedCloseIsSwept
