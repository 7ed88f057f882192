SPECIFICATION MCSpec
CONSTANTS
  t1 = t1 w1 = w1 a1 = a1 u1 = u1 u2 = u2 n1 = n1 n2 = n2
  Tasks = {t1} Workers = {w1} Agents = {a1} Requests = {r1, r2}
  WorkerOf <- OneWorker Parent <- NoParent IssueRoots = {} Linkable = {} PrTasks = {t1} MaxChainDepth = 20 MaxRuns = 2
  NoTask = NoTask NoWorker = NoWorker NoAgent = NoAgent NoLock = NoLock
  Users = {u1, u2} Creator = u1 Handles = {n1, n2} Bearer <- OnePerson
  Roles = {"owner", "member"} Clients = {q1, q2} MaxInvites = 2
INVARIANTS NoOrphanedLock HeldStands
PROPERTIES FirstOutcomeStands QueueEmptiesForAReason
SYMMETRY Symmetric
