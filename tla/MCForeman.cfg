SPECIFICATION MCSpec
CONSTANTS
  h1 = h1 h2 = h2 h3 = h3 g1 = g1 g2 = g2 s1 = s1 k1 = k1
  Turns = {h1, h2, h3, g1, g2, s1} Keys = {k1} KeyOf <- OneKey
  Human = {h1, h2, h3} Github = {g1, g2} QueueMax = 2 NoTurn = NoTurn
  Runs = {r1, r2} MaxRounds = 1
  Proxies = {p1, p2} LLMRuns = {q1} MaxCalls = 2 MaxLinks = 3
INVARIANTS RequestWellFormed AllSent WaitsForTheSeat
PROPERTIES AcceptedIsSettled KeepsPromise SeatIsServed
CHECK_DEADLOCK FALSE
