SPECIFICATION MCSpec
CONSTANTS
  e1 = e1 e2 = e2 e3 = e3 e4 = e4 r1 = r1 r2 = r2 c1 = c1 h1 = h1
  Events = {e1, e2, e3, e4} Deliveries = {r1, r2, c1} Heads = {h1} Closes = {c1}
  DeliveryOf <- Attempts HeadOf <- Asked NoHead = NoHead NoTimer = NoTimer
  MaxExpiries = 1 MaxRestarts = 1
  Workers = {w1, w2} MaxRotations = 2 MaxRemovals = 1 MaxFaults = 2
INVARIANTS DeliveredExactlyOnce ActsOnce ReviewsSpaced
PROPERTIES ReviewReaches HookCatchesUp
CHECK_DEADLOCK FALSE
