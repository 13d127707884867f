\* Messages settled one at a time, two consumers competing, locks lapsing.
SPECIFICATION SingleSpec
CONSTANTS
  Ids = {m1, m2}
  Consumers = {c1, c2}
  None = None
  Cap = 2
  FetchLimit = 2
  NodeTTL = 1
  Times = {1, 2, 3}
  MaxBatch = 2
  DeadLetter = "queue"
INVARIANTS TypeOK ListIntact RetryBound
PROPERTIES LockHonoured UnheldStays OthersKept
