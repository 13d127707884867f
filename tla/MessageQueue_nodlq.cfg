\* A queue created without a dead-letter queue, messages rejected until they expire.
SPECIFICATION SingleSpec
CONSTANTS
  Ids = {m1, m2}
  Consumers = {c1}
  None = None
  Cap = 2
  FetchLimit = 2
  NodeTTL = 1
  Times = {1}
  MaxBatch = 2
  DeadLetter = "nilInterface"
INVARIANTS NeverPanics
