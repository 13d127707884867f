\* Two consumers, batches longer than the queue's size, the dead-letter queue.
\* A panic stops the process for good.
SPECIFICATION Spec
CONSTANTS
  Ids = {m1, m2}
  Consumers = {c1, c2}
  None = None
  Cap = 2
  FetchLimit = 1
  NodeTTL = 1
  Times = {1}
  MaxBatch = 3
  DeadLetter = "queue"
  MaxNodes = 6
INVARIANTS PoolIsolated ChainEnds
PROPERTIES ImplementsQueue
SYMMETRY Symmetry
VIEW UpToAddresses
CHECK_DEADLOCK FALSE
