\* Batch acknowledgement included; the queue has no dead-letter queue.
\* A panic stops the process for good.
SPECIFICATION Spec
CONSTANTS
  Ids = {m1, m2, m3}
  Consumers = {c1}
  None = None
  Cap = 3
  FetchLimit = 2
  NodeTTL = 1
  Times = {1}
  MaxBatch = 3
  DeadLetter = "nilInterface"
INVARIANTS AmountCoversChain TailShape
CHECK_DEADLOCK FALSE
