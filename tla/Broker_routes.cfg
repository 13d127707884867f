\* Two queues and their dead-letter queues over two keys, the second queue having the
\* name of the first one's dead-letter queue.  A panic stops the process for good.
SPECIFICATION Spec
CONSTANTS
  Names = {1, 2}
  Keys = {k1, k2}
  NoKey = NoKey
  Ids = {m1}
  NoData = NoData
  Consumers = {c1}
  None = None
  Sizes = {0, 1}
  Objects = {1, 2, 3, 4}
  MaxRoute = 2
INVARIANTS TypeOK EveryQueueRouted RoutesAscend
PROPERTIES OthersRouted
CHECK_DEADLOCK FALSE
SYMMETRY KeySymmetry
