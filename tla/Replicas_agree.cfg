\* One queue on two keys, deleted and created again: do the nodes stay the same?
SPECIFICATION Spec
CONSTANTS
  Names = {1}
  Keys = {k1, k2}
  NoKey = NoKey
  Ids = {m1}
  NoData = NoData
  Consumers = {c1}
  None = None
  Sizes = {1}
  Objects = {1, 2, 3, 4}
  MaxRoute = 2
INVARIANTS ReplicasAgree
CHECK_DEADLOCK FALSE
