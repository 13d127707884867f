\* Three requests, batches of two: is the log that SendLog took applied?
SPECIFICATION FairSpec
CONSTANTS
  Clients = {r1, r2, r3}
  BatchLength = 2
  Nil = Nil
  ErrResult = ErrResult
  RaftMayFail = FALSE
PROPERTIES NothingDropped
