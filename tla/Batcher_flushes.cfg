\* Three requests, batches of two, full and timer flushes, Raft errors included.
SPECIFICATION FairSpec
CONSTANTS
  Clients = {r1, r2, r3}
  BatchLength = 2
  Nil = Nil
  ErrResult = ErrResult
  RaftMayFail = TRUE
INVARIANTS TypeOK AppliedAtMostOnce
PROPERTIES SendLogReturns
