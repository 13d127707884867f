\* Three requests, batches of two: whose result does a request receive?
SPECIFICATION Spec
CONSTANTS
  Clients = {r1, r2, r3}
  BatchLength = 2
  Nil = Nil
  ErrResult = ErrResult
  RaftMayFail = FALSE
INVARIANTS OwnAnswer
