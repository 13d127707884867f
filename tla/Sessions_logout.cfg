\* Three nodes, two sessions of one user, lost and late calls, restarts.
SPECIFICATION Spec
CONSTANTS
  N = 3
  Users = {u1}
  Tokens = {t1, t2}
  MaxDelayed = 1
  NoUser = NoUser
INVARIANTS TypeOK OnlySessionEnds
PROPERTIES OtherSessionsKept
