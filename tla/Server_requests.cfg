\* Two requests at a time, by root and alice.
SPECIFICATION MCSpec
CONSTANTS
  Empty = Empty
  Malformed = Malformed
  Clients = {c1, c2}
  Requests <- MCRequests
  sybline = sybline
  alice = alice
  p1 = p1
  p2 = p2
  t1 = t1
  t2 = t2
  t3 = t3
  k1 = k1
  k2 = k2
  k3 = k3
  m1 = m1
  m2 = m2
  Usernames = {sybline, alice}
  Root = sybline
  Passwords = {p1, p2}
  CustomRoles <- MCCustomRoles
  Tokens = {t1, t2, t3, t4}
  Names = {1, 3}
  Keys = {k1, k2, k3}
  Ids = {m1, m2, m3, m4}
  Sizes = {1, 2}
  Objects = {1, 2, 3, 4}
  MaxRoute = 2
  MaxRoles = 3
  MaxRequests = 2
INVARIANTS InfoComplete SessionsHaveAccounts
PROPERTIES PermittedEffects OwnPassword OnlyHolderSettles
CHECK_DEADLOCK FALSE
SYMMETRY ClientSymmetry
