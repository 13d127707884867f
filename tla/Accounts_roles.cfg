\* Two accounts, the built-in roles and one more.
SPECIFICATION Spec
CONSTANTS
  Usernames = {sybline, alice}
  Root = sybline
  Passwords = {p1, p2}
  Entities <- MCEntities
  CustomRoles <- MCCustomRoles
  MaxRoles = 2
INVARIANTS AccountRemains DenialOutweighs
