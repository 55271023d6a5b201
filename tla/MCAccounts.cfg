SPECIFICATION Spec
CONSTANTS
  Users = {ann, bob, eve}
  Requests = {r1, r2, r3}
  Roles = {"USER", "ADMIN"}
  None = None
SYMMETRY Symmetric
\* Every request runs once and ends.
CHECK_DEADLOCK FALSE
INVARIANTS
  AccountsTypeOK
  AdminRemains
PROPERTIES
  SessionsFollow
