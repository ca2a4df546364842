SPECIFICATION Spec
CONSTANTS
  User = {root, second}
  Root = root
  NoUser = NoUser
  Worker = {w1, w2}
  Grants = {"admin"}
  MaxRequests = 3
  MaxDbErrors = 0
INVARIANT LastAdminKept
CHECK_DEADLOCK FALSE
