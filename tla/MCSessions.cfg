SPECIFICATION Spec
CONSTANTS
  l1 = l1
  l2 = l2
  r1 = r1
  r2 = r2
  Locals = {l1, l2}
  Remotes = {r1, r2}
  None = None
  MaxOps = 4
SYMMETRY Perms
CHECK_DEADLOCK FALSE
INVARIANTS
  ConnectingIsPending
  SignsAsShown
  PublishedAsShown
  LoggedOutStaysOut
