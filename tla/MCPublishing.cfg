SPECIFICATION Spec
CONSTANTS
  d1 = d1
  d2 = d2
  f1 = f1
  f2 = f2
  f3 = f3
  r1 = r1
  r2 = r2
  p1 = p1
  p2 = p2
  k1 = k1
  k2 = k2
  Devices = {d1, d2}
  Relays = {r1, r2}
  Forms = {f1, f2, f3}
  DeviceOf <- TwoDevices
  Pages = {p1, p2}
  Keys = {k1, k2}
  None = None
  MaxEvents = 5
  MaxOps = 3
  MayLeave = FALSE
SYMMETRY Perms
CONSTRAINT StillPublishing
CHECK_DEADLOCK FALSE
INVARIANTS
  ListingNamesPublished
  RowKnowsRoot
  AuthorizationKept
  FormKeepsItsPage
  OutcomeTruthful
