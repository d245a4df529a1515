CONSTANTS
  d1 = d1 d2 = d2 e1 = e1 g1 = g1 g2 = g2 p1 = p1 r1 = r1 r2 = r2
  None = None
  Devices = {d1, d2}
  Relays = {r1, r2}
  Editors = {e1}
  DeviceOf <- OnDevice
  GameOf <- ForGame
  Viewers = {d2}
  Games = {g1, g2}
  Pages = {p1}
  Before <- PageOfG2
  MaxBefore = 2
  MaxEvents = 5
  MaxOps = 2
SYMMETRY TwoRelays
SPECIFICATION Spec
CHECK_DEADLOCK FALSE
INVARIANTS CompleteMeansLinked OneReplacement PointerHasPage
PROPERTIES
  ViewNeverGoesBack
