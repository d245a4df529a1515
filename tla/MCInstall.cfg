CONSTANTS
  Contents <- MCContents
  Expected = {"v1", "v2"}
  ServerUrls <- MCServerUrls
  MaxSlot = 1
  MaxCrashes = 1
  Tasks = {t1, t2}
  Crews <- MCCrews
  None = None
SPECIFICATION MCSpec
INVARIANT ReservationsHeld
PROPERTIES
  RecordedArtifactMatches
  RemovedIsQuarantined
  QuarantineKept
  InstallEnds
