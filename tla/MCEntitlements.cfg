CONSTANTS
  Events <- MCEvents
  Ev <- MCEv
  Recipients = {"bob"}
  Coords = {"game1"}
  GrantIds = {"g1"}
  Keys = {"dev", "key"}
  Sources = {"camp1", "camp2"}
  AuthRoots = {"auth1"}
  PublisherOf <- MCPublisherOf
  Campaigns <- MCCampaigns
  Auths <- MCAuths
  NoEvent = NoEvent
  Tasks = {t1, t2}
SYMMETRY TaskSymmetry
SPECIFICATION Spec
INVARIANTS
  OwnershipIsBacked
  HistoryHonoursRevocation
PROPERTY OwnershipNeverReturns
