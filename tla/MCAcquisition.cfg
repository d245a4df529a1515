CONSTANTS
  NoEvent = NoEvent
  Receipts <- MCReceipts
  Rcpt <- MCRcpt
  Events <- MCEvents
  Ev <- MCEv
  Buyers = {"bob", "eve"}
  Coords = {"game1", "game2", "game3"}
  Orders = {"o1", "o2"}
  Keys = {"dev", "dev3", "key"}
  AuthRoots = {"auth1", "auth3"}
  GrantIds = {"g1"}
  Sources = {"camp1"}
  PublisherOf <- MCPublisherOf
  Campaigns <- MCCampaigns
  AuthViews <- MCAuthViews
  Servers = {"s1"}
  Payments = {"pay1"}
  Tasks = {t1, t2}
SYMMETRY TaskSymmetry
SPECIFICATION Spec
INVARIANTS
  TokenFollowsCredential
  OwnershipIsEarned
PROPERTIES
  OwnershipLostOnlyByConflict
  StoresCredentials
