CONSTANTS
  NoEvent = NoEvent
  Receipts <- MCReceipts
  Rcpt <- MCRcpt
  Buyers = {"bob"}
  Coords = {"game1"}
  Orders = {"o1", "o2"}
  Keys = {"dev", "key"}
  AuthRoots = {"auth1"}
  PublisherOf <- MCPublisherOf
SPECIFICATION PurchasesSpec
INVARIANTS
  TipMatchesReference
  HistoryHonoursTip
PROPERTIES
  RefundIsFinal
