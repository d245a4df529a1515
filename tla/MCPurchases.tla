---------------------------- MODULE MCPurchases -----------------------------
(***************************************************************************)
(* Model values for Purchases: one order with a root, a rival root, and    *)
(* the lifecycle paid - disputed - fulfilled - refunded with rivals at     *)
(* several links, a receipt under the wrong key and a late payment that    *)
(* names the root and carries an invoice; and a second, delegated order.   *)
(***************************************************************************)
EXTENDS Purchases

MCReceipts == {"root", "rival", "disputed", "fulfilled", "rival2",
               "refunded", "late", "wrongKey", "repaid", "delegated",
               "delivered"}

R(o, c, auth, pay, st, pred, signer, at) ==
  [order |-> o, buyer |-> "bob", coord |-> c, auth |-> auth, pay |-> pay,
   payment |-> "pay1", invoice |-> (pay = "full"), status |-> st,
   pred |-> pred, signer |-> signer, at |-> at]

MCRcpt == [r \in Receipts |->
  CASE r = "root" -> R("o1", "game1", NoEvent, "full", "paid", NoEvent, "dev", 1)
    [] r = "rival" -> R("o1", "game1", NoEvent, "full", "paid", NoEvent, "dev", 2)
    [] r = "disputed" -> R("o1", "game1", NoEvent, "none", "disputed", "root", "dev", 2)
    [] r = "fulfilled" -> R("o1", "game1", NoEvent, "none", "fulfilled", "disputed", "dev", 3)
    [] r = "rival2" -> R("o1", "game1", NoEvent, "none", "refunded", "root", "dev", 3)
    [] r = "refunded" -> R("o1", "game1", NoEvent, "none", "refunded", "fulfilled", "dev", 4)
    [] r = "late" -> R("o1", "game1", NoEvent, "none", "fulfilled", "refunded", "dev", 5)
    [] r = "wrongKey" -> R("o1", "game1", NoEvent, "none", "refunded", "root", "key", 2)
    [] r = "repaid" -> R("o1", "game1", NoEvent, "full", "paid", "root", "dev", 6)
    [] r = "delegated" -> R("o2", "game1", "auth1", "full", "paid", NoEvent, "key", 1)
    [] r = "delivered" -> R("o2", "game1", "auth1", "none", "fulfilled", "delegated", "key", 2)]

MCPublisherOf == [c \in Coords |-> "dev"]
=============================================================================
