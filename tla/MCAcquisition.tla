--------------------------- MODULE MCAcquisition ----------------------------
(***************************************************************************)
(* Model values for Acquisition: one developer with two games, a second    *)
(* developer with one, two accounts, two direct receipts for one game, a   *)
(* receipt signed after its key's authorization was cancelled, a delegated *)
(* receipt of the second developer, and two grants that compete for one    *)
(* grant id.                                                               *)
(***************************************************************************)
EXTENDS Acquisition, TLC

Paid(o, b, c, auth, signer, at) ==
  [order |-> o, buyer |-> b, coord |-> c, auth |-> auth, pay |-> "full",
   payment |-> "pay1", invoice |-> FALSE, status |-> "paid",
   pred |-> NoEvent, signer |-> signer, at |-> at]

MCRcpt == [r \in Receipts |->
  CASE r = "buy"     -> Paid("o1", "bob", "game1", NoEvent, "dev", 2)
    [] r = "again"   -> Paid("o2", "bob", "game1", NoEvent, "dev", 2)
    [] r = "foreign" -> Paid("o1", "bob", "game3", "auth3", "key", 2)
    [] r = "late"    -> Paid("o2", "bob", "game1", "auth1", "key", 6)]

MCReceipts == {"buy", "again", "foreign", "late"}

MCEvents == {"claim", "clash"}

Grant(g, b, src, auth, st, pred, signer, at) ==
  [grant |-> g, recipient |-> b, coord |-> "game1", source |-> src,
   auth |-> auth, status |-> st, pred |-> pred, signer |-> signer, at |-> at]

MCEv == [e \in Events |->
  CASE e = "claim"  -> Grant("g1", "bob", "camp1", NoEvent, "granted", NoEvent, "dev", 2)
    [] e = "clash"  -> Grant("g1", "bob", "camp1", "auth1", "granted", NoEvent, "key", 3)]

MCPublisherOf == [c \in Coords |-> IF c = "game3" THEN "dev3" ELSE "dev"]

MCCampaigns ==
  { [root |-> "camp1", publisher |-> "dev", coord |-> "game1",
     claimable |-> 1..3] }

View(root, developer, c) ==
  [root |-> root, developer |-> developer, key |-> "key", coord |-> c,
   from |-> 1, cancelledAt |-> {5}, issueGrant |-> TRUE, issueReceipt |-> TRUE]

(* The tasks are interchangeable. *)
TaskSymmetry == Permutations(Tasks)

MCAuthViews == {View("auth1", "dev", "game1"), View("auth3", "dev3", "game3")}
=============================================================================
