--------------------------- MODULE MCEntitlements ---------------------------
(***************************************************************************)
(* Model values for Entitlements: one buyer and a grant id with two        *)
(* competing roots (one issued by the publisher, one by a fulfillment key  *)
(* for another campaign), two competing revocations, one that is stale,    *)
(* one signed by the wrong key, a grant issued after the campaign ended,   *)
(* and a grant that names a predecessor.                                   *)
(***************************************************************************)
EXTENDS Entitlements, TLC

MCEvents == {"r1", "r2", "v1", "v2", "vStale", "vKey", "late", "bad"}

Grant(src, auth, st, pred, signer, at) ==
  [grant |-> "g1", recipient |-> "bob", coord |-> "game1", source |-> src,
   auth |-> auth, status |-> st, pred |-> pred, signer |-> signer, at |-> at]

MCEv == [e \in Events |->
  CASE e = "r1" -> Grant("camp1", NoEvent, "granted", NoEvent, "dev", 2)
    [] e = "r2" -> Grant("camp2", "auth1", "granted", NoEvent, "key", 2)
    [] e = "v1" -> Grant("camp1", NoEvent, "revoked", "r1", "dev", 3)
    [] e = "v2" -> Grant("camp1", NoEvent, "revoked", "r1", "dev", 4)
    [] e = "vStale" -> Grant("camp1", NoEvent, "revoked", "r1", "dev", 2)
    [] e = "vKey" -> Grant("camp2", "auth1", "revoked", "r2", "key", 3)
    [] e = "late" -> Grant("camp1", NoEvent, "granted", NoEvent, "dev", 5)
    [] e = "bad" -> Grant("camp1", NoEvent, "granted", "r1", "dev", 3)]

MCPublisherOf == [c \in Coords |-> "dev"]

View(root, claimable) ==
  [root |-> root, publisher |-> "dev", coord |-> "game1",
   claimable |-> claimable]

MCCampaigns == {View("camp1", 1..3), View("camp2", 2..3)}

MCAuths ==
  { [root |-> "auth1", developer |-> "dev", key |-> "key", coord |-> "game1",
     from |-> 1, cancelledAt |-> {}, issueGrant |-> TRUE] }

(* The tasks are interchangeable. *)
TaskSymmetry == Permutations(Tasks)
=============================================================================
