----------------------------- MODULE Purchases ------------------------------
(***************************************************************************)
(* PurchasesRepository (core/src/purchases.rs) and the purchase half of    *)
(* OwnershipService::durable_records_for (core/src/ownership.rs): a table  *)
(* of receipts keyed by event id that callers fill in any order, read back *)
(* as ownership and as purchase history.                                   *)
(***************************************************************************)
EXTENDS Receipts

VARIABLE purchases   \* the purchases table: the receipts stored

(* upsert_receipt: INSERT ... ON CONFLICT(event_id) DO UPDATE.  An event   *)
(* id names one content, so the update rewrites what is there.             *)
UpsertReceipt(r) == purchases' = purchases \cup {r}

PurchasesInit == purchases = {}

PurchasesNext == \E r \in Receipts : UpsertReceipt(r)

PurchasesSpec == PurchasesInit /\ [][PurchasesNext]_purchases

-----------------------------------------------------------------------------
(* Mutant: a row that follows another one needs no proof. *)
StoredErrorOfPayment(r) == Rcpt[r].pred = NoEvent /\ Rcpt[r].pay # "full"

(* stored_receipt_validation_error: a row must carry a payment proof, and  *)
(* one that references another receipt must publish its invoice too.       *)
StoredError(r) ==
  \/ Rcpt[r].pay # "full"
  \/ Rcpt[r].pred # NoEvent /\ ~Rcpt[r].invoice

(* The row durable_records_for shows for an order: the latest created_at;  *)
(* rows of one second are ordered by event id, any of them may come first. *)
LatestRow(S) == {r \in S : \A o \in S : Rcpt[o].at <= Rcpt[r].at}

(* The status shown for that row.                                          *)
ShownStatus(S, r) ==
  IF \/ \E e \in S : StoredError(e)
     \/ /\ Rcpt[r].status \in {"refunded", "disputed"}
        /\ ~\E e \in S \ {r} : Rcpt[e].status \in {"paid", "fulfilled"}
  THEN "unverified"
  ELSE CASE Rcpt[r].status \in {"paid", "fulfilled"} -> "active"
         [] Rcpt[r].status = "disputed" -> "disputed"
         [] Rcpt[r].status = "refunded" -> "refunded"

-----------------------------------------------------------------------------
Orderings == Buyers \X Coords \X Orders

Order(R, k) == OrderRows(R, k[1], k[2], k[3])

(* Reference definition of the tip: take the smallest set that holds the   *)
(* only root and is closed under valid succession; if no member has two    *)
(* successors, the tip is its member without one.                          *)
Reached(S, root) ==
  LET Closed(X) == root \in X /\
        \A e \in X : Successors(S, root, e) \subseteq X
  IN  {e \in S : \A X \in SUBSET S : Closed(X) => e \in X}

IsReferenceTip(S, t) ==
  \E root \in S :
    /\ {r \in S : PaidRoot(r)} = {root}
    /\ (Rcpt[root].signer = PublisherOf[Rcpt[root].coord])
         <=> (Rcpt[root].auth = NoEvent)
    /\ \A e \in Reached(S, root) : Cardinality(Successors(S, root, e)) <= 1
    /\ t \in Reached(S, root) /\ Successors(S, root, t) = {}

(* The walk of resolve_persisted_receipt_tip finds exactly the receipt the *)
(* declarative reading of the chain rules picks, and none when there is    *)
(* none, for every set of stored receipts.                                 *)
TipMatchesReference ==
  \A k \in Orderings :
    LET S == Order(purchases, k) IN
    \A t \in S : IsReferenceTip(S, t) <=> (PersistedTip(S) = t)

(* Whatever arrives later, and in whatever order, an order whose tip is    *)
(* refunded never grants ownership again.                                  *)
RefundIsFinal ==
  [][\A k \in Orderings :
       LET tip == PersistedTip(Order(purchases, k)) IN
       (tip # NoEvent /\ Rcpt[tip].status = "refunded")
         => ~GrantsOwnership(Order(purchases', k))]_purchases

(* The purchase history picks the latest row of an order instead of its    *)
(* chain tip; still it never shows an order as active whose chain ends in  *)
(* a refund or a dispute: those receipts carry no proof of their own, and  *)
(* one row without a proof makes the order unverified.                     *)
HistoryHonoursTip ==
  \A k \in Orderings :
    LET S == Order(purchases, k)
        tip == PersistedTip(S)
    IN  (tip # NoEvent /\ ~GrantsOwnership(S)) =>
          \A r \in LatestRow(S) : ShownStatus(S, r) # "active"
=============================================================================
