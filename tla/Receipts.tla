------------------------------ MODULE Receipts ------------------------------
(***************************************************************************)
(* NIP-102 purchase receipts (kind 1020): the parsing, root validation and *)
(* chain resolution of core/src/purchases.rs, and the delegated            *)
(* authorization of core/src/authorization.rs they consult.                *)
(*                                                                         *)
(* A receipt event is an element of Receipts and its content is Rcpt[r].   *)
(* pay abstracts the payment tags: "full" when payment_hash, amount_msat,  *)
(* settled_at and at least one proof are there, "none" when none of them   *)
(* is, "some" otherwise (no proof, but payment fields).                    *)
(***************************************************************************)
EXTENDS Naturals, FiniteSets

CONSTANTS
  Receipts, Rcpt,
  Buyers, Coords, Orders, Keys, AuthRoots,
  PublisherOf,   \* PublisherOf[c]: the key inside the coordinate c
  NoEvent        \* an absent predecessor, authorization or tip

ReceiptContent ==
  [ order: Orders, buyer: Buyers, coord: Coords,
    auth: AuthRoots \cup {NoEvent}, pay: {"full", "some", "none"},
    payment: STRING,    \* which payment the payment_hash and amount bind
    invoice: BOOLEAN,   \* the event carries the BOLT11 invoice itself
    status: {"paid", "fulfilled", "refunded", "disputed"},
    pred: Receipts \cup {NoEvent}, signer: Keys, at: Nat ]

ASSUME ReceiptsAssumption ==
  /\ Rcpt \in [Receipts -> ReceiptContent]
  /\ PublisherOf \in [Coords -> Keys]
  /\ NoEvent \notin Receipts \cup AuthRoots

(* A resolved kind-30406 authorization and ResolvedAuthorization::         *)
(* authorizes with the issue_receipt capability.                           *)
MaySignReceipt(a, signer, coord, at) ==
  /\ signer = a.key
  /\ coord = a.coord
  /\ a.from <= at
  /\ \A x \in a.cancelledAt : at < x
  /\ a.issueReceipt

(* What every resolver takes for a root: a complete paid receipt that      *)
(* names no predecessor.                                                   *)
PaidRoot(r) ==
  Rcpt[r].pred = NoEvent /\ Rcpt[r].status = "paid" /\ Rcpt[r].pay = "full"

(* validate_adp_receipt_root against the developer key and the             *)
(* authorization the caller discovered (a = NoEvent when it has none).     *)
ValidRoot(r, developer, a) ==
  /\ PaidRoot(r)
  /\ IF Rcpt[r].signer = developer
     THEN Rcpt[r].auth = NoEvent
     ELSE /\ Rcpt[r].auth # NoEvent
          /\ a # NoEvent
          /\ a.root = Rcpt[r].auth
          /\ a.developer = developer
          /\ MaySignReceipt(a, Rcpt[r].signer, Rcpt[r].coord, Rcpt[r].at)

(* parse_and_validate_receipt: the path of ingest_receipt, which never     *)
(* looks an authorization up and checks no payment evidence.               *)
AcceptsDirect(r, buyer) ==
  Rcpt[r].buyer = buyer /\ ValidRoot(r, PublisherOf[Rcpt[r].coord], NoEvent)

(* Mutant: the receipt is only compared with the buyer and the payment. *)
AcceptsAnySigner(r, buyer, a, payment) ==
  Rcpt[r].buyer = buyer /\ PaidRoot(r) /\ Rcpt[r].payment = payment

(* parse_and_validate_receipt_with_authorization: the path of              *)
(* confirm_purchase; payment is the invoice and preimage the buyer holds   *)
(* (validate_receipt_evidence).                                            *)
AcceptsConfirmed(r, buyer, a, payment) ==
  /\ Rcpt[r].buyer = buyer
  /\ ValidRoot(r, PublisherOf[Rcpt[r].coord], a)
  /\ Rcpt[r].payment = payment

(***************************************************************************)
(* resolve_persisted_receipt_tip                                           *)
(***************************************************************************)

(* Mutant: a refund no longer ends the chain. *)
SuccessorsPastRefund(S, root, current) ==
  {e \in S :
     /\ Rcpt[e].pred = current /\ Rcpt[e].at > Rcpt[current].at
     /\ Rcpt[e].order = Rcpt[root].order /\ Rcpt[e].auth = Rcpt[root].auth
     /\ Rcpt[e].pay = "none" /\ Rcpt[e].status # "paid"}

(* The receipts of S that validly follow current in the chain of root. *)
Successors(S, root, current) ==
  {e \in S :
     /\ Rcpt[e].pred = current
     /\ Rcpt[e].at > Rcpt[current].at
     /\ Rcpt[e].order = Rcpt[root].order
     /\ Rcpt[e].buyer = Rcpt[root].buyer
     /\ Rcpt[e].coord = Rcpt[root].coord
     /\ Rcpt[e].auth = Rcpt[root].auth
     /\ Rcpt[e].pay = "none"
     /\ \/ Rcpt[e].signer = PublisherOf[Rcpt[root].coord]
        \/ Rcpt[e].signer = Rcpt[root].signer
     /\ Rcpt[current].status # "refunded"
     /\ Rcpt[e].status # "paid"}

(* The walk from the root: after n rounds it stands on a receipt, or on    *)
(* NoEvent once two valid successors were found.                           *)
WalkFrom(S, root) ==
  LET at[n \in Nat] ==
        IF n = 0 THEN root
        ELSE LET current == at[n - 1]
                 next == IF current = NoEvent THEN {}
                         ELSE Successors(S, root, current)
             IN  IF next = {} THEN current
                 ELSE IF Cardinality(next) > 1 THEN NoEvent
                 ELSE CHOOSE e \in next : TRUE
  IN  at[Cardinality(S)]

(* Mutant: the latest root wins when an order has several. *)
TipOfLatestRoot(S) ==
  LET roots == {r \in S : PaidRoot(r)}
      root  == CHOOSE r \in roots : \A o \in roots : Rcpt[o].at <= Rcpt[r].at
  IN  IF roots = {} THEN NoEvent ELSE WalkFrom(S, root)

(* resolve_persisted_receipt_tip over the stored receipts of one order.    *)
PersistedTip(S) ==
  LET roots == {r \in S : PaidRoot(r)}
      root  == CHOOSE r \in roots : TRUE
  IN  IF \/ Cardinality(roots) # 1
         \/ (Rcpt[root].signer = PublisherOf[Rcpt[root].coord])
              # (Rcpt[root].auth = NoEvent)
      THEN NoEvent
      ELSE WalkFrom(S, root)

(* status_grants_ownership of the tip. *)
GrantsOwnership(S) ==
  PersistedTip(S) # NoEvent
    /\ Rcpt[PersistedTip(S)].status \in {"paid", "fulfilled"}

(* Mutants: the query forgets the coordinate, or groups all orders. *)
OrderRowsOfBuyer(R, b, c, o) ==
  {r \in R : Rcpt[r].buyer = b /\ Rcpt[r].order = o}

OrderRowsOfGame(R, b, c, o) ==
  {r \in R : Rcpt[r].buyer = b /\ Rcpt[r].coord = c}

(* The rows is_owned reads for a buyer and a coordinate, by order. *)
OrderRows(R, b, c, o) ==
  {r \in R : Rcpt[r].buyer = b /\ Rcpt[r].coord = c /\ Rcpt[r].order = o}

(* PurchasesRepository::is_owned. *)
OwnedByReceipt(R, b, c) ==
  \E o \in Orders : GrantsOwnership(OrderRows(R, b, c, o))
=============================================================================
