----------------------------- MODULE MCCheckout -----------------------------
(* Each behaviour exercises one of these: two invoices; a purchase or a    *)
(* claim, the page left and opened again, with a switch or two; downloads. *)
EXTENDS Checkout, TLC

MCLimits ==
  { Limit(1, 2, 1, 0, 1), Limit(2, 1, 2, 0, 2), Limit(2, 0, 2, 1, 2), Limit(1, 1, 1, 2, 2) }

(* The accounts are interchangeable. *)
AccountSymmetry == Permutations(Accounts)
=============================================================================
