---------------------------- MODULE MCStorePages ----------------------------
(* A publisher, a buyer, two games and one page.  The game form (EditGame) *)
(* is the other writer of the listings.                                    *)
EXTENDS StorePages, TLC

CONSTANTS d1, d2, e1, g1, g2, p1, r1, r2

OnDevice == e1 :> d1
ForGame == e1 :> g1
(* The page lists g2, and g2 points to it. *)
PageOfG2 == <<[of |-> p1, ptr |-> None, links |-> {g2}, by |-> None],
              [of |-> g2, ptr |-> p1, links |-> {}, by |-> None]>>
TwoRelays == Permutations({r1, r2})
=============================================================================
