---------------------------- MODULE MCPublishing ----------------------------
(* Instances of Publishing. *)
EXTENDS Publishing, TLC

CONSTANTS d1, d2, f1, f2, f3, r1, r2, p1, p2, k1, k2

(* f1 and f2 on one device, f3 on another. *)
TwoDevices == f1 :> d1 @@ f2 :> d1 @@ f3 :> d2

(* Two forms, one after the other, on one device. *)
OneDevice == f1 :> d1 @@ f2 :> d1

Perms == Permutations(Relays) \cup Permutations(Pages) \cup Permutations(Keys) \cup Permutations({f1, f2})

(* Once MaxOps is used up, forms matter only while a call of one works: to *)
(* open or leave them then changes nothing a property is about.            *)
StillPublishing == ops < MaxOps \/ \E f \in Forms : task[f].at # "idle"
=============================================================================
