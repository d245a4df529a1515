----------------------------- MODULE MCSessions -----------------------------
(* Properties and instances of Sessions. *)
EXTENDS Sessions, TLC

CONSTANTS l1, l2, r1, r2

Perms == Permutations(Locals) \cup Permutations(Remotes)
=============================================================================
