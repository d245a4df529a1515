-------------------------- MODULE CredentialStore ---------------------------
(***************************************************************************)
(* What the tables behind the library promise, with no command, server or  *)
(* await in sight: a credential is held once it is known to be valid, a    *)
(* download token is issued for a credential that is already held, one     *)
(* write does one of the two, and neither is ever taken back.              *)
(* Acquisition implements it.                                              *)
(***************************************************************************)

CONSTANTS
  Valid,    \* the credentials that may be held
  Unlocks   \* Unlocks[c]: the tokens that may be issued for credential c

VARIABLES held, tokens

vars == <<held, tokens>>

Init == held = {} /\ tokens = {}

Hold ==
  /\ \E c \in Valid : held' = held \cup {c}
  /\ UNCHANGED tokens

Issue ==
  /\ \E c \in held : \E k \in Unlocks[c] : tokens' = tokens \cup {k}
  /\ UNCHANGED held

Next == Hold \/ Issue

Spec == Init /\ [][Next]_vars
=============================================================================
