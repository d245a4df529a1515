---------------------------- MODULE MCLazySigner ----------------------------
(* Model values for LazySigner. *)
EXTENDS LazySigner
=============================================================================
