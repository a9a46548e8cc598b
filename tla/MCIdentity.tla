----------------------------- MODULE MCIdentity -----------------------------
(* Instances of Identity for TLC. *)
EXTENDS Identity

CONSTANTS m1, m2
=============================================================================
