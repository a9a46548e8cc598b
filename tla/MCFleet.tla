------------------------------ MODULE MCFleet ------------------------------
(* Instances of Fleet for TLC. *)
EXTENDS Fleet

CONSTANTS s1, s2
=============================================================================
