---------------------------- MODULE MCDirectives ----------------------------
(* Instances of Directives for TLC. *)
EXTENDS Directives, TLC

CONSTANTS mac, laptop, restart, sample, upload_logs

\* The user's machines are interchangeable.
Machines == Permutations(Devices)
=============================================================================
