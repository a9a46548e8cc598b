---------------------------- MODULE MCCursorSync ----------------------------
(* Small instances of CursorSync. *)
EXTENDS CursorSync

\* One composer for the first two events, one for each of the others.
MCLocalTime == [e \in Usage |-> IF e <= 2 THEN 1 ELSE e]
=============================================================================
