----------------------------- MODULE MCWatchdog -----------------------------
(* An instance of Watchdog for TLC: two pids, reused.                       *)
EXTENDS Watchdog

CONSTANTS p1, p2
=============================================================================
