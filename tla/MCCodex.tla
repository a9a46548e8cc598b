------------------------------ MODULE MCCodex -------------------------------
(* A small instance of Codex. *)
EXTENDS Codex

\* The last two differ in the written tokens alone.
Call1 == [input |-> 2, cached |-> 1, write |-> 0, output |-> 1]
Call2 == [input |-> 4, cached |-> 2, write |-> 2, output |-> 1]
Call3 == [input |-> 4, cached |-> 2, write |-> 1, output |-> 1]
MCUsages == {Call1, Call2, Call3}
=============================================================================
