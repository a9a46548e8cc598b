--------------------------- MODULE MCCursorMirror ---------------------------
(* Small instances of CursorMirror: two users; the second event is of neither. *)
EXTENDS CursorMirror

MCTimeOf == [e \in Usage |-> e]
MCOwned  == {Usage \cap {1, 4, 7}, Usage \cap {3, 5, 6}}
=============================================================================
