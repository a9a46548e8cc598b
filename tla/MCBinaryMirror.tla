--------------------------- MODULE MCBinaryMirror ---------------------------
(* An instance of BinaryMirror: a required asset and an optional one. *)
EXTENDS BinaryMirror

MCAssets == <<"arm64", "linux">>
=============================================================================
