----------------------------- MODULE MCShipping -----------------------------
(* A small instance of Shipping: two logs of one lister, one of which comes *)
(* to hold a second record behind the first.                                *)
EXTENDS Shipping, TLC

CONSTANTS f1, f2, k1, k2, k3, claude

MCSourceOf == f1 :> claude @@ f2 :> claude
MCLogs     == f1 :> {<<k1>>, <<k1, k2>>} @@ f2 :> {<<k3>>}

\* k2 is parsed from the second generation on.
MCMinGen == k1 :> 1 @@ k2 :> 2 @@ k3 :> 1
=============================================================================
