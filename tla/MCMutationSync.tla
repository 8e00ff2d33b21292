--------------------------- MODULE MCMutationSync ---------------------------
(***************************************************************************)
(* MutationSync with two pushes in flight at a time, Batches of three and  *)
(* two members (so a Batch spans two commit groups) and two Batches.       *)
(***************************************************************************)
EXTENDS MutationSync, TLC

CONSTANTS p1, p2, d2, d3

MCCountOf == (d2 :> 2) @@ (d3 :> 3)
NoDefect == {}
OneDefect == {<<d2, 1>>}

============================================================================
