-------------------------- MODULE MCAppTransaction --------------------------
(***************************************************************************)
(* AppTransaction with callbacks of a few commands.                        *)
(***************************************************************************)
EXTENDS AppTransaction

============================================================================
