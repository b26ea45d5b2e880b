------------------------- MODULE MCCommandProcessor -------------------------
(* CommandProcessor for TLC. *)
EXTENDS CommandProcessor
=============================================================================
