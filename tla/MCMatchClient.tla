--------------------------- MODULE MCMatchClient ----------------------------
(* MatchClient for TLC. *)
EXTENDS MatchClient
=============================================================================
