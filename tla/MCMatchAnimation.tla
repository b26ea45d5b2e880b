------------------------- MODULE MCMatchAnimation ---------------------------
(***************************************************************************)
(* The engine with its journal, its results, its screen and the animation  *)
(* of every transition, for three players.  What the last step left        *)
(* (events, journal entries, frames) and the counters are read by action   *)
(* properties only, so the view leaves them out.                           *)
(***************************************************************************)
EXTENDS MatchAnimation, MatchResults, MatchScreen

MCView == boardVars
=============================================================================
