---------------------------- MODULE MCBotRunner -----------------------------
(* Two servers that play the bots of one match. *)
EXTENDS BotRunner
=============================================================================
