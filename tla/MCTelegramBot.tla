---------------------------- MODULE MCTelegramBot ----------------------------
(* The command bot with a few updates of every kind. *)
EXTENDS TelegramBot
=============================================================================
