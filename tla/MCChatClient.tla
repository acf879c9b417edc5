----------------------------- MODULE MCChatClient -----------------------------
(* ChatClient with small bounds. *)
EXTENDS ChatClient
=============================================================================
