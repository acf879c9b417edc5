---------------------------- MODULE MCChatServer ----------------------------
(* ChatServer for model values: the configuration gives the constants. *)
EXTENDS ChatServer
=============================================================================
