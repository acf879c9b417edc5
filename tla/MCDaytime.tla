------------------------------ MODULE MCDaytime ------------------------------
(* Daytime for TLC. *)
EXTENDS Daytime
=============================================================================
