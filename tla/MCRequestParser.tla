--------------------------- MODULE MCRequestParser ---------------------------
(* RequestParser on texts close to a plain one. *)
EXTENDS RequestParser
=============================================================================
