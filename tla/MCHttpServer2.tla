--------------------------- MODULE MCHttpServer2 ---------------------------
(* HttpServer2 for TLC. *)
EXTENDS HttpServer2
=============================================================================
