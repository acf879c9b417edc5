---------------------------- MODULE MCHttpServer3 ----------------------------
(* HttpServer3 for TLC. *)
EXTENDS HttpServer3
=============================================================================
