---------------------------- MODULE MCHttpServer4 ----------------------------
(* HttpServer4 with one client that may send a request in two chunks and    *)
(* another that sends at most one.                                          *)
EXTENDS HttpServer4

MCMaxChunks == <<2, 1>>
=============================================================================
