---------------------------- MODULE MCHttpServer1 ----------------------------
(* HttpServer1 with one client that may send a request in two chunks and    *)
(* another that sends at most one.                                          *)
EXTENDS HttpServer1

MCMaxChunks == <<2, 1>>
=============================================================================
