-------------------------- MODULE MCRequestHandler --------------------------
(* RequestHandler for TLC: every target of at most four of the bytes        *)
(* / . % + - 5 f g, with one file, an index and the directory it is in.     *)
EXTENDS RequestHandler

MCUris == UNION {[1..n -> {47, 46, 37, 43, 45, 53, 102, 103}] : n \in 0..4}

MCOpenable == {<<47, 53, 46, 103>>, <<47>> \o IndexHtml, <<47>>}
=============================================================================
