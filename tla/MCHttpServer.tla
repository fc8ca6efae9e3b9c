---------------------------- MODULE MCHttpServer ----------------------------
(***************************************************************************)
(* A small instance of HttpServer: a content of one block and one of two.  *)
(***************************************************************************)
EXTENDS HttpServer, TLC

CONSTANTS w1, w2, f, g, short, long

MCWorkers == {w1, w2}
MCNames == {f, g}
MCData == {short, long}
MCBlocks == (short :> 1) @@ (long :> 2)
MCInodes == 1..5

=============================================================================
