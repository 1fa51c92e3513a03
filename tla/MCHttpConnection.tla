-------------------------- MODULE MCHttpConnection --------------------------
(* Instances of HttpConnection for TLC: the kinds of peer. *)
EXTENDS HttpConnection

AllPieces == PieceKind
KeptAlive == {"part", "request", "bad"}
Ending    == {"part", "request", "last"}
=============================================================================
