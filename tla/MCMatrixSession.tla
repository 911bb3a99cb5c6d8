--------------------------- MODULE MCMatrixSession ---------------------------
(* MatrixSession for TLC: the pair of the unlock and up to two refreshed ones. *)
EXTENDS MatrixSession
=============================================================================
