-------------------------- MODULE MCSessionVault ---------------------------
(* A small instance of SessionVault: the tabs of one browser. *)
EXTENDS SessionVault
=============================================================================
