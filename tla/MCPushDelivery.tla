--------------------------- MODULE MCPushDelivery ---------------------------
(* A small instance of PushDelivery. *)
EXTENDS PushDelivery, TLC

RequestSymmetry == Permutations(Requests)
=============================================================================
