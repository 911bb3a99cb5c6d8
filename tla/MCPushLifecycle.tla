-------------------------- MODULE MCPushLifecycle --------------------------
(* A small instance of PushLifecycle: the windows of one browser. *)
EXTENDS PushLifecycle, TLC

Symmetry == Permutations(Tab) \union Permutations(Capability)

(* After a capability that no storage took, nothing is claimed. *)
Durable == ~undurable
=============================================================================
