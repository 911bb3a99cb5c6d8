-------------------------- MODULE MCPushEnrolment --------------------------
(* A small instance of PushEnrolment: two enrolments of one browser, each  *)
(* with a capability of its own.                                           *)
EXTENDS PushEnrolment, TLC

CONSTANTS d1, d2, m1, m2

Owners == d1 :> m1 @@ d2 :> m2
(* Calls, endpoints and devices are alike; a device goes with its capability. *)
Symmetry == Permutations(Calls) \union Permutations(Endpoints \ Distrusted)
    \union {d1 :> d2 @@ d2 :> d1 @@ m1 :> m2 @@ m2 :> m1}
=============================================================================
