---------------------------- MODULE MCPushStore ----------------------------
(* Small instances of PushStore: two or three browsers, all alike.         *)
EXTENDS PushStore, TLC

Symmetries == Permutations(DeliveryKeys) \union Permutations(ManagementKeys)
                  \union Permutations(Endpoints) \union Permutations(Keys)
                  \union Permutations(Challenges)
=============================================================================
