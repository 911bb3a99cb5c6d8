--------------------------- MODULE MCMediaService ---------------------------
(* A small instance of MediaService: two attachments with a key each.      *)
EXTENDS MediaService, TLC

CONSTANTS k1, k2, a1, a2

AliasOfKeys == k1 :> a1 @@ k2 :> a2
=============================================================================
