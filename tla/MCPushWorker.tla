---------------------------- MODULE MCPushWorker ----------------------------
(* A small instance of PushWorker: two accounts, one push.          *)
EXTENDS PushWorker
=============================================================================
