-------------------------- MODULE MCBroadcastQueue --------------------------
(* Small instances of BroadcastQueue.                                      *)
EXTENDS BroadcastQueue
=============================================================================
