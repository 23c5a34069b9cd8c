----------------------- MODULE MCManagedSubscriptions -----------------------
(* ManagedSubscriptions for TLC.                                           *)
EXTENDS ManagedSubscriptions
=============================================================================
