--------------------------- MODULE MCHostRuntime ---------------------------
(* HostRuntime for TLC.  The policies allow one retry since the last         *)
(* connection, with full jitter, so that the backoff may be no wait at all;  *)
(* one in all, without a wait; and none.                                    *)
EXTENDS HostRuntime

OneRetry == [exponentialPolicy EXCEPT !.maxAttempts = 1, !.jitter = 100]

OneInAll == [immediateForeverPolicy EXCEPT !.maxAttempts = 1, !.resetOnSuccess = FALSE]

MCPolicies == {OneRetry, OneInAll, disabledPolicy}
=============================================================================
