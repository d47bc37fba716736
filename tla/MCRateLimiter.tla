---------------------------- MODULE MCRateLimiter ----------------------------
(* TokenBucketRateLimiter on one limited peer and two that need no bucket. *)
EXTENDS RateLimiter

CONSTANTS p, open, closed

MCPeers == {p, open, closed}
MCRates == [n \in MCPeers |-> IF n = p THEN 2 ELSE IF n = open THEN Unlimited ELSE 0]
MCTimes == 0 .. 12
=============================================================================
