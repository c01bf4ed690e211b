----------------------------- MODULE MCRpcClient -----------------------------
(* Small instances of RpcClient for TLC. *)
EXTENDS RpcClient, TLC

CONSTANTS trade, arbitrage

\* The second endpoint has no weight: it is only used when it is the only
\* one left.
MCEndpoints == <<[weight |-> 2, maxRetries |-> 1], [weight |-> 0, maxRetries |-> 0],
                 [weight |-> 1, maxRetries |-> 0]>>

\* Endpoints that do as they like, and two that never answer beside one that
\* always does.
MCNetworks == {[bad |-> {}, good |-> {}, expiry |-> TRUE],
               [bad |-> {1, 3}, good |-> {2}, expiry |-> FALSE]}
=============================================================================
