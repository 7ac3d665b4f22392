----------------------------- MODULE MCMarketFeed -----------------------------
(* Instances of WebSocketDataCollector: two receivers, so that the one the   *)
(* fallback leaves behind meets the one run starts, and two sockets.         *)
EXTENDS WebSocketDataCollector

CONSTANTS r1, r2, a
=============================================================================
