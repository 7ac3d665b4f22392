---------------------------- MODULE MCKiwoomClient ----------------------------
(* Small instances of KiwoomClient for TLC: urgent and ordinary requests.    *)
EXTENDS KiwoomClient

CONSTANTS urgent, low1, low2

\* CRITICAL is passed by the caller; LOW is what _request uses by default.
MCPriority == [r \in Requests |-> IF r = urgent THEN 1 ELSE 4]

-----------------------------------------------------------------------------
(* What the documents say of the program, each checked by a run of its own.  *)

\* kiwoom-api.md: the token is renewed before it expires; _ensure_authenticated
\* checks it for every request. So a request is first sent with a valid token.
SentWithValidToken ==
    [][\A r \in Requests :
           rpc[r] \in {"acquire", "shared"} /\ rpc'[r] = "sent" => TokenValid]_vars

\* test_graceful_shutdown of test_rate_limiter.py: the requests that stop()
\* finds unprocessed are cancelled.
StopCancelsWaiters ==
    conn = "closed" /\ processor = "none"
    => \A r \in Requests : call[r] /= "waiting"
=============================================================================
