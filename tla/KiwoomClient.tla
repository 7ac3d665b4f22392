----------------------------- MODULE KiwoomClient -----------------------------
(* Requests of the REST client (api/kiwoom_client.py): the access token all  *)
(* requests share, the rate limiter they wait for - the client's own or the  *)
(* one processes share through Redis -, the attempts they make, and close(). *)
EXTENDS RateLimiter

CONSTANTS
    TokenLife,      \* ticks until a new token expires
    MaxRetries,     \* max_retries of _request (3)
    Cancellable     \* a bound: the requests whose task may be cancelled

ASSUME ClientAssumption ==
    /\ TokenLife \in Nat \ {0}
    /\ MaxRetries \in Nat \ {0}

VARIABLES
    conn,       \* the client: "open", "stopping" and "closing" in close(), "closed"
    token,      \* when the access token expires, 0 when there is none
    rpc,        \* where each call of _request stands; it ends by returning,
                \* raising or being cancelled
    failures,   \* retry_count of the call, while it runs
    distributed,\* use_distributed: requests ask the shared limiter instead
    remote      \* the requests it let through and that run: a record for the properties

clientVars == <<conn, token, rpc, failures, distributed, remote>>
vars == <<limiterVars, clientVars>>

ClientTypeOK ==
    /\ conn \in {"open", "stopping", "closing", "closed"}
    /\ token \in Nat
    /\ rpc \in [Requests -> {"idle", "refresh", "acquire", "shared", "sent",
                             "backoff", "ended"}]
    /\ failures \in [Requests -> 0 .. MaxRetries - 1]
    /\ distributed \in BOOLEAN
    /\ remote \subseteq Requests

TypeOK == LimiterTypeOK /\ ClientTypeOK

\* connect() has obtained a token; main.py passes no shared limiter.
Init ==
    /\ LimiterInit
    /\ conn = "open"
    /\ token = TokenLife
    /\ rpc = [r \in Requests |-> "idle"]
    /\ failures = [r \in Requests |-> 0]
    /\ distributed = FALSE
    /\ remote = {}

-----------------------------------------------------------------------------

Go(r, step) == rpc' = [rpc EXCEPT ![r] = step]

TokenValid == token /= 0 /\ clock < token

\* DataCollector.initialize_redis, whenever its run() is called: it hands the
\* client a limiter in Redis, or goes back to the client's own when it fails.
InitializeRedis ==
    /\ distributed' \in BOOLEAN
    /\ UNCHANGED <<limiterVars, conn, token, rpc, failures, remote>>

\* The limiter of that moment is asked: the shared one answers over Redis, the
\* client's own queues the request.
AskForSlot(r) ==
    \/ distributed /\ Go(r, "shared") /\ UNCHANGED limiterVars
    \/ ~distributed /\ Go(r, "acquire") /\ Acquire(r)

\* _request up to its first await: without a client it raises, without a valid
\* token it asks for one, and otherwise it asks for a slot.
Request(r) ==
    /\ rpc[r] = "idle"
    /\ \/ conn = "closed" /\ Go(r, "ended") /\ UNCHANGED limiterVars
       \/ conn /= "closed" /\ ~TokenValid /\ Go(r, "refresh") /\ UNCHANGED limiterVars
       \/ conn /= "closed" /\ TokenValid /\ AskForSlot(r)
    /\ UNCHANGED <<conn, token, failures, distributed, remote>>

\* _refresh_token answers; concurrent requests each obtain a token.
Refreshed(r) ==
    /\ rpc[r] = "refresh"
    /\ conn /= "closed"
    /\ token' = clock + TokenLife
    /\ AskForSlot(r)
    /\ UNCHANGED <<conn, failures, distributed, remote>>

RefreshFails(r) ==
    /\ rpc[r] = "refresh"
    /\ Go(r, "ended")
    /\ UNCHANGED <<limiterVars, conn, token, failures, distributed, remote>>

\* A mistake SentHoldsSlot catches: the wait for the slot is not awaited.
SendAtOnce(r) ==
    /\ rpc[r] = "acquire"
    /\ call[r] /= "cancelled"
    /\ Go(r, "sent")
    /\ UNCHANGED <<limiterVars, conn, token, failures, distributed, remote>>

\* The slot is granted: the headers are built with the token of that moment
\* and the request is sent for the first time.
Send(r) ==
    /\ rpc[r] = "acquire"
    /\ call[r] = "granted"
    /\ Go(r, "sent")
    /\ UNCHANGED <<limiterVars, conn, token, failures, distributed, remote>>

\* The shared limiter allows the request; how it decides is the matter of
\* DistributedRateLimiter.
SharedGrants(r) ==
    /\ rpc[r] = "shared"
    /\ Go(r, "sent")
    /\ remote' = remote \union {r}
    /\ UNCHANGED <<limiterVars, conn, token, failures, distributed>>

\* It did not within its 30 seconds or fails, and RateLimitExceededError is
\* raised; or the task is cancelled there.
SharedDenies(r) ==
    /\ rpc[r] = "shared"
    /\ Go(r, "ended")
    /\ UNCHANGED <<limiterVars, conn, token, failures, distributed, remote>>

\* acquire raises CancelledError, in the caller or out of stop().
Interrupted(r) ==
    /\ rpc[r] = "acquire"
    /\ call[r] = "cancelled"
    /\ Go(r, "ended")
    /\ UNCHANGED <<limiterVars, conn, token, failures, distributed, remote>>

\* What the records keep of a request ends with it.
Forget(r) ==
    /\ failures' = [failures EXCEPT ![r] = 0]
    /\ remote' = remote \ {r}

\* A response, or an error that is raised without another attempt.
Answered(r) ==
    /\ rpc[r] = "sent"
    /\ conn /= "closed"
    /\ Go(r, "ended")
    /\ Forget(r)
    /\ UNCHANGED <<limiterVars, conn, token, distributed>>

\* Errors 1513 and 8103: the token, whichever it is by now, is dropped.
AuthFails(r) ==
    /\ rpc[r] = "sent"
    /\ conn /= "closed"
    /\ Go(r, "ended")
    /\ Forget(r)
    /\ token' = 0
    /\ UNCHANGED <<limiterVars, conn, distributed>>

\* Mistakes TypeOK and RequestEnds catch: one attempt too many, no last one.
AttemptFailsOnceMore(r) ==
    /\ rpc[r] = "sent"
    /\ \/ /\ failures[r] < MaxRetries
          /\ failures' = [failures EXCEPT ![r] = @ + 1]
          /\ Go(r, "backoff") /\ UNCHANGED remote
       \/ failures[r] = MaxRetries /\ Go(r, "ended") /\ Forget(r)
    /\ UNCHANGED <<limiterVars, conn, token, distributed>>

AttemptFailsUncounted(r) ==
    /\ rpc[r] = "sent"
    /\ Go(r, "backoff")
    /\ UNCHANGED <<limiterVars, conn, token, failures, distributed, remote>>

\* A timeout or any other exception, which a closed client raises at once:
\* the request is made again after a pause, the last time the error is raised.
AttemptFails(r) ==
    /\ rpc[r] = "sent"
    /\ \/ /\ failures[r] + 1 < MaxRetries
          /\ failures' = [failures EXCEPT ![r] = @ + 1]
          /\ Go(r, "backoff") /\ UNCHANGED remote
       \/ failures[r] + 1 = MaxRetries /\ Go(r, "ended") /\ Forget(r)
    /\ UNCHANGED <<limiterVars, conn, token, distributed>>

\* The next attempt, with the headers of the first and no slot of its own.
Resend(r) ==
    /\ rpc[r] = "backoff"
    /\ Go(r, "sent")
    /\ UNCHANGED <<limiterVars, conn, token, failures, distributed, remote>>

\* The task of the request is cancelled while it waits for its slot.
TaskCancelled(r) ==
    /\ r \in Cancellable
    /\ rpc[r] = "acquire"
    /\ CallerCancelled(r)
    /\ UNCHANGED clientVars

\* close(): the limiter is stopped first, then the HTTP client.
Close ==
    /\ conn = "open"
    /\ conn' = "stopping"
    /\ IF processor = "none" THEN UNCHANGED limiterVars ELSE Stop
    /\ UNCHANGED <<token, rpc, failures, distributed, remote>>

StopReturns ==
    /\ conn = "stopping"
    /\ processor /= "stopping"
    /\ conn' = "closing"
    /\ UNCHANGED <<limiterVars, token, rpc, failures, distributed, remote>>

HttpClosed ==
    /\ conn = "closing"
    /\ conn' = "closed"
    /\ UNCHANGED <<limiterVars, token, rpc, failures, distributed, remote>>

Processor == (\E r \in Requests : Pop(r)) \/ Wake \/ ProcessorStops

\* The steps of a request once it is made.
RequestStep(r) ==
    \/ Refreshed(r)
    \/ RefreshFails(r)
    \/ Send(r)
    \/ SharedGrants(r)
    \/ SharedDenies(r)
    \/ Interrupted(r)
    \/ Answered(r)
    \/ AuthFails(r)
    \/ AttemptFails(r)
    \/ Resend(r)

Next ==
    \/ \E r \in Requests : Request(r) \/ RequestStep(r) \/ TaskCancelled(r)
    \/ InitializeRedis
    \/ Close
    \/ StopReturns
    \/ HttpClosed
    \/ Processor /\ UNCHANGED clientVars
    \/ Tick /\ UNCHANGED clientVars

\* The event loop runs every task, awaited answers arrive or time out, and time
\* passes. Nobody has to make, cancel or close anything.
Fairness ==
    /\ \A r \in Requests : WF_vars(RequestStep(r))
    /\ WF_vars(Processor /\ UNCHANGED clientVars)
    /\ WF_vars(Tick /\ UNCHANGED clientVars)
    /\ WF_vars(StopReturns \/ HttpClosed)

Spec == Init /\ [][Next]_vars
FairSpec == Spec /\ Fairness

-----------------------------------------------------------------------------

\* Requests that wait do so for a processor that runs: they are in its queue,
\* or held by it. Only close() leaves a request to nobody.
WaitersServed ==
    /\ queue /= {} => processor /= "none"
    /\ conn = "open" =>
           \A r \in Requests : call[r] = "waiting" => r \in queue \union {current}

\* A request that was sent passed exactly one of the two limiters, whichever was
\* in force when it asked and however often the limiter was changed since: it
\* took one slot of the client's own, however often it was sent, or the shared
\* one let it through and it took none.
SentHoldsSlot ==
    \A r \in Requests : rpc[r] \in {"sent", "backoff"} =>
        IF r \in remote
        THEN \A i \in 1 .. Len(slots) : slots[i].request /= r
        ELSE \E i \in 1 .. Len(slots) :
                 \A j \in 1 .. Len(slots) : slots[j].request = r <=> j = i

\* Every request ends, unless close() left it waiting for nobody.
Orphaned(r) == call[r] = "waiting" /\ r \notin queue \union {current} /\ conn /= "open"

RequestEnds ==
    \A r \in Requests : rpc[r] /= "idle" ~> (rpc[r] = "ended" \/ Orphaned(r))
=============================================================================
