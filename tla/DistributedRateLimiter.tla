------------------------ MODULE DistributedRateLimiter ------------------------
(* The rate limiter several processes share through Redis                    *)
(* (cache/distributed_rate_limiter.py). A caller takes the time, a script in *)
(* Redis decides by the times it has seen, and the answer may be lost.       *)
EXTENDS Integers, FiniteSets, FiniteSetsExt

CONSTANTS
    Callers,
    Limits,     \* records [max, lag]: max_requests, and how late a script may run
    Window,     \* time_window
    MaxNow,     \* a bound on time
    MaxGranted  \* a bound: nobody asks once so many requests were allowed

VARIABLES
    algorithm,  \* "sliding_window_log" or "token_bucket"
    limit,      \* the member of Limits in force
    now,
    entries,    \* the sorted set of the window log: the times of the requests
    expires,    \* when its key expires
    tokens,     \* of the bucket, Window units each; a late script may drive it below 0
    refilled,   \* last_refill, 0 while the bucket is not there
    pc,         \* where each caller stands
    stamp,      \* the time it sent to the script, 0 for none
    granted     \* the requests the script allowed, each its time and a number of its own

vars == <<algorithm, limit, now, entries, expires, tokens, refilled, pc, stamp,
          granted>>

Times == 1 .. MaxNow
Capacity == limit.max * Window

TypeOK ==
    /\ algorithm \in {"sliding_window_log", "token_bucket"}
    /\ limit \in Limits
    /\ now \in Times /\ entries \subseteq Times /\ granted \subseteq Times \X Nat
    /\ expires \in Nat
    /\ tokens \in -(MaxNow * limit.max) .. Capacity /\ refilled \in 0 .. MaxNow
    /\ pc \in [Callers -> {"idle", "sent", "refused"}]
    /\ stamp \in [Callers -> 0 .. MaxNow]

Init ==
    /\ algorithm \in {"sliding_window_log", "token_bucket"}
    /\ limit \in Limits
    /\ now = 1 /\ entries = {} /\ expires = 0
    /\ tokens = Capacity /\ refilled = 0
    /\ pc = [c \in Callers |-> "idle"]
    /\ stamp = [c \in Callers |-> 0]
    /\ granted = {}

-----------------------------------------------------------------------------

store == <<entries, expires, tokens, refilled>>

\* Time passes, but no script is later than the lag.
Tick ==
    /\ now < MaxNow
    /\ \A c \in Callers : pc[c] = "sent" => now < stamp[c] + limit.lag
    /\ now' = now + 1
    /\ UNCHANGED <<algorithm, limit, store, pc, stamp, granted>>

\* A call, or the next try of a caller that waits and of one whose call failed.
\* How long it may try is left open.
Acquire(c) ==
    /\ pc[c] \in {"idle", "refused"}
    /\ Cardinality(granted) < MaxGranted
    /\ pc' = [pc EXCEPT ![c] = "sent"]
    /\ stamp' = [stamp EXCEPT ![c] = now]
    /\ UNCHANGED <<algorithm, limit, now, store, granted>>

\* A mistake WindowRespected catches: the script removes too much.
KeptTooFew(t) == IF now >= expires THEN {} ELSE {e \in entries : e > t - Window + 1}

\* What the window log holds for a script that runs with time t.
Kept(t) == IF now >= expires THEN {} ELSE {e \in entries : e > t - Window}

\* The script of the window log. A request of the same time as another is another
\* request and the same member of the set, which it does not make larger.
WindowScript(t) ==
    LET allows == Cardinality(Kept(t)) < limit.max
    IN  /\ entries' = IF allows THEN Kept(t) \union {t} ELSE Kept(t)
        /\ expires' = IF allows THEN now + Window + 1 ELSE expires
        /\ granted' = IF allows THEN granted \union {<<t, Cardinality(granted)>>} ELSE granted
        /\ UNCHANGED <<tokens, refilled>>

Refilled(t) ==
    IF refilled = 0 THEN Capacity
    ELSE Min({Capacity, tokens + (t - refilled) * limit.max})

\* The script of the bucket; a request takes one token, that is Window units.
BucketScript(t) ==
    LET allows == Refilled(t) >= Window
    IN  /\ tokens' = IF allows THEN Refilled(t) - Window ELSE Refilled(t)
        /\ refilled' = t
        /\ granted' = IF allows THEN granted \union {<<t, Cardinality(granted)>>} ELSE granted
        /\ UNCHANGED <<entries, expires>>

Script(t) ==
    IF algorithm = "sliding_window_log" THEN WindowScript(t) ELSE BucketScript(t)

Allows(t) ==
    IF algorithm = "sliding_window_log"
    THEN Cardinality(Kept(t)) < limit.max
    ELSE Refilled(t) >= Window

Returns(c, answer) ==
    /\ pc' = [pc EXCEPT ![c] = answer]
    /\ stamp' = [stamp EXCEPT ![c] = 0]
    /\ UNCHANGED <<algorithm, limit, now>>

\* The script runs and its answer arrives, or is lost.
Run(c) ==
    /\ pc[c] = "sent"
    /\ Script(stamp[c])
    /\ \E answer \in {IF Allows(stamp[c]) THEN "idle" ELSE "refused", "refused"} :
           Returns(c, answer)

RunFails(c) ==
    /\ pc[c] = "sent"
    /\ Returns(c, "refused")
    /\ UNCHANGED <<store, granted>>

\* It does not wait, or its time is over: acquire returns False.
Denied(c) ==
    /\ pc[c] = "refused"
    /\ Returns(c, "idle")
    /\ UNCHANGED <<store, granted>>

Next ==
    \/ Tick
    \/ \E c \in Callers : Acquire(c) \/ Run(c) \/ RunFails(c) \/ Denied(c)

Spec == Init /\ [][Next]_vars

-----------------------------------------------------------------------------

\* The requests granted for the times of a span that ends with t.
Within(span, t) == {g \in granted : t - span < g[1] /\ g[1] <= t}

\* Whichever processes asked, and however many answers were lost and requests
\* repeated, the window log counts every time in the window but those that a
\* script later than this one may have removed, which the lag bounds: that span
\* holds no more times than the limit. It holds more requests than that if some
\* carry one time, which ZADD keeps once; only for a limit of one are the
\* requests themselves bounded, and then, while no script is later than the
\* second its key outlives the window, in the whole window. The bucket allows
\* what it held in addition, however late its scripts run; its key lives a
\* minute, enough to fill it in a window up to that.
WindowRespected ==
    \A t \in Times :
        IF algorithm = "sliding_window_log"
        THEN /\ Cardinality({g[1] : g \in Within(Window - limit.lag, t)}) <= limit.max
             /\ limit.max = 1 /\ limit.lag <= 1 => Cardinality(Within(Window, t)) <= 1
        ELSE Cardinality(Within(Window, t)) <= 2 * limit.max

=============================================================================
