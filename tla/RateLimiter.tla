----------------------------- MODULE RateLimiter -----------------------------
(* The priority rate limiter of the REST client (api/rate_limiter.py): calls *)
(* of acquire wait in a priority queue, and one processor task grants them   *)
(* slots, at most MaxRequests in any Window.                                 *)
EXTENDS Naturals, Sequences

CONSTANTS
    Requests,       \* calls of acquire, each made once
    Priority,       \* RequestPriority of a call, 1 (CRITICAL) to 5 (BACKGROUND)
    MaxRequests,    \* max_requests
    Window,         \* time_window, in ticks of the clock
    Horizon,        \* a bound: later, time only passes while the processor sleeps
    None            \* no request

ASSUME LimiterAssumption ==
    /\ Priority \in [Requests -> 1 .. 5]
    /\ MaxRequests \in Nat \ {0}
    /\ Window \in Nat \ {0}
    /\ Horizon \in Nat
    /\ None \notin Requests

VARIABLES
    clock,      \* time.time()
    queue,      \* request_queue
    call,       \* where each call of acquire stands: the state of its future
    processor,  \* the task _process_requests, "none" before it starts and once done
    current,    \* the request it has popped, while it sleeps
    history,    \* request_history, a deque with maxlen MaxRequests
    slots,      \* every slot ever taken, in order: a record for the properties
    arrived     \* slots taken when the call was queued, while it is: another record

limiterVars == <<clock, queue, call, processor, current, history, slots, arrived>>

LimiterTypeOK ==
    /\ clock \in Nat
    /\ queue \subseteq Requests
    /\ call \in [Requests -> {"idle", "waiting", "granted", "cancelled"}]
    /\ processor \in {"none", "get", "sleep", "stopping"}
    /\ current \in Requests \union {None}
    /\ history \in Seq(Nat)
    /\ slots \in Seq([request : Requests, at : Nat])
    /\ arrived \in [Requests -> Nat]

\* connect() has started the processor.
LimiterInit ==
    /\ clock = 0
    /\ queue = {}
    /\ call = [r \in Requests |-> "idle"]
    /\ processor = "get"
    /\ current = None
    /\ history = <<>>
    /\ slots = <<>>
    /\ arrived = [r \in Requests |-> 0]

-----------------------------------------------------------------------------

\* A mistake WaitersServed catches: acquire relies on connect() alone.
AcquireNoStart(r) ==
    /\ call[r] = "idle"
    /\ call' = [call EXCEPT ![r] = "waiting"]
    /\ queue' = queue \union {r}
    /\ arrived' = [arrived EXCEPT ![r] = Len(slots)]
    /\ UNCHANGED <<clock, processor, current, history, slots>>

\* acquire: starts a processor if none runs and queues the request; the queue
\* is unbounded, so the first await that suspends is the one of the future.
Acquire(r) ==
    /\ call[r] = "idle"
    /\ call' = [call EXCEPT ![r] = "waiting"]
    /\ queue' = queue \union {r}
    /\ arrived' = [arrived EXCEPT ![r] = Len(slots)]
    /\ processor' = IF processor = "none" THEN "get" ELSE processor
    /\ UNCHANGED <<clock, current, history, slots>>

\* The task that waits is cancelled, and its future with it; the request stays
\* in the queue.
CallerCancelled(r) ==
    /\ call[r] = "waiting"
    /\ call' = [call EXCEPT ![r] = "cancelled"]
    /\ UNCHANGED <<clock, queue, processor, current, history, slots, arrived>>

\* The first k times of h, and no more, are out of the window.
Expired(h, k) ==
    /\ \A i \in 1 .. k : h[i] + Window <= clock
    /\ k < Len(h) => h[k + 1] + Window > clock

\* The slot is recorded, even for a caller that no longer waits; a full deque
\* drops its oldest time.
Grant(r, h) ==
    /\ history' = Append(IF Len(h) = MaxRequests THEN Tail(h) ELSE h, clock)
    /\ slots' = Append(slots, [request |-> r, at |-> clock])
    /\ call' = [call EXCEPT ![r] = IF @ = "waiting" THEN "granted" ELSE @]

\* A mistake SlotsSpaced catches: the limit is compared with > instead of >=.
PopOneTooMany(r) ==
    /\ processor = "get"
    /\ r \in queue
    /\ \A q \in queue : Priority[r] <= Priority[q]
    /\ queue' = queue \ {r}
    /\ arrived' = [arrived EXCEPT ![r] = 0]
    /\ \E k \in 0 .. Len(history) :
           /\ Expired(history, k)
           /\ LET recent == SubSeq(history, k + 1, Len(history)) IN
              IF Len(recent) <= MaxRequests
              THEN Grant(r, recent) /\ UNCHANGED <<processor, current>>
              ELSE /\ processor' = "sleep"
                   /\ current' = r
                   /\ history' = recent
                   /\ UNCHANGED <<slots, call>>
    /\ UNCHANGED clock

\* A mistake BoundedOvertaking catches: first come, first served.
PopAny(r) ==
    /\ processor = "get"
    /\ r \in queue
    /\ queue' = queue \ {r}
    /\ arrived' = [arrived EXCEPT ![r] = 0]
    /\ \E k \in 0 .. Len(history) :
           /\ Expired(history, k)
           /\ LET recent == SubSeq(history, k + 1, Len(history)) IN
              IF Len(recent) < MaxRequests
              THEN Grant(r, recent) /\ UNCHANGED <<processor, current>>
              ELSE /\ processor' = "sleep"
                   /\ current' = r
                   /\ history' = recent
                   /\ UNCHANGED <<slots, call>>
    /\ UNCHANGED clock

\* The processor takes a most urgent request (a heap leaves equal priorities
\* in no order one can rely on) and prunes the history. It grants a slot at
\* once, or sleeps until the oldest time leaves the window.
Pop(r) ==
    /\ processor = "get"
    /\ r \in queue
    /\ \A q \in queue : Priority[r] <= Priority[q]
    /\ queue' = queue \ {r}
    /\ arrived' = [arrived EXCEPT ![r] = 0]
    /\ \E k \in 0 .. Len(history) :
           /\ Expired(history, k)
           /\ LET recent == SubSeq(history, k + 1, Len(history)) IN
              IF Len(recent) < MaxRequests
              THEN Grant(r, recent) /\ UNCHANGED <<processor, current>>
              ELSE /\ processor' = "sleep"
                   /\ current' = r
                   /\ history' = recent
                   /\ UNCHANGED <<slots, call>>
    /\ UNCHANGED clock

\* The sleep of _wait_for_slot is over.
Wake ==
    /\ processor = "sleep"
    /\ clock >= history[1] + Window
    /\ Grant(current, history)
    /\ processor' = "get"
    /\ current' = None
    /\ UNCHANGED <<clock, queue, arrived>>

\* stop(): the processor is cancelled where it waits, and stop awaits its end.
Stop ==
    /\ processor \in {"get", "sleep"}
    /\ processor' = "stopping"
    /\ UNCHANGED <<clock, queue, call, current, history, slots, arrived>>

\* The CancelledError handler: the requests in the queue are cancelled. The
\* one the processor held is dropped, its future left as it is.
ProcessorStops ==
    /\ processor = "stopping"
    /\ processor' = "none"
    /\ queue' = {}
    /\ call' = [r \in Requests |-> IF r \in queue /\ call[r] = "waiting"
                                   THEN "cancelled" ELSE call[r]]
    /\ current' = None
    /\ arrived' = [r \in Requests |-> 0]
    /\ UNCHANGED <<clock, history, slots>>

Tick ==
    /\ clock < Horizon \/ (processor = "sleep" /\ clock < history[1] + Window)
    /\ clock' = clock + 1
    /\ UNCHANGED <<queue, call, processor, current, history, slots, arrived>>

LimiterNext ==
    \/ \E r \in Requests : Acquire(r) \/ CallerCancelled(r) \/ Pop(r)
    \/ Wake
    \/ Stop
    \/ ProcessorStops
    \/ Tick

LimiterSpec == LimiterInit /\ [][LimiterNext]_limiterVars

-----------------------------------------------------------------------------

\* Any MaxRequests + 1 slots in a row span at least a Window, whatever was
\* cancelled, stopped and restarted between: the pruning, the eviction of the
\* deque and the sleep never forget a slot that still counts.
SlotsSpaced ==
    \A i \in 1 .. Len(slots) - MaxRequests :
        slots[i].at + Window <= slots[i + MaxRequests].at

\* An urgent request that waits is overtaken at most once: after it arrived
\* only the next slot can go to a less urgent one, popped before.
BoundedOvertaking ==
    \A r \in queue : \A i \in arrived[r] + 1 .. Len(slots) :
        Priority[slots[i].request] > Priority[r] => i = arrived[r] + 1

\* What the two rest on. The history is the end of the record, and what it has
\* dropped is out of the window; a sleeping processor has a full history.
HistoryRecent ==
    LET dropped == Len(slots) - Len(history) IN
    /\ Len(history) <= Len(slots)
    /\ Len(history) <= MaxRequests
    /\ \A i \in 1 .. Len(history) : history[i] = slots[dropped + i].at
    /\ \A i \in 1 .. dropped : slots[i].at + Window <= clock

SleepsWhenFull ==
    /\ processor = "sleep" => Len(history) = MaxRequests /\ current \in Requests
    /\ current /= None => processor \in {"sleep", "stopping"}

\* A less urgent request held by the processor was popped before the waiting
\* one arrived, and no slot was taken since.
HeldSinceBefore ==
    \A r \in queue :
        /\ arrived[r] <= Len(slots)
        /\ current /= None /\ Priority[current] > Priority[r]
           => arrived[r] = Len(slots)

LimiterInv ==
    /\ HistoryRecent
    /\ SleepsWhenFull
    /\ HeldSinceBefore
    /\ SlotsSpaced
    /\ BoundedOvertaking
=============================================================================
