--------------------------- MODULE OrderWorkerPool ---------------------------
(* The worker pool (services/order_worker_pool.py): workers take the most    *)
(* urgent task from a bounded queue, execute its order, and put it back when *)
(* it failed.                                                                *)
EXTENDS Naturals, Sequences, FiniteSets

CONSTANTS
    Orders,
    Workers,        \* max_workers worker tasks
    MinWorkers,     \* min_workers, a subset of Workers
    MaxQueue,       \* max_queue_size
    MaxRetries,     \* OrderTask.max_retries
    None            \* no task

ASSUME PoolAssumption ==
    /\ MinWorkers \subseteq Workers
    /\ MinWorkers /= {}
    /\ IsFiniteSet(Workers)
    /\ MaxQueue \in Nat \ {0}
    /\ MaxRetries \in Nat

VARIABLES
    pool,       \* "none", or what start and stop made of it
    shutdown,   \* _shutdown_event
    queue,      \* _task_queue, a PriorityQueue of OrderTask
    putters,    \* the tasks a caller of submit_order has still to put
    worker,     \* where each worker stands in _worker_loop
    hand,       \* the task each worker has taken
    registered, \* how often the callbacks were appended
    tries,      \* executions of each order: a record for the properties
    result      \* what became of each order

poolVars == <<pool, shutdown, queue, putters, worker, hand, registered, tries, result>>

Tasks == [order : Orders, priority : Nat, retries : 0 .. MaxRetries]

ASSUME NoneAssumption == None \notin Tasks

Results == {"none", "done", "failed", "raised", "discarded", "refused", "interrupted"}

PoolTypeOK ==
    /\ pool \in {"none", "running", "stopping", "stopped"}
    /\ shutdown \in BOOLEAN
    /\ queue \subseteq Tasks
    /\ IsFiniteSet(queue)
    /\ Cardinality(queue) <= MaxQueue
    /\ putters \in [Orders -> Seq(Tasks)]
    /\ worker \in [Workers -> {"off", "get", "execute", "put", "ended"}]
    /\ hand \in [Workers -> Tasks \union {None}]
    /\ registered \in Nat
    /\ tries \in [Orders -> 0 .. MaxRetries + 1]
    /\ result \in [Orders -> Results]

PoolInit ==
    /\ pool = "none"
    /\ shutdown = FALSE
    /\ queue = {}
    /\ putters = [o \in Orders |-> <<>>]
    /\ worker = [w \in Workers |-> "off"]
    /\ hand = [w \in Workers |-> None]
    /\ registered = 0
    /\ tries = [o \in Orders |-> 0]
    /\ result = [o \in Orders |-> "none"]

-----------------------------------------------------------------------------

Full == Cardinality(queue) = MaxQueue

\* start: the workers run until shutdown.
StartPool ==
    /\ pool' = "running"
    /\ worker' = [w \in Workers |-> IF w \in MinWorkers THEN "get" ELSE "off"]

\* What submit_order does before it awaits put: caller o hands over the orders
\* of os one after the other, and registers its callbacks once more for each.
Submit(o, os, priority) ==
    /\ putters' = [putters EXCEPT ![o] =
           [i \in 1 .. Len(os) |-> [order |-> os[i], priority |-> priority, retries |-> 0]]]
    /\ registered' = registered + 1

\* The await of put ends; a batch goes on with its next order.
Put(o) ==
    /\ putters[o] /= <<>>
    /\ ~Full
    /\ queue' = queue \union {Head(putters[o])}
    /\ putters' = [putters EXCEPT ![o] = Tail(@)]
    /\ registered' = registered + IF Len(putters[o]) > 1 THEN 1 ELSE 0
    /\ UNCHANGED <<pool, shutdown, worker, hand, tries, result>>

\* wait_for(get): a worker that was waiting when shutdown came may still take
\* one task. Equal priorities leave the heap in any order.
Get(w) ==
    /\ worker[w] = "get"
    /\ \E t \in queue :
           /\ \A u \in queue : u.priority <= t.priority
           /\ queue' = queue \ {t}
           /\ hand' = [hand EXCEPT ![w] = t]
           /\ tries' = [tries EXCEPT ![t.order] = @ + 1]
    /\ worker' = [worker EXCEPT ![w] = "execute"]
    /\ UNCHANGED <<pool, shutdown, putters, registered, result>>

\* A mistake PoolDrains catches: an exception ends the loop.
LoopEnds(w) ==
    /\ worker' = [worker EXCEPT ![w] = "ended"]
    /\ hand' = [hand EXCEPT ![w] = None]

\* The loop tests the shutdown event only between two tasks.
Loop(w) ==
    /\ worker' = [worker EXCEPT ![w] = IF shutdown THEN "ended" ELSE "get"]
    /\ hand' = [hand EXCEPT ![w] = None]

\* The timeout of wait_for, seen once the pool shuts down.
IdleEnds(w) ==
    /\ worker[w] = "get"
    /\ shutdown
    /\ queue = {}
    /\ Loop(w)
    /\ UNCHANGED <<pool, shutdown, queue, putters, registered, tries, result>>

\* execute_order answered success; every registered callback runs.
Succeeds(w) ==
    /\ worker[w] = "execute"
    /\ result' = [result EXCEPT ![hand[w].order] = "done"]
    /\ Loop(w)
    /\ UNCHANGED <<pool, shutdown, queue, putters, registered, tries>>

Retried(w) == [hand[w] EXCEPT !.retries = @ + 1]

\* A mistake OnePlace catches: the task is kept while it is queued again.
FailsKept(w) ==
    /\ worker[w] = "execute"
    /\ hand[w].retries < MaxRetries
    /\ IF Full
       THEN /\ worker' = [worker EXCEPT ![w] = "put"]
            /\ hand' = [hand EXCEPT ![w] = Retried(w)]
            /\ UNCHANGED queue
       ELSE /\ queue' = queue \union {Retried(w)}
            /\ worker' = [worker EXCEPT ![w] = IF shutdown THEN "ended" ELSE "get"]
            /\ UNCHANGED hand
    /\ UNCHANGED <<pool, shutdown, putters, registered, tries, result>>

\* A mistake TypeOK catches: one retry too many.
FailsOnceMore(w) ==
    /\ worker[w] = "execute"
    /\ hand[w].retries <= MaxRetries
    /\ IF Full
       THEN /\ worker' = [worker EXCEPT ![w] = "put"]
            /\ hand' = [hand EXCEPT ![w] = Retried(w)]
            /\ UNCHANGED queue
       ELSE queue' = queue \union {Retried(w)} /\ Loop(w)
    /\ UNCHANGED <<pool, shutdown, putters, registered, tries, result>>

\* execute_order answered failure and attempts remain: the worker puts the task
\* back itself, and waits when the queue is full.
Fails(w) ==
    /\ worker[w] = "execute"
    /\ hand[w].retries < MaxRetries
    /\ IF Full
       THEN /\ worker' = [worker EXCEPT ![w] = "put"]
            /\ hand' = [hand EXCEPT ![w] = Retried(w)]
            /\ UNCHANGED queue
       ELSE queue' = queue \union {Retried(w)} /\ Loop(w)
    /\ UNCHANGED <<pool, shutdown, putters, registered, tries, result>>

RetryPut(w) ==
    /\ worker[w] = "put"
    /\ ~Full
    /\ queue' = queue \union {hand[w]}
    /\ Loop(w)
    /\ UNCHANGED <<pool, shutdown, putters, registered, tries, result>>

\* No attempt remains: every registered failure callback runs.
GivesUp(w) ==
    /\ worker[w] = "execute"
    /\ hand[w].retries = MaxRetries
    /\ result' = [result EXCEPT ![hand[w].order] = "failed"]
    /\ Loop(w)
    /\ UNCHANGED <<pool, shutdown, queue, putters, registered, tries>>

\* A mistake NoResend catches: an order whose execution raised is queued again.
RaisesQueued(w) ==
    /\ worker[w] = "execute"
    /\ ~Full
    /\ queue' = queue \union {hand[w]}
    /\ result' = [result EXCEPT ![hand[w].order] = "raised"]
    /\ Loop(w)
    /\ UNCHANGED <<pool, shutdown, putters, registered, tries>>

\* execute_order raised: neither a retry nor a callback.
Raises(w) ==
    /\ worker[w] = "execute"
    /\ result' = [result EXCEPT ![hand[w].order] = "raised"]
    /\ Loop(w)
    /\ UNCHANGED <<pool, shutdown, queue, putters, registered, tries>>

\* _add_worker; _remove_worker only says that it might remove one.
AddWorker(w) ==
    /\ worker[w] = "off"
    /\ worker' = [worker EXCEPT ![w] = IF shutdown THEN "ended" ELSE "get"]

\* _auto_scale_workers: above 80 percent a worker is added; scaling down removes
\* none. The loop may pass once more after shutdown.
ScaleUp(w) ==
    /\ pool \in {"running", "stopping"}
    /\ 5 * Cardinality(queue) > 4 * MaxQueue
    /\ AddWorker(w)
    /\ UNCHANGED <<pool, shutdown, queue, putters, hand, registered, tries, result>>

\* stop, up to the gather of the workers.
StopPool ==
    /\ shutdown' = TRUE
    /\ pool' = "stopping"

WorkersEnded == \A w \in Workers : worker[w] \in {"off", "ended"}

\* stop, from there on: what is queued is drained and only counted. A caller
\* still in put then finds room in a queue nobody reads.
PoolStopped ==
    /\ pool' = "stopped"
    /\ queue' = {}
    /\ result' = [o \in Orders |->
           IF \E t \in queue : t.order = o THEN "discarded" ELSE result[o]]

WorkerStep(w) ==
    \/ Get(w)
    \/ IdleEnds(w)
    \/ Fails(w)
    \/ RetryPut(w)
    \/ Raises(w)
    \/ ScaleUp(w)

\* Every worker that runs waits for room in the queue only workers empty.
Wedged ==
    /\ Full
    /\ \A w \in Workers : worker[w] \in {"off", "ended", "put"}
    /\ \E w \in Workers : worker[w] = "put"
=============================================================================
