------------------------ MODULE OrderPipelineOptimizer ------------------------
(* The order pipeline (services/order_pipeline_optimizer.py): four modes of  *)
(* getting an order executed, over the worker pool, the batch aggregator and *)
(* a sequential processor, behind a circuit breaker.                         *)
EXTENDS OrderWorkerPool, OrderBatchAggregator

CONSTANTS
    Urgent,         \* orders submitted with a priority of 5 or more
    Threshold       \* circuit_breaker_threshold

ASSUME PipelineAssumption ==
    /\ Orders = Bufferable
    /\ Urgent \subseteq Orders
    /\ Threshold \in Nat \ {0}

Modes == {"SEQUENTIAL", "PARALLEL", "BATCH", "OPTIMIZED"}

VARIABLES
    phase,      \* of the pipeline: "new", "running", "stopping", "stopped"
    mode,       \* config.mode
    aggregator, \* whether start() made one
    submitted,  \* the orders submit_order was called for
    seqQueue,   \* _sequential_queue
    seqTask,    \* _sequential_processor: "none", "get", "execute" or "ended"
    batches,    \* what each _process_batch task has still to execute
    breaker,    \* CircuitBreaker.state
    failures,   \* failure_count, not told apart from Threshold on
    elapsed     \* whether the timeout has passed since the breaker opened

breakerVars == <<breaker, failures, elapsed>>
pipelineVars == <<phase, mode, aggregator, submitted, seqQueue, seqTask, batches>>
vars == <<poolVars, aggregatorVars, pipelineVars, breakerVars>>

TypeOK ==
    /\ PoolTypeOK
    /\ AggregatorTypeOK
    /\ phase \in {"new", "running", "stopping", "stopped"}
    /\ mode \in Modes
    /\ aggregator \in BOOLEAN
    /\ submitted \subseteq Orders
    /\ seqQueue \in Seq(Orders)
    /\ seqTask \in {"none", "get", "execute", "ended"}
    /\ batches \in [Orders -> Seq(Orders)]
    /\ breaker \in {"closed", "open", "half_open"}
    /\ failures \in 0 .. Threshold
    /\ elapsed \in BOOLEAN

Init ==
    /\ PoolInit
    /\ AggregatorInit
    /\ phase = "new"
    /\ mode \in Modes
    /\ aggregator = FALSE
    /\ submitted = {}
    /\ seqQueue = <<>>
    /\ seqTask = "none"
    /\ batches = [o \in Orders |-> <<>>]
    /\ breaker = "closed"
    /\ failures = 0
    /\ elapsed = FALSE

-----------------------------------------------------------------------------
(* The circuit breaker.                                                      *)

\* record_failure, n times in a row.
RecordFailures(n) ==
    LET total == IF failures + n > Threshold THEN Threshold ELSE failures + n IN
    /\ failures' = total
    /\ breaker' = IF n > 0 /\ total = Threshold THEN "open" ELSE breaker
    /\ elapsed' = IF n > 0 /\ total = Threshold THEN FALSE ELSE elapsed

\* A mistake OpenUntilTimeout catches: any success closes the breaker.
RecordSuccessAlways ==
    /\ breaker' = "closed"
    /\ failures' = 0
    /\ UNCHANGED elapsed

\* record_success: of no effect unless the breaker is half open.
RecordSuccess ==
    /\ breaker' = IF breaker = "half_open" THEN "closed" ELSE breaker
    /\ failures' = IF breaker = "half_open" THEN 0 ELSE failures
    /\ UNCHANGED elapsed

\* is_open: an open breaker turns half open at the first question after the
\* timeout; a half open one lets every order pass.
Refuses == breaker = "open" /\ ~elapsed

AskBreaker ==
    /\ breaker' = IF breaker = "open" /\ elapsed THEN "half_open" ELSE breaker
    /\ UNCHANGED <<failures, elapsed>>

TimeoutElapses ==
    /\ breaker = "open"
    /\ ~elapsed
    /\ elapsed' = TRUE
    /\ UNCHANGED <<poolVars, aggregatorVars, pipelineVars, breaker, failures>>

-----------------------------------------------------------------------------
(* start, stop and switch_mode.                                              *)

Start ==
    /\ phase = "new"
    /\ phase' = "running"
    /\ IF mode \in {"PARALLEL", "OPTIMIZED"} THEN StartPool ELSE UNCHANGED <<pool, worker>>
    /\ aggregator' = (mode \in {"BATCH", "OPTIMIZED"})
    /\ seqTask' = IF mode = "SEQUENTIAL" THEN "get" ELSE "none"
    /\ UNCHANGED <<shutdown, queue, putters, hand, registered, tries, result,
                   aggregatorVars, mode, submitted, seqQueue, batches, breakerVars>>

\* stop, up to the await of the workers: the sequential processor is cancelled
\* wherever it is, and an order it was executing with it.
BeginStop ==
    /\ phase = "running"
    /\ phase' = "stopping"
    /\ seqTask' = IF seqTask = "none" THEN "none" ELSE "ended"
    /\ seqQueue' = IF seqTask = "execute" THEN Tail(seqQueue) ELSE seqQueue
    /\ result' = IF seqTask = "execute"
                 THEN [result EXCEPT ![Head(seqQueue)] = "interrupted"]
                 ELSE result
    /\ IF pool = "running" THEN StopPool ELSE UNCHANGED <<pool, shutdown>>
    /\ UNCHANGED <<queue, putters, worker, hand, registered, tries,
                   aggregatorVars, mode, aggregator, submitted, batches, breakerVars>>

\* stop, from there on: the pool is drained, and only then the aggregator
\* flushed.
EndStop ==
    /\ phase = "stopping"
    /\ WorkersEnded
    /\ phase' = "stopped"
    /\ IF pool = "stopping" THEN PoolStopped ELSE UNCHANGED <<pool, queue, result>>
    /\ IF aggregator THEN Flush(Stocks) ELSE UNCHANGED aggregatorVars
    /\ UNCHANGED <<shutdown, putters, worker, hand, registered, tries,
                   mode, aggregator, submitted, seqQueue, seqTask, batches, breakerVars>>

\* switch_mode starts nothing: the parts of the new mode may be missing.
SwitchMode(m) ==
    /\ phase = "running"
    /\ m /= mode
    /\ mode' = m
    /\ UNCHANGED <<poolVars, aggregatorVars, phase, aggregator, submitted, seqQueue,
                   seqTask, batches, breakerVars>>

-----------------------------------------------------------------------------
(* submit_order, which never asks whether the pipeline runs.                 *)

Refuse(o) ==
    /\ result' = [result EXCEPT ![o] = "refused"]
    /\ UNCHANGED <<pool, shutdown, queue, putters, worker, hand, registered, tries,
                   aggregatorVars, seqQueue, batches>>

\* _submit_parallel.
ToPool(o, priority) ==
    IF pool = "none"
    THEN Refuse(o)
    ELSE /\ Submit(o, <<o>>, priority)
         /\ UNCHANGED <<pool, shutdown, queue, worker, hand, tries, result,
                        aggregatorVars, seqQueue, batches>>

\* A batch runs in a task of its own.
RunBatch(o) ==
    /\ batches' = [batches EXCEPT ![o] = Batch(o)]
    /\ tries' = IF Batch(o) = <<>> THEN tries
                ELSE [tries EXCEPT ![Batch(o)[1]] = @ + 1]
    /\ UNCHANGED <<putters, registered>>

\* _submit_batch, and _submit_optimized for an order that is not urgent: the
\* caller that fills a batch hands all of it to the pool, if there is one.
ToAggregator(o) ==
    /\ AddOrder(o)
    /\ IF mode = "OPTIMIZED" /\ pool /= "none" /\ Batch(o) /= <<>>
       THEN Submit(o, Batch(o), 1) /\ UNCHANGED <<tries, batches>>
       ELSE RunBatch(o)
    /\ UNCHANGED <<pool, shutdown, queue, worker, hand, result, seqQueue>>

\* _submit_optimized says True of an order that is not urgent even without an
\* aggregator, and keeps it nowhere.
Vanishes(o) ==
    /\ forgotten' = forgotten \union {o}
    /\ UNCHANGED <<poolVars, buffer, timer, ready, seqQueue, batches>>

ToSequence(o) ==
    /\ seqQueue' = Append(seqQueue, o)
    /\ UNCHANGED <<poolVars, aggregatorVars, batches>>

SubmitOrder(o) ==
    /\ o \notin submitted
    /\ submitted' = submitted \union {o}
    /\ AskBreaker
    /\ CASE Refuses -> Refuse(o)
         [] ~Refuses /\ mode = "SEQUENTIAL" -> ToSequence(o)
         [] ~Refuses /\ (mode = "PARALLEL" \/ (mode = "OPTIMIZED" /\ o \in Urgent)) ->
                ToPool(o, IF o \in Urgent THEN 5 ELSE 0)
         [] ~Refuses /\ mode = "BATCH" ->
                IF aggregator THEN ToAggregator(o) ELSE Refuse(o)
         [] OTHER -> IF aggregator THEN ToAggregator(o) ELSE Vanishes(o)
    /\ UNCHANGED <<phase, mode, aggregator, seqTask>>

-----------------------------------------------------------------------------
(* What the parts do with the orders.                                        *)

\* _on_order_success and _on_order_failure, called once for every submission
\* there ever was.
PoolSucceeds(w) ==
    /\ Succeeds(w)
    /\ RecordSuccess
    /\ UNCHANGED <<aggregatorVars, pipelineVars>>

PoolGivesUp(w) ==
    /\ GivesUp(w)
    /\ RecordFailures(registered)
    /\ UNCHANGED <<aggregatorVars, pipelineVars>>

PoolStep ==
    /\ \/ \E o \in Orders : Put(o)
       \/ \E w \in Workers : WorkerStep(w)
    /\ UNCHANGED <<aggregatorVars, pipelineVars, breakerVars>>

AggregatorStep ==
    /\ \/ \E s \in Stocks : TimerFires(s)
       \/ phase \in {"running", "stopping"} /\ \E ss \in SUBSET Stocks : FlushOld(ss)
    /\ UNCHANGED <<poolVars, pipelineVars, breakerVars>>

SeqGet ==
    /\ seqTask = "get"
    /\ seqQueue /= <<>>
    /\ seqTask' = "execute"
    /\ tries' = [tries EXCEPT ![Head(seqQueue)] = @ + 1]
    /\ UNCHANGED <<pool, shutdown, queue, putters, worker, hand, registered, result,
                   aggregatorVars, phase, mode, aggregator, submitted, seqQueue, batches,
                   breakerVars>>

\* The order leaves the queue in the model when it is finished: its head is the
\* order in hand while seqTask is "execute". An exception is not recorded.
SeqFinished(r) ==
    /\ seqTask = "execute"
    /\ seqTask' = "get"
    /\ seqQueue' = Tail(seqQueue)
    /\ result' = [result EXCEPT ![Head(seqQueue)] = r]
    /\ CASE r = "done" -> RecordSuccess
         [] r = "failed" -> RecordFailures(1)
         [] OTHER -> UNCHANGED breakerVars
    /\ UNCHANGED <<pool, shutdown, queue, putters, worker, hand, registered, tries,
                   aggregatorVars, phase, mode, aggregator, submitted, batches>>

\* _process_batch: one order after the other, without retry, and without the
\* breaker.
BatchFinished(o, r) ==
    /\ batches[o] /= <<>>
    /\ result' = [result EXCEPT ![Head(batches[o])] = r]
    /\ batches' = [batches EXCEPT ![o] = Tail(@)]
    /\ tries' = IF Len(batches[o]) > 1
                THEN [tries EXCEPT ![batches[o][2]] = @ + 1] ELSE tries
    /\ UNCHANGED <<pool, shutdown, queue, putters, worker, hand, registered,
                   aggregatorVars, phase, mode, aggregator, submitted, seqQueue, seqTask,
                   breakerVars>>

Executed == {"done", "failed", "raised"}

Next ==
    \/ Start
    \/ BeginStop
    \/ EndStop
    \/ \E m \in Modes : SwitchMode(m)
    \/ \E o \in Orders : SubmitOrder(o)
    \/ TimeoutElapses
    \/ \E w \in Workers : PoolSucceeds(w) \/ PoolGivesUp(w)
    \/ PoolStep
    \/ AggregatorStep
    \/ SeqGet
    \/ \E r \in Executed : SeqFinished(r)
    \/ \E o \in Orders, r \in Executed : BatchFinished(o, r)

Spec == Init /\ [][Next]_vars

\* Workers and putters are tasks of the event loop; execute_order returns, and
\* nothing is assumed of its answers, of callers, timers or stop.
Fairness ==
    /\ \A o \in Orders : WF_vars(Put(o) /\ UNCHANGED <<aggregatorVars, pipelineVars, breakerVars>>)
    /\ \A w \in Workers :
           WF_vars(\/ PoolSucceeds(w)
                   \/ PoolGivesUp(w)
                   \/ WorkerStep(w) /\ UNCHANGED <<aggregatorVars, pipelineVars, breakerVars>>)

FairSpec == Spec /\ Fairness

-----------------------------------------------------------------------------

\* What holds order o: tasks of the pool's queue, workers, callers that put,
\* buffers, batches that run, and the places there is one of.
Queued(o)   == {t \in queue : t.order = o}
Carried(o)  == {w \in Workers : hand[w] /= None /\ hand[w].order = o}
ToPut(o)    == {p \in Orders : \E i \in 1 .. Len(putters[p]) : putters[p][i].order = o}
Buffered(o) == {s \in Stocks : o \in Members(buffer[s])}
Batched(o)  == {p \in Orders : o \in Members(batches[p])}
Elsewhere(o) ==
    {k \in {"sequence", "ready", "forgotten", "ended"} :
        \/ k = "sequence"  /\ o \in Members(seqQueue)
        \/ k = "ready"     /\ o \in ready
        \/ k = "forgotten" /\ o \in forgotten
        \/ k = "ended"     /\ result[o] /= "none"}

Places(o) ==
    ({"queue"} \X Queued(o)) \union ({"hand"} \X Carried(o))
    \union ({"put"} \X ToPut(o)) \union ({"buffer"} \X Buffered(o))
    \union ({"batch"} \X Batched(o)) \union ({"else"} \X Elsewhere(o))

\* No sequence holds an order twice.
Distinct(os) == \A i, j \in 1 .. Len(os) : os[i] = os[j] => i = j

NoRepeats ==
    /\ \A p \in Orders :
           /\ \A i, j \in 1 .. Len(putters[p]) :
                  putters[p][i].order = putters[p][j].order => i = j
           /\ Distinct(batches[p])
    /\ \A s \in Stocks : Distinct(buffer[s])
    /\ Distinct(seqQueue)

\* An order that was submitted is in exactly one place: it waits in one
\* container, once, or it has ended in one way. None is lost between the parts
\* and none is executed twice at a time, whatever mode it was submitted in.
OnePlace ==
    /\ \A o \in Orders : IF o \in submitted THEN \E x \in Places(o) : Places(o) = {x}
                                             ELSE Places(o) = {}
    /\ NoRepeats

\* Nothing is executed again once execute_order has answered success, raised or
\* been given up, and never more often than its retries allow.
NoResend ==
    [][\A o \in Orders : tries'[o] /= tries[o] => result[o] = "none" /\ tries[o] <= MaxRetries]_vars

\* An open breaker stays open until its timeout has passed, whatever the orders
\* answer that were accepted before it opened; then it first turns half open.
OpenUntilTimeout ==
    [][breaker = "open" /\ breaker' /= "open" => elapsed /\ breaker' = "half_open"]_vars

\* An order in the queue of a running pool ends, unless every worker waits for
\* room in that queue or the pool is stopped.
PoolDrains ==
    \A o \in Orders :
        (\E t \in queue : t.order = o) ~> (result[o] /= "none" \/ Wedged \/ shutdown)

-----------------------------------------------------------------------------
(* The invariants the proofs rest on.                                        *)

\* How the variables fit together: workers have a task while they execute or
\* put it back, nothing runs before start, and callers hold nothing before they
\* submit.
Shape ==
    /\ \A w \in Workers : hand[w] /= None <=> worker[w] \in {"execute", "put"}
    /\ seqTask = "execute" => seqQueue /= <<>>
    /\ phase = "new" => /\ pool = "none" /\ seqTask = "none"
                        /\ \A w \in Workers : worker[w] = "off"
    /\ \A o \in Orders \ submitted : putters[o] = <<>> /\ batches[o] = <<>>

\* How often an order was executed follows from where it is: a task of the pool
\* counts its retries, and only the head of a sequence is being executed.
UnsubmittedTries == \A o \in Orders \ submitted : tries[o] = 0

QueueTries == \A t \in queue : tries[t.order] = t.retries

HandTries ==
    \A w \in Workers :
        hand[w] /= None =>
            tries[hand[w].order] = hand[w].retries + IF worker[w] = "execute" THEN 1 ELSE 0

PutTries ==
    \A p \in Orders : \A i \in 1 .. Len(putters[p]) :
        putters[p][i].retries = 0 /\ tries[putters[p][i].order] = 0

BufferTries == \A s \in Stocks : \A i \in 1 .. Len(buffer[s]) : tries[buffer[s][i]] = 0

BatchTries ==
    \A p \in Orders : \A i \in 1 .. Len(batches[p]) :
        tries[batches[p][i]] = IF i = 1 THEN 1 ELSE 0

SequenceTries ==
    \A i \in 1 .. Len(seqQueue) :
        tries[seqQueue[i]] = IF i = 1 /\ seqTask = "execute" THEN 1 ELSE 0

TriesFollowPlace ==
    /\ UnsubmittedTries
    /\ QueueTries
    /\ HandTries
    /\ PutTries
    /\ BufferTries
    /\ BatchTries
    /\ SequenceTries

PipelineInv == TypeOK /\ Shape /\ OnePlace /\ TriesFollowPlace
=============================================================================
