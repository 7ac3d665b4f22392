------------------------ MODULE OrderPipelineProofs -------------------------
(* The order pipeline for any orders, stocks, workers, modes and bounds: the *)
(* timers of the batch aggregator, the circuit breaker, where each order is  *)
(* and how often it is executed.                                             *)
EXTENDS OrderPipelineOptimizer, FiniteSetTheorems, SequenceTheorems, TLAPS

-----------------------------------------------------------------------------
(* Timers and buffers.                                                       *)

BufferInv ==
    /\ buffer \in [Stocks -> Seq(Bufferable)]
    /\ timer \in [Stocks -> BOOLEAN]
    /\ TimerCoversBuffer

\* Emptying some buffers, and cancelling their timers, leaves none behind; a is
\* what the buffers held, and the others are as they were.
LEMMA EmptyCovers ==
    ASSUME BufferInv, NEW ss, NEW a \in [Stocks -> Seq(Bufferable)],
           \A s \in Stocks \ ss : a[s] = buffer[s],
           Empty(ss, a)
    PROVE  BufferInv'
<1>1. buffer' \in [Stocks -> Seq(Bufferable)]
  BY DEF Empty
<1>2. timer' \in [Stocks -> BOOLEAN]
  BY DEF Empty, BufferInv
<1>3. ASSUME NEW s \in Stocks PROVE timer'[s] <=> buffer'[s] /= <<>>
  <2>1. CASE s \in ss
    BY <2>1 DEF Empty
  <2>2. CASE s \notin ss
    BY <2>2 DEF Empty, BufferInv, TimerCoversBuffer
  <2> QED
    BY <2>1, <2>2
<1> QED
  BY <1>1, <1>2, <1>3 DEF BufferInv, TimerCoversBuffer

\* An order that joins a buffer starts its timer if it is the first, and empties
\* it if it is the last.
LEMMA AddOrderCovers ==
    ASSUME BufferInv, NEW o \in Orders, AddOrder(o)
    PROVE  BufferInv'
<1> DEFINE s == StockOf[o]
           os == Added(o)[s]
<1>1. o \in Bufferable /\ s \in Stocks
  BY PipelineAssumption, AggregatorAssumption
<1>2. /\ Added(o) \in [Stocks -> Seq(Bufferable)]
      /\ \A t \in Stocks \ {s} : Added(o)[t] = buffer[t]
      /\ os = Append(buffer[s], o)
  BY <1>1 DEF Added, BufferInv
<1>3. os /= <<>> /\ (Len(os) = 1 <=> buffer[s] = <<>>)
  <2>1. buffer[s] \in Seq(Bufferable)
    BY <1>1 DEF BufferInv
  <2> QED
    BY <1>1, <1>2, <2>1
<1>4. CASE Len(os) >= MaxBatch
  BY <1>1, <1>2, <1>4, EmptyCovers DEF AddOrder
<1>5. CASE ~(Len(os) >= MaxBatch)
  <2>1. buffer' = Added(o) /\ timer' = [timer EXCEPT ![s] = @ \/ Len(os) = 1]
    BY <1>5 DEF AddOrder
  <2>2. timer' \in [Stocks -> BOOLEAN]
    BY <2>1, <1>1 DEF BufferInv
  <2>3. timer'[s] <=> buffer'[s] /= <<>>
    <3>1. timer'[s] <=> timer[s] \/ Len(os) = 1
      BY <2>1, <1>1 DEF BufferInv
    <3>2. timer[s] <=> buffer[s] /= <<>>
      BY <1>1 DEF BufferInv, TimerCoversBuffer
    <3> QED
      BY <3>1, <3>2, <2>1, <1>3
  <2>4. ASSUME NEW t \in Stocks \ {s} PROVE timer'[t] <=> buffer'[t] /= <<>>
    BY <2>1, <2>4, <1>2 DEF BufferInv, TimerCoversBuffer
  <2> QED
    BY <2>1, <2>2, <2>3, <2>4, <1>2 DEF BufferInv, TimerCoversBuffer
<1> QED
  BY <1>4, <1>5

\* A step of the pipeline adds an order, empties buffers, or leaves them alone.
LEMMA BufferStep == BufferInv /\ [Next]_vars => BufferInv'
<1> SUFFICES ASSUME BufferInv, [Next]_vars PROVE BufferInv'
  OBVIOUS
<1>b. buffer \in [Stocks -> Seq(Bufferable)]
  BY DEF BufferInv
<1>f. ASSUME NEW ss, Flush(ss) PROVE BufferInv'
  BY <1>f, <1>b, EmptyCovers DEF Flush
<1>u. ASSUME UNCHANGED aggregatorVars PROVE BufferInv'
  BY <1>u DEF aggregatorVars, BufferInv, TimerCoversBuffer
<1>1. CASE EndStop
  BY <1>1, <1>f, <1>u DEF EndStop
<1>2. ASSUME NEW o \in Orders, SubmitOrder(o) PROVE BufferInv'
  <2>1. CASE AddOrder(o)
    BY <2>1, AddOrderCovers
  <2>2. CASE UNCHANGED <<buffer, timer>>
    BY <2>2 DEF BufferInv, TimerCoversBuffer
  <2>3. AddOrder(o) \/ UNCHANGED <<buffer, timer>>
    BY <1>2
       DEF SubmitOrder, Refuse, ToSequence, ToPool, ToAggregator, Vanishes,
           aggregatorVars
  <2> QED
    BY <2>1, <2>2, <2>3
<1>3. CASE AggregatorStep
  <2>1. ASSUME NEW s \in Stocks, TimerFires(s) PROVE BufferInv'
    BY <2>1, <1>b, EmptyCovers DEF TimerFires
  <2>2. ASSUME NEW ss \in SUBSET Stocks, FlushOld(ss) PROVE BufferInv'
    BY <2>2, <1>f DEF FlushOld
  <2> QED
    BY <1>3, <2>1, <2>2 DEF AggregatorStep
<1>4. CASE Start \/ BeginStop \/ (\E m \in Modes : SwitchMode(m)) \/ TimeoutElapses
  BY <1>4, <1>u DEF Start, BeginStop, SwitchMode, TimeoutElapses
<1>5. CASE PoolStep \/ (\E w \in Workers : PoolSucceeds(w) \/ PoolGivesUp(w))
  BY <1>5, <1>u DEF PoolStep, PoolSucceeds, PoolGivesUp
<1>6. CASE SeqGet \/ (\E r \in Executed : SeqFinished(r))
           \/ (\E o \in Orders, r \in Executed : BatchFinished(o, r))
  BY <1>6, <1>u DEF SeqGet, SeqFinished, BatchFinished
<1>7. CASE UNCHANGED vars
  BY <1>7, <1>u DEF vars
<1> QED
  BY <1>1, <1>2, <1>3, <1>4, <1>5, <1>6, <1>7 DEF Next

\* Whatever fills, fires, flushes or switches the pipeline, a stock has a timer
\* exactly while orders of it are buffered: none waits for a batch for ever, and
\* no timer of a batch that is gone fires into the next one.
THEOREM BufferedOrdersTimed == Spec => []TimerCoversBuffer
<1>1. Init => BufferInv
  BY DEF Init, AggregatorInit, BufferInv, TimerCoversBuffer
<1>2. BufferInv => TimerCoversBuffer
  BY DEF BufferInv
<1> QED
  BY <1>1, <1>2, BufferStep, PTL DEF Spec

-----------------------------------------------------------------------------
(* The circuit breaker.                                                      *)

StaysOpen == breaker = "open" /\ breaker' /= "open" => elapsed /\ breaker' = "half_open"

\* Recording an outcome never moves an open breaker; only the question of a new
\* order does, and only after the timeout.
LEMMA BreakerStep == [Next]_vars => StaysOpen
<1> SUFFICES ASSUME [Next]_vars PROVE StaysOpen
  OBVIOUS
<1>r. ASSUME NEW n, RecordFailures(n) PROVE StaysOpen
  BY <1>r DEF RecordFailures, StaysOpen
<1>s. ASSUME RecordSuccess PROVE StaysOpen
  BY <1>s DEF RecordSuccess, StaysOpen
<1>u. ASSUME UNCHANGED breaker PROVE StaysOpen
  BY <1>u DEF StaysOpen
<1>1. ASSUME NEW o \in Orders, SubmitOrder(o) PROVE StaysOpen
  BY <1>1 DEF SubmitOrder, AskBreaker, StaysOpen
<1>2. CASE \E w \in Workers : PoolSucceeds(w) \/ PoolGivesUp(w)
  BY <1>2, <1>r, <1>s DEF PoolSucceeds, PoolGivesUp
<1>3. ASSUME NEW r \in Executed, SeqFinished(r) PROVE StaysOpen
  BY <1>3, <1>r, <1>s, <1>u DEF SeqFinished, Executed, breakerVars
<1>4. CASE Start \/ BeginStop \/ EndStop \/ (\E m \in Modes : SwitchMode(m))
           \/ TimeoutElapses
  BY <1>4, <1>u DEF Start, BeginStop, EndStop, SwitchMode, TimeoutElapses, breakerVars
<1>5. CASE PoolStep \/ AggregatorStep \/ SeqGet
           \/ (\E o \in Orders, r \in Executed : BatchFinished(o, r))
  BY <1>5, <1>u DEF PoolStep, AggregatorStep, SeqGet, BatchFinished, breakerVars
<1>6. CASE UNCHANGED vars
  BY <1>6, <1>u DEF vars, breakerVars
<1> QED
  BY <1>1, <1>2, <1>3, <1>4, <1>5, <1>6 DEF Next

\* An open breaker stays open until its timeout, although orders accepted before
\* it opened succeed or fail meanwhile, and then turns half open first.
THEOREM BreakerHolds == Spec => OpenUntilTimeout
<1>1. [Next]_vars => (breaker = "open" /\ breaker' /= "open"
                      => elapsed /\ breaker' = "half_open")
  BY BreakerStep DEF StaysOpen
<1> QED
  BY <1>1, PTL DEF Spec, OpenUntilTimeout

-----------------------------------------------------------------------------
(* Sequences that hold no order twice.                                       *)

\* Taking the head of a sequence takes exactly that order out of it.
LEMMA TailDistinct ==
    ASSUME NEW S, NEW os \in Seq(S), os /= <<>>, Distinct(os)
    PROVE  /\ Head(os) \in S /\ Head(os) \in Members(os)
           /\ Tail(os) \in Seq(S) /\ Distinct(Tail(os))
           /\ Members(Tail(os)) = Members(os) \ {Head(os)}
<1> DEFINE n == Len(os)
           r == Tail(os)
<1>1. /\ n \in Nat /\ n >= 1 /\ Head(os) = os[1] /\ os[1] \in S
      /\ r \in Seq(S) /\ Len(r) = n - 1
      /\ \A i \in 1 .. n - 1 : r[i] = os[i + 1]
  OBVIOUS
<1> HIDE DEF r
<1>2. Distinct(r)
  <2> SUFFICES ASSUME NEW i \in 1 .. n - 1, NEW j \in 1 .. n - 1, r[i] = r[j]
               PROVE  i = j
    BY <1>1 DEF Distinct
  <2>1. os[i + 1] = os[j + 1] /\ i + 1 \in 1 .. n /\ j + 1 \in 1 .. n
    BY <1>1
  <2>2. i + 1 = j + 1
    BY <2>1 DEF Distinct
  <2> QED
    BY <1>1, <2>2
<1>3. Members(r) = Members(os) \ {os[1]}
  <2>1. ASSUME NEW i \in 1 .. n - 1 PROVE r[i] \in Members(os) /\ r[i] /= os[1]
    <3>1. i + 1 \in 1 .. n /\ 1 \in 1 .. n /\ i + 1 /= 1 /\ r[i] = os[i + 1]
      BY <1>1
    <3> QED
      BY <3>1 DEF Members, Distinct
  <2>2. ASSUME NEW i \in 1 .. n, os[i] /= os[1] PROVE os[i] \in Members(r)
    <3>1. i - 1 \in 1 .. n - 1 /\ (i - 1) + 1 = i
      BY <2>2, <1>1
    <3>2. r[i - 1] = os[i]
      BY <3>1, <1>1
    <3> QED
      BY <3>1, <3>2, <1>1 DEF Members
  <2> QED
    BY <2>1, <2>2, <1>1 DEF Members
<1>4. os[1] \in Members(os)
  BY <1>1 DEF Members
<1> QED
  BY <1>1, <1>2, <1>3, <1>4 DEF r

\* The same for the tasks of a caller, told apart by their orders.
LEMMA TailTasks ==
    ASSUME NEW ts \in Seq(Tasks), ts /= <<>>,
           \A i, j \in 1 .. Len(ts) : ts[i].order = ts[j].order => i = j
    PROVE  /\ Head(ts) = ts[1] /\ 1 \in 1 .. Len(ts)
           /\ \A i \in 1 .. Len(Tail(ts)) :
                  Tail(ts)[i] = ts[i + 1] /\ i + 1 \in 1 .. Len(ts)
           /\ \A i, j \in 1 .. Len(Tail(ts)) :
                  Tail(ts)[i].order = Tail(ts)[j].order => i = j
           /\ \A o : (\E i \in 1 .. Len(Tail(ts)) : Tail(ts)[i].order = o)
                    <=> /\ o /= Head(ts).order
                        /\ \E i \in 1 .. Len(ts) : ts[i].order = o
<1> DEFINE n == Len(ts)
           r == Tail(ts)
<1>1. /\ n \in Nat /\ n >= 1 /\ Head(ts) = ts[1] /\ Len(r) = n - 1
      /\ \A i \in 1 .. n - 1 : r[i] = ts[i + 1]
  OBVIOUS
<1> HIDE DEF r
<1>2. 1 \in 1 .. n /\ \A i \in 1 .. n - 1 : i + 1 \in 1 .. n /\ i + 1 /= 1
  BY <1>1
<1>3. ASSUME NEW i \in 1 .. n - 1, NEW j \in 1 .. n - 1, r[i].order = r[j].order
      PROVE  i = j
  <2>1. i + 1 = j + 1
    BY <1>1, <1>2, <1>3
  <2> QED
    BY <2>1, <1>1
<1>4. \A i \in 1 .. n - 1 : r[i].order /= ts[1].order
  BY <1>1, <1>2
<1>5. ASSUME NEW i \in 1 .. n, ts[i].order /= ts[1].order
      PROVE  \E j \in 1 .. n - 1 : r[j].order = ts[i].order
  <2>1. i - 1 \in 1 .. n - 1 /\ (i - 1) + 1 = i
    BY <1>1, <1>5
  <2>2. r[i - 1] = ts[i]
    BY <2>1, <1>1
  <2> QED
    BY <2>1, <2>2
<1>6. ASSUME NEW i \in 1 .. n - 1
      PROVE  r[i].order /= ts[1].order /\ \E j \in 1 .. n : ts[j].order = r[i].order
  BY <1>1, <1>2, <1>4
<1>7. \A o : (\E i \in 1 .. n - 1 : r[i].order = o)
            => o /= ts[1].order /\ \E i \in 1 .. n : ts[i].order = o
  BY <1>6
<1>8. \A o : o /= ts[1].order /\ (\E i \in 1 .. n : ts[i].order = o)
            => \E i \in 1 .. n - 1 : r[i].order = o
  BY <1>5
<1> QED
  BY <1>1, <1>2, <1>3, <1>7, <1>8 DEF r

\* A new order joins a sequence at its end.
LEMMA AppendDistinct ==
    ASSUME NEW S, NEW os \in Seq(S), NEW o \in S, Distinct(os), o \notin Members(os)
    PROVE  /\ Append(os, o) \in Seq(S) /\ Append(os, o) /= <<>>
           /\ Distinct(Append(os, o))
           /\ Members(Append(os, o)) = Members(os) \union {o}
           /\ Len(Append(os, o)) = Len(os) + 1
           /\ Append(os, o)[Len(os) + 1] = o
           /\ \A i \in 1 .. Len(os) : Append(os, o)[i] = os[i]
<1> DEFINE n == Len(os)
           r == Append(os, o)
<1>1. /\ n \in Nat /\ r \in Seq(S) /\ Len(r) = n + 1 /\ r[n + 1] = o
      /\ \A i \in 1 .. n : r[i] = os[i]
  OBVIOUS
<1>2. r /= <<>>
  BY <1>1
<1> HIDE DEF r
<1>3. \A i \in 1 .. n + 1 : i = n + 1 \/ i \in 1 .. n
  BY <1>1
<1>4. \A i \in 1 .. n : os[i] /= o
  BY DEF Members
<1>5. Distinct(r)
  BY <1>1, <1>3, <1>4 DEF Distinct
<1>6. Members(r) = Members(os) \union {o}
  <2>1. Members(r) = {r[i] : i \in 1 .. n + 1}
    BY <1>1 DEF Members
  <2>2. n + 1 \in 1 .. n + 1 /\ \A i \in 1 .. n : i \in 1 .. n + 1
    BY <1>1
  <2> QED
    BY <2>1, <2>2, <1>1, <1>3 DEF Members
<1> QED
  BY <1>1, <1>2, <1>5, <1>6 DEF r

\* The positions of a set are counted from one to its size.
LEMMA NthCounts ==
    ASSUME NEW n \in Nat, NEW I \in SUBSET (1 .. n)
    PROVE  /\ Cardinality(I) \in Nat
           /\ \A k \in 1 .. Cardinality(I) : Nth(I, k) \in I
           /\ \A k, l \in 1 .. Cardinality(I) : Nth(I, k) = Nth(I, l) => k = l
           /\ \A i \in I : \E k \in 1 .. Cardinality(I) : Nth(I, k) = i
<1> DEFINE c == Cardinality(I)
           rank == [i \in I |-> Cardinality({j \in I : j <= i})]
<1>0. I \subseteq Nat
  OBVIOUS
<1>1. IsFiniteSet(I) /\ c \in Nat
  <2>1. IsFiniteSet(1 .. n)
    BY FS_Interval
  <2>2. IsFiniteSet(I)
    BY <2>1, FS_Subset
  <2> QED
    BY <2>2, FS_CardinalityType
<1>2. ASSUME NEW i \in I PROVE rank[i] \in 1 .. c
  <2> DEFINE upTo == {j \in I : j <= i}
  <2>1. upTo \in SUBSET I /\ i \in upTo
    OBVIOUS
  <2>2. IsFiniteSet(upTo) /\ Cardinality(upTo) <= c
    BY <2>1, <1>1, FS_Subset
  <2>3. Cardinality(upTo) \in Nat /\ Cardinality(upTo) /= 0
    BY <2>1, <2>2, FS_CardinalityType, FS_EmptySet
  <2> QED
    BY <2>2, <2>3, <1>1
<1>3. ASSUME NEW i \in I, NEW j \in I, i < j PROVE rank[i] /= rank[j]
  <2> DEFINE lower == {k \in I : k <= i}
             upper == {k \in I : k <= j}
  <2>1. lower \in SUBSET upper /\ j \in upper /\ j \notin lower /\ upper \in SUBSET I
    <3>1. \A k \in I : k <= i => k <= j
      BY <1>0, <1>3
    <3>2. j <= j /\ ~(j <= i)
      BY <1>0, <1>3
    <3> QED
      BY <3>1, <3>2
  <2>2. IsFiniteSet(upper)
    BY <2>1, <1>1, FS_Subset
  <2>3. Cardinality(upper) = Cardinality(lower) => upper = lower
    BY <2>1, <2>2, FS_Subset
  <2> QED
    BY <2>1, <2>3
<1>4. rank \in Injection(I, 1 .. c)
  <2>1. \A i, j \in I : i < j \/ i = j \/ j < i
    BY <1>0
  <2> HIDE DEF rank
  <2>2. \A i, j \in I : rank[i] = rank[j] => i = j
    BY <2>1, <1>3
  <2>3. rank \in [I -> 1 .. c]
    BY <1>2 DEF rank
  <2> QED
    BY <2>2, <2>3 DEF Injection, IsInjective
<1>5. rank \in Surjection(I, 1 .. c)
  <2>1. IsFiniteSet(1 .. c) /\ Cardinality(1 .. c) = c
    BY <1>1, FS_Interval
  <2> QED
    BY <2>1, <1>4, FS_Injection
<1>6. \A i, j \in I : rank[i] = rank[j] => i = j
  BY <1>4 DEF Injection, IsInjective
<1>7. \A k \in 1 .. c : \E i \in I : rank[i] = k
  BY <1>5 DEF Surjection
<1>8. \A k : Nth(I, k) = CHOOSE i \in I : rank[i] = k
  BY DEF Nth
<1>9. \A k \in 1 .. c : Nth(I, k) \in I /\ rank[Nth(I, k)] = k
  BY <1>7, <1>8
<1> HIDE DEF rank
<1>10. \A i \in I : Nth(I, rank[i]) = i
  BY <1>2, <1>6, <1>9
<1> QED
  BY <1>1, <1>2, <1>9, <1>10

\* A buffer is divided between the first batch, the others and no batch.
LEMMA BatchDivides ==
    ASSUME NEW S, NEW os \in Seq(S), Distinct(os)
    PROVE  /\ FirstBatch(os) \in Seq(S) /\ Distinct(FirstBatch(os))
           /\ Members(FirstBatch(os)) \intersect LaterBatches(os) = {}
           /\ Members(FirstBatch(os)) \intersect Ungrouped(os) = {}
           /\ LaterBatches(os) \intersect Ungrouped(os) = {}
           /\ Members(os) = Members(FirstBatch(os)) \union LaterBatches(os)
                            \union Ungrouped(os)
           /\ Grouped(os) = Members(FirstBatch(os)) \union LaterBatches(os)
<1> DEFINE n == Len(os)
           I == FirstAt(os)
           G == GroupedAt(os)
           b == FirstBatch(os)
<1>1. n \in Nat /\ I \in SUBSET G /\ G \in SUBSET (1 .. n)
  BY DEF FirstAt, GroupedAt
<1>2. /\ Cardinality(I) \in Nat
      /\ \A k \in 1 .. Cardinality(I) : Nth(I, k) \in I
      /\ \A k, l \in 1 .. Cardinality(I) : Nth(I, k) = Nth(I, l) => k = l
      /\ \A i \in I : \E k \in 1 .. Cardinality(I) : Nth(I, k) = i
  BY <1>1, NthCounts
<1>3. b = [k \in 1 .. Cardinality(I) |-> os[Nth(I, k)]]
  BY DEF FirstBatch
<1>4. \A i \in 1 .. n : os[i] \in S
  OBVIOUS
<1>5. \A i, j \in 1 .. n : os[i] = os[j] => i = j
  BY DEF Distinct
<1> HIDE DEF I, G, b, n
<1>6. b \in Seq(S) /\ Len(b) = Cardinality(I)
  <2>1. \A k \in 1 .. Cardinality(I) : os[Nth(I, k)] \in S
    BY <1>1, <1>2, <1>4
  <2> QED
    BY <2>1, <1>2, <1>3
<1>7. Distinct(b)
  <2> SUFFICES ASSUME NEW k \in 1 .. Cardinality(I), NEW l \in 1 .. Cardinality(I),
                      b[k] = b[l]
               PROVE  k = l
    BY <1>6 DEF Distinct
  <2>1. os[Nth(I, k)] = os[Nth(I, l)]
    BY <1>3
  <2>2. Nth(I, k) = Nth(I, l)
    BY <2>1, <1>1, <1>2, <1>5
  <2> QED
    BY <2>2, <1>2
<1>8. Members(b) = {os[i] : i \in I}
  <2>1. \A k \in 1 .. Cardinality(I) : b[k] \in {os[i] : i \in I}
    BY <1>2, <1>3
  <2>2. ASSUME NEW i \in I PROVE os[i] \in Members(b)
    <3>1. PICK k \in 1 .. Cardinality(I) : Nth(I, k) = i
      BY <1>2
    <3>2. b[k] = os[i]
      BY <3>1, <1>3
    <3> QED
      BY <3>2, <1>6 DEF Members
  <2> QED
    BY <2>1, <2>2, <1>6 DEF Members
<1>9. /\ LaterBatches(os) = {os[i] : i \in G \ I}
      /\ Ungrouped(os) = {os[i] : i \in (1 .. n) \ G}
      /\ Grouped(os) = {os[i] : i \in G}
      /\ Members(os) = {os[i] : i \in 1 .. n}
  BY DEF LaterBatches, Ungrouped, Grouped, Members, G, I, n
<1> QED
  BY <1>1, <1>5, <1>6, <1>7, <1>8, <1>9 DEF b

-----------------------------------------------------------------------------
(* Places.                                                                   *)

Single(S) == \E x : S = {x}

\* The places an order has when the six kinds of container hold it so.
Spread(q, h, p, b, t, e) ==
    ({"queue"} \X q) \union ({"hand"} \X h)
    \union ({"put"} \X p) \union ({"buffer"} \X b)
    \union ({"batch"} \X t) \union ({"else"} \X e)

NoneOf(q, h, p, b, t, e) ==
    q = {} /\ h = {} /\ p = {} /\ b = {} /\ t = {} /\ e = {}

OneOf(q, h, p, b, t, e) ==
    \/ Single(q) /\ h = {} /\ p = {} /\ b = {} /\ t = {} /\ e = {}
    \/ q = {} /\ Single(h) /\ p = {} /\ b = {} /\ t = {} /\ e = {}
    \/ q = {} /\ h = {} /\ Single(p) /\ b = {} /\ t = {} /\ e = {}
    \/ q = {} /\ h = {} /\ p = {} /\ Single(b) /\ t = {} /\ e = {}
    \/ q = {} /\ h = {} /\ p = {} /\ b = {} /\ Single(t) /\ e = {}
    \/ q = {} /\ h = {} /\ p = {} /\ b = {} /\ t = {} /\ Single(e)

\* There is one place exactly if one kind of container holds the order, once.
LEMMA SpreadOne ==
    ASSUME NEW q, NEW h, NEW p, NEW b, NEW t, NEW e
    PROVE  /\ Spread(q, h, p, b, t, e) = {} <=> NoneOf(q, h, p, b, t, e)
           /\ (\E x \in Spread(q, h, p, b, t, e) : Spread(q, h, p, b, t, e) = {x})
              <=> OneOf(q, h, p, b, t, e)
<1> DEFINE s == Spread(q, h, p, b, t, e)
<1>1. \A x : x \in s <=> \/ \E y \in q : x = <<"queue", y>>
                         \/ \E y \in h : x = <<"hand", y>>
                         \/ \E y \in p : x = <<"put", y>>
                         \/ \E y \in b : x = <<"buffer", y>>
                         \/ \E y \in t : x = <<"batch", y>>
                         \/ \E y \in e : x = <<"else", y>>
  BY DEF Spread
<1> HIDE DEF s
<1>2. s = {} <=> NoneOf(q, h, p, b, t, e)
  BY <1>1 DEF NoneOf
<1>3. ASSUME NEW x \in s, s = {x} PROVE OneOf(q, h, p, b, t, e)
  <2>1. /\ \A y \in q : x[1] = "queue" /\ x[2] = y
        /\ \A y \in h : x[1] = "hand" /\ x[2] = y
        /\ \A y \in p : x[1] = "put" /\ x[2] = y
        /\ \A y \in b : x[1] = "buffer" /\ x[2] = y
        /\ \A y \in t : x[1] = "batch" /\ x[2] = y
        /\ \A y \in e : x[1] = "else" /\ x[2] = y
    <3>1. \A z \in s : z = x
      BY <1>3
    <3>2. \A y \in q : <<"queue", y>> = x
      BY <3>1, <1>1
    <3>3. \A y \in h : <<"hand", y>> = x
      BY <3>1, <1>1
    <3>4. \A y \in p : <<"put", y>> = x
      BY <3>1, <1>1
    <3>5. \A y \in b : <<"buffer", y>> = x
      BY <3>1, <1>1
    <3>6. \A y \in t : <<"batch", y>> = x
      BY <3>1, <1>1
    <3>7. \A y \in e : <<"else", y>> = x
      BY <3>1, <1>1
    <3>8. \A k, y : <<k, y>> = x => x[1] = k /\ x[2] = y
      OBVIOUS
    <3> QED
      BY <3>2, <3>3, <3>4, <3>5, <3>6, <3>7, <3>8
  <2>2. \A S : S /= {} /\ (\A y \in S : x[2] = y) => Single(S)
    BY DEF Single
  <2>3. ~NoneOf(q, h, p, b, t, e)
    BY <1>2, <1>3
  <2> QED
    BY <2>1, <2>2, <2>3 DEF OneOf, NoneOf
<1>4. ASSUME OneOf(q, h, p, b, t, e) PROVE \E x \in s : s = {x}
  <2>1. CASE Single(q) /\ h = {} /\ p = {} /\ b = {} /\ t = {} /\ e = {}
    <3>1. PICK y : q = {y}
      BY <2>1 DEF Single
    <3>2. s = {<<"queue", y>>}
      BY <3>1, <2>1, <1>1
    <3> QED
      BY <3>2
  <2>2. CASE q = {} /\ Single(h) /\ p = {} /\ b = {} /\ t = {} /\ e = {}
    <3>1. PICK y : h = {y}
      BY <2>2 DEF Single
    <3>2. s = {<<"hand", y>>}
      BY <3>1, <2>2, <1>1
    <3> QED
      BY <3>2
  <2>3. CASE q = {} /\ h = {} /\ Single(p) /\ b = {} /\ t = {} /\ e = {}
    <3>1. PICK y : p = {y}
      BY <2>3 DEF Single
    <3>2. s = {<<"put", y>>}
      BY <3>1, <2>3, <1>1
    <3> QED
      BY <3>2
  <2>4. CASE q = {} /\ h = {} /\ p = {} /\ Single(b) /\ t = {} /\ e = {}
    <3>1. PICK y : b = {y}
      BY <2>4 DEF Single
    <3>2. s = {<<"buffer", y>>}
      BY <3>1, <2>4, <1>1
    <3> QED
      BY <3>2
  <2>5. CASE q = {} /\ h = {} /\ p = {} /\ b = {} /\ Single(t) /\ e = {}
    <3>1. PICK y : t = {y}
      BY <2>5 DEF Single
    <3>2. s = {<<"batch", y>>}
      BY <3>1, <2>5, <1>1
    <3> QED
      BY <3>2
  <2>6. CASE q = {} /\ h = {} /\ p = {} /\ b = {} /\ t = {} /\ Single(e)
    <3>1. PICK y : e = {y}
      BY <2>6 DEF Single
    <3>2. s = {<<"else", y>>}
      BY <3>1, <2>6, <1>1
    <3> QED
      BY <3>2
  <2> QED
    BY <1>4, <2>1, <2>2, <2>3, <2>4, <2>5, <2>6 DEF OneOf
<1> QED
  BY <1>2, <1>3, <1>4 DEF s

\* An order is where it should be: in one place once it was submitted.
Placed(o) ==
    IF o \in submitted
    THEN OneOf(Queued(o), Carried(o), ToPut(o), Buffered(o), Batched(o), Elsewhere(o))
    ELSE NoneOf(Queued(o), Carried(o), ToPut(o), Buffered(o), Batched(o), Elsewhere(o))

\* OnePlace in the terms of this module: each order is placed, and nothing is
\* repeated.
LEMMA PlacedOnce == OnePlace <=> (\A o \in Orders : Placed(o)) /\ NoRepeats
<1>1. \A o : Places(o) = Spread(Queued(o), Carried(o), ToPut(o), Buffered(o),
                                Batched(o), Elsewhere(o))
  BY DEF Places, Spread
<1> QED
  BY <1>1, SpreadOne DEF OnePlace, Placed

\* The same after a step.
LEMMA PlacedOnceNext ==
    ASSUME \A o \in Orders : Placed(o)', NoRepeats'
    PROVE  OnePlace'
<1>1. \A o : Places(o)' = Spread(Queued(o)', Carried(o)', ToPut(o)', Buffered(o)',
                                 Batched(o)', Elsewhere(o)')
  BY DEF Places, Spread
<1> QED
  BY <1>1, SpreadOne DEF OnePlace, Placed

\* Whatever holds an order is the only thing that does.
LEMMA HeldOnce ==
    ASSUME NEW o \in Orders, Placed(o)
    PROVE  /\ \A x \in Queued(o) :
                  /\ o \in submitted /\ Queued(o) = {x} /\ Carried(o) = {} /\ ToPut(o) = {}
                  /\ Buffered(o) = {} /\ Batched(o) = {} /\ Elsewhere(o) = {}
           /\ \A x \in Carried(o) :
                  /\ o \in submitted /\ Queued(o) = {} /\ Carried(o) = {x} /\ ToPut(o) = {}
                  /\ Buffered(o) = {} /\ Batched(o) = {} /\ Elsewhere(o) = {}
           /\ \A x \in ToPut(o) :
                  /\ o \in submitted /\ Queued(o) = {} /\ Carried(o) = {} /\ ToPut(o) = {x}
                  /\ Buffered(o) = {} /\ Batched(o) = {} /\ Elsewhere(o) = {}
           /\ \A x \in Buffered(o) :
                  /\ o \in submitted /\ Queued(o) = {} /\ Carried(o) = {} /\ ToPut(o) = {}
                  /\ Buffered(o) = {x} /\ Batched(o) = {} /\ Elsewhere(o) = {}
           /\ \A x \in Batched(o) :
                  /\ o \in submitted /\ Queued(o) = {} /\ Carried(o) = {} /\ ToPut(o) = {}
                  /\ Buffered(o) = {} /\ Batched(o) = {x} /\ Elsewhere(o) = {}
           /\ \A x \in Elsewhere(o) :
                  /\ o \in submitted /\ Queued(o) = {} /\ Carried(o) = {} /\ ToPut(o) = {}
                  /\ Buffered(o) = {} /\ Batched(o) = {} /\ Elsewhere(o) = {x}
BY DEF Placed, OneOf, NoneOf, Single

-----------------------------------------------------------------------------
(* Steps of the pipeline.                                                    *)

\* What the buffer of its stock is when order o joins it.
Joined(o) == Append(buffer[StockOf[o]], o)

\* A new order is not buffered yet; if it fills the buffer, its caller takes the
\* first batch.
LEMMA AddedBatch ==
    ASSUME PipelineInv, NEW o \in Orders, o \notin submitted
    PROVE  /\ StockOf[o] \in Stocks /\ o \in Bufferable
           /\ Added(o) = [buffer EXCEPT ![StockOf[o]] = Joined(o)]
           /\ Added(o)[StockOf[o]] = Joined(o)
           /\ Joined(o) \in Seq(Orders) /\ Joined(o) /= <<>> /\ Distinct(Joined(o))
           /\ Members(Joined(o)) = Members(buffer[StockOf[o]]) \union {o}
           /\ o \notin Members(buffer[StockOf[o]])
           /\ Batch(o) = IF Len(Joined(o)) >= MaxBatch THEN FirstBatch(Joined(o)) ELSE <<>>
           /\ Batch(o) \in Seq(Orders) /\ Distinct(Batch(o))
           /\ Members(Batch(o)) \subseteq Members(Joined(o))
<1> DEFINE s == StockOf[o]
<1>1. o \in Bufferable /\ s \in Stocks
  BY PipelineAssumption, AggregatorAssumption
<1>2. buffer \in [Stocks -> Seq(Orders)] /\ buffer[s] \in Seq(Orders)
  BY <1>1, PipelineAssumption DEF PipelineInv, TypeOK, AggregatorTypeOK
<1>3. Added(o) = [buffer EXCEPT ![s] = Joined(o)] /\ Added(o)[s] = Joined(o)
  BY <1>1, <1>2 DEF Added, Joined
<1>4. o \notin Members(buffer[s]) /\ Distinct(buffer[s])
  <2>1. Placed(o) /\ NoRepeats
    BY PlacedOnce DEF PipelineInv
  <2>2. Buffered(o) = {}
    BY <2>1 DEF Placed, NoneOf
  <2> QED
    BY <2>1, <2>2, <1>1 DEF Buffered, NoRepeats
<1>5. /\ Joined(o) \in Seq(Orders) /\ Joined(o) /= <<>> /\ Distinct(Joined(o))
      /\ Members(Joined(o)) = Members(buffer[s]) \union {o}
  BY <1>2, <1>4, AppendDistinct DEF Joined
<1>6. Batch(o) = IF Len(Joined(o)) >= MaxBatch THEN FirstBatch(Joined(o)) ELSE <<>>
  BY <1>3 DEF Batch
<1>7. /\ FirstBatch(Joined(o)) \in Seq(Orders) /\ Distinct(FirstBatch(Joined(o)))
      /\ Members(FirstBatch(Joined(o))) \subseteq Members(Joined(o))
  BY <1>5, BatchDivides
<1>8. <<>> \in Seq(Orders) /\ Distinct(<<>>) /\ Members(<<>>) = {}
  BY DEF Distinct, Members
<1> HIDE DEF s
<1> QED
  BY <1>1, <1>3, <1>4, <1>5, <1>6, <1>7, <1>8 DEF s

\* The ways submit_order takes with an order.
LEMMA SubmitCases ==
    ASSUME NEW o \in Orders, SubmitOrder(o)
    PROVE  /\ o \notin submitted /\ submitted' = submitted \union {o} /\ AskBreaker
           /\ UNCHANGED <<phase, mode, aggregator, seqTask>>
           /\ \/ Refuse(o) \/ ToSequence(o) \/ ToAggregator(o) \/ Vanishes(o)
              \/ \E n \in Nat :
                     /\ Submit(o, <<o>>, n)
                     /\ UNCHANGED <<pool, shutdown, queue, worker, hand, tries, result,
                                    aggregatorVars, seqQueue, batches>>
<1>1. ASSUME NEW n \in Nat, ToPool(o, n)
      PROVE  Refuse(o) \/ /\ Submit(o, <<o>>, n)
                          /\ UNCHANGED <<pool, shutdown, queue, worker, hand, tries,
                                         result, aggregatorVars, seqQueue, batches>>
  BY <1>1 DEF ToPool
<1>2. /\ o \notin submitted /\ submitted' = submitted \union {o} /\ AskBreaker
      /\ UNCHANGED <<phase, mode, aggregator, seqTask>>
  BY DEF SubmitOrder
<1>3. \/ Refuse(o) \/ ToSequence(o) \/ ToAggregator(o) \/ Vanishes(o)
      \/ ToPool(o, 5) \/ ToPool(o, 0)
  BY DEF SubmitOrder
<1> QED
  BY <1>1, <1>2, <1>3

\* The tasks a caller has to put are its orders, not tried yet.
LEMMA SubmitEffect ==
    ASSUME PipelineInv, NEW o \in Orders, NEW os \in Seq(Orders), NEW n \in Nat,
           Submit(o, os, n)
    PROVE  /\ putters' \in [Orders -> Seq(Tasks)] /\ registered' \in Nat
           /\ \A p \in Orders : p /= o => putters'[p] = putters[p]
           /\ Len(putters'[o]) = Len(os)
           /\ \A i \in 1 .. Len(os) :
                  putters'[o][i].order = os[i] /\ putters'[o][i].retries = 0
<1> DEFINE ts == [i \in 1 .. Len(os) |-> [order |-> os[i], priority |-> n, retries |-> 0]]
<1>1. putters \in [Orders -> Seq(Tasks)] /\ registered \in Nat
  BY DEF PipelineInv, TypeOK, PoolTypeOK
<1>2. \A i \in 1 .. Len(os) : [order |-> os[i], priority |-> n, retries |-> 0] \in Tasks
  BY PoolAssumption DEF Tasks
<1>3. ts \in Seq(Tasks) /\ Len(ts) = Len(os)
  BY <1>2
<1>4. \A i \in 1 .. Len(os) : ts[i].order = os[i] /\ ts[i].retries = 0
  OBVIOUS
<1>5. putters' = [putters EXCEPT ![o] = ts] /\ registered' = registered + 1
  BY DEF Submit
<1> HIDE DEF ts
<1> QED
  BY <1>1, <1>3, <1>4, <1>5

-----------------------------------------------------------------------------
(* Types.                                                                    *)

QueueType == queue \subseteq Tasks /\ IsFiniteSet(queue) /\ Cardinality(queue) <= MaxQueue

PipelineTypes ==
    /\ phase \in {"new", "running", "stopping", "stopped"}
    /\ mode \in Modes
    /\ aggregator \in BOOLEAN
    /\ submitted \subseteq Orders
    /\ seqQueue \in Seq(Orders)
    /\ seqTask \in {"none", "get", "execute", "ended"}
    /\ batches \in [Orders -> Seq(Orders)]

BreakerTypes ==
    /\ breaker \in {"closed", "open", "half_open"}
    /\ failures \in 0 .. Threshold
    /\ elapsed \in BOOLEAN

\* The queue takes a task only if there is room.
LEMMA QueueGrows ==
    ASSUME QueueType, NEW x \in Tasks, ~Full, queue' = queue \union {x}
    PROVE  QueueType'
<1>1. Cardinality(queue) \in Nat /\ MaxQueue \in Nat
  BY FS_CardinalityType, PoolAssumption DEF QueueType
<1>2. /\ IsFiniteSet(queue \union {x})
      /\ Cardinality(queue \union {x}) = IF x \in queue THEN Cardinality(queue)
                                                        ELSE Cardinality(queue) + 1
  BY FS_AddElement DEF QueueType
<1> QED
  BY <1>1, <1>2 DEF QueueType, Full

\* A queue that loses tasks keeps its type.
LEMMA QueueShrinks ==
    ASSUME QueueType, queue' \in SUBSET queue
    PROVE  QueueType'
<1>1. IsFiniteSet(queue') /\ Cardinality(queue') <= Cardinality(queue)
  BY FS_Subset DEF QueueType
<1>2. Cardinality(queue) \in Nat /\ Cardinality(queue') \in Nat /\ MaxQueue \in Nat
  BY <1>1, FS_CardinalityType, PoolAssumption DEF QueueType
<1> QED
  BY <1>1, <1>2 DEF QueueType

\* An order joins a buffer, or the buffer is divided.
LEMMA AggregatorGrows ==
    ASSUME PipelineInv, NEW o \in Orders, o \notin submitted, AddOrder(o)
    PROVE  AggregatorTypeOK'
<1> DEFINE s == StockOf[o]
<1>1. /\ s \in Stocks /\ Added(o)[s] = Joined(o)
      /\ Added(o) = [buffer EXCEPT ![s] = Joined(o)]
      /\ Joined(o) \in Seq(Orders) /\ Distinct(Joined(o))
      /\ Members(Joined(o)) \subseteq Orders
  <2>1. \A os \in Seq(Orders) : Members(os) \subseteq Orders
    BY DEF Members
  <2> QED
    BY <2>1, AddedBatch
<1>2. /\ LaterBatches(Joined(o)) \subseteq Orders /\ Ungrouped(Joined(o)) \subseteq Orders
  BY <1>1, BatchDivides
<1>3. /\ Added(o) \in [Stocks -> Seq(Bufferable)] /\ timer \in [Stocks -> BOOLEAN]
      /\ ready \subseteq Bufferable /\ forgotten \subseteq Bufferable
  BY <1>1, PipelineAssumption DEF PipelineInv, TypeOK, AggregatorTypeOK
<1>4. CASE Len(Joined(o)) >= MaxBatch
  <2>1. /\ Empty({s}, Added(o))
        /\ ready' = ready \union LaterBatches(Joined(o))
        /\ forgotten' = forgotten \union Ungrouped(Joined(o))
    BY <1>1, <1>4 DEF AddOrder
  <2>2. buffer' \in [Stocks -> Seq(Bufferable)] /\ timer' \in [Stocks -> BOOLEAN]
    BY <2>1, <1>3 DEF Empty
  <2> QED
    BY <2>1, <2>2, <1>2, <1>3, PipelineAssumption DEF AggregatorTypeOK
<1>5. CASE ~(Len(Joined(o)) >= MaxBatch)
  <2>1. /\ buffer' = Added(o) /\ UNCHANGED <<ready, forgotten>>
        /\ timer' = [timer EXCEPT ![s] = @ \/ Len(Joined(o)) = 1]
    BY <1>1, <1>5 DEF AddOrder
  <2>2. timer' \in [Stocks -> BOOLEAN]
    BY <2>1, <1>1, <1>3
  <2> QED
    BY <2>1, <2>2, <1>3 DEF AggregatorTypeOK
<1> QED
  BY <1>4, <1>5

\* Buffers are emptied into batches and none.
LEMMA AggregatorShrinks ==
    ASSUME PipelineInv,
           \/ \E ss \in SUBSET Stocks : Flush(ss)
           \/ \E s \in Stocks : TimerFires(s)
    PROVE  AggregatorTypeOK'
<1>1. /\ buffer \in [Stocks -> Seq(Bufferable)] /\ timer \in [Stocks -> BOOLEAN]
      /\ ready \subseteq Bufferable /\ forgotten \subseteq Bufferable
  BY DEF PipelineInv, TypeOK, AggregatorTypeOK
<1>2. ASSUME NEW s \in Stocks
      PROVE  /\ Grouped(buffer[s]) \subseteq Bufferable
             /\ LaterBatches(buffer[s]) \subseteq Bufferable
             /\ Ungrouped(buffer[s]) \subseteq Bufferable
             /\ Members(FirstBatch(buffer[s])) \subseteq Bufferable
  <2>1. buffer[s] \in Seq(Bufferable) /\ Distinct(buffer[s])
    BY <1>1, PlacedOnce DEF PipelineInv, NoRepeats
  <2>2. Members(buffer[s]) \subseteq Bufferable
    BY <2>1 DEF Members
  <2> QED
    BY <2>1, <2>2, BatchDivides
<1>3. ASSUME NEW ss \in SUBSET Stocks, Empty(ss, buffer)
      PROVE  buffer' \in [Stocks -> Seq(Bufferable)] /\ timer' \in [Stocks -> BOOLEAN]
  BY <1>1, <1>3 DEF Empty
<1>4. ASSUME NEW ss \in SUBSET Stocks, Flush(ss) PROVE AggregatorTypeOK'
  <2>1. /\ UNION {Grouped(buffer[s]) : s \in ss} \subseteq Bufferable
        /\ UNION {Ungrouped(buffer[s]) : s \in ss} \subseteq Bufferable
    BY <1>2
  <2> QED
    BY <2>1, <1>1, <1>3, <1>4 DEF Flush, AggregatorTypeOK
<1>5. ASSUME NEW s \in Stocks, TimerFires(s) PROVE AggregatorTypeOK'
  <2>1. {s} \in SUBSET Stocks
    OBVIOUS
  <2> QED
    BY <2>1, <1>1, <1>2, <1>3, <1>5 DEF TimerFires, AggregatorTypeOK
<1> QED
  BY <1>4, <1>5

\* The breaker counts up to its threshold.
LEMMA BreakerType ==
    ASSUME BreakerTypes,
           \/ RecordSuccess
           \/ \E n \in Nat : RecordFailures(n)
           \/ AskBreaker
           \/ UNCHANGED breakerVars
    PROVE  BreakerTypes'
<1>1. Threshold \in Nat
  BY PipelineAssumption
<1>2. ASSUME NEW n \in Nat, RecordFailures(n) PROVE BreakerTypes'
  <2> DEFINE total == IF failures + n > Threshold THEN Threshold ELSE failures + n
             opens == n > 0 /\ total = Threshold
  <2>1. /\ failures' = total
        /\ breaker' = IF opens THEN "open" ELSE breaker
        /\ elapsed' = IF opens THEN FALSE ELSE elapsed
    BY <1>2 DEF RecordFailures
  <2>2. total \in 0 .. Threshold
    BY <1>1 DEF BreakerTypes
  <2> HIDE DEF total, opens
  <2>3. elapsed' \in BOOLEAN
    BY <2>1 DEF BreakerTypes
  <2> QED
    BY <2>1, <2>2, <2>3 DEF BreakerTypes
<1>3. CASE RecordSuccess
  BY <1>1, <1>3 DEF RecordSuccess, BreakerTypes
<1>4. CASE AskBreaker \/ UNCHANGED breakerVars
  BY <1>4 DEF AskBreaker, breakerVars, BreakerTypes
<1> QED
  BY <1>2, <1>3, <1>4

WorkerTypes ==
    /\ pool \in {"none", "running", "stopping", "stopped"}
    /\ shutdown \in BOOLEAN
    /\ putters \in [Orders -> Seq(Tasks)]
    /\ worker \in [Workers -> {"off", "get", "execute", "put", "ended"}]
    /\ hand \in [Workers -> Tasks \union {None}]
    /\ registered \in Nat
    /\ tries \in [Orders -> 0 .. MaxRetries + 1]
    /\ result \in [Orders -> Results]

\* Every step keeps the types: queue and retries stay within their bounds
\* because of where an order can be and how often it was tried.
LEMMA TypeStep == PipelineInv /\ [Next]_vars => TypeOK'
<1> SUFFICES ASSUME PipelineInv, [Next]_vars PROVE TypeOK'
  OBVIOUS
<1>types. QueueType /\ WorkerTypes /\ AggregatorTypeOK /\ PipelineTypes /\ BreakerTypes
  BY DEF PipelineInv, TypeOK, PoolTypeOK, QueueType, WorkerTypes, PipelineTypes, BreakerTypes
<1>join. ASSUME QueueType', WorkerTypes', AggregatorTypeOK', PipelineTypes', BreakerTypes'
         PROVE  TypeOK'
  BY <1>join DEF TypeOK, PoolTypeOK, QueueType, WorkerTypes, PipelineTypes, BreakerTypes
\* What a step leaves alone keeps its type.
<1>queue. UNCHANGED queue => QueueType'
  BY <1>types DEF QueueType
<1>workers. UNCHANGED <<pool, shutdown, putters, worker, hand, registered, tries, result>>
            => WorkerTypes'
  BY <1>types DEF WorkerTypes
<1>aggr. UNCHANGED aggregatorVars => AggregatorTypeOK'
  BY <1>types DEF aggregatorVars, AggregatorTypeOK
<1>pipe. UNCHANGED pipelineVars => PipelineTypes'
  BY <1>types DEF pipelineVars, PipelineTypes
<1>breaker. UNCHANGED breakerVars => BreakerTypes'
  BY <1>types, BreakerType
<1>hand. ASSUME NEW w \in Workers, worker[w] \in {"execute", "put"}
         PROVE  hand[w] \in Tasks /\ hand[w].order \in Orders
  BY <1>types, <1>hand DEF PipelineInv, Shape, WorkerTypes, Tasks
<1>loop. ASSUME NEW w \in Workers, Loop(w),
                UNCHANGED <<pool, shutdown, putters, registered, tries>>,
                result' \in [Orders -> Results]
         PROVE  WorkerTypes'
  BY <1>loop, <1>types DEF Loop, WorkerTypes
<1>results. Executed \union {"interrupted", "refused", "discarded", "failed", "done"}
            \subseteq Results
  BY DEF Executed, Results
<1>1. CASE Start
  <2>1. WorkerTypes'
    BY <1>1, <1>types DEF Start, StartPool, WorkerTypes
  <2>2. PipelineTypes'
    BY <1>1, <1>types DEF Start, PipelineTypes
  <2> QED
    BY <1>1, <2>1, <2>2, <1>join, <1>queue, <1>aggr, <1>breaker DEF Start
<1>2. CASE BeginStop
  <2>1. PipelineTypes' /\ result' \in [Orders -> Results]
    <3>1. CASE seqTask = "execute"
      <4>1. seqQueue /= <<>>
        BY <3>1 DEF PipelineInv, Shape
      <4>2. Head(seqQueue) \in Orders /\ Tail(seqQueue) \in Seq(Orders)
        BY <4>1, <1>types DEF PipelineTypes
      <4> QED
        BY <1>2, <3>1, <4>2, <1>types, <1>results DEF BeginStop, PipelineTypes, WorkerTypes
    <3>2. CASE seqTask /= "execute"
      BY <1>2, <3>2, <1>types DEF BeginStop, PipelineTypes, WorkerTypes
    <3> QED
      BY <3>1, <3>2
  <2>2. WorkerTypes'
    BY <1>2, <2>1, <1>types DEF BeginStop, StopPool, WorkerTypes
  <2> QED
    BY <1>2, <2>1, <2>2, <1>join, <1>queue, <1>aggr, <1>breaker DEF BeginStop
<1>3. CASE EndStop
  <2>1. queue' \in SUBSET queue /\ WorkerTypes'
    BY <1>3, <1>types, <1>results DEF EndStop, PoolStopped, WorkerTypes
  <2>2. QueueType'
    BY <2>1, <1>types, QueueShrinks
  <2>3. AggregatorTypeOK'
    <3>1. Stocks \in SUBSET Stocks
      OBVIOUS
    <3> QED
      BY <1>3, <3>1, <1>aggr, AggregatorShrinks DEF EndStop
  <2>4. PipelineTypes'
    BY <1>3, <1>types DEF EndStop, PipelineTypes
  <2> QED
    BY <1>3, <2>1, <2>2, <2>3, <2>4, <1>join, <1>breaker DEF EndStop
<1>4. ASSUME NEW m \in Modes, SwitchMode(m) PROVE TypeOK'
  <2>1. PipelineTypes'
    BY <1>4, <1>types DEF SwitchMode, PipelineTypes
  <2> QED
    BY <1>4, <2>1, <1>join, <1>queue, <1>workers, <1>aggr, <1>breaker
    DEF SwitchMode, poolVars
<1>5. ASSUME NEW o \in Orders, SubmitOrder(o) PROVE TypeOK'
  <2>1. /\ o \notin submitted /\ submitted' = submitted \union {o} /\ AskBreaker
        /\ UNCHANGED <<phase, mode, aggregator, seqTask>>
        /\ \/ Refuse(o) \/ ToSequence(o) \/ ToAggregator(o) \/ Vanishes(o)
           \/ \E n \in Nat :
                  /\ Submit(o, <<o>>, n)
                  /\ UNCHANGED <<pool, shutdown, queue, worker, hand, tries, result,
                                 aggregatorVars, seqQueue, batches>>
    BY <1>5, SubmitCases
  <2>2. BreakerTypes'
    BY <2>1, <1>types, BreakerType
  <2>3. seqQueue' \in Seq(Orders) /\ batches' \in [Orders -> Seq(Orders)] => PipelineTypes'
    BY <2>1, <1>types DEF PipelineTypes
  <2>4. seqQueue \in Seq(Orders) /\ batches \in [Orders -> Seq(Orders)]
    BY <1>types DEF PipelineTypes
  <2>5. CASE Refuse(o)
    <3>1. WorkerTypes'
      BY <2>5, <1>types, <1>results DEF Refuse, WorkerTypes
    <3> QED
      BY <2>5, <3>1, <2>2, <2>3, <2>4, <1>join, <1>queue, <1>aggr DEF Refuse
  <2>6. CASE ToSequence(o)
    <3>1. seqQueue' \in Seq(Orders)
      BY <2>6, <2>4 DEF ToSequence
    <3> QED
      BY <2>6, <3>1, <2>2, <2>3, <2>4, <1>join, <1>queue, <1>workers, <1>aggr
      DEF ToSequence, poolVars
  <2>7. CASE Vanishes(o)
    <3>1. AggregatorTypeOK'
      BY <2>7, <1>types, PipelineAssumption DEF Vanishes, AggregatorTypeOK
    <3> QED
      BY <2>7, <3>1, <2>2, <2>3, <2>4, <1>join, <1>queue, <1>workers
      DEF Vanishes, poolVars
  <2>8. ASSUME NEW n \in Nat, Submit(o, <<o>>, n),
               UNCHANGED <<pool, shutdown, queue, worker, hand, tries, result,
                           aggregatorVars, seqQueue, batches>>
        PROVE  TypeOK'
    <3>1. WorkerTypes'
      <4>1. <<o>> \in Seq(Orders)
        OBVIOUS
      <4>2. putters' \in [Orders -> Seq(Tasks)] /\ registered' \in Nat
        BY <2>8, <4>1, SubmitEffect
      <4> QED
        BY <2>8, <4>2, <1>types DEF WorkerTypes
    <3> QED
      BY <2>8, <3>1, <2>2, <2>3, <2>4, <1>join, <1>queue, <1>aggr
  <2>9. CASE ToAggregator(o)
    <3>1. AddOrder(o) /\ UNCHANGED <<pool, shutdown, queue, worker, hand, result, seqQueue>>
      BY <2>9 DEF ToAggregator
    <3>2. AggregatorTypeOK'
      BY <2>1, <3>1, AggregatorGrows
    <3>3. /\ Batch(o) \in Seq(Orders)
          /\ Batch(o) /= <<>> =>
                 /\ Batch(o)[1] \in Orders /\ tries[Batch(o)[1]] = 0
                 /\ 0 + 1 \in 0 .. MaxRetries + 1
      <4>1. /\ Batch(o) \in Seq(Orders) /\ Members(Batch(o)) \subseteq Members(Joined(o))
            /\ Members(Joined(o)) = Members(buffer[StockOf[o]]) \union {o}
            /\ StockOf[o] \in Stocks
        BY <2>1, AddedBatch
      <4>2. tries[o] = 0 /\ \A p \in Members(buffer[StockOf[o]]) : tries[p] = 0
        BY <2>1, <4>1 DEF PipelineInv, TriesFollowPlace, UnsubmittedTries, BufferTries, Members
      <4>3. ASSUME Batch(o) /= <<>>
            PROVE  Batch(o)[1] \in Orders /\ Batch(o)[1] \in Members(Batch(o))
        BY <4>1, <4>3 DEF Members
      <4> QED
        BY <4>1, <4>2, <4>3, PoolAssumption
    <3>4. CASE Submit(o, Batch(o), 1) /\ UNCHANGED <<tries, batches>>
      <4>1. WorkerTypes'
        BY <3>1, <3>3, <3>4, <1>types, SubmitEffect DEF WorkerTypes
      <4> QED
        BY <3>1, <3>2, <3>4, <4>1, <2>2, <2>3, <2>4, <1>join, <1>queue
    <3>5. CASE RunBatch(o)
      <4>1. batches' \in [Orders -> Seq(Orders)]
        BY <3>3, <3>5, <2>4 DEF RunBatch
      <4>2. tries' \in [Orders -> 0 .. MaxRetries + 1]
        BY <3>3, <3>5, <1>types DEF RunBatch, WorkerTypes
      <4>3. WorkerTypes'
        BY <3>1, <3>5, <4>2, <1>types DEF RunBatch, WorkerTypes
      <4> QED
        BY <3>1, <3>2, <4>1, <4>3, <2>2, <2>3, <2>4, <1>join, <1>queue
    <3> QED
      BY <2>9, <3>4, <3>5 DEF ToAggregator
  <2> QED
    BY <2>1, <2>5, <2>6, <2>7, <2>8, <2>9
<1>6. CASE TimeoutElapses
  <2>1. BreakerTypes'
    BY <1>6, <1>types DEF TimeoutElapses, BreakerTypes
  <2> QED
    BY <1>6, <2>1, <1>join, <1>queue, <1>workers, <1>aggr, <1>pipe
    DEF TimeoutElapses, poolVars
<1>7. ASSUME NEW w \in Workers, PoolSucceeds(w) \/ PoolGivesUp(w) PROVE TypeOK'
  <2>1. result' \in [Orders -> Results]
    BY <1>7, <1>hand, <1>types, <1>results
    DEF PoolSucceeds, Succeeds, PoolGivesUp, GivesUp, WorkerTypes
  <2>2. WorkerTypes'
    BY <1>7, <2>1, <1>loop DEF PoolSucceeds, Succeeds, PoolGivesUp, GivesUp
  <2>3. BreakerTypes'
    BY <1>7, <1>types, BreakerType DEF PoolSucceeds, PoolGivesUp, WorkerTypes
  <2>4. UNCHANGED <<queue, aggregatorVars, pipelineVars>>
    BY <1>7 DEF PoolSucceeds, Succeeds, PoolGivesUp, GivesUp
  <2> QED
    BY <2>2, <2>3, <2>4, <1>join, <1>queue, <1>aggr, <1>pipe
<1>8. CASE PoolStep
  <2>1. AggregatorTypeOK' /\ PipelineTypes' /\ BreakerTypes'
    BY <1>8, <1>aggr, <1>pipe, <1>breaker DEF PoolStep
  <2>2. ASSUME NEW o \in Orders, Put(o) PROVE QueueType' /\ WorkerTypes'
    <3>1. putters[o] \in Seq(Tasks) /\ putters[o] /= <<>>
      BY <2>2, <1>types DEF Put, WorkerTypes
    <3>2. Head(putters[o]) \in Tasks /\ Tail(putters[o]) \in Seq(Tasks)
      BY <3>1
    <3>3. QueueType'
      BY <2>2, <3>2, <1>types, QueueGrows DEF Put
    <3>4. WorkerTypes'
      BY <2>2, <3>2, <1>types DEF Put, WorkerTypes
    <3> QED
      BY <3>3, <3>4
  <2>3. ASSUME NEW w \in Workers, Get(w) PROVE QueueType' /\ WorkerTypes'
    <3>1. PICK t \in queue : /\ queue' = queue \ {t}
                             /\ hand' = [hand EXCEPT ![w] = t]
                             /\ tries' = [tries EXCEPT ![t.order] = @ + 1]
      BY <2>3 DEF Get
    <3>2. t \in Tasks /\ t.order \in Orders /\ t.retries \in 0 .. MaxRetries
      BY <1>types DEF QueueType, Tasks
    <3>3. tries[t.order] + 1 \in 0 .. MaxRetries + 1
      BY <3>2, PoolAssumption DEF PipelineInv, TriesFollowPlace, QueueTries
    <3>4. QueueType'
      BY <3>1, <1>types, QueueShrinks
    <3>5. WorkerTypes'
      BY <2>3, <3>1, <3>2, <3>3, <1>types DEF Get, WorkerTypes
    <3> QED
      BY <3>4, <3>5
  <2>4. ASSUME NEW w \in Workers, IdleEnds(w) PROVE QueueType' /\ WorkerTypes'
    BY <2>4, <1>queue, <1>loop, <1>types DEF IdleEnds, WorkerTypes
  <2>5. ASSUME NEW w \in Workers, Fails(w) PROVE QueueType' /\ WorkerTypes'
    <3>1. hand[w] \in Tasks /\ hand[w].retries < MaxRetries
      BY <2>5, <1>hand DEF Fails
    <3>2. Retried(w) \in Tasks
      BY <3>1, PoolAssumption DEF Retried, Tasks
    <3>3. CASE Full
      <4>1. WorkerTypes'
        BY <2>5, <3>2, <3>3, <1>types DEF Fails, WorkerTypes
      <4> QED
        BY <2>5, <3>3, <4>1, <1>queue DEF Fails
    <3>4. CASE ~Full
      BY <2>5, <3>2, <3>4, <1>loop, <1>types, QueueGrows DEF Fails, WorkerTypes
    <3> QED
      BY <3>3, <3>4
  <2>6. ASSUME NEW w \in Workers, RetryPut(w) PROVE QueueType' /\ WorkerTypes'
    BY <2>6, <1>hand, <1>loop, <1>types, QueueGrows DEF RetryPut, WorkerTypes
  <2>7. ASSUME NEW w \in Workers, Raises(w) PROVE QueueType' /\ WorkerTypes'
    <3>1. result' \in [Orders -> Results]
      BY <2>7, <1>hand, <1>types DEF Raises, WorkerTypes, Results
    <3> QED
      BY <2>7, <3>1, <1>queue, <1>loop DEF Raises
  <2>8. ASSUME NEW w \in Workers, ScaleUp(w) PROVE QueueType' /\ WorkerTypes'
    <3>1. WorkerTypes'
      BY <2>8, <1>types DEF ScaleUp, AddWorker, WorkerTypes
    <3> QED
      BY <2>8, <3>1, <1>queue DEF ScaleUp
  <2> QED
    BY <1>8, <2>1, <2>2, <2>3, <2>4, <2>5, <2>6, <2>7, <2>8, <1>join
    DEF PoolStep, WorkerStep
<1>9. CASE AggregatorStep
  <2>1. AggregatorTypeOK'
    BY <1>9, AggregatorShrinks DEF AggregatorStep, FlushOld
  <2> QED
    BY <1>9, <2>1, <1>join, <1>queue, <1>workers, <1>pipe, <1>breaker
    DEF AggregatorStep, poolVars
<1>10. CASE SeqGet
  <2>1. Head(seqQueue) \in Orders /\ Head(seqQueue) = seqQueue[1] /\ 1 \in 1 .. Len(seqQueue)
    BY <1>10, <1>types DEF SeqGet, PipelineTypes
  <2>2. tries[Head(seqQueue)] = 0
    BY <1>10, <2>1 DEF SeqGet, PipelineInv, TriesFollowPlace, SequenceTries
  <2>3. tries' \in [Orders -> 0 .. MaxRetries + 1]
    BY <1>10, <2>1, <2>2, <1>types, PoolAssumption DEF SeqGet, WorkerTypes
  <2>4. WorkerTypes' /\ PipelineTypes'
    BY <1>10, <2>3, <1>types DEF SeqGet, WorkerTypes, PipelineTypes
  <2> QED
    BY <1>10, <2>4, <1>join, <1>queue, <1>aggr, <1>breaker DEF SeqGet
<1>11. ASSUME NEW r \in Executed, SeqFinished(r) PROVE TypeOK'
  <2>1. seqQueue /= <<>>
    BY <1>11 DEF SeqFinished, PipelineInv, Shape
  <2>2. Head(seqQueue) \in Orders /\ Tail(seqQueue) \in Seq(Orders)
    BY <2>1, <1>types DEF PipelineTypes
  <2>3. WorkerTypes' /\ PipelineTypes'
    BY <1>11, <2>2, <1>types, <1>results DEF SeqFinished, WorkerTypes, PipelineTypes
  <2>4. BreakerTypes'
    <3>1. RecordSuccess \/ RecordFailures(1) \/ UNCHANGED breakerVars
      BY <1>11 DEF SeqFinished
    <3> QED
      BY <3>1, <1>types, BreakerType
  <2> QED
    BY <1>11, <2>3, <2>4, <1>join, <1>queue, <1>aggr DEF SeqFinished
<1>12. ASSUME NEW o \in Orders, NEW r \in Executed, BatchFinished(o, r) PROVE TypeOK'
  <2> DEFINE b == batches[o]
  <2>1. b \in Seq(Orders) /\ b /= <<>>
    BY <1>12, <1>types DEF BatchFinished, PipelineTypes
  <2>2. Head(b) \in Orders /\ Tail(b) \in Seq(Orders)
    BY <2>1
  <2>3. ASSUME Len(b) > 1 PROVE b[2] \in Orders /\ tries[b[2]] = 0
    <3>1. 2 \in 1 .. Len(b) /\ b[2] \in Orders
      BY <2>1, <2>3
    <3> QED
      BY <3>1 DEF PipelineInv, TriesFollowPlace, BatchTries
  <2>4. tries' \in [Orders -> 0 .. MaxRetries + 1]
    BY <1>12, <2>3, <1>types, PoolAssumption DEF BatchFinished, WorkerTypes
  <2>5. WorkerTypes'
    BY <1>12, <2>2, <2>4, <1>types, <1>results DEF BatchFinished, WorkerTypes
  <2>6. PipelineTypes'
    BY <1>12, <2>2, <1>types DEF BatchFinished, PipelineTypes
  <2> QED
    BY <1>12, <2>5, <2>6, <1>join, <1>queue, <1>aggr, <1>breaker DEF BatchFinished
<1>13. CASE UNCHANGED vars
  BY <1>13, <1>join, <1>queue, <1>workers, <1>aggr, <1>pipe, <1>breaker DEF vars, poolVars
<1> QED
  BY <1>1, <1>2, <1>3, <1>4, <1>5, <1>6, <1>7, <1>8, <1>9, <1>10, <1>11, <1>12, <1>13
  DEF Next

\* Every step keeps workers, sequences and callers in shape.
LEMMA ShapeStep == PipelineInv /\ [Next]_vars => Shape'
<1> SUFFICES ASSUME PipelineInv, [Next]_vars PROVE Shape'
  OBVIOUS
<1>types. QueueType /\ WorkerTypes /\ AggregatorTypeOK /\ PipelineTypes
  BY DEF PipelineInv, TypeOK, PoolTypeOK, QueueType, WorkerTypes, PipelineTypes
<1>shape. Shape
  BY DEF PipelineInv
<1> DEFINE Hands == \A w \in Workers : hand[w] /= None <=> worker[w] \in {"execute", "put"}
           Head1 == seqTask = "execute" => seqQueue /= <<>>
           Fresh == phase = "new" => /\ pool = "none" /\ seqTask = "none"
                                     /\ \A w \in Workers : worker[w] = "off"
           Idle == \A o \in Orders \ submitted : putters[o] = <<>> /\ batches[o] = <<>>
<1>join. ASSUME Hands', Head1', Fresh', Idle' PROVE Shape'
  BY <1>join DEF Shape
<1>hands. UNCHANGED <<worker, hand>> => Hands'
  BY <1>shape DEF Shape
<1>head. UNCHANGED <<seqTask, seqQueue>> => Head1'
  BY <1>shape DEF Shape
<1>fresh. UNCHANGED <<phase, pool, seqTask, worker>> => Fresh'
  BY <1>shape DEF Shape
<1>idle. UNCHANGED <<submitted, putters, batches>> => Idle'
  BY <1>shape DEF Shape
<1>loop. ASSUME NEW w \in Workers, Loop(w) PROVE Hands'
  BY <1>loop, <1>shape, <1>types DEF Loop, Shape, WorkerTypes
<1>works. ASSUME NEW w \in Workers, worker[w] /= "off", UNCHANGED phase PROVE Fresh'
  BY <1>works, <1>shape DEF Shape
<1>none. \A t \in Tasks : t /= None
  BY NoneAssumption
<1>1. CASE Start
  <2>1. \A w \in Workers : worker[w] = "off" /\ hand[w] = None
    BY <1>1, <1>shape DEF Start, Shape
  <2>2. Hands' /\ Head1' /\ Fresh'
    BY <1>1, <2>1 DEF Start, StartPool
  <2> QED
    BY <1>1, <2>2, <1>join, <1>idle DEF Start
<1>2. CASE BeginStop
  BY <1>2, <1>join, <1>hands, <1>idle DEF BeginStop
<1>3. CASE EndStop
  BY <1>3, <1>join, <1>hands, <1>head, <1>idle DEF EndStop
<1>4. CASE TimeoutElapses \/ \E m \in Modes : SwitchMode(m)
  BY <1>4, <1>join, <1>hands, <1>head, <1>fresh, <1>idle
  DEF SwitchMode, TimeoutElapses, poolVars, pipelineVars
<1>5. ASSUME NEW o \in Orders, SubmitOrder(o) PROVE Shape'
  <2>1. /\ o \notin submitted /\ submitted' = submitted \union {o} /\ AskBreaker
        /\ UNCHANGED <<phase, mode, aggregator, seqTask>>
        /\ \/ Refuse(o) \/ ToSequence(o) \/ ToAggregator(o) \/ Vanishes(o)
           \/ \E n \in Nat :
                  /\ Submit(o, <<o>>, n)
                  /\ UNCHANGED <<pool, shutdown, queue, worker, hand, tries, result,
                                 aggregatorVars, seqQueue, batches>>
    BY <1>5, SubmitCases
  <2>2. UNCHANGED <<pool, worker, hand>>
    BY <2>1 DEF Refuse, ToSequence, ToAggregator, Vanishes, poolVars
  <2>3. seqQueue' = seqQueue \/ seqQueue' = Append(seqQueue, o)
    BY <2>1 DEF Refuse, ToSequence, ToAggregator, Vanishes
  <2>4. Head1'
    <3>1. CASE seqQueue' = seqQueue
      BY <3>1, <2>1, <1>head
    <3>2. CASE seqQueue' = Append(seqQueue, o)
      BY <3>2, <1>types DEF PipelineTypes
    <3> QED
      BY <2>3, <3>1, <3>2
  <2>5. Idle'
    <3>1. \A p \in Orders : p /= o => putters'[p] = putters[p] /\ batches'[p] = batches[p]
      BY <2>1, <1>types
      DEF Refuse, ToSequence, ToAggregator, Vanishes, Submit, RunBatch, poolVars,
          WorkerTypes, PipelineTypes
    <3> QED
      BY <2>1, <3>1, <1>shape DEF Shape
  <2> QED
    BY <2>1, <2>2, <2>4, <2>5, <1>join, <1>hands, <1>fresh
<1>6. ASSUME NEW w \in Workers, PoolSucceeds(w) \/ PoolGivesUp(w) PROVE Shape'
  <2>1. /\ Loop(w) /\ worker[w] = "execute" /\ UNCHANGED pipelineVars
        /\ UNCHANGED <<pool, putters>>
    BY <1>6 DEF PoolSucceeds, PoolGivesUp, Succeeds, GivesUp
  <2> QED
    BY <2>1, <1>loop, <1>works, <1>join, <1>head, <1>idle DEF pipelineVars
<1>7. CASE PoolStep
  <2>1. UNCHANGED <<phase, submitted, seqQueue, seqTask, batches>>
    BY <1>7 DEF PoolStep, pipelineVars
  <2>2. ASSUME NEW o \in Orders, Put(o) PROVE Shape'
    <3>1. Idle'
      BY <2>1, <2>2, <1>shape, <1>types DEF Put, Shape, WorkerTypes
    <3> QED
      BY <2>1, <2>2, <3>1, <1>join, <1>hands, <1>head, <1>fresh DEF Put
  <2>3. ASSUME NEW w \in Workers, Get(w) PROVE Shape'
    <3>1. Hands'
      BY <2>3, <1>shape, <1>types, <1>none DEF Get, Shape, WorkerTypes, QueueType
    <3> QED
      BY <2>1, <2>3, <3>1, <1>join, <1>head, <1>works, <1>idle DEF Get
  <2>4. ASSUME NEW w \in Workers, IdleEnds(w) \/ RetryPut(w) \/ Raises(w) PROVE Shape'
    BY <2>1, <2>4, <1>join, <1>loop, <1>head, <1>works, <1>idle
    DEF IdleEnds, RetryPut, Raises
  <2>5. ASSUME NEW w \in Workers, Fails(w) PROVE Shape'
    <3>1. hand[w] \in Tasks
      BY <2>5, <1>shape, <1>types DEF Fails, Shape, WorkerTypes
    <3>2. Retried(w) /= None
      BY <2>5, <3>1, <1>none, PoolAssumption DEF Fails, Retried, Tasks
    <3>3. Hands'
      BY <2>5, <3>2, <1>loop, <1>shape, <1>types DEF Fails, Shape, WorkerTypes
    <3> QED
      BY <2>1, <2>5, <3>3, <1>join, <1>head, <1>works, <1>idle DEF Fails
  <2>6. ASSUME NEW w \in Workers, ScaleUp(w) PROVE Shape'
    <3>1. Hands' /\ Fresh'
      BY <2>1, <2>6, <1>shape, <1>types DEF ScaleUp, AddWorker, Shape, WorkerTypes
    <3> QED
      BY <2>1, <2>6, <3>1, <1>join, <1>head, <1>idle DEF ScaleUp
  <2> QED
    BY <1>7, <2>2, <2>3, <2>4, <2>5, <2>6 DEF PoolStep, WorkerStep
<1>8. CASE AggregatorStep
  BY <1>8, <1>join, <1>hands, <1>head, <1>fresh, <1>idle
  DEF AggregatorStep, poolVars, pipelineVars
<1>9. CASE SeqGet \/ \E r \in Executed : SeqFinished(r)
  <2>1. Head1' /\ Fresh'
    BY <1>9, <1>shape DEF SeqGet, SeqFinished, Shape
  <2> QED
    BY <1>9, <2>1, <1>join, <1>hands, <1>idle DEF SeqGet, SeqFinished
<1>10. ASSUME NEW o \in Orders, NEW r \in Executed, BatchFinished(o, r) PROVE Shape'
  <2>1. Idle'
    BY <1>10, <1>shape, <1>types DEF BatchFinished, Shape, PipelineTypes
  <2> QED
    BY <1>10, <2>1, <1>join, <1>hands, <1>head, <1>fresh DEF BatchFinished
<1>11. CASE UNCHANGED vars
  BY <1>11, <1>join, <1>hands, <1>head, <1>fresh, <1>idle DEF vars, poolVars, pipelineVars
<1> QED
  BY <1>1, <1>2, <1>3, <1>4, <1>5, <1>6, <1>7, <1>8, <1>9, <1>10, <1>11 DEF Next

-----------------------------------------------------------------------------
(* One place for every order.                                                *)

\* An order no container of which changed is where it was.
LEMMA SamePlaced ==
    ASSUME NEW o \in Orders, Placed(o), o \in submitted' <=> o \in submitted,
           Queued(o)' = Queued(o), Carried(o)' = Carried(o), ToPut(o)' = ToPut(o),
           Buffered(o)' = Buffered(o), Batched(o)' = Batched(o),
           Elsewhere(o)' = Elsewhere(o)
    PROVE  Placed(o)'
BY DEF Placed

\* What the containers show follows from the variables.
LEMMA Unmoved ==
    /\ UNCHANGED queue => \A o : Queued(o)' = Queued(o)
    /\ UNCHANGED hand => \A o : Carried(o)' = Carried(o)
    /\ UNCHANGED putters => \A o : ToPut(o)' = ToPut(o)
    /\ UNCHANGED buffer => \A o : Buffered(o)' = Buffered(o)
    /\ UNCHANGED batches => \A o : Batched(o)' = Batched(o)
    /\ UNCHANGED <<seqQueue, ready, forgotten>> =>
           \A o : result'[o] = result[o] => Elsewhere(o)' = Elsewhere(o)
    /\ NoRepeats /\ UNCHANGED <<putters, batches, buffer, seqQueue>> => NoRepeats'
<1>1. /\ UNCHANGED queue => \A o : Queued(o)' = Queued(o)
      /\ UNCHANGED hand => \A o : Carried(o)' = Carried(o)
      /\ UNCHANGED putters => \A o : ToPut(o)' = ToPut(o)
  BY DEF Queued, Carried, ToPut
<1>2. /\ UNCHANGED buffer => \A o : Buffered(o)' = Buffered(o)
      /\ UNCHANGED batches => \A o : Batched(o)' = Batched(o)
  BY DEF Buffered, Batched, Members
<1>3. UNCHANGED <<seqQueue, ready, forgotten>> =>
          \A o : result'[o] = result[o] => Elsewhere(o)' = Elsewhere(o)
  BY DEF Elsewhere, Members
<1>4. NoRepeats /\ UNCHANGED <<putters, batches, buffer, seqQueue>> => NoRepeats'
  BY DEF NoRepeats, Distinct
<1> QED
  BY <1>1, <1>2, <1>3, <1>4

\* The order of the task a worker has is nowhere else.
LEMMA CarriedOnce ==
    ASSUME PipelineInv, NEW w \in Workers, worker[w] \in {"execute", "put"}
    PROVE  \E x \in Orders :
               /\ hand[w] \in Tasks /\ hand[w] /= None /\ hand[w].order = x
               /\ x \in submitted /\ Queued(x) = {} /\ Carried(x) = {w} /\ ToPut(x) = {}
               /\ Buffered(x) = {} /\ Batched(x) = {} /\ Elsewhere(x) = {}
<1>1. hand[w] \in Tasks /\ hand[w] /= None
  BY DEF PipelineInv, Shape, TypeOK, PoolTypeOK
<1>2. PICK x \in Orders : x = hand[w].order
  BY <1>1 DEF Tasks
<1>3. w \in Carried(x) /\ Placed(x)
  BY <1>1, <1>2, PlacedOnce DEF Carried, PipelineInv
<1> QED
  BY <1>1, <1>2, <1>3, HeldOnce

\* An order leaves the worker that had it: nothing else of a worker changes.
LEMMA Dropped ==
    ASSUME PipelineInv, NEW w \in Workers, hand'[w] = None,
           \A v \in Workers : v /= w => hand'[v] = hand[v],
           NEW x \in Orders, Carried(x) = {w}, hand[w] /= None, hand[w].order = x
    PROVE  Carried(x)' = {} /\ \A o : o /= x => Carried(o)' = Carried(o)
<1>1. \A v \in Workers : v /= w => ~(hand[v] /= None /\ hand[v].order = x)
  BY DEF Carried
<1>2. Carried(x)' = {}
  BY <1>1 DEF Carried
<1>3. \A o : o /= x => Carried(o)' = Carried(o)
  BY DEF Carried
<1> QED
  BY <1>2, <1>3

\* A worker ends with an order: it executed it for the last time.
LEMMA WorkerEnds ==
    ASSUME PipelineInv, NEW w \in Workers, worker[w] = "execute", Loop(w), NEW r,
           r /= "none", result' = [result EXCEPT ![hand[w].order] = r],
           UNCHANGED <<queue, putters, aggregatorVars, pipelineVars>>
    PROVE  OnePlace'
<1>1. PICK x \in Orders :
          /\ hand[w] \in Tasks /\ hand[w] /= None /\ hand[w].order = x
          /\ x \in submitted /\ Queued(x) = {} /\ Carried(x) = {w} /\ ToPut(x) = {}
          /\ Buffered(x) = {} /\ Batched(x) = {} /\ Elsewhere(x) = {}
  BY CarriedOnce
<1>2. /\ hand \in [Workers -> Tasks \union {None}] /\ result \in [Orders -> Results]
      /\ \A o \in Orders : Placed(o)
      /\ NoRepeats
  BY PlacedOnce DEF PipelineInv, TypeOK, PoolTypeOK
<1>3. hand'[w] = None /\ \A v \in Workers : v /= w => hand'[v] = hand[v]
  BY <1>2 DEF Loop
<1>4. Carried(x)' = {} /\ \A o : o /= x => Carried(o)' = Carried(o)
  BY <1>1, <1>3, Dropped
<1>5. \A o \in Orders : result'[o] = IF o = x THEN r ELSE result[o]
  BY <1>1, <1>2
<1>6. /\ UNCHANGED <<queue, putters, buffer, batches, seqQueue, ready, forgotten, submitted>>
      /\ NoRepeats'
  BY <1>2, Unmoved DEF aggregatorVars, pipelineVars
<1>7. Elsewhere(x)' = {"ended"}
  <2>1. x \notin Members(seqQueue) /\ x \notin ready /\ x \notin forgotten
    BY <1>1 DEF Elsewhere
  <2>2. x \notin Members(seqQueue)' /\ x \notin ready' /\ x \notin forgotten'
    BY <2>1, <1>6 DEF Members
  <2> QED
    BY <2>2, <1>5 DEF Elsewhere
<1>8. Placed(x)'
  BY <1>1, <1>4, <1>6, <1>7, Unmoved DEF Placed, OneOf, Single
<1>9. ASSUME NEW o \in Orders, o /= x PROVE Placed(o)'
  BY <1>2, <1>4, <1>5, <1>6, <1>9, Unmoved, SamePlaced
<1> QED
  BY <1>6, <1>8, <1>9, PlacedOnceNext

\* A step of the pool moves an order between the queue and a worker.
LEMMA PoolPlaces ==
    ASSUME PipelineInv, PoolStep
    PROVE  OnePlace'
<1>types. /\ QueueType /\ WorkerTypes /\ NoRepeats
          /\ \A o \in Orders : Placed(o)
          /\ \A t \in Tasks : t /= None
  BY PlacedOnce, NoneAssumption
  DEF PipelineInv, TypeOK, PoolTypeOK, QueueType, WorkerTypes
<1>still. /\ UNCHANGED <<aggregatorVars, pipelineVars>>
          /\ UNCHANGED <<buffer, batches, seqQueue, ready, forgotten, submitted>>
  BY DEF PoolStep, aggregatorVars, pipelineVars
<1>same. ASSUME NEW o \in Orders, Queued(o)' = Queued(o), Carried(o)' = Carried(o),
                ToPut(o)' = ToPut(o), result'[o] = result[o]
         PROVE  Placed(o)'
  BY <1>same, <1>still, <1>types, Unmoved, SamePlaced
<1>kept. /\ UNCHANGED putters => NoRepeats' /\ \A o : ToPut(o)' = ToPut(o)
         /\ UNCHANGED queue => \A o : Queued(o)' = Queued(o)
         /\ UNCHANGED hand => \A o : Carried(o)' = Carried(o)
         /\ \A o : Buffered(o)' = Buffered(o) /\ Batched(o)' = Batched(o)
         /\ UNCHANGED result => \A o : Elsewhere(o)' = Elsewhere(o)
  BY <1>still, <1>types, Unmoved
<1>close. ASSUME \A o \in Orders : Placed(o)', NoRepeats' PROVE OnePlace'
  BY <1>close, PlacedOnceNext
<1>1. ASSUME NEW p \in Orders, Put(p) PROVE OnePlace'
  <2>1. /\ putters[p] \in Seq(Tasks) /\ putters[p] /= <<>>
        /\ \A i, j \in 1 .. Len(putters[p]) :
               putters[p][i].order = putters[p][j].order => i = j
    BY <1>1, <1>types DEF Put, WorkerTypes, NoRepeats
  <2>2. PICK t \in Tasks : t = Head(putters[p])
    BY <2>1
  <2>3. PICK x \in Orders : x = t.order
    BY DEF Tasks
  <2>4. /\ queue' = queue \union {t} /\ putters'[p] = Tail(putters[p])
        /\ \A r \in Orders : r /= p => putters'[r] = putters[r]
        /\ UNCHANGED <<hand, result>>
    BY <1>1, <2>2, <1>types DEF Put, WorkerTypes
  <2>5. /\ t = putters[p][1] /\ 1 \in 1 .. Len(putters[p])
        /\ \A i, j \in 1 .. Len(putters'[p]) :
               putters'[p][i].order = putters'[p][j].order => i = j
        /\ \A o : (\E i \in 1 .. Len(putters'[p]) : putters'[p][i].order = o)
                  <=> o /= x /\ \E i \in 1 .. Len(putters[p]) : putters[p][i].order = o
    <3> DEFINE ts == putters[p]
    <3>1. Head(ts) = ts[1] /\ 1 \in 1 .. Len(ts)
      BY <2>1, TailTasks
    <3>2. \A i, j \in 1 .. Len(Tail(ts)) : Tail(ts)[i].order = Tail(ts)[j].order => i = j
      BY <2>1, TailTasks
    <3>3. \A o : (\E i \in 1 .. Len(Tail(ts)) : Tail(ts)[i].order = o)
                 <=> o /= Head(ts).order /\ \E i \in 1 .. Len(ts) : ts[i].order = o
      BY <2>1, TailTasks
    <3>4. putters'[p] = Tail(ts) /\ t = Head(ts) /\ x = t.order
      BY <2>2, <2>3, <2>4
    <3> HIDE DEF ts
    <3>5. \A i, j \in 1 .. Len(putters'[p]) : putters'[p][i].order = putters'[p][j].order => i = j
      BY <3>2, <3>4
    <3>6. \A o : (\E i \in 1 .. Len(putters'[p]) : putters'[p][i].order = o)
                 <=> o /= x /\ \E i \in 1 .. Len(ts) : ts[i].order = o
      BY <3>3, <3>4
    <3>7. t = ts[1] /\ 1 \in 1 .. Len(ts)
      BY <3>1, <3>4
    <3> QED
      BY <3>5, <3>6, <3>7 DEF ts
  <2>6. p \in ToPut(x)
    BY <2>3, <2>5 DEF ToPut
  <2>7. /\ x \in submitted /\ Queued(x) = {} /\ Carried(x) = {} /\ ToPut(x) = {p}
        /\ Buffered(x) = {} /\ Batched(x) = {} /\ Elsewhere(x) = {}
    BY <2>6, <1>types, HeldOnce
  <2>8. ASSUME NEW o, NEW r \in Orders
        PROVE  r \in ToPut(o)' <=> r \in ToPut(o) /\ ~(o = x /\ r = p)
    <3>1. CASE r = p
      BY <2>5, <3>1 DEF ToPut
    <3>2. CASE r /= p
      BY <2>4, <3>2 DEF ToPut
    <3> QED
      BY <3>1, <3>2
  <2>9. ToPut(x)' = {} /\ \A o : o /= x => ToPut(o)' = ToPut(o)
    <3>1. \A o : ToPut(o) \subseteq Orders /\ ToPut(o)' \subseteq Orders
      BY DEF ToPut
    <3>2. ToPut(x)' = {}
      BY <2>7, <2>8, <3>1
    <3>3. ASSUME NEW o, o /= x PROVE ToPut(o)' = ToPut(o)
      <4>1. \A r \in Orders : r \in ToPut(o)' <=> r \in ToPut(o)
        BY <2>8, <3>3
      <4> QED
        BY <3>1, <4>1
    <3> QED
      BY <3>2, <3>3
  <2>10. Queued(x)' = {t} /\ \A o : o /= x => Queued(o)' = Queued(o)
    BY <2>3, <2>4, <2>7 DEF Queued
  <2>11. Placed(x)'
    BY <2>4, <2>7, <2>9, <2>10, <1>kept, <1>still DEF Placed, OneOf, Single
  <2>12. ASSUME NEW o \in Orders, o /= x PROVE Placed(o)'
    BY <2>4, <2>9, <2>10, <2>12, <1>kept, <1>same
  <2>13. NoRepeats'
    <3>1. ASSUME NEW r \in Orders, NEW i \in 1 .. Len(putters'[r]),
                 NEW j \in 1 .. Len(putters'[r]),
                 putters'[r][i].order = putters'[r][j].order
          PROVE  i = j
      <4>1. CASE r = p
        BY <2>5, <3>1, <4>1
      <4>2. CASE r /= p
        BY <2>4, <3>1, <4>2, <1>types DEF NoRepeats
      <4> QED
        BY <4>1, <4>2
    <3> QED
      BY <3>1, <1>types, <1>still DEF NoRepeats, Distinct
  <2> QED
    BY <2>11, <2>12, <2>13, <1>close
<1>2. ASSUME NEW w \in Workers, Get(w) PROVE OnePlace'
  <2>1. PICK t \in queue : queue' = queue \ {t} /\ hand' = [hand EXCEPT ![w] = t]
    BY <1>2 DEF Get
  <2>2. UNCHANGED <<putters, result>> /\ hand[w] = None
    BY <1>2 DEF Get, PipelineInv, Shape
  <2>3. PICK x \in Orders : x = t.order
    BY <1>types DEF QueueType, Tasks
  <2>4. t /= None /\ t \in Queued(x)
    BY <2>3, <1>types DEF QueueType, Queued
  <2>5. /\ x \in submitted /\ Queued(x) = {t} /\ Carried(x) = {} /\ ToPut(x) = {}
        /\ Buffered(x) = {} /\ Batched(x) = {} /\ Elsewhere(x) = {}
    BY <2>4, <1>types, HeldOnce
  <2>6. \A v \in Workers : hand'[v] = IF v = w THEN t ELSE hand[v]
    BY <2>1, <1>types DEF WorkerTypes
  <2>7. Carried(x)' = {w} /\ \A o : o /= x => Carried(o)' = Carried(o)
    <3>1. \A v \in Workers : ~(hand[v] /= None /\ hand[v].order = x)
      BY <2>5 DEF Carried
    <3>2. Carried(x)' = {w}
      BY <2>3, <2>4, <2>6, <3>1 DEF Carried
    <3>3. \A o : o /= x => Carried(o)' = Carried(o)
      BY <2>2, <2>3, <2>6 DEF Carried
    <3> QED
      BY <3>2, <3>3
  <2>8. Queued(x)' = {} /\ \A o : o /= x => Queued(o)' = Queued(o)
    BY <2>1, <2>3, <2>5 DEF Queued
  <2>9. Placed(x)'
    BY <2>2, <2>5, <2>7, <2>8, <1>kept, <1>still DEF Placed, OneOf, Single
  <2>10. ASSUME NEW o \in Orders, o /= x PROVE Placed(o)'
    BY <2>2, <2>7, <2>8, <2>10, <1>kept, <1>same
  <2> QED
    BY <2>2, <2>9, <2>10, <1>kept, <1>close
<1>3. ASSUME NEW w \in Workers, IdleEnds(w) \/ ScaleUp(w) PROVE OnePlace'
  <2>1. UNCHANGED <<queue, putters, result>>
    BY <1>3 DEF IdleEnds, ScaleUp
  <2>2. \A v \in Workers : hand'[v] = hand[v]
    BY <1>3, <1>types DEF IdleEnds, ScaleUp, Loop, WorkerTypes, PipelineInv, Shape
  <2>3. \A o : Carried(o)' = Carried(o)
    BY <2>2 DEF Carried
  <2> QED
    BY <2>1, <2>3, <1>same, <1>kept, <1>close
\* The worker puts its task back, with one retry more or as it is.
<1>back. ASSUME NEW w \in Workers, worker[w] \in {"execute", "put"}, NEW t,
                t.order = hand[w].order, queue' = queue \union {t}, Loop(w),
                UNCHANGED <<putters, result>>
         PROVE  OnePlace'
  <2>1. PICK x \in Orders :
            /\ hand[w] \in Tasks /\ hand[w] /= None /\ hand[w].order = x
            /\ x \in submitted /\ Queued(x) = {} /\ Carried(x) = {w} /\ ToPut(x) = {}
            /\ Buffered(x) = {} /\ Batched(x) = {} /\ Elsewhere(x) = {}
    BY <1>back, CarriedOnce
  <2>2. hand'[w] = None /\ \A v \in Workers : v /= w => hand'[v] = hand[v]
    BY <1>back, <1>types DEF Loop, WorkerTypes
  <2>3. Carried(x)' = {} /\ \A o : o /= x => Carried(o)' = Carried(o)
    BY <2>1, <2>2, Dropped
  <2>4. Queued(x)' = {t} /\ \A o : o /= x => Queued(o)' = Queued(o)
    BY <1>back, <2>1 DEF Queued
  <2>5. Placed(x)'
    BY <2>1, <2>3, <2>4, <1>back, <1>kept, <1>still DEF Placed, OneOf, Single
  <2>6. ASSUME NEW o \in Orders, o /= x PROVE Placed(o)'
    BY <2>3, <2>4, <2>6, <1>back, <1>kept, <1>same
  <2> QED
    BY <2>5, <2>6, <1>back, <1>kept, <1>close
<1>4. ASSUME NEW w \in Workers, Fails(w) PROVE OnePlace'
  <2>1. hand[w] \in Tasks /\ hand[w] /= None /\ worker[w] = "execute"
    BY <1>4, CarriedOnce DEF Fails
  <2>2. PICK t \in Tasks : t = Retried(w) /\ t.order = hand[w].order
    <3>1. Retried(w) \in Tasks /\ Retried(w).order = hand[w].order
      BY <1>4, <2>1, PoolAssumption DEF Fails, Retried, Tasks
    <3> QED
      BY <3>1
  <2>3. CASE ~Full
    BY <1>4, <2>1, <2>2, <2>3, <1>back DEF Fails
  <2>4. CASE Full
    <3>1. UNCHANGED <<queue, putters, result>>
      BY <1>4, <2>4 DEF Fails
    <3>2. \A v \in Workers : hand'[v] = IF v = w THEN t ELSE hand[v]
      BY <1>4, <2>2, <2>4, <1>types DEF Fails, WorkerTypes
    <3>3. \A o : Carried(o)' = Carried(o)
      BY <3>2, <2>1, <2>2, <1>types DEF Carried
    <3> QED
      BY <3>1, <3>3, <1>same, <1>kept, <1>close
  <2> QED
    BY <2>3, <2>4
<1>5. ASSUME NEW w \in Workers, RetryPut(w) PROVE OnePlace'
  BY <1>5, <1>back DEF RetryPut
<1>6. ASSUME NEW w \in Workers, Raises(w) PROVE OnePlace'
  BY <1>6, <1>still, WorkerEnds DEF Raises
<1> QED
  BY <1>1, <1>2, <1>3, <1>4, <1>5, <1>6 DEF PoolStep, WorkerStep

\* The order at the head of the sequence ends.
LEMMA SequenceEnds ==
    ASSUME PipelineInv, seqQueue /= <<>>, seqQueue' = Tail(seqQueue), NEW r, r /= "none",
           result' = [result EXCEPT ![Head(seqQueue)] = r],
           UNCHANGED <<queue, putters, hand, aggregatorVars, batches, submitted>>
    PROVE  OnePlace'
<1>types. /\ result \in [Orders -> Results] /\ seqQueue \in Seq(Orders) /\ NoRepeats
          /\ \A o \in Orders : Placed(o)
  BY PlacedOnce DEF PipelineInv, TypeOK, PoolTypeOK
<1>1. PICK x \in Orders : x = Head(seqQueue)
  BY <1>types
<1>2. /\ x \in Members(seqQueue) /\ Distinct(seqQueue')
      /\ Members(seqQueue)' = Members(seqQueue) \ {x}
  <2>1. /\ Head(seqQueue) \in Members(seqQueue) /\ Distinct(Tail(seqQueue))
        /\ Members(Tail(seqQueue)) = Members(seqQueue) \ {Head(seqQueue)}
    BY <1>types, TailDistinct DEF NoRepeats
  <2> QED
    BY <2>1, <1>1 DEF Members
<1>3. "sequence" \in Elsewhere(x)
  BY <1>2 DEF Elsewhere
<1>4. /\ x \in submitted /\ Queued(x) = {} /\ Carried(x) = {} /\ ToPut(x) = {}
      /\ Buffered(x) = {} /\ Batched(x) = {} /\ Elsewhere(x) = {"sequence"}
  BY <1>3, <1>types, HeldOnce
<1>5. \A o \in Orders : result'[o] = IF o = x THEN r ELSE result[o]
  BY <1>1, <1>types
<1>6. UNCHANGED <<buffer, ready, forgotten>>
  BY DEF aggregatorVars
<1>7. Elsewhere(x)' = {"ended"}
  <2>1. x \notin ready /\ x \notin forgotten
    <3>1. "ready" \notin Elsewhere(x) /\ "forgotten" \notin Elsewhere(x)
      BY <1>4
    <3> QED
      BY <3>1 DEF Elsewhere
  <2>2. x \notin Members(seqQueue)' /\ x \notin ready' /\ x \notin forgotten'
    BY <2>1, <1>2, <1>6
  <2> QED
    BY <2>2, <1>5 DEF Elsewhere
<1>8. Placed(x)'
  BY <1>4, <1>6, <1>7, Unmoved DEF Placed, OneOf, Single
<1>9. ASSUME NEW o \in Orders, o /= x PROVE Placed(o)'
  <2>1. Elsewhere(o)' = Elsewhere(o)
    BY <1>2, <1>5, <1>6, <1>9 DEF Elsewhere
  <2> QED
    BY <2>1, <1>6, <1>types, Unmoved, SamePlaced
<1>10. NoRepeats'
  BY <1>2, <1>6, <1>types DEF NoRepeats, Distinct
<1> QED
  BY <1>8, <1>9, <1>10, PlacedOnceNext

\* The first order of a running batch ends.
LEMMA BatchEnds ==
    ASSUME PipelineInv, NEW p \in Orders, NEW r \in Executed, BatchFinished(p, r)
    PROVE  OnePlace'
<1>types. /\ result \in [Orders -> Results] /\ batches \in [Orders -> Seq(Orders)]
          /\ NoRepeats /\ \A o \in Orders : Placed(o)
  BY PlacedOnce DEF PipelineInv, TypeOK, PoolTypeOK
<1>0. /\ batches[p] \in Seq(Orders) /\ batches[p] /= <<>> /\ Distinct(batches[p])
      /\ r /= "none"
  BY <1>types DEF BatchFinished, NoRepeats, Executed
<1>1. PICK x \in Orders : x = Head(batches[p])
  BY <1>0
<1>2. /\ UNCHANGED <<queue, putters, hand, aggregatorVars, submitted, seqQueue>>
      /\ UNCHANGED <<buffer, ready, forgotten>>
      /\ batches'[p] = Tail(batches[p])
      /\ \A q \in Orders : q /= p => batches'[q] = batches[q]
      /\ \A o \in Orders : result'[o] = IF o = x THEN r ELSE result[o]
  BY <1>1, <1>types DEF BatchFinished, aggregatorVars
<1>3. /\ x \in Members(batches[p]) /\ Distinct(batches'[p])
      /\ Members(batches'[p]) = Members(batches[p]) \ {x}
  BY <1>0, <1>1, <1>2, TailDistinct
<1>4. p \in Batched(x)
  BY <1>3 DEF Batched
<1>5. /\ x \in submitted /\ Queued(x) = {} /\ Carried(x) = {} /\ ToPut(x) = {}
      /\ Buffered(x) = {} /\ Batched(x) = {p} /\ Elsewhere(x) = {}
  BY <1>4, <1>types, HeldOnce
<1>6. ASSUME NEW o, NEW q \in Orders
      PROVE  q \in Batched(o)' <=> q \in Batched(o) /\ ~(o = x /\ q = p)
  <2>1. Batched(o)' = {s \in Orders : o \in Members(batches'[s])}
    BY DEF Batched, Members
  <2> QED
    BY <2>1, <1>2, <1>3 DEF Batched
<1>7. \A o : Batched(o) \subseteq Orders /\ Batched(o)' \subseteq Orders
  BY DEF Batched
<1>8. Batched(x)' = {}
  BY <1>5, <1>6, <1>7
<1>9. Elsewhere(x)' = {"ended"}
  <2>1. x \notin Members(seqQueue) /\ x \notin ready /\ x \notin forgotten
    BY <1>5 DEF Elsewhere
  <2>2. x \notin Members(seqQueue)' /\ x \notin ready' /\ x \notin forgotten'
    BY <2>1, <1>2 DEF Members
  <2> QED
    BY <2>2, <1>0, <1>2 DEF Elsewhere
<1>10. Placed(x)'
  BY <1>2, <1>5, <1>8, <1>9, Unmoved DEF Placed, OneOf, Single
<1>11. ASSUME NEW o \in Orders, o /= x PROVE Placed(o)'
  <2>1. \A q \in Orders : q \in Batched(o)' <=> q \in Batched(o)
    BY <1>6, <1>11
  <2>2. Batched(o)' = Batched(o)
    BY <2>1, <1>7
  <2> QED
    BY <2>2, <1>2, <1>11, <1>types, Unmoved, SamePlaced
<1>12. NoRepeats'
  <2>1. ASSUME NEW q \in Orders PROVE Distinct(batches'[q])
    BY <1>2, <1>3, <1>types DEF NoRepeats
  <2> QED
    BY <2>1, <1>2, <1>types DEF NoRepeats, Distinct
<1> QED
  BY <1>10, <1>11, <1>12, PlacedOnceNext

\* What a step makes of the buffers: an order stays where it is, or its buffer
\* is emptied and it is in a batch nobody takes, or forgotten, but not both.
Rebuffered ==
    /\ \A s \in Stocks : Distinct(buffer'[s])
    /\ \A x \in Orders :
           \/ /\ Buffered(x)' = Buffered(x)
              /\ x \in ready' <=> x \in ready
              /\ x \in forgotten' <=> x \in forgotten
           \/ /\ Buffered(x) /= {} /\ Buffered(x)' = {}
              /\ ~(x \in ready' <=> x \in forgotten')

\* Buffers of the stocks ss are emptied: what they held is in L or in F now.
LEMMA BufferMoves ==
    ASSUME PipelineInv, NEW ss \in SUBSET Stocks, Empty(ss, buffer), NEW L, NEW F,
           ready' = ready \union L, forgotten' = forgotten \union F, L \intersect F = {},
           \A s \in ss : \A x \in Members(buffer[s]) : x \in L \/ x \in F,
           \A x \in L \union F : \E s \in ss : x \in Members(buffer[s])
    PROVE  Rebuffered
<1>types. NoRepeats /\ \A o \in Orders : Placed(o)
  BY PlacedOnce DEF PipelineInv
<1>1. \A s \in Stocks : buffer'[s] = IF s \in ss THEN <<>> ELSE buffer[s]
  BY DEF Empty
<1>2. Members(<<>>) = {} /\ Distinct(<<>>)
  BY DEF Members, Distinct
<1>3. \A s \in Stocks : Distinct(buffer'[s])
  BY <1>1, <1>2, <1>types DEF NoRepeats
<1>4. \A x, s : s \in Buffered(x)' <=> s \in Stocks \ ss /\ x \in Members(buffer[s])
  <2>1. \A x : Buffered(x)' = {s \in Stocks : x \in Members(buffer'[s])}
    BY DEF Buffered, Members
  <2> QED
    BY <2>1, <1>1, <1>2
<1>5. ASSUME NEW x \in Orders, \A s \in ss : x \notin Members(buffer[s])
      PROVE  /\ Buffered(x)' = Buffered(x)
             /\ x \in ready' <=> x \in ready
             /\ x \in forgotten' <=> x \in forgotten
  <2>1. \A s : s \in Buffered(x)' <=> s \in Buffered(x)
    BY <1>4, <1>5 DEF Buffered
  <2>2. Buffered(x)' = Buffered(x)
    BY <2>1
  <2> QED
    BY <2>2, <1>5
<1>6. ASSUME NEW x \in Orders, NEW s \in ss, x \in Members(buffer[s])
      PROVE  /\ Buffered(x) /= {} /\ Buffered(x)' = {}
             /\ ~(x \in ready' <=> x \in forgotten')
  <2>1. s \in Buffered(x)
    BY <1>6 DEF Buffered
  <2>2. Buffered(x) = {s} /\ Elsewhere(x) = {}
    BY <2>1, <1>types, HeldOnce
  <2>3. Buffered(x)' = {}
    BY <2>2, <1>4 DEF Buffered
  <2>4. x \notin ready /\ x \notin forgotten
    BY <2>2 DEF Elsewhere
  <2>5. ~(x \in L <=> x \in F)
    BY <1>6
  <2> QED
    BY <2>1, <2>3, <2>4, <2>5
<1> QED
  BY <1>3, <1>5, <1>6 DEF Rebuffered

\* The timers, the age limit and stop empty buffers so.
LEMMA AggregatorMoves ==
    ASSUME PipelineInv,
           \/ \E s \in Stocks : TimerFires(s)
           \/ \E ss \in SUBSET Stocks : Flush(ss)
           \/ UNCHANGED aggregatorVars
    PROVE  Rebuffered
<1>types. /\ buffer \in [Stocks -> Seq(Bufferable)] /\ NoRepeats
          /\ \A o \in Orders : Placed(o)
  BY PlacedOnce DEF PipelineInv, TypeOK, AggregatorTypeOK
<1>1. ASSUME NEW s \in Stocks
      PROVE  LET os == buffer[s] IN
             /\ Members(FirstBatch(os)) \intersect LaterBatches(os) = {}
             /\ LaterBatches(os) \intersect Ungrouped(os) = {}
             /\ Grouped(os) \intersect Ungrouped(os) = {}
             /\ Members(os) = Grouped(os) \union Ungrouped(os)
             /\ Grouped(os) = Members(FirstBatch(os)) \union LaterBatches(os)
             /\ Members(os) \subseteq Orders
  <2>1. buffer[s] \in Seq(Bufferable) /\ Distinct(buffer[s])
    BY <1>types DEF NoRepeats
  <2>2. Members(buffer[s]) \subseteq Orders
    BY <2>1, PipelineAssumption DEF Members
  <2>3. /\ Members(FirstBatch(buffer[s])) \intersect LaterBatches(buffer[s]) = {}
        /\ Members(FirstBatch(buffer[s])) \intersect Ungrouped(buffer[s]) = {}
        /\ LaterBatches(buffer[s]) \intersect Ungrouped(buffer[s]) = {}
        /\ Members(buffer[s]) = Members(FirstBatch(buffer[s])) \union LaterBatches(buffer[s])
                                \union Ungrouped(buffer[s])
        /\ Grouped(buffer[s]) = Members(FirstBatch(buffer[s])) \union LaterBatches(buffer[s])
    BY <2>1, BatchDivides
  <2> QED
    BY <2>2, <2>3
<1>2. ASSUME NEW s \in Stocks, TimerFires(s) PROVE Rebuffered
  <2> DEFINE L == LaterBatches(buffer[s])
             F == Ungrouped(buffer[s]) \union Members(FirstBatch(buffer[s]))
  <2>1. /\ {s} \in SUBSET Stocks /\ Empty({s}, buffer)
        /\ ready' = ready \union L /\ forgotten' = forgotten \union F
    BY <1>2 DEF TimerFires
  <2>2. L \intersect F = {} /\ Members(buffer[s]) = L \union F
    BY <1>1
  <2> HIDE DEF L, F
  <2>3. /\ \A u \in {s} : \A x \in Members(buffer[u]) : x \in L \/ x \in F
        /\ \A x \in L \union F : \E u \in {s} : x \in Members(buffer[u])
    BY <2>2
  <2> QED
    BY <2>1, <2>2, <2>3, BufferMoves
<1>3. ASSUME NEW ss \in SUBSET Stocks, Flush(ss) PROVE Rebuffered
  <2> DEFINE L == UNION {Grouped(buffer[s]) : s \in ss}
             F == UNION {Ungrouped(buffer[s]) : s \in ss}
  <2>1. /\ Empty(ss, buffer)
        /\ ready' = ready \union L /\ forgotten' = forgotten \union F
    BY <1>3 DEF Flush
  <2>2. /\ \A x : x \in L <=> \E s \in ss : x \in Grouped(buffer[s])
        /\ \A x : x \in F <=> \E s \in ss : x \in Ungrouped(buffer[s])
    OBVIOUS
  <2> HIDE DEF L, F
  <2>3. ASSUME NEW x \in L, x \in F PROVE FALSE
    <3>1. PICK s \in ss : x \in Grouped(buffer[s])
      BY <2>2
    <3>2. PICK u \in ss : x \in Ungrouped(buffer[u])
      BY <2>2, <2>3
    <3>3. x \in Members(buffer[s]) /\ x \in Members(buffer[u]) /\ x \in Orders
      BY <3>1, <3>2, <1>1
    <3>4. s \in Buffered(x) /\ u \in Buffered(x)
      BY <3>3 DEF Buffered
    <3>5. s = u
      BY <3>3, <3>4, <1>types, HeldOnce
    <3> QED
      BY <3>1, <3>2, <3>5, <1>1
  <2>4. /\ \A s \in ss : \A x \in Members(buffer[s]) : x \in L \/ x \in F
        /\ \A x \in L \union F : \E s \in ss : x \in Members(buffer[s])
    BY <2>2, <1>1
  <2>5. L \intersect F = {}
    BY <2>3
  <2> QED
    BY <2>1, <2>4, <2>5, BufferMoves
<1>4. CASE UNCHANGED aggregatorVars
  <2>1. UNCHANGED <<buffer, ready, forgotten>>
    BY <1>4 DEF aggregatorVars
  <2> QED
    BY <2>1, <1>types, Unmoved DEF Rebuffered, NoRepeats, Distinct
<1> QED
  BY <1>2, <1>3, <1>4

\* Buffers may be emptied and the queue may be drained; the rest stays.
LEMMA EmptiedPlaces ==
    ASSUME PipelineInv, Rebuffered,
           UNCHANGED <<putters, hand, batches, seqQueue, submitted>>,
           \A o \in Orders :
               \/ Queued(o)' = Queued(o) /\ result'[o] = result[o]
               \/ Queued(o) /= {} /\ Queued(o)' = {} /\ result'[o] /= "none"
    PROVE  OnePlace'
<1>types. NoRepeats /\ \A o \in Orders : Placed(o)
  BY PlacedOnce DEF PipelineInv
<1>1. /\ \A o : /\ Carried(o)' = Carried(o) /\ ToPut(o)' = ToPut(o)
                /\ Batched(o)' = Batched(o)
                /\ o \in Members(seqQueue)' <=> o \in Members(seqQueue)
      /\ submitted' = submitted
  BY Unmoved DEF Members
<1>2. NoRepeats'
  BY <1>types DEF Rebuffered, NoRepeats, Distinct
<1>3. ASSUME NEW o \in Orders PROVE Placed(o)'
  <2>1. CASE Queued(o) /= {} /\ Queued(o)' = {} /\ result'[o] /= "none"
    <3>1. /\ o \in submitted /\ Carried(o) = {} /\ ToPut(o) = {}
          /\ Buffered(o) = {} /\ Batched(o) = {} /\ Elsewhere(o) = {}
      BY <2>1, <1>types, HeldOnce
    <3>2. o \notin Members(seqQueue) /\ o \notin ready /\ o \notin forgotten
      BY <3>1 DEF Elsewhere
    <3>3. Buffered(o)' = {} /\ o \notin ready' /\ o \notin forgotten'
      BY <3>1, <3>2 DEF Rebuffered
    <3>4. Elsewhere(o)' = {"ended"}
      BY <2>1, <3>2, <3>3, <1>1 DEF Elsewhere
    <3> QED
      BY <2>1, <3>1, <3>3, <3>4, <1>1 DEF Placed, OneOf, Single
  <2>2. CASE /\ Queued(o)' = Queued(o) /\ result'[o] = result[o]
             /\ Buffered(o)' = Buffered(o)
             /\ o \in ready' <=> o \in ready
             /\ o \in forgotten' <=> o \in forgotten
    <3>1. Elsewhere(o)' = Elsewhere(o)
      BY <2>2, <1>1 DEF Elsewhere
    <3> QED
      BY <2>2, <3>1, <1>1, <1>types, SamePlaced
  <2>3. CASE /\ Queued(o)' = Queued(o) /\ result'[o] = result[o]
             /\ Buffered(o) /= {} /\ Buffered(o)' = {}
             /\ ~(o \in ready' <=> o \in forgotten')
    <3>1. /\ o \in submitted /\ Queued(o) = {} /\ Carried(o) = {} /\ ToPut(o) = {}
          /\ Batched(o) = {} /\ Elsewhere(o) = {}
      BY <2>3, <1>types, HeldOnce
    <3>2. o \notin Members(seqQueue) /\ result[o] = "none"
      <4>1. "sequence" \notin Elsewhere(o) /\ "ended" \notin Elsewhere(o)
        BY <3>1
      <4> QED
        BY <4>1 DEF Elsewhere
    <3>3. Elsewhere(o)' = IF o \in ready' THEN {"ready"} ELSE {"forgotten"}
      <4>1. CASE o \in ready' /\ o \notin forgotten'
        BY <2>3, <3>2, <4>1, <1>1 DEF Elsewhere
      <4>2. CASE o \notin ready' /\ o \in forgotten'
        BY <2>3, <3>2, <4>2, <1>1 DEF Elsewhere
      <4> QED
        BY <2>3, <4>1, <4>2
    <3>4. Single(Elsewhere(o)')
      BY <3>3 DEF Single
    <3> QED
      BY <2>3, <3>1, <3>4, <1>1 DEF Placed, OneOf
  <2> QED
    BY <2>1, <2>2, <2>3 DEF Rebuffered
<1> QED
  BY <1>2, <1>3, PlacedOnceNext

\* stop drains the pool's queue, and empties the buffers.
LEMMA EndStopPlaces == ASSUME PipelineInv, EndStop PROVE OnePlace'
<1>1. UNCHANGED <<putters, hand, batches, seqQueue, submitted>>
  BY DEF EndStop
<1>2. Rebuffered
  <2>1. Stocks \in SUBSET Stocks
    OBVIOUS
  <2>2. Flush(Stocks) \/ UNCHANGED aggregatorVars
    BY DEF EndStop
  <2> QED
    BY <2>1, <2>2, AggregatorMoves
<1>3. ASSUME NEW o \in Orders
      PROVE  \/ Queued(o)' = Queued(o) /\ result'[o] = result[o]
             \/ Queued(o) /= {} /\ Queued(o)' = {} /\ result'[o] /= "none"
  <2>1. CASE UNCHANGED <<queue, result>>
    BY <2>1, Unmoved
  <2>2. CASE PoolStopped
    <3>1. /\ Queued(o)' = {}
          /\ result'[o] = IF \E t \in queue : t.order = o THEN "discarded" ELSE result[o]
      BY <2>2 DEF PoolStopped, Queued
    <3>2. (\E t \in queue : t.order = o) <=> Queued(o) /= {}
      BY DEF Queued
    <3> QED
      BY <3>1, <3>2
  <2> QED
    BY <2>1, <2>2 DEF EndStop
<1> QED
  BY <1>1, <1>2, <1>3, EmptiedPlaces

\* An order that was not submitted is nowhere.
LEMMA NowhereYet ==
    ASSUME PipelineInv, NEW o \in Orders, o \notin submitted
    PROVE  /\ Queued(o) = {} /\ Carried(o) = {} /\ ToPut(o) = {} /\ Buffered(o) = {}
           /\ Batched(o) = {} /\ Elsewhere(o) = {}
           /\ o \notin Members(seqQueue) /\ o \notin ready /\ o \notin forgotten
           /\ result[o] = "none" /\ putters[o] = <<>> /\ batches[o] = <<>>
<1>1. Placed(o)
  BY PlacedOnce DEF PipelineInv
<1>2. /\ Queued(o) = {} /\ Carried(o) = {} /\ ToPut(o) = {} /\ Buffered(o) = {}
      /\ Batched(o) = {} /\ Elsewhere(o) = {}
  BY <1>1 DEF Placed, NoneOf
<1>3. /\ o \notin Members(seqQueue) /\ o \notin ready /\ o \notin forgotten
      /\ result[o] = "none"
  BY <1>2 DEF Elsewhere
<1>4. putters[o] = <<>> /\ batches[o] = <<>>
  BY DEF PipelineInv, Shape
<1> QED
  BY <1>2, <1>3, <1>4

\* A new order is in one place, and the others are where they were.
LEMMA Arrives ==
    ASSUME PipelineInv, NEW o \in Orders, submitted' = submitted \union {o},
           OneOf(Queued(o)', Carried(o)', ToPut(o)', Buffered(o)', Batched(o)', Elsewhere(o)'),
           \A x \in Orders \ {o} :
               /\ Queued(x)' = Queued(x) /\ Carried(x)' = Carried(x) /\ ToPut(x)' = ToPut(x)
               /\ Buffered(x)' = Buffered(x) /\ Batched(x)' = Batched(x)
               /\ Elsewhere(x)' = Elsewhere(x),
           NoRepeats'
    PROVE  OnePlace'
<1>1. \A x \in Orders : Placed(x)
  BY PlacedOnce DEF PipelineInv
<1>2. Placed(o)'
  BY DEF Placed
<1>3. ASSUME NEW x \in Orders, x /= o PROVE Placed(x)'
  BY <1>1, <1>3, SamePlaced
<1> QED
  BY <1>2, <1>3, PlacedOnceNext

\* The orders a caller hands over are held by that caller.
LEMMA SubmittedPut ==
    ASSUME PipelineInv, NEW o \in Orders, o \notin submitted, NEW os \in Seq(Orders),
           Distinct(os), NEW n \in Nat, Submit(o, os, n)
    PROVE  /\ \A x : ToPut(x)' = IF x \in Members(os) THEN ToPut(x) \union {o} ELSE ToPut(x)
           /\ \A p \in Orders : \A i, j \in 1 .. Len(putters'[p]) :
                  putters'[p][i].order = putters'[p][j].order => i = j
<1>1. /\ \A p \in Orders : p /= o => putters'[p] = putters[p]
      /\ Len(putters'[o]) = Len(os)
      /\ \A i \in 1 .. Len(os) : putters'[o][i].order = os[i]
  BY SubmitEffect
<1>2. putters[o] = <<>> /\ NoRepeats
  BY NowhereYet, PlacedOnce DEF PipelineInv
<1>3. \A x : (\E i \in 1 .. Len(putters'[o]) : putters'[o][i].order = x) <=> x \in Members(os)
  BY <1>1 DEF Members
<1>4. ASSUME NEW x
      PROVE  ToPut(x)' = IF x \in Members(os) THEN ToPut(x) \union {o} ELSE ToPut(x)
  <2>1. \A p \in Orders : p /= o => (p \in ToPut(x)' <=> p \in ToPut(x))
    BY <1>1 DEF ToPut
  <2>2. o \in ToPut(x)' <=> x \in Members(os)
    BY <1>3 DEF ToPut
  <2>3. o \notin ToPut(x)
    BY <1>2 DEF ToPut
  <2>4. ToPut(x) \subseteq Orders /\ ToPut(x)' \subseteq Orders
    BY DEF ToPut
  <2>5. CASE x \in Members(os)
    <3>1. \A p \in Orders : p \in ToPut(x)' <=> p \in ToPut(x) \union {o}
      BY <2>1, <2>2, <2>5
    <3> QED
      BY <3>1, <2>4, <2>5
  <2>6. CASE x \notin Members(os)
    <3>1. \A p \in Orders : p \in ToPut(x)' <=> p \in ToPut(x)
      BY <2>1, <2>2, <2>3, <2>6
    <3> QED
      BY <3>1, <2>4, <2>6
  <2> QED
    BY <2>5, <2>6
<1>5. ASSUME NEW p \in Orders, NEW i \in 1 .. Len(putters'[p]),
             NEW j \in 1 .. Len(putters'[p]), putters'[p][i].order = putters'[p][j].order
      PROVE  i = j
  <2>1. CASE p = o
    BY <1>1, <1>5, <2>1 DEF Distinct
  <2>2. CASE p /= o
    BY <1>1, <1>2, <1>5, <2>2 DEF NoRepeats
  <2> QED
    BY <2>1, <2>2
<1> QED
  BY <1>4, <1>5

\* What add_order makes of a buffer with room.
LEMMA AddedWaits ==
    ASSUME PipelineInv, NEW o \in Orders, o \notin submitted, AddOrder(o),
           ~(Len(Joined(o)) >= MaxBatch)
    PROVE  /\ Batch(o) = <<>> /\ UNCHANGED <<ready, forgotten>>
           /\ \A s \in Stocks : Distinct(buffer'[s])
           /\ Buffered(o)' = {StockOf[o]}
           /\ \A x : x /= o => Buffered(x)' = Buffered(x)
<1>1. PICK u \in Stocks : u = StockOf[o]
  BY AddedBatch
<1>2. /\ Batch(o) = <<>> /\ Added(o) = [buffer EXCEPT ![u] = Joined(o)]
      /\ Added(o)[u] = Joined(o) /\ Distinct(Joined(o))
      /\ Members(Joined(o)) = Members(buffer[u]) \union {o}
  BY <1>1, AddedBatch
<1>3. buffer' = Added(o) /\ UNCHANGED <<ready, forgotten>>
  BY <1>1, <1>2 DEF AddOrder
<1>4. buffer \in [Stocks -> Seq(Bufferable)] /\ NoRepeats /\ Buffered(o) = {}
  BY PlacedOnce, NowhereYet DEF PipelineInv, TypeOK, AggregatorTypeOK
<1>5. \A s \in Stocks : buffer'[s] = IF s = u THEN Joined(o) ELSE buffer[s]
  BY <1>2, <1>3, <1>4
<1>6. \A s \in Stocks : Distinct(buffer'[s])
  BY <1>2, <1>4, <1>5 DEF NoRepeats
<1>7. \A x, s : s \in Buffered(x)' <=> /\ s \in Stocks
                                       /\ x \in Members(buffer[s]) \/ (s = u /\ x = o)
  <2>1. \A x : Buffered(x)' = {s \in Stocks : x \in Members(buffer'[s])}
    BY DEF Buffered, Members
  <2> QED
    BY <2>1, <1>2, <1>5
<1>8. Buffered(o)' = {u}
  <2>1. \A s \in Stocks : o \notin Members(buffer[s])
    BY <1>4 DEF Buffered
  <2>2. \A s : s \in Buffered(o)' <=> s = u
    BY <2>1, <1>1, <1>7
  <2> QED
    BY <2>2
<1>9. ASSUME NEW x, x /= o PROVE Buffered(x)' = Buffered(x)
  <2>1. \A s : s \in Buffered(x)' <=> s \in Buffered(x)
    BY <1>7, <1>9 DEF Buffered
  <2> QED
    BY <2>1
<1> QED
  BY <1>1, <1>2, <1>3, <1>6, <1>8, <1>9

\* The order that fills a buffer: all of it is in the batch of the caller, in
\* one of the others or in none.
LEMMA AddedFills ==
    ASSUME PipelineInv, NEW o \in Orders, o \notin submitted, AddOrder(o),
           Len(Joined(o)) >= MaxBatch
    PROVE  /\ \A s \in Stocks : Distinct(buffer'[s])
           /\ o \in Members(Joined(o))
           /\ \A x \in Orders \ Members(Joined(o)) :
                  /\ x \notin Members(Batch(o)) /\ Buffered(x)' = Buffered(x)
                  /\ x \in ready' <=> x \in ready
                  /\ x \in forgotten' <=> x \in forgotten
           /\ \A x \in Orders \intersect Members(Joined(o)) :
                  /\ Queued(x) = {} /\ Carried(x) = {} /\ ToPut(x) = {} /\ Batched(x) = {}
                  /\ x \notin Members(seqQueue) /\ result[x] = "none"
                  /\ x \in submitted \union {o}
                  /\ Buffered(x)' = {}
                  /\ \/ x \in Members(Batch(o)) /\ x \notin ready' /\ x \notin forgotten'
                     \/ x \notin Members(Batch(o)) /\ x \in ready' /\ x \notin forgotten'
                     \/ x \notin Members(Batch(o)) /\ x \notin ready' /\ x \in forgotten'
<1>1. PICK u \in Stocks : u = StockOf[o]
  BY AddedBatch
<1>2. /\ Batch(o) = FirstBatch(Joined(o)) /\ Added(o) = [buffer EXCEPT ![u] = Joined(o)]
      /\ Added(o)[u] = Joined(o) /\ Joined(o) \in Seq(Orders) /\ Distinct(Joined(o))
      /\ Members(Joined(o)) = Members(buffer[u]) \union {o}
  BY <1>1, AddedBatch
<1>3. /\ Members(Batch(o)) \intersect LaterBatches(Joined(o)) = {}
      /\ Members(Batch(o)) \intersect Ungrouped(Joined(o)) = {}
      /\ LaterBatches(Joined(o)) \intersect Ungrouped(Joined(o)) = {}
      /\ Members(Joined(o)) = Members(Batch(o)) \union LaterBatches(Joined(o))
                              \union Ungrouped(Joined(o))
  BY <1>2, BatchDivides
<1>4. /\ Empty({u}, Added(o))
      /\ ready' = ready \union LaterBatches(Joined(o))
      /\ forgotten' = forgotten \union Ungrouped(Joined(o))
  BY <1>1, <1>2 DEF AddOrder
<1>5. /\ buffer \in [Stocks -> Seq(Bufferable)] /\ NoRepeats
      /\ \A x \in Orders : Placed(x)
  BY PlacedOnce DEF PipelineInv, TypeOK, AggregatorTypeOK
<1>6. \A s \in Stocks : buffer'[s] = IF s = u THEN <<>> ELSE buffer[s]
  BY <1>2, <1>4, <1>5 DEF Empty
<1>7. Members(<<>>) = {} /\ Distinct(<<>>)
  BY DEF Members, Distinct
<1>8. \A s \in Stocks : Distinct(buffer'[s])
  BY <1>5, <1>6, <1>7 DEF NoRepeats
<1>9. \A x, s : s \in Buffered(x)' <=> s \in Stocks /\ s /= u /\ x \in Members(buffer[s])
  <2>1. \A x : Buffered(x)' = {s \in Stocks : x \in Members(buffer'[s])}
    BY DEF Buffered, Members
  <2> QED
    BY <2>1, <1>6, <1>7
<1>10. ASSUME NEW x \in Orders, x \notin Members(Joined(o))
       PROVE  /\ x \notin Members(Batch(o)) /\ Buffered(x)' = Buffered(x)
              /\ x \in ready' <=> x \in ready
              /\ x \in forgotten' <=> x \in forgotten
  <2>1. \A s : s \in Buffered(x)' <=> s \in Buffered(x)
    BY <1>2, <1>9, <1>10 DEF Buffered
  <2>2. Buffered(x)' = Buffered(x)
    BY <2>1
  <2>3. x \notin Members(Batch(o))
    BY <1>3, <1>10
  <2>4. x \notin LaterBatches(Joined(o)) /\ x \notin Ungrouped(Joined(o))
    BY <1>3, <1>10
  <2> QED
    BY <2>2, <2>3, <2>4, <1>4
<1>11. ASSUME NEW x \in Orders, x \in Members(Joined(o))
       PROVE  /\ Queued(x) = {} /\ Carried(x) = {} /\ ToPut(x) = {} /\ Batched(x) = {}
              /\ x \notin Members(seqQueue) /\ result[x] = "none"
              /\ x \notin ready /\ x \notin forgotten /\ Buffered(x) \subseteq {u}
              /\ x \in submitted \union {o}
  <2>1. CASE x = o
    BY <2>1, NowhereYet
  <2>2. CASE x /= o
    <3>1. u \in Buffered(x)
      BY <2>2, <1>2, <1>11 DEF Buffered
    <3>2. /\ x \in submitted /\ Queued(x) = {} /\ Carried(x) = {} /\ ToPut(x) = {}
          /\ Buffered(x) = {u} /\ Batched(x) = {} /\ Elsewhere(x) = {}
      BY <3>1, <1>5, HeldOnce
    <3>3. /\ x \notin Members(seqQueue) /\ x \notin ready /\ x \notin forgotten
          /\ result[x] = "none"
      BY <3>2 DEF Elsewhere
    <3> QED
      BY <3>2, <3>3
  <2> QED
    BY <2>1, <2>2
<1>12. ASSUME NEW x \in Orders, x \in Members(Joined(o))
       PROVE  /\ Buffered(x)' = {}
              /\ \/ x \in Members(Batch(o)) /\ x \notin ready' /\ x \notin forgotten'
                 \/ x \notin Members(Batch(o)) /\ x \in ready' /\ x \notin forgotten'
                 \/ x \notin Members(Batch(o)) /\ x \notin ready' /\ x \in forgotten'
  <2>1. x \notin ready /\ x \notin forgotten /\ Buffered(x) \subseteq {u}
    BY <1>11, <1>12
  <2>2. \A s : s \notin Buffered(x)'
    BY <2>1, <1>9 DEF Buffered
  <2>3. Buffered(x)' = {}
    BY <2>2
  <2>4. /\ x \in ready' <=> x \in LaterBatches(Joined(o))
        /\ x \in forgotten' <=> x \in Ungrouped(Joined(o))
    BY <2>1, <1>4
  <2>5. \/ x \in Members(Batch(o)) \/ x \in LaterBatches(Joined(o))
        \/ x \in Ungrouped(Joined(o))
    BY <1>3, <1>12
  <2>6. /\ ~(x \in Members(Batch(o)) /\ x \in LaterBatches(Joined(o)))
        /\ ~(x \in Members(Batch(o)) /\ x \in Ungrouped(Joined(o)))
        /\ ~(x \in LaterBatches(Joined(o)) /\ x \in Ungrouped(Joined(o)))
    BY <1>3
  <2> QED
    BY <2>3, <2>4, <2>5, <2>6
<1>13. o \in Members(Joined(o))
  BY <1>2
<1> QED
  BY <1>8, <1>10, <1>11, <1>12, <1>13

\* submit_order puts the order in one place, and a batch it completes in one.
LEMMA SubmitPlaces ==
    ASSUME PipelineInv, NEW o \in Orders, SubmitOrder(o)
    PROVE  OnePlace'
<1>cases. /\ o \notin submitted /\ submitted' = submitted \union {o}
          /\ \/ Refuse(o) \/ ToSequence(o) \/ ToAggregator(o) \/ Vanishes(o)
             \/ \E n \in Nat :
                    /\ Submit(o, <<o>>, n)
                    /\ UNCHANGED <<pool, shutdown, queue, worker, hand, tries, result,
                                   aggregatorVars, seqQueue, batches>>
  BY SubmitCases
<1>types. /\ result \in [Orders -> Results] /\ seqQueue \in Seq(Orders)
          /\ batches \in [Orders -> Seq(Orders)] /\ NoRepeats
          /\ \A x \in Orders : Placed(x)
  BY PlacedOnce DEF PipelineInv, TypeOK, PoolTypeOK
<1>new. /\ Queued(o) = {} /\ Carried(o) = {} /\ ToPut(o) = {} /\ Buffered(o) = {}
        /\ Batched(o) = {} /\ Elsewhere(o) = {}
        /\ o \notin Members(seqQueue) /\ o \notin ready /\ o \notin forgotten
        /\ result[o] = "none" /\ putters[o] = <<>> /\ batches[o] = <<>>
  BY <1>cases, NowhereYet
\* An order that is in none of the containers, and its elsewhere is e.
<1>else. ASSUME NEW e, Elsewhere(o)' = {e},
                UNCHANGED <<queue, hand, putters, buffer, batches>>,
                \A x \in Orders \ {o} : Elsewhere(x)' = Elsewhere(x),
                NoRepeats'
         PROVE  OnePlace'
  <2>1. OneOf(Queued(o)', Carried(o)', ToPut(o)', Buffered(o)', Batched(o)', Elsewhere(o)')
    BY <1>else, <1>new, Unmoved DEF OneOf, Single
  <2> QED
    BY <2>1, <1>else, <1>cases, Unmoved, Arrives
<1>1. CASE Refuse(o)
  <2>1. /\ UNCHANGED <<queue, hand, putters, buffer, batches, seqQueue, ready, forgotten>>
        /\ \A x \in Orders : result'[x] = IF x = o THEN "refused" ELSE result[x]
    BY <1>1, <1>types DEF Refuse, aggregatorVars
  <2>2. Members(seqQueue)' = Members(seqQueue)
    BY <2>1 DEF Members
  <2>3. Elsewhere(o)' = {"ended"}
    BY <2>1, <2>2, <1>new DEF Elsewhere
  <2> QED
    BY <2>1, <2>3, <1>else, <1>types, Unmoved
<1>2. CASE ToSequence(o)
  <2>1. /\ UNCHANGED <<queue, hand, putters, buffer, batches, ready, forgotten, result>>
        /\ seqQueue' = Append(seqQueue, o)
    BY <1>2 DEF ToSequence, poolVars, aggregatorVars
  <2>2. Members(seqQueue)' = Members(seqQueue) \union {o} /\ Distinct(seqQueue')
    <3>1. /\ Distinct(Append(seqQueue, o))
          /\ Members(Append(seqQueue, o)) = Members(seqQueue) \union {o}
      BY <1>types, <1>new, AppendDistinct DEF NoRepeats
    <3> QED
      BY <2>1, <3>1 DEF Members
  <2>3. Elsewhere(o)' = {"sequence"}
    BY <2>1, <2>2, <1>new DEF Elsewhere
  <2>4. \A x \in Orders \ {o} : Elsewhere(x)' = Elsewhere(x)
    BY <2>1, <2>2 DEF Elsewhere
  <2>5. NoRepeats'
    BY <2>1, <2>2, <1>types DEF NoRepeats, Distinct
  <2> QED
    BY <2>1, <2>3, <2>4, <2>5, <1>else
<1>3. CASE Vanishes(o)
  <2>1. /\ UNCHANGED <<queue, hand, putters, buffer, batches, ready, seqQueue, result>>
        /\ forgotten' = forgotten \union {o}
    BY <1>3 DEF Vanishes, poolVars
  <2>2. Members(seqQueue)' = Members(seqQueue)
    BY <2>1 DEF Members
  <2>3. Elsewhere(o)' = {"forgotten"}
    BY <2>1, <2>2, <1>new DEF Elsewhere
  <2>4. \A x \in Orders \ {o} : Elsewhere(x)' = Elsewhere(x)
    BY <2>1, <2>2 DEF Elsewhere
  <2> QED
    BY <2>1, <2>3, <2>4, <1>else, <1>types, Unmoved
<1>4. ASSUME NEW n \in Nat, Submit(o, <<o>>, n),
             UNCHANGED <<pool, shutdown, queue, worker, hand, tries, result,
                         aggregatorVars, seqQueue, batches>>
      PROVE  OnePlace'
  <2>1. UNCHANGED <<queue, hand, buffer, batches, ready, forgotten, seqQueue, result>>
    BY <1>4 DEF aggregatorVars
  <2>2. <<o>> \in Seq(Orders) /\ Distinct(<<o>>) /\ Members(<<o>>) = {o}
    BY DEF Distinct, Members
  <2>3. /\ \A x : ToPut(x)' = IF x \in {o} THEN ToPut(x) \union {o} ELSE ToPut(x)
        /\ \A p \in Orders : \A i, j \in 1 .. Len(putters'[p]) :
               putters'[p][i].order = putters'[p][j].order => i = j
    BY <2>2, <1>4, <1>cases, SubmittedPut
  <2>4. ToPut(o)' = {o} /\ \A x : x /= o => ToPut(x)' = ToPut(x)
    BY <2>3, <1>new
  <2>5. NoRepeats'
    BY <2>1, <2>3, <1>types DEF NoRepeats, Distinct
  <2>6. OneOf(Queued(o)', Carried(o)', ToPut(o)', Buffered(o)', Batched(o)', Elsewhere(o)')
    BY <2>1, <2>4, <1>new, Unmoved DEF OneOf, Single
  <2> QED
    BY <2>1, <2>4, <2>5, <2>6, <1>cases, Unmoved, Arrives
<1>5. CASE ToAggregator(o)
  <2>1. /\ AddOrder(o) /\ UNCHANGED <<queue, hand, result, seqQueue>>
        /\ \/ Batch(o) /= <<>> /\ Submit(o, Batch(o), 1) /\ UNCHANGED batches
           \/ UNCHANGED putters /\ batches' = [batches EXCEPT ![o] = Batch(o)]
    BY <1>5 DEF ToAggregator, RunBatch
  <2>2. CASE ~(Len(Joined(o)) >= MaxBatch)
    <3>1. /\ Batch(o) = <<>> /\ UNCHANGED <<ready, forgotten>>
          /\ \A s \in Stocks : Distinct(buffer'[s])
          /\ Buffered(o)' = {StockOf[o]}
          /\ \A x : x /= o => Buffered(x)' = Buffered(x)
      BY <2>1, <2>2, <1>cases, AddedWaits
    <3>2. UNCHANGED <<putters, batches>>
      BY <2>1, <3>1, <1>new, <1>types
    <3>3. OneOf(Queued(o)', Carried(o)', ToPut(o)', Buffered(o)', Batched(o)', Elsewhere(o)')
      BY <2>1, <3>1, <3>2, <1>new, Unmoved DEF OneOf, Single
    <3>4. NoRepeats'
      BY <2>1, <3>1, <3>2, <1>types DEF NoRepeats, Distinct
    <3> QED
      BY <2>1, <3>1, <3>2, <3>3, <3>4, <1>cases, Unmoved, Arrives
  <2>3. CASE Len(Joined(o)) >= MaxBatch
    <3> DEFINE M == Members(Joined(o))
               B == Members(Batch(o))
    <3>1. Batch(o) \in Seq(Orders) /\ Distinct(Batch(o))
      BY <1>cases, AddedBatch
    <3>2. /\ \A s \in Stocks : Distinct(buffer'[s])
          /\ o \in M
          /\ \A x \in Orders \ M :
                 /\ x \notin B /\ Buffered(x)' = Buffered(x)
                 /\ x \in ready' <=> x \in ready
                 /\ x \in forgotten' <=> x \in forgotten
          /\ \A x \in Orders \intersect M :
                 /\ Queued(x) = {} /\ Carried(x) = {} /\ ToPut(x) = {} /\ Batched(x) = {}
                 /\ x \notin Members(seqQueue) /\ result[x] = "none"
                 /\ x \in submitted \union {o}
                 /\ Buffered(x)' = {}
                 /\ \/ x \in B /\ x \notin ready' /\ x \notin forgotten'
                    \/ x \notin B /\ x \in ready' /\ x \notin forgotten'
                    \/ x \notin B /\ x \notin ready' /\ x \in forgotten'
      BY <2>1, <2>3, <1>cases, AddedFills
    \* The caller puts the batch, or runs it.
    <3>3. /\ \/ /\ \A x : ToPut(x)' = IF x \in B THEN ToPut(x) \union {o} ELSE ToPut(x)
                /\ \A x : Batched(x)' = Batched(x)
             \/ /\ \A x : Batched(x)' = IF x \in B THEN Batched(x) \union {o} ELSE Batched(x)
                /\ \A x : ToPut(x)' = ToPut(x)
          /\ \A p \in Orders : \A i, j \in 1 .. Len(putters'[p]) :
                 putters'[p][i].order = putters'[p][j].order => i = j
          /\ \A p \in Orders : Distinct(batches'[p])
      <4>1. CASE Submit(o, Batch(o), 1) /\ UNCHANGED batches
        <5>1. /\ \A x : ToPut(x)' = IF x \in B THEN ToPut(x) \union {o} ELSE ToPut(x)
              /\ \A p \in Orders : \A i, j \in 1 .. Len(putters'[p]) :
                     putters'[p][i].order = putters'[p][j].order => i = j
          BY <4>1, <3>1, <1>cases, SubmittedPut
        <5>2. (\A x : Batched(x)' = Batched(x)) /\ \A p \in Orders : Distinct(batches'[p])
          BY <4>1, <1>types, Unmoved DEF NoRepeats
        <5> QED
          BY <5>1, <5>2
      <4>2. CASE UNCHANGED putters /\ batches' = [batches EXCEPT ![o] = Batch(o)]
        <5>1. \A p \in Orders : batches'[p] = IF p = o THEN Batch(o) ELSE batches[p]
          BY <4>2, <1>types
        <5>2. ASSUME NEW x, NEW p \in Orders
              PROVE  p \in Batched(x)' <=> p \in Batched(x) \/ (p = o /\ x \in B)
          <6>1. Batched(x)' = {q \in Orders : x \in Members(batches'[q])}
            BY DEF Batched, Members
          <6>2. Members(<<>>) = {}
            BY DEF Members
          <6> QED
            BY <5>1, <6>1, <6>2, <1>new DEF Batched
        <5>3. \A x : Batched(x) \subseteq Orders /\ Batched(x)' \subseteq Orders
          BY DEF Batched
        <5>4. ASSUME NEW x
              PROVE  Batched(x)' = IF x \in B THEN Batched(x) \union {o} ELSE Batched(x)
          <6>1. CASE x \in B
            <7>1. \A p : p \in Batched(x)' <=> p \in Batched(x) \union {o}
              BY <6>1, <5>2, <5>3
            <7> QED
              BY <6>1, <7>1
          <6>2. CASE x \notin B
            <7>1. \A p : p \in Batched(x)' <=> p \in Batched(x)
              BY <6>2, <5>2, <5>3
            <7> QED
              BY <6>2, <7>1
          <6> QED
            BY <6>1, <6>2
        <5>5. /\ \A x : ToPut(x)' = ToPut(x)
              /\ \A p \in Orders : \A i, j \in 1 .. Len(putters'[p]) :
                     putters'[p][i].order = putters'[p][j].order => i = j
          BY <4>2, <1>types, Unmoved DEF NoRepeats
        <5>6. \A p \in Orders : Distinct(batches'[p])
          BY <5>1, <3>1, <1>types DEF NoRepeats
        <5> QED
          BY <5>4, <5>5, <5>6
      <4> QED
        BY <2>1, <4>1, <4>2
    <3> HIDE DEF M, B
    <3>4. NoRepeats'
      <4>1. Distinct(seqQueue)'
        BY <2>1, <1>types DEF NoRepeats, Distinct
      <4> QED
        BY <3>2, <3>3, <4>1 DEF NoRepeats, Distinct
    <3>5. /\ \A x : Queued(x)' = Queued(x) /\ Carried(x)' = Carried(x)
          /\ Members(seqQueue)' = Members(seqQueue) /\ result' = result
      BY <2>1, Unmoved DEF Members
    <3>6. ASSUME NEW x \in Orders, x \notin M PROVE Placed(x)'
      <4>1. Elsewhere(x)' = Elsewhere(x)
        BY <3>2, <3>5, <3>6 DEF Elsewhere
      <4>2. ToPut(x)' = ToPut(x) /\ Batched(x)' = Batched(x) /\ Buffered(x)' = Buffered(x)
        BY <3>2, <3>3, <3>6
      <4>3. x \in submitted' <=> x \in submitted
        BY <3>2, <3>6, <1>cases
      <4> QED
        BY <3>5, <4>1, <4>2, <4>3, <1>types, SamePlaced
    <3>7. ASSUME NEW x \in Orders, x \in M PROVE Placed(x)'
      <4>1. /\ Queued(x)' = {} /\ Carried(x)' = {} /\ Buffered(x)' = {}
            /\ ToPut(x) = {} /\ Batched(x) = {} /\ x \in submitted'
            /\ x \notin Members(seqQueue)' /\ result'[x] = "none"
        BY <3>2, <3>5, <3>7, <1>cases
      <4>2. CASE x \in B /\ x \notin ready' /\ x \notin forgotten'
        <5>1. Elsewhere(x)' = {}
          BY <4>1, <4>2 DEF Elsewhere
        <5>2. \/ ToPut(x)' = {o} /\ Batched(x)' = {}
              \/ ToPut(x)' = {} /\ Batched(x)' = {o}
          BY <4>1, <4>2, <3>3
        <5> QED
          BY <4>1, <5>1, <5>2 DEF Placed, OneOf, Single
      <4>3. CASE x \notin B /\ x \in ready' /\ x \notin forgotten'
        <5>1. Elsewhere(x)' = {"ready"}
          BY <4>1, <4>3 DEF Elsewhere
        <5>2. ToPut(x)' = {} /\ Batched(x)' = {}
          BY <4>1, <4>3, <3>3
        <5> QED
          BY <4>1, <5>1, <5>2 DEF Placed, OneOf, Single
      <4>4. CASE x \notin B /\ x \notin ready' /\ x \in forgotten'
        <5>1. Elsewhere(x)' = {"forgotten"}
          BY <4>1, <4>4 DEF Elsewhere
        <5>2. ToPut(x)' = {} /\ Batched(x)' = {}
          BY <4>1, <4>4, <3>3
        <5> QED
          BY <4>1, <5>1, <5>2 DEF Placed, OneOf, Single
      <4> QED
        BY <3>2, <3>7, <4>2, <4>3, <4>4
    <3> QED
      BY <3>4, <3>6, <3>7, PlacedOnceNext
  <2> QED
    BY <2>2, <2>3
<1> QED
  BY <1>cases, <1>1, <1>2, <1>3, <1>4, <1>5

\* Every step leaves each order in one place.
LEMMA PlaceStep == PipelineInv /\ [Next]_vars => OnePlace'
<1> SUFFICES ASSUME PipelineInv, [Next]_vars PROVE OnePlace'
  OBVIOUS
<1>still. ASSUME UNCHANGED <<queue, putters, hand, result, aggregatorVars, batches,
                             seqQueue, submitted>>
          PROVE  OnePlace'
  <2>1. Rebuffered
    BY <1>still, AggregatorMoves
  <2> QED
    BY <1>still, <2>1, Unmoved, EmptiedPlaces
<1>1. CASE \/ Start \/ TimeoutElapses \/ SeqGet \/ UNCHANGED vars
           \/ \E m \in Modes : SwitchMode(m)
  BY <1>1, <1>still
  DEF Start, TimeoutElapses, SeqGet, SwitchMode, vars, poolVars, pipelineVars
<1>2. CASE BeginStop
  <2>1. CASE seqTask = "execute"
    <3>1. seqQueue /= <<>>
      BY <2>1 DEF PipelineInv, Shape
    <3> QED
      BY <1>2, <2>1, <3>1, SequenceEnds DEF BeginStop
  <2>2. CASE seqTask /= "execute"
    BY <1>2, <2>2, <1>still DEF BeginStop
  <2> QED
    BY <2>1, <2>2
<1>3. CASE EndStop
  BY <1>3, EndStopPlaces
<1>4. ASSUME NEW o \in Orders, SubmitOrder(o) PROVE OnePlace'
  BY <1>4, SubmitPlaces
<1>5. ASSUME NEW w \in Workers, PoolSucceeds(w) \/ PoolGivesUp(w) PROVE OnePlace'
  BY <1>5, WorkerEnds DEF PoolSucceeds, Succeeds, PoolGivesUp, GivesUp
<1>6. CASE PoolStep
  BY <1>6, PoolPlaces
<1>7. CASE AggregatorStep
  <2>1. UNCHANGED <<queue, putters, hand, result, batches, seqQueue, submitted>>
    BY <1>7 DEF AggregatorStep, poolVars, pipelineVars
  <2>2. Rebuffered
    BY <1>7, AggregatorMoves DEF AggregatorStep, FlushOld
  <2> QED
    BY <2>1, <2>2, Unmoved, EmptiedPlaces
<1>8. ASSUME NEW r \in Executed, SeqFinished(r) PROVE OnePlace'
  <2>1. seqQueue /= <<>> /\ r /= "none"
    BY <1>8 DEF SeqFinished, Executed, PipelineInv, Shape
  <2> QED
    BY <1>8, <2>1, SequenceEnds DEF SeqFinished
<1>9. ASSUME NEW o \in Orders, NEW r \in Executed, BatchFinished(o, r) PROVE OnePlace'
  BY <1>9, BatchEnds
<1> QED
  BY <1>1, <1>2, <1>3, <1>4, <1>5, <1>6, <1>7, <1>8, <1>9 DEF Next

-----------------------------------------------------------------------------
(* How often an order was executed.                                          *)

\* Only orders of X are executed once more: the others have as many tries as
\* their place says, wherever no container took in another order.
LEMMA TriesKept ==
    ASSUME PipelineInv, NEW X \in SUBSET Orders,
           \A y \in Orders \ X : tries'[y] = tries[y]
    PROVE  /\ X \subseteq submitted' /\ submitted \subseteq submitted' => UnsubmittedTries'
           /\ (\A t \in queue' : t \in queue /\ t.order \notin X) => QueueTries'
           /\ (\A v \in Workers :
                   \/ hand'[v] = None
                   \/ /\ hand'[v] = hand[v]
                      /\ hand[v] /= None =>
                             /\ hand[v].order \notin X
                             /\ worker'[v] = "execute" <=> worker[v] = "execute")
              => HandTries'
           /\ UNCHANGED putters /\ (\A x \in X : ToPut(x) = {}) => PutTries'
           /\ (\A s \in Stocks :
                   \/ buffer'[s] = <<>>
                   \/ buffer'[s] = buffer[s] /\ \A x \in X : x \notin Members(buffer[s]))
              => BufferTries'
           /\ UNCHANGED batches /\ (\A x \in X : Batched(x) = {}) => BatchTries'
           /\ /\ UNCHANGED seqQueue /\ X \intersect Members(seqQueue) = {}
              /\ seqTask' = "execute" <=> seqTask = "execute"
              => SequenceTries'
<1>types. /\ QueueType /\ WorkerTypes /\ PipelineTypes
          /\ buffer \in [Stocks -> Seq(Orders)]
  BY PipelineAssumption
  DEF PipelineInv, TypeOK, PoolTypeOK, AggregatorTypeOK, QueueType, WorkerTypes, PipelineTypes
<1>tries. /\ UnsubmittedTries /\ QueueTries /\ HandTries /\ PutTries /\ BufferTries
          /\ BatchTries /\ SequenceTries
  BY DEF PipelineInv, TriesFollowPlace
<1>1. X \subseteq submitted' /\ submitted \subseteq submitted' => UnsubmittedTries'
  BY <1>tries DEF UnsubmittedTries
<1>2. (\A t \in queue' : t \in queue /\ t.order \notin X) => QueueTries'
  BY <1>tries, <1>types DEF QueueTries, QueueType, Tasks
<1>3. ASSUME \A v \in Workers :
                 \/ hand'[v] = None
                 \/ /\ hand'[v] = hand[v]
                    /\ hand[v] /= None =>
                           /\ hand[v].order \notin X
                           /\ worker'[v] = "execute" <=> worker[v] = "execute"
      PROVE  HandTries'
  <2> SUFFICES ASSUME NEW v \in Workers, hand'[v] /= None
               PROVE  tries'[hand'[v].order]
                          = hand'[v].retries + IF worker'[v] = "execute" THEN 1 ELSE 0
    BY DEF HandTries
  <2>1. /\ hand'[v] = hand[v] /\ hand[v] \in Tasks /\ hand[v].order \notin X
        /\ worker'[v] = "execute" <=> worker[v] = "execute"
    BY <1>3, <1>types DEF WorkerTypes
  <2>2. tries'[hand[v].order] = tries[hand[v].order]
    BY <2>1 DEF Tasks
  <2> QED
    BY <2>1, <2>2, <1>tries DEF HandTries
<1>4. ASSUME UNCHANGED putters, \A x \in X : ToPut(x) = {} PROVE PutTries'
  <2> SUFFICES ASSUME NEW p \in Orders, NEW i \in 1 .. Len(putters[p])
               PROVE  putters[p][i].retries = 0 /\ tries'[putters[p][i].order] = 0
    BY <1>4 DEF PutTries
  <2>1. putters[p][i] \in Tasks
    BY <1>types DEF WorkerTypes
  <2>2. p \in ToPut(putters[p][i].order)
    BY DEF ToPut
  <2>3. putters[p][i].order \in Orders \ X
    BY <2>1, <2>2, <1>4 DEF Tasks
  <2> QED
    BY <2>3, <1>tries DEF PutTries
<1>5. ASSUME \A s \in Stocks :
                 \/ buffer'[s] = <<>>
                 \/ buffer'[s] = buffer[s] /\ \A x \in X : x \notin Members(buffer[s])
      PROVE  BufferTries'
  <2> SUFFICES ASSUME NEW s \in Stocks, NEW i \in 1 .. Len(buffer'[s])
               PROVE  tries'[buffer'[s][i]] = 0
    BY DEF BufferTries
  <2>1. buffer'[s] = buffer[s] /\ \A x \in X : x \notin Members(buffer[s])
    BY <1>5
  <2>2. buffer[s][i] \in Orders \ X
    BY <2>1, <1>types DEF Members
  <2> QED
    BY <2>1, <2>2, <1>tries DEF BufferTries
<1>6. ASSUME UNCHANGED batches, \A x \in X : Batched(x) = {} PROVE BatchTries'
  <2> SUFFICES ASSUME NEW p \in Orders, NEW i \in 1 .. Len(batches[p])
               PROVE  tries'[batches[p][i]] = IF i = 1 THEN 1 ELSE 0
    BY <1>6 DEF BatchTries
  <2>1. batches[p][i] \in Orders /\ p \in Batched(batches[p][i])
    BY <1>types DEF PipelineTypes, Batched, Members
  <2>2. batches[p][i] \in Orders \ X
    BY <2>1, <1>6
  <2> QED
    BY <2>2, <1>tries DEF BatchTries
<1>7. ASSUME UNCHANGED seqQueue, X \intersect Members(seqQueue) = {},
             seqTask' = "execute" <=> seqTask = "execute"
      PROVE  SequenceTries'
  <2> SUFFICES ASSUME NEW i \in 1 .. Len(seqQueue)
               PROVE  tries'[seqQueue[i]] = IF i = 1 /\ seqTask' = "execute" THEN 1 ELSE 0
    BY <1>7 DEF SequenceTries
  <2>1. seqQueue[i] \in Orders \ X
    BY <1>7, <1>types DEF PipelineTypes, Members
  <2> QED
    BY <2>1, <1>7, <1>tries DEF SequenceTries
<1> QED
  BY <1>1, <1>2, <1>3, <1>4, <1>5, <1>6, <1>7

\* The same for a step that executes nothing.
LEMMA TriesUnchanged ==
    ASSUME PipelineInv, UNCHANGED tries
    PROVE  /\ submitted \subseteq submitted' => UnsubmittedTries'
           /\ queue' \subseteq queue => QueueTries'
           /\ (\A v \in Workers :
                   \/ hand'[v] = None
                   \/ /\ hand'[v] = hand[v]
                      /\ hand[v] /= None => (worker'[v] = "execute" <=> worker[v] = "execute"))
              => HandTries'
           /\ UNCHANGED <<hand, worker>> => HandTries'
           /\ UNCHANGED putters => PutTries'
           /\ (\A s \in Stocks : buffer'[s] = <<>> \/ buffer'[s] = buffer[s]) => BufferTries'
           /\ UNCHANGED batches => BatchTries'
           /\ UNCHANGED seqQueue /\ (seqTask' = "execute" <=> seqTask = "execute")
              => SequenceTries'
<1> DEFINE X == {}
<1>1. X \in SUBSET Orders /\ (\A y \in Orders \ X : tries'[y] = tries[y]) /\ \A y : y \notin X
  OBVIOUS
<1> HIDE DEF X
<1>2. /\ X \subseteq submitted' /\ submitted \subseteq submitted' => UnsubmittedTries'
      /\ (\A t \in queue' : t \in queue /\ t.order \notin X) => QueueTries'
      /\ (\A v \in Workers :
              \/ hand'[v] = None
              \/ /\ hand'[v] = hand[v]
                 /\ hand[v] /= None =>
                        /\ hand[v].order \notin X
                        /\ worker'[v] = "execute" <=> worker[v] = "execute")
         => HandTries'
      /\ UNCHANGED putters /\ (\A x \in X : ToPut(x) = {}) => PutTries'
      /\ (\A s \in Stocks :
              \/ buffer'[s] = <<>>
              \/ buffer'[s] = buffer[s] /\ \A x \in X : x \notin Members(buffer[s]))
         => BufferTries'
      /\ UNCHANGED batches /\ (\A x \in X : Batched(x) = {}) => BatchTries'
      /\ /\ UNCHANGED seqQueue /\ X \intersect Members(seqQueue) = {}
         /\ seqTask' = "execute" <=> seqTask = "execute"
         => SequenceTries'
  BY <1>1, TriesKept
<1>3. X \intersect Members(seqQueue) = {} /\ X \subseteq submitted'
  BY <1>1
<1> QED
  BY <1>1, <1>2, <1>3

\* A worker takes a task: its order is executed once more.
LEMMA GetTries ==
    ASSUME PipelineInv, NEW w \in Workers, Get(w),
           UNCHANGED <<aggregatorVars, pipelineVars>>
    PROVE  TriesFollowPlace'
<1>types. /\ queue \subseteq Tasks /\ WorkerTypes /\ hand[w] = None
          /\ \A o \in Orders : Placed(o)
          /\ \A t \in Tasks : t /= None
          /\ QueueTries /\ HandTries
  BY PlacedOnce, NoneAssumption
  DEF PipelineInv, TypeOK, PoolTypeOK, WorkerTypes, Shape, Get, TriesFollowPlace
<1>1. PICK t \in queue : /\ queue' = queue \ {t} /\ hand' = [hand EXCEPT ![w] = t]
                         /\ tries' = [tries EXCEPT ![t.order] = @ + 1]
  BY DEF Get
<1>2. PICK x \in Orders : x = t.order
  BY <1>types DEF Tasks
<1>3. t \in Queued(x)
  BY <1>2 DEF Queued
<1>4. /\ x \in submitted /\ Queued(x) = {t} /\ Carried(x) = {} /\ ToPut(x) = {}
      /\ Buffered(x) = {} /\ Batched(x) = {} /\ Elsewhere(x) = {}
  BY <1>3, <1>types, HeldOnce
<1>5. /\ UNCHANGED <<submitted, putters, buffer, batches, seqQueue, seqTask>>
      /\ worker' = [worker EXCEPT ![w] = "execute"]
  BY DEF Get, aggregatorVars, pipelineVars
<1>6. /\ {x} \in SUBSET Orders /\ \A y \in Orders \ {x} : tries'[y] = tries[y]
      /\ tries'[x] = tries[x] + 1
  BY <1>1, <1>2, <1>types DEF WorkerTypes
<1>7. UnsubmittedTries' /\ PutTries' /\ BatchTries'
  BY <1>4, <1>5, <1>6, TriesKept
<1>8. QueueTries'
  <2>1. \A u \in queue' : u \in queue /\ u.order \notin {x}
    BY <1>1, <1>4 DEF Queued
  <2> QED
    BY <2>1, <1>6, TriesKept
<1>9. BufferTries'
  <2>1. \A s \in Stocks : buffer'[s] = buffer[s] /\ x \notin Members(buffer[s])
    BY <1>4, <1>5 DEF Buffered
  <2> QED
    BY <2>1, <1>6, TriesKept
<1>10. SequenceTries'
  <2>1. {x} \intersect Members(seqQueue) = {}
    BY <1>4 DEF Elsewhere
  <2> QED
    BY <2>1, <1>5, <1>6, TriesKept
<1>11. HandTries'
  <2> SUFFICES ASSUME NEW v \in Workers, hand'[v] /= None
               PROVE  tries'[hand'[v].order]
                          = hand'[v].retries + IF worker'[v] = "execute" THEN 1 ELSE 0
    BY DEF HandTries
  <2>1. CASE v = w
    <3>1. hand'[v] = t /\ worker'[v] = "execute" /\ tries[x] = t.retries
      BY <2>1, <1>1, <1>2, <1>5, <1>types DEF WorkerTypes, QueueTries
    <3> QED
      BY <3>1, <1>2, <1>6
  <2>2. CASE v /= w
    <3>1. hand'[v] = hand[v] /\ worker'[v] = worker[v]
      BY <2>2, <1>1, <1>5, <1>types DEF WorkerTypes
    <3>2. hand[v].order \in Orders /\ hand[v].order /= x
      BY <3>1, <1>4, <1>types DEF WorkerTypes, Tasks, Carried
    <3> QED
      BY <3>1, <3>2, <1>6, <1>types DEF HandTries
  <2> QED
    BY <2>1, <2>2
<1> QED
  BY <1>7, <1>8, <1>9, <1>10, <1>11 DEF TriesFollowPlace

\* The sequential processor executes the head of its sequence.
LEMMA SeqGetTries == ASSUME PipelineInv, SeqGet PROVE TriesFollowPlace'
<1>types. /\ tries \in [Orders -> 0 .. MaxRetries + 1] /\ seqQueue \in Seq(Orders)
          /\ NoRepeats /\ \A o \in Orders : Placed(o)
          /\ SequenceTries /\ HandTries
  BY PlacedOnce DEF PipelineInv, TypeOK, PoolTypeOK, TriesFollowPlace
<1>1. /\ seqQueue /= <<>> /\ seqTask = "get" /\ seqTask' = "execute"
      /\ UNCHANGED <<queue, putters, worker, hand, buffer, submitted, seqQueue, batches>>
  BY DEF SeqGet, aggregatorVars
<1>2. PICK x \in Orders : x = Head(seqQueue) /\ x = seqQueue[1] /\ 1 \in 1 .. Len(seqQueue)
  BY <1>1, <1>types
<1>3. "sequence" \in Elsewhere(x)
  BY <1>2 DEF Elsewhere, Members
<1>4. /\ x \in submitted /\ Queued(x) = {} /\ Carried(x) = {} /\ ToPut(x) = {}
      /\ Buffered(x) = {} /\ Batched(x) = {}
  BY <1>3, <1>types, HeldOnce
<1>5. /\ {x} \in SUBSET Orders /\ \A y \in Orders \ {x} : tries'[y] = tries[y]
      /\ tries'[x] = tries[x] + 1
  BY <1>2, <1>types DEF SeqGet
<1>6. UnsubmittedTries' /\ PutTries' /\ BatchTries'
  BY <1>1, <1>4, <1>5, TriesKept
<1>7. QueueTries'
  <2>1. \A u \in queue' : u \in queue /\ u.order \notin {x}
    BY <1>1, <1>4 DEF Queued
  <2> QED
    BY <2>1, <1>5, TriesKept
<1>8. BufferTries'
  <2>1. \A s \in Stocks : buffer'[s] = buffer[s] /\ x \notin Members(buffer[s])
    BY <1>1, <1>4 DEF Buffered
  <2> QED
    BY <2>1, <1>5, TriesKept
<1>9. HandTries'
  <2>1. \A v \in Workers : /\ hand'[v] = hand[v] /\ worker'[v] = worker[v]
                           /\ hand[v] /= None => hand[v].order \notin {x}
    BY <1>1, <1>4 DEF Carried
  <2> QED
    BY <2>1, <1>5, TriesKept
<1>10. SequenceTries'
  <2> SUFFICES ASSUME NEW i \in 1 .. Len(seqQueue)
               PROVE  tries'[seqQueue[i]] = IF i = 1 THEN 1 ELSE 0
    BY <1>1 DEF SequenceTries
  <2>1. seqQueue[i] \in Orders /\ tries[seqQueue[i]] = 0
    BY <1>1, <1>types DEF SequenceTries
  <2>2. CASE i = 1
    BY <2>1, <2>2, <1>2, <1>5
  <2>3. CASE i /= 1
    <3>1. seqQueue[i] /= x
      BY <2>3, <1>2, <1>types DEF NoRepeats, Distinct
    <3> QED
      BY <2>1, <2>3, <3>1, <1>5
  <2> QED
    BY <2>2, <2>3
<1> QED
  BY <1>6, <1>7, <1>8, <1>9, <1>10 DEF TriesFollowPlace

\* A running batch goes on with its next order.
LEMMA BatchTriesStep ==
    ASSUME PipelineInv, NEW p \in Orders, NEW r \in Executed, BatchFinished(p, r)
    PROVE  TriesFollowPlace'
<1> DEFINE b == batches[p]
<1>types. /\ tries \in [Orders -> 0 .. MaxRetries + 1] /\ batches \in [Orders -> Seq(Orders)]
          /\ NoRepeats /\ \A o \in Orders : Placed(o)
          /\ BatchTries
  BY PlacedOnce DEF PipelineInv, TypeOK, PoolTypeOK, TriesFollowPlace
<1>1. /\ b \in Seq(Orders) /\ b /= <<>> /\ Distinct(b)
      /\ UNCHANGED <<queue, putters, worker, hand, buffer, submitted, seqQueue, seqTask>>
      /\ \A q \in Orders : batches'[q] = IF q = p THEN Tail(b) ELSE batches[q]
      /\ tries' = IF Len(b) > 1 THEN [tries EXCEPT ![b[2]] = @ + 1] ELSE tries
  BY <1>types DEF BatchFinished, NoRepeats, aggregatorVars
<1>2. /\ Len(b) \in Nat /\ Len(b) >= 1 /\ Len(Tail(b)) = Len(b) - 1
      /\ \A i \in 1 .. Len(b) - 1 : Tail(b)[i] = b[i + 1] /\ i + 1 \in 1 .. Len(b)
      /\ \A i \in 1 .. Len(b) : b[i] \in Orders /\ tries[b[i]] = IF i = 1 THEN 1 ELSE 0
  BY <1>1, <1>types DEF BatchTries
<1> DEFINE X == {b[i] : i \in {j \in 1 .. Len(b) : j = 2}}
<1>3. /\ X \in SUBSET Orders /\ \A y \in Orders \ X : tries'[y] = tries[y]
      /\ \A x \in X : tries'[x] = tries[x] + 1 /\ x \in Members(b)
  <2>1. CASE Len(b) > 1
    <3>1. 2 \in 1 .. Len(b) /\ X = {b[2]} /\ b[2] \in Orders /\ b[2] \in Members(b)
      BY <2>1, <1>2 DEF Members
    <3>2. tries' = [tries EXCEPT ![b[2]] = @ + 1]
      BY <2>1, <1>1
    <3> QED
      BY <3>1, <3>2, <1>types
  <2>2. CASE ~(Len(b) > 1)
    <3>1. X = {} /\ tries' = tries
      BY <2>2, <1>1, <1>2
    <3> QED
      BY <3>1
  <2> QED
    BY <2>1, <2>2
<1>4. \A i \in 1 .. Len(b) : b[i] \in X <=> i = 2
  BY <1>1 DEF Distinct
<1> HIDE DEF X
<1>5. ASSUME NEW x \in X
      PROVE  /\ x \in submitted /\ Queued(x) = {} /\ Carried(x) = {} /\ ToPut(x) = {}
             /\ Buffered(x) = {} /\ Batched(x) = {p} /\ x \notin Members(seqQueue)
  <2>1. x \in Orders /\ p \in Batched(x)
    BY <1>3 DEF Batched
  <2>2. /\ x \in submitted /\ Queued(x) = {} /\ Carried(x) = {} /\ ToPut(x) = {}
        /\ Buffered(x) = {} /\ Batched(x) = {p} /\ Elsewhere(x) = {}
    BY <2>1, <1>types, HeldOnce
  <2> QED
    BY <2>2 DEF Elsewhere
<1>6. UnsubmittedTries' /\ PutTries'
  BY <1>1, <1>3, <1>5, TriesKept
<1>7. QueueTries'
  <2>1. \A u \in queue' : u \in queue /\ u.order \notin X
    BY <1>1, <1>5 DEF Queued
  <2> QED
    BY <2>1, <1>3, TriesKept
<1>8. BufferTries'
  <2>1. \A s \in Stocks : buffer'[s] = buffer[s] /\ \A x \in X : x \notin Members(buffer[s])
    BY <1>1, <1>5 DEF Buffered
  <2> QED
    BY <2>1, <1>3, TriesKept
<1>9. HandTries'
  <2>1. \A v \in Workers : /\ hand'[v] = hand[v] /\ worker'[v] = worker[v]
                           /\ hand[v] /= None => hand[v].order \notin X
    BY <1>1, <1>5 DEF Carried
  <2> QED
    BY <2>1, <1>3, TriesKept
<1>10. SequenceTries'
  <2>1. X \intersect Members(seqQueue) = {}
    BY <1>5
  <2> QED
    BY <2>1, <1>1, <1>3, TriesKept
<1>11. BatchTries'
  <2> SUFFICES ASSUME NEW q \in Orders, NEW i \in 1 .. Len(batches'[q])
               PROVE  tries'[batches'[q][i]] = IF i = 1 THEN 1 ELSE 0
    BY DEF BatchTries
  <2>1. CASE q = p
    <3>1. /\ i \in 1 .. Len(b) - 1 /\ batches'[q][i] = b[i + 1] /\ i + 1 \in 1 .. Len(b)
          /\ b[i + 1] \in Orders /\ tries[b[i + 1]] = 0
      <4>1. batches'[q] = Tail(b)
        BY <2>1, <1>1
      <4>2. i \in 1 .. Len(b) - 1
        BY <4>1, <1>2
      <4>3. batches'[q][i] = b[i + 1] /\ i + 1 \in 1 .. Len(b) /\ i + 1 /= 1
        BY <4>1, <4>2, <1>2
      <4> QED
        BY <4>2, <4>3, <1>2
    <3>2. b[i + 1] \in X <=> i = 1
      BY <3>1, <1>4
    <3> QED
      BY <3>1, <3>2, <1>3
  <2>2. CASE q /= p
    <3>1. batches'[q] = batches[q] /\ batches[q][i] \in Orders
      BY <2>2, <1>1, <1>types
    <3>2. q \in Batched(batches[q][i])
      BY <2>2, <3>1, <1>1 DEF Batched, Members
    <3>3. batches[q][i] \notin X
      BY <2>2, <3>2, <1>5
    <3>4. i \in 1 .. Len(batches[q]) /\ tries'[batches[q][i]] = tries[batches[q][i]]
      BY <3>1, <3>3, <1>3
    <3> QED
      BY <3>1, <3>4, <1>types DEF BatchTries
  <2> QED
    BY <2>1, <2>2
<1> QED
  BY <1>6, <1>7, <1>8, <1>9, <1>10, <1>11 DEF TriesFollowPlace

\* submit_order: a new order was not tried, and only a batch that starts to run
\* is executed at once.
LEMMA SubmitTries ==
    ASSUME PipelineInv, NEW o \in Orders, SubmitOrder(o)
    PROVE  TriesFollowPlace'
<1>cases. /\ o \notin submitted /\ submitted' = submitted \union {o}
          /\ UNCHANGED seqTask
          /\ \/ Refuse(o) \/ ToSequence(o) \/ ToAggregator(o) \/ Vanishes(o)
             \/ \E n \in Nat :
                    /\ Submit(o, <<o>>, n)
                    /\ UNCHANGED <<pool, shutdown, queue, worker, hand, tries, result,
                                   aggregatorVars, seqQueue, batches>>
  BY SubmitCases
<1>types. /\ tries \in [Orders -> 0 .. MaxRetries + 1] /\ seqQueue \in Seq(Orders)
          /\ batches \in [Orders -> Seq(Orders)] /\ queue \subseteq Tasks
          /\ WorkerTypes /\ buffer \in [Stocks -> Seq(Orders)]
          /\ UnsubmittedTries /\ PutTries /\ BufferTries /\ BatchTries /\ SequenceTries
          /\ seqTask = "execute" => seqQueue /= <<>>
  BY PipelineAssumption
  DEF PipelineInv, TypeOK, PoolTypeOK, AggregatorTypeOK, WorkerTypes, TriesFollowPlace, Shape
<1>zero. tries[o] = 0 /\ batches[o] = <<>>
  BY <1>cases, NowhereYet DEF PipelineInv, TriesFollowPlace, UnsubmittedTries
<1>grows. submitted \subseteq submitted' /\ o \in submitted'
  BY <1>cases
\* The tasks a caller has to put, of orders not tried yet.
<1>put. ASSUME NEW os \in Seq(Orders), NEW n \in Nat, Submit(o, os, n), UNCHANGED tries,
               \A i \in 1 .. Len(os) : tries[os[i]] = 0
        PROVE  PutTries'
  <2>1. /\ \A p \in Orders : p /= o => putters'[p] = putters[p]
        /\ Len(putters'[o]) = Len(os)
        /\ \A i \in 1 .. Len(os) :
               putters'[o][i].order = os[i] /\ putters'[o][i].retries = 0
    BY <1>put, SubmitEffect
  <2> SUFFICES ASSUME NEW p \in Orders, NEW i \in 1 .. Len(putters'[p])
               PROVE  putters'[p][i].retries = 0 /\ tries[putters'[p][i].order] = 0
    BY <1>put DEF PutTries
  <2>2. CASE p = o
    BY <2>1, <2>2, <1>put
  <2>3. CASE p /= o
    <3>1. putters'[p] = putters[p] /\ i \in 1 .. Len(putters[p])
      BY <2>1, <2>3
    <3>2. putters[p][i].retries = 0 /\ tries[putters[p][i].order] = 0
      BY <3>1, <1>types DEF PutTries
    <3> QED
      BY <3>1, <3>2
  <2> QED
    BY <2>2, <2>3
<1>1. CASE Refuse(o) \/ Vanishes(o)
  <2>1. UNCHANGED <<tries, queue, hand, worker, putters, buffer, batches, seqQueue, seqTask>>
    BY <1>1, <1>cases DEF Refuse, Vanishes, poolVars, aggregatorVars
  <2> QED
    BY <2>1, <1>grows, TriesUnchanged DEF TriesFollowPlace
<1>2. CASE ToSequence(o)
  <2>1. /\ UNCHANGED <<tries, queue, hand, worker, putters, buffer, batches, seqTask>>
        /\ seqQueue' = Append(seqQueue, o)
    BY <1>2, <1>cases DEF ToSequence, poolVars, aggregatorVars
  <2>2. SequenceTries'
    <3> SUFFICES ASSUME NEW i \in 1 .. Len(seqQueue')
                 PROVE  tries[seqQueue'[i]] = IF i = 1 /\ seqTask = "execute" THEN 1 ELSE 0
      BY <2>1 DEF SequenceTries
    <3>1. /\ Len(seqQueue) \in Nat /\ Len(seqQueue') = Len(seqQueue) + 1
          /\ seqQueue'[Len(seqQueue) + 1] = o
          /\ \A j \in 1 .. Len(seqQueue) : seqQueue'[j] = seqQueue[j]
          /\ seqTask = "execute" => Len(seqQueue) /= 0
      BY <2>1, <1>types
    <3>2. CASE i \in 1 .. Len(seqQueue)
      BY <3>1, <3>2, <1>types DEF SequenceTries
    <3>3. CASE i = Len(seqQueue) + 1
      BY <3>1, <3>3, <1>zero
    <3> QED
      BY <3>1, <3>2, <3>3
  <2> QED
    BY <2>1, <2>2, <1>grows, TriesUnchanged DEF TriesFollowPlace
<1>3. ASSUME NEW n \in Nat, Submit(o, <<o>>, n),
             UNCHANGED <<pool, shutdown, queue, worker, hand, tries, result,
                         aggregatorVars, seqQueue, batches>>
      PROVE  TriesFollowPlace'
  <2>1. UNCHANGED <<tries, queue, hand, worker, buffer, batches, seqQueue, seqTask>>
    BY <1>3, <1>cases DEF aggregatorVars
  <2>2. PutTries'
    <3>1. <<o>> \in Seq(Orders) /\ \A i \in 1 .. Len(<<o>>) : tries[<<o>>[i]] = 0
      BY <1>zero
    <3> QED
      BY <3>1, <1>3, <1>put
  <2> QED
    BY <2>1, <2>2, <1>grows, TriesUnchanged DEF TriesFollowPlace
<1>4. CASE ToAggregator(o)
  <2>1. /\ AddOrder(o) /\ UNCHANGED <<queue, hand, worker, seqQueue, seqTask>>
        /\ \/ Batch(o) /= <<>> /\ Submit(o, Batch(o), 1) /\ UNCHANGED <<tries, batches>>
           \/ RunBatch(o)
    BY <1>4, <1>cases DEF ToAggregator
  <2>2. PICK u \in Stocks : u = StockOf[o]
    BY <1>cases, AddedBatch
  <2>3. /\ Added(o) = [buffer EXCEPT ![u] = Joined(o)] /\ Added(o)[u] = Joined(o)
        /\ Joined(o) \in Seq(Orders) /\ Distinct(Joined(o))
        /\ Members(Joined(o)) = Members(buffer[u]) \union {o}
        /\ Batch(o) \in Seq(Orders) /\ Distinct(Batch(o))
        /\ Members(Batch(o)) \subseteq Members(Joined(o))
    BY <2>2, <1>cases, AddedBatch
  <2>4. \A x \in Members(Joined(o)) : x \in Orders /\ tries[x] = 0
    <3>1. \A x \in Members(buffer[u]) : x \in Orders /\ tries[x] = 0
      BY <1>types DEF BufferTries, Members
    <3> QED
      BY <3>1, <2>3, <1>zero
  <2>5. CASE ~(Len(Joined(o)) >= MaxBatch)
    <3>1. Batch(o) = <<>> /\ buffer' = Added(o)
      BY <2>1, <2>2, <2>3, <2>5, <1>cases, AddedWaits DEF AddOrder
    <3>2. UNCHANGED <<tries, putters, batches>>
      BY <2>1, <3>1, <1>types, <1>zero DEF RunBatch
    <3>3. BufferTries'
      <4> SUFFICES ASSUME NEW s \in Stocks, NEW i \in 1 .. Len(buffer'[s])
                   PROVE  tries[buffer'[s][i]] = 0
        BY <3>2 DEF BufferTries
      <4>1. CASE s = u
        <5>1. buffer'[s] = Joined(o)
          BY <4>1, <3>1, <2>3
        <5>2. buffer'[s][i] \in Members(Joined(o))
          BY <5>1 DEF Members
        <5> QED
          BY <5>2, <2>4
      <4>2. CASE s /= u
        <5>1. buffer'[s] = buffer[s]
          BY <4>2, <3>1, <2>3, <1>types
        <5> QED
          BY <5>1, <1>types DEF BufferTries
      <4> QED
        BY <4>1, <4>2
    <3> QED
      BY <2>1, <3>2, <3>3, <1>grows, TriesUnchanged DEF TriesFollowPlace
  <2>6. CASE Len(Joined(o)) >= MaxBatch
    <3>1. \A s \in Stocks : buffer'[s] = <<>> \/ buffer'[s] = buffer[s]
      <4>1. Empty({u}, Added(o))
        BY <2>1, <2>2, <2>3, <2>6 DEF AddOrder
      <4> QED
        BY <4>1, <2>3, <1>types DEF Empty
    <3>2. CASE Submit(o, Batch(o), 1) /\ UNCHANGED <<tries, batches>>
      <4>1. \A i \in 1 .. Len(Batch(o)) : tries[Batch(o)[i]] = 0
        BY <2>3, <2>4 DEF Members
      <4>2. PutTries'
        BY <3>2, <4>1, <2>3, <1>put
      <4> QED
        BY <2>1, <3>1, <3>2, <4>2, <1>grows, TriesUnchanged DEF TriesFollowPlace
    <3>3. CASE RunBatch(o) /\ Batch(o) = <<>>
      <4>1. UNCHANGED <<tries, putters, batches>>
        BY <3>3, <1>types, <1>zero DEF RunBatch
      <4> QED
        BY <2>1, <3>1, <4>1, <1>grows, TriesUnchanged DEF TriesFollowPlace
    <3>4. CASE RunBatch(o) /\ Batch(o) /= <<>>
      <4>1. PICK x \in Orders : x = Batch(o)[1]
        BY <3>4, <2>3
      <4>2. 1 \in 1 .. Len(Batch(o)) /\ x \in Members(Batch(o)) /\ x \in Members(Joined(o))
        BY <3>4, <4>1, <2>3 DEF Members
      <4>3. /\ Queued(x) = {} /\ Carried(x) = {} /\ ToPut(x) = {} /\ Batched(x) = {}
            /\ x \notin Members(seqQueue) /\ x \in submitted' /\ Buffered(x)' = {}
        BY <4>2, <2>1, <2>6, <1>cases, AddedFills
      <4>4. /\ {x} \in SUBSET Orders /\ \A y \in Orders \ {x} : tries'[y] = tries[y]
            /\ tries'[x] = tries[x] + 1
            /\ UNCHANGED putters
            /\ \A p \in Orders : batches'[p] = IF p = o THEN Batch(o) ELSE batches[p]
        BY <3>4, <4>1, <1>types DEF RunBatch
      <4>5. UnsubmittedTries' /\ PutTries'
        BY <4>3, <4>4, <1>grows, TriesKept
      <4>6. QueueTries'
        <5>1. \A t \in queue' : t \in queue /\ t.order \notin {x}
          BY <2>1, <4>3 DEF Queued
        <5> QED
          BY <5>1, <4>4, TriesKept
      <4>7. HandTries'
        <5>1. \A v \in Workers : /\ hand'[v] = hand[v] /\ worker'[v] = worker[v]
                                 /\ hand[v] /= None => hand[v].order \notin {x}
          BY <2>1, <4>3 DEF Carried
        <5> QED
          BY <5>1, <4>4, TriesKept
      <4>8. BufferTries'
        <5>1. \A s \in Stocks : x \notin Members(buffer'[s])
          BY <4>3 DEF Buffered, Members
        <5>2. \A s \in Stocks :
                  \/ buffer'[s] = <<>>
                  \/ buffer'[s] = buffer[s] /\ \A y \in {x} : y \notin Members(buffer[s])
          BY <5>1, <3>1
        <5> QED
          BY <5>2, <4>4, TriesKept
      <4>9. SequenceTries'
        <5>1. {x} \intersect Members(seqQueue) = {}
          BY <4>3
        <5> QED
          BY <5>1, <2>1, <4>4, TriesKept
      <4>10. BatchTries'
        <5> SUFFICES ASSUME NEW q \in Orders, NEW i \in 1 .. Len(batches'[q])
                     PROVE  tries'[batches'[q][i]] = IF i = 1 THEN 1 ELSE 0
          BY DEF BatchTries
        <5>1. CASE q = o
          <6>1. batches'[q] = Batch(o)
            BY <5>1, <4>4
          <6>2. Batch(o)[i] \in Orders /\ tries[Batch(o)[i]] = 0
            BY <6>1, <2>3, <2>4 DEF Members
          <6>3. Batch(o)[i] = x <=> i = 1
            BY <6>1, <4>1, <4>2, <2>3 DEF Distinct
          <6> QED
            BY <6>1, <6>2, <6>3, <4>4
        <5>2. CASE q /= o
          <6>1. batches'[q] = batches[q] /\ i \in 1 .. Len(batches[q])
            BY <5>2, <4>4
          <6>2. batches[q][i] \in Orders /\ batches[q][i] /= x
            <7>1. batches[q][i] \in Orders
              BY <6>1, <1>types
            <7>2. batches[q][i] \in Members(batches[q])
              BY <6>1 DEF Members
            <7>3. x \notin Members(batches[q])
              BY <4>3 DEF Batched
            <7> QED
              BY <7>1, <7>2, <7>3
          <6>3. tries[batches[q][i]] = IF i = 1 THEN 1 ELSE 0
            BY <6>1, <1>types DEF BatchTries
          <6> QED
            BY <6>1, <6>2, <6>3, <4>4
        <5> QED
          BY <5>1, <5>2
      <4> QED
        BY <4>5, <4>6, <4>7, <4>8, <4>9, <4>10 DEF TriesFollowPlace
    <3> QED
      BY <2>1, <3>2, <3>3, <3>4
  <2> QED
    BY <2>5, <2>6
<1> QED
  BY <1>cases, <1>1, <1>2, <1>3, <1>4

\* Every step keeps the tries of an order in line with its place.
LEMMA TriesStep == PipelineInv /\ [Next]_vars => TriesFollowPlace'
<1> SUFFICES ASSUME PipelineInv, [Next]_vars PROVE TriesFollowPlace'
  OBVIOUS
<1>types. /\ queue \subseteq Tasks /\ WorkerTypes /\ seqQueue \in Seq(Orders)
          /\ Shape /\ TriesFollowPlace
          /\ \A t \in Tasks : t /= None
  BY NoneAssumption DEF PipelineInv, TypeOK, PoolTypeOK, WorkerTypes
<1>same. ASSUME UNCHANGED <<tries, submitted, putters, batches, seqQueue>>,
                queue' \subseteq queue,
                \A s \in Stocks : buffer'[s] = <<>> \/ buffer'[s] = buffer[s],
                \A v \in Workers :
                    \/ hand'[v] = None
                    \/ /\ hand'[v] = hand[v]
                       /\ hand[v] /= None => (worker'[v] = "execute" <=> worker[v] = "execute"),
                seqTask' = "execute" <=> seqTask = "execute"
         PROVE  TriesFollowPlace'
  BY <1>same, TriesUnchanged DEF TriesFollowPlace
<1>still. ASSUME UNCHANGED <<tries, submitted, putters, batches, seqQueue, queue, buffer,
                             hand, worker, seqTask>>
          PROVE  TriesFollowPlace'
  BY <1>still, <1>same
\* A worker ends with the task it had.
<1>loop. ASSUME NEW w \in Workers, Loop(w)
         PROVE  \A v \in Workers :
                    \/ hand'[v] = None
                    \/ hand'[v] = hand[v] /\ worker'[v] = worker[v]
  BY <1>loop, <1>types DEF Loop, WorkerTypes
\* The rest of the sequence was not tried yet.
<1>tail. ASSUME seqQueue /= <<>>, seqQueue' = Tail(seqQueue), seqTask' /= "execute",
                UNCHANGED tries
         PROVE  SequenceTries'
  <2>1. /\ Len(seqQueue) \in Nat /\ Len(seqQueue') = Len(seqQueue) - 1
        /\ \A i \in 1 .. Len(seqQueue) - 1 :
               /\ seqQueue'[i] = seqQueue[i + 1] /\ i + 1 \in 1 .. Len(seqQueue)
               /\ i + 1 /= 1
    BY <1>tail, <1>types
  <2> SUFFICES ASSUME NEW i \in 1 .. Len(seqQueue) - 1 PROVE tries[seqQueue'[i]] = 0
    BY <2>1, <1>tail DEF SequenceTries
  <2> QED
    BY <2>1, <1>types DEF TriesFollowPlace, SequenceTries
<1>1. CASE Start
  <2>1. /\ UNCHANGED <<tries, submitted, putters, batches, seqQueue, queue, buffer, hand>>
        /\ seqTask /= "execute" /\ seqTask' /= "execute"
        /\ \A v \in Workers : hand[v] = None
    BY <1>1, <1>types DEF Start, Shape, aggregatorVars
  <2> QED
    BY <2>1, <1>same
<1>2. CASE BeginStop
  <2>1. /\ UNCHANGED <<tries, submitted, putters, batches, queue, buffer, hand, worker>>
        /\ seqTask' /= "execute"
    BY <1>2 DEF BeginStop, aggregatorVars
  <2>2. CASE seqTask = "execute"
    <3>1. SequenceTries'
      BY <1>2, <2>1, <2>2, <1>types, <1>tail DEF BeginStop, Shape
    <3> QED
      BY <2>1, <3>1, TriesUnchanged DEF TriesFollowPlace
  <2>3. CASE seqTask /= "execute"
    BY <1>2, <2>1, <2>3, <1>same DEF BeginStop
  <2> QED
    BY <2>2, <2>3
<1>3. CASE EndStop
  <2>1. /\ UNCHANGED <<tries, submitted, putters, batches, seqQueue, hand, worker, seqTask>>
        /\ queue' \subseteq queue
    BY <1>3 DEF EndStop, PoolStopped
  <2>2. \A s \in Stocks : buffer'[s] = <<>> \/ buffer'[s] = buffer[s]
    BY <1>3 DEF EndStop, Flush, Empty, aggregatorVars
  <2> QED
    BY <2>1, <2>2, <1>same
<1>4. CASE TimeoutElapses \/ (\E m \in Modes : SwitchMode(m)) \/ UNCHANGED vars
  BY <1>4, <1>still
  DEF TimeoutElapses, SwitchMode, vars, poolVars, aggregatorVars, pipelineVars
<1>5. ASSUME NEW o \in Orders, SubmitOrder(o) PROVE TriesFollowPlace'
  BY <1>5, SubmitTries
<1>6. ASSUME NEW w \in Workers, PoolSucceeds(w) \/ PoolGivesUp(w) PROVE TriesFollowPlace'
  <2>1. /\ UNCHANGED <<tries, submitted, putters, batches, seqQueue, queue, buffer, seqTask>>
        /\ Loop(w)
    BY <1>6 DEF PoolSucceeds, Succeeds, PoolGivesUp, GivesUp, aggregatorVars, pipelineVars
  <2> QED
    BY <2>1, <1>loop, <1>same
<1>7. CASE PoolStep
  <2>1. /\ UNCHANGED <<aggregatorVars, pipelineVars>>
        /\ UNCHANGED <<submitted, batches, seqQueue, buffer, seqTask>>
    BY <1>7 DEF PoolStep, aggregatorVars, pipelineVars
  <2>2. ASSUME NEW p \in Orders, Put(p) PROVE TriesFollowPlace'
    <3>1. /\ UNCHANGED <<tries, hand, worker>>
          /\ putters[p] \in Seq(Tasks) /\ putters[p] /= <<>>
          /\ queue' = queue \union {Head(putters[p])}
          /\ \A q \in Orders :
                 putters'[q] = IF q = p THEN Tail(putters[p]) ELSE putters[q]
      BY <2>2, <1>types DEF Put, WorkerTypes
    <3>2. /\ Len(putters[p]) \in Nat /\ Len(putters[p]) >= 1
          /\ Head(putters[p]) = putters[p][1]
          /\ Len(Tail(putters[p])) = Len(putters[p]) - 1
          /\ \A i \in 1 .. Len(putters[p]) - 1 :
                 Tail(putters[p])[i] = putters[p][i + 1] /\ i + 1 \in 1 .. Len(putters[p])
      BY <3>1
    <3>3. \A q \in Orders : \A i \in 1 .. Len(putters[q]) :
              putters[q][i].retries = 0 /\ tries[putters[q][i].order] = 0
      BY <1>types DEF TriesFollowPlace, PutTries
    <3>4. QueueTries'
      <4>1. Head(putters[p]).retries = 0 /\ tries[Head(putters[p]).order] = 0
        BY <3>2, <3>3
      <4> QED
        BY <3>1, <4>1, <1>types DEF TriesFollowPlace, QueueTries
    <3>5. PutTries'
      <4> SUFFICES ASSUME NEW q \in Orders, NEW i \in 1 .. Len(putters'[q])
                   PROVE  putters'[q][i].retries = 0 /\ tries[putters'[q][i].order] = 0
        BY <3>1 DEF PutTries
      <4>1. CASE q = p
        <5>1. putters'[q] = Tail(putters[p])
          BY <4>1, <3>1
        <5>2. putters'[q][i] = putters[p][i + 1] /\ i + 1 \in 1 .. Len(putters[p])
          BY <5>1, <3>2
        <5> QED
          BY <5>2, <3>3
      <4>2. CASE q /= p
        <5>1. putters'[q] = putters[q]
          BY <4>2, <3>1
        <5> QED
          BY <5>1, <3>3
      <4> QED
        BY <4>1, <4>2
    <3> QED
      BY <2>1, <3>1, <3>4, <3>5, TriesUnchanged DEF TriesFollowPlace
  <2>3. ASSUME NEW w \in Workers, Get(w) PROVE TriesFollowPlace'
    BY <2>1, <2>3, GetTries
  <2>4. ASSUME NEW w \in Workers, IdleEnds(w) \/ Raises(w) PROVE TriesFollowPlace'
    BY <2>1, <2>4, <1>loop, <1>same DEF IdleEnds, Raises
  \* The worker puts back a task whose retries count what was tried.
  <2>back. ASSUME NEW w \in Workers, NEW t, tries[t.order] = t.retries,
                  queue' = queue \union {t}, Loop(w), UNCHANGED <<tries, putters>>
           PROVE  TriesFollowPlace'
    <3>1. QueueTries'
      BY <2>back, <1>types DEF TriesFollowPlace, QueueTries
    <3> QED
      BY <2>1, <2>back, <3>1, <1>loop, TriesUnchanged DEF TriesFollowPlace
  <2>5. ASSUME NEW w \in Workers, Fails(w) PROVE TriesFollowPlace'
    <3>1. /\ hand[w] \in Tasks /\ worker[w] = "execute"
          /\ tries[hand[w].order] = hand[w].retries + 1
      BY <2>5, <1>types DEF Fails, Shape, WorkerTypes, TriesFollowPlace, HandTries
    <3>2. PICK t : /\ t = Retried(w) /\ t.order = hand[w].order
                   /\ t.retries = hand[w].retries + 1
      <4>1. /\ Retried(w).order = hand[w].order
            /\ Retried(w).retries = hand[w].retries + 1
        BY <3>1 DEF Retried, Tasks
      <4> QED
        BY <4>1
    <3>3. CASE ~Full
      BY <2>5, <3>1, <3>2, <3>3, <2>back DEF Fails
    <3>4. CASE Full
      <4>1. /\ UNCHANGED <<tries, putters, queue>>
            /\ \A v \in Workers :
                   /\ hand'[v] = IF v = w THEN t ELSE hand[v]
                   /\ worker'[v] = IF v = w THEN "put" ELSE worker[v]
        BY <2>5, <3>2, <3>4, <1>types DEF Fails, WorkerTypes
      <4>2. HandTries'
        <5>1. \A v \in Workers : v /= w /\ hand[v] /= None =>
                  tries[hand[v].order]
                      = hand[v].retries + IF worker[v] = "execute" THEN 1 ELSE 0
          BY <1>types DEF TriesFollowPlace, HandTries
        <5>2. tries[t.order] = t.retries + 0
          BY <3>1, <3>2 DEF Tasks
        <5> QED
          BY <4>1, <5>1, <5>2 DEF HandTries
      <4> QED
        BY <2>1, <4>1, <4>2, TriesUnchanged DEF TriesFollowPlace
    <3> QED
      BY <3>3, <3>4
  <2>6. ASSUME NEW w \in Workers, RetryPut(w) PROVE TriesFollowPlace'
    <3>1. hand[w] \in Tasks /\ tries[hand[w].order] = hand[w].retries + 0
      BY <2>6, <1>types DEF RetryPut, Shape, WorkerTypes, TriesFollowPlace, HandTries
    <3>2. tries[hand[w].order] = hand[w].retries
      BY <3>1 DEF Tasks
    <3> QED
      BY <2>6, <3>2, <2>back DEF RetryPut
  <2>7. ASSUME NEW w \in Workers, ScaleUp(w) PROVE TriesFollowPlace'
    <3>1. /\ UNCHANGED <<tries, putters, queue, hand>>
          /\ hand[w] = None
          /\ \A v \in Workers : v /= w => worker'[v] = worker[v]
      BY <2>7, <1>types DEF ScaleUp, AddWorker, Shape, WorkerTypes
    <3> QED
      BY <2>1, <3>1, <1>same
  <2> QED
    BY <1>7, <2>2, <2>3, <2>4, <2>5, <2>6, <2>7 DEF PoolStep, WorkerStep
<1>8. CASE AggregatorStep
  <2>1. UNCHANGED <<tries, submitted, putters, batches, seqQueue, queue, hand, worker, seqTask>>
    BY <1>8 DEF AggregatorStep, poolVars, pipelineVars
  <2>2. \A s \in Stocks : buffer'[s] = <<>> \/ buffer'[s] = buffer[s]
    BY <1>8 DEF AggregatorStep, TimerFires, FlushOld, Flush, Empty
  <2> QED
    BY <2>1, <2>2, <1>same
<1>9. CASE SeqGet
  BY <1>9, SeqGetTries
<1>10. ASSUME NEW r \in Executed, SeqFinished(r) PROVE TriesFollowPlace'
  <2>1. /\ UNCHANGED <<tries, submitted, putters, batches, queue, buffer, hand, worker>>
        /\ seqTask' /= "execute" /\ seqQueue' = Tail(seqQueue) /\ seqQueue /= <<>>
    BY <1>10, <1>types DEF SeqFinished, Shape, aggregatorVars
  <2>2. SequenceTries'
    BY <2>1, <1>tail
  <2> QED
    BY <2>1, <2>2, TriesUnchanged DEF TriesFollowPlace
<1>11. ASSUME NEW o \in Orders, NEW r \in Executed, BatchFinished(o, r)
       PROVE  TriesFollowPlace'
  BY <1>11, BatchTriesStep
<1> QED
  BY <1>1, <1>2, <1>3, <1>4, <1>5, <1>6, <1>7, <1>8, <1>9, <1>10, <1>11 DEF Next

-----------------------------------------------------------------------------
(* What holds in every behaviour.                                            *)

\* The pipeline starts with all orders outside and nothing running.
LEMMA PipelineInit == Init => PipelineInv
<1> SUFFICES ASSUME Init PROVE PipelineInv
  OBVIOUS
<1>1. MaxQueue \in Nat /\ MaxRetries \in Nat /\ Threshold \in Nat
  BY PoolAssumption, PipelineAssumption
<1>2. IsFiniteSet(queue) /\ Cardinality(queue) = 0
  BY FS_EmptySet DEF Init, PoolInit
<1>3. TypeOK
  <2>0. /\ <<>> \in Seq(Tasks) /\ <<>> \in Seq(Orders)
        /\ 0 \in 0 .. MaxRetries + 1 /\ 0 \in 0 .. Threshold
    BY <1>1
  <2>1. QueueType
    BY <1>1, <1>2 DEF Init, PoolInit, QueueType
  <2>2. WorkerTypes
    <3>1. putters \in [Orders -> Seq(Tasks)] /\ tries \in [Orders -> 0 .. MaxRetries + 1]
      BY <2>0 DEF Init, PoolInit
    <3> QED
      BY <3>1 DEF Init, PoolInit, WorkerTypes, Results
  <2>3. AggregatorTypeOK
    BY DEF Init, AggregatorInit, AggregatorTypeOK
  <2>4. PipelineTypes /\ BreakerTypes
    BY <2>0 DEF Init, PipelineTypes, BreakerTypes
  <2> QED
    BY <2>1, <2>2, <2>3, <2>4
    DEF TypeOK, PoolTypeOK, QueueType, WorkerTypes, PipelineTypes, BreakerTypes
<1>4. Shape
  BY DEF Init, PoolInit, Shape
<1>5. /\ \A p \in Orders : putters[p] = <<>> /\ batches[p] = <<>>
      /\ \A s \in Stocks : buffer[s] = <<>>
      /\ seqQueue = <<>> /\ queue = {} /\ ready = {} /\ forgotten = {} /\ submitted = {}
      /\ \A w \in Workers : hand[w] = None
      /\ \A o \in Orders : result[o] = "none" /\ tries[o] = 0
  BY DEF Init, PoolInit, AggregatorInit
<1>6. Members(<<>>) = {} /\ Distinct(<<>>) /\ Len(<<>>) = 0
  BY DEF Members, Distinct
<1>7. OnePlace
  <2>1. ASSUME NEW o \in Orders PROVE Placed(o)
    <3>1. Queued(o) = {} /\ Carried(o) = {} /\ ToPut(o) = {}
      BY <1>5, <1>6 DEF Queued, Carried, ToPut
    <3>2. Buffered(o) = {} /\ Batched(o) = {} /\ Elsewhere(o) = {}
      BY <1>5, <1>6 DEF Buffered, Batched, Elsewhere
    <3> QED
      BY <3>1, <3>2, <1>5 DEF Placed, NoneOf
  <2>2. NoRepeats
    BY <1>5, <1>6 DEF NoRepeats
  <2> QED
    BY <2>1, <2>2, PlacedOnce
<1>8. TriesFollowPlace
  BY <1>5, <1>6
  DEF TriesFollowPlace, UnsubmittedTries, QueueTries, HandTries, PutTries, BufferTries,
      BatchTries, SequenceTries
<1> QED
  BY <1>3, <1>4, <1>7, <1>8 DEF PipelineInv

\* The invariant holds of every reachable state.
LEMMA PipelineInvariant == Spec => []PipelineInv
<1>1. PipelineInv /\ [Next]_vars => PipelineInv'
  BY TypeStep, ShapeStep, PlaceStep, TriesStep DEF PipelineInv
<1> QED
  BY PipelineInit, <1>1, PTL DEF Spec

\* Every variable keeps its type: the queue never holds more than its bound, and
\* no order is executed more often than once and its retries.
THEOREM PipelineTypeCorrect == Spec => []TypeOK
<1>1. PipelineInv => TypeOK
  BY DEF PipelineInv
<1> QED
  BY <1>1, PipelineInvariant, PTL

\* Every submitted order is in one place, whatever the mode it was submitted in,
\* the mode switches, the failures and the stop in between.
THEOREM OrdersInOnePlace == Spec => []OnePlace
<1>1. PipelineInv => OnePlace
  BY DEF PipelineInv
<1> QED
  BY <1>1, PipelineInvariant, PTL

\* An order is executed once more only while it has no result and attempts left.
THEOREM OrdersNotResent == Spec => NoResend
<1> DEFINE Resend == \A o \in Orders :
               tries'[o] /= tries[o] => result[o] = "none" /\ tries[o] <= MaxRetries
<1>1. PipelineInv /\ [Next]_vars => [Resend]_vars
  <2> SUFFICES ASSUME PipelineInv, Next, NEW x \in Orders, tries'[x] /= tries[x]
               PROVE  result[x] = "none" /\ tries[x] <= MaxRetries
    OBVIOUS
  <2>types. /\ tries \in [Orders -> 0 .. MaxRetries + 1] /\ seqQueue \in Seq(Orders)
            /\ queue \subseteq Tasks /\ batches \in [Orders -> Seq(Orders)]
            /\ MaxRetries \in Nat /\ TriesFollowPlace
            /\ \A o \in Orders : Placed(o)
    BY PlacedOnce, PoolAssumption DEF PipelineInv, TypeOK, PoolTypeOK
  \* An order that something holds has no result.
  <2>held. ASSUME "ended" \notin Elsewhere(x) PROVE result[x] = "none"
    BY <2>held DEF Elsewhere
  <2>1. ASSUME NEW w \in Workers, Get(w) PROVE result[x] = "none" /\ tries[x] <= MaxRetries
    <3>1. PICK t \in queue : tries' = [tries EXCEPT ![t.order] = @ + 1]
      BY <2>1 DEF Get
    <3>2. t \in Tasks /\ x = t.order /\ t \in Queued(x)
      BY <3>1, <2>types DEF Queued
    <3>3. Elsewhere(x) = {}
      BY <3>2, <2>types, HeldOnce
    <3> QED
      BY <3>2, <3>3, <2>held, <2>types DEF TriesFollowPlace, QueueTries, Tasks
  <2>2. CASE SeqGet
    <3>1. x = seqQueue[1] /\ 1 \in 1 .. Len(seqQueue) /\ seqTask = "get"
      BY <2>2, <2>types DEF SeqGet
    <3>2. "sequence" \in Elsewhere(x) /\ tries[x] = 0
      BY <3>1, <2>types DEF Elsewhere, Members, TriesFollowPlace, SequenceTries
    <3>3. Elsewhere(x) = {"sequence"}
      BY <3>2, <2>types, HeldOnce
    <3> QED
      BY <3>2, <3>3, <2>held, <2>types
  <2>3. ASSUME NEW o \in Orders, NEW r \in Executed, BatchFinished(o, r)
        PROVE  result[x] = "none" /\ tries[x] <= MaxRetries
    <3>1. x = batches[o][2] /\ 2 \in 1 .. Len(batches[o])
      BY <2>3, <2>types DEF BatchFinished
    <3>2. o \in Batched(x) /\ tries[x] = 0
      <4>1. o \in Batched(x)
        BY <3>1 DEF Batched, Members
      <4>2. tries[batches[o][2]] = 0
        <5>1. \A i \in 1 .. Len(batches[o]) :
                  tries[batches[o][i]] = IF i = 1 THEN 1 ELSE 0
          BY <2>types DEF TriesFollowPlace, BatchTries
        <5> QED
          BY <3>1, <5>1
      <4> QED
        BY <4>1, <4>2, <3>1
    <3>3. Elsewhere(x) = {}
      BY <3>2, <2>types, HeldOnce
    <3> QED
      BY <3>2, <3>3, <2>held, <2>types
  <2>4. ASSUME NEW o \in Orders, SubmitOrder(o)
        PROVE  result[x] = "none" /\ tries[x] <= MaxRetries
    <3>1. o \notin submitted
      BY <2>4, SubmitCases
    <3>2. RunBatch(o) /\ Batch(o) /= <<>> /\ AddOrder(o)
      BY <2>4, SubmitCases
      DEF Refuse, ToSequence, ToAggregator, Vanishes, RunBatch, poolVars
    <3>3. /\ x = Batch(o)[1] /\ Batch(o) \in Seq(Orders) /\ Len(Joined(o)) >= MaxBatch
          /\ Members(Batch(o)) \subseteq Members(Joined(o))
      BY <3>1, <3>2, <2>types, AddedBatch DEF RunBatch
    <3>4. x \in Members(Joined(o))
      <4>1. 1 \in 1 .. Len(Batch(o))
        BY <3>2, <3>3
      <4>2. x \in Members(Batch(o))
        BY <3>3, <4>1 DEF Members
      <4> QED
        BY <3>3, <4>2
    <3>5. result[x] = "none"
      BY <3>1, <3>2, <3>3, <3>4, AddedFills
    <3>6. tries[x] = 0
      <4>1. /\ StockOf[o] \in Stocks
            /\ Members(Joined(o)) = Members(buffer[StockOf[o]]) \union {o}
        BY <3>1, AddedBatch
      <4>2. CASE x = o
        BY <3>1, <4>2, <2>types DEF TriesFollowPlace, UnsubmittedTries
      <4>3. CASE x \in Members(buffer[StockOf[o]])
        <5>1. PICK i \in 1 .. Len(buffer[StockOf[o]]) : x = buffer[StockOf[o]][i]
          BY <4>3 DEF Members
        <5> QED
          BY <4>1, <5>1, <2>types DEF TriesFollowPlace, BufferTries
      <4> QED
        BY <3>4, <4>1, <4>2, <4>3
    <3> QED
      BY <3>5, <3>6, <2>types
  <2>5. CASE \/ Start \/ BeginStop \/ EndStop \/ TimeoutElapses \/ AggregatorStep
             \/ \E m \in Modes : SwitchMode(m)
             \/ \E w \in Workers : PoolSucceeds(w) \/ PoolGivesUp(w)
             \/ \E r \in Executed : SeqFinished(r)
    BY <2>5
    DEF Start, BeginStop, EndStop, TimeoutElapses, AggregatorStep, SwitchMode, poolVars,
        PoolSucceeds, Succeeds, PoolGivesUp, GivesUp, SeqFinished
  <2>6. CASE PoolStep
    BY <2>1, <2>6
    DEF PoolStep, WorkerStep, Put, IdleEnds, Fails, RetryPut, Raises, ScaleUp
  <2> QED
    BY <2>2, <2>3, <2>4, <2>5, <2>6 DEF Next
<1>2. Spec => [][Resend]_vars
  BY <1>1, PipelineInvariant, PTL DEF Spec
<1> QED
  BY <1>2 DEF NoResend
=============================================================================
