----------------------- MODULE TimeSeriesWriterProofs -----------------------
(* Nothing is lost between a buffer and its table, for any batch size and    *)
(* any number of items and failures.                                         *)
EXTENDS TimeSeriesWriter, WellFoundedInduction, TLAPS

\* A flush, or none.
Flight == [at : {"off", "asleep", "write"}, kind : Kinds \union {"none"}, next : Nat, rows : Seq(Items)]

\* The kinds of rows and the tasks, one by one.
LEMMA KindsAre ==
    /\ Flushed = <<"market", "order", "balance", "metric">>
    /\ ToSet(Flushed) = {"market", "order", "balance", "metric"}
    /\ Kinds = {"market", "order", "balance", "metric", "log"}
    /\ Loops = {"loop", "logger"}
    /\ Writers = {"loop", "logger", "caller", "stop", "last"}
<1>1. ToSet(Flushed) = {Flushed[1], Flushed[2], Flushed[3], Flushed[4]}
  BY DEF ToSet, Flushed
<1>2. ToSet(Flushed) = {"market", "order", "balance", "metric"}
  BY <1>1 DEF Flushed
<1> QED
  BY <1>2 DEF Kinds, Loops, Writers, Flushed

\* Who flushes nothing holds nothing.
LEMMA RestingTypes ==
    ASSUME NEW f \in {Off, Asleep}
    PROVE  f \in Flight /\ f.kind = "none" /\ f.at /= "write" /\ f.rows = <<>>
<1>1. <<>> \in Seq(Items) /\ 0 \in Nat
  OBVIOUS
<1>2. CASE f = Off
  BY <1>1, <1>2 DEF Off, Flight
<1>3. CASE f = Asleep
  <2>1. f = [at |-> "asleep", kind |-> "none", next |-> 0, rows |-> <<>>]
    BY <1>3 DEF Asleep, Off
  <2> QED
    BY <1>1, <2>1 DEF Flight
<1> QED
  BY <1>2, <1>3

\* The first of a few indices.
LEMMA MinOfFour ==
    ASSUME NEW S, S \subseteq 1 .. 4, S /= {}
    PROVE  Min(S) \in S
<1>1. \E x \in S : \A y \in S : x <= y
  <2>1. CASE 1 \in S
    BY <2>1
  <2>2. CASE 1 \notin S /\ 2 \in S
    BY <2>2
  <2>3. CASE 1 \notin S /\ 2 \notin S /\ 3 \in S
    BY <2>3
  <2>4. CASE 1 \notin S /\ 2 \notin S /\ 3 \notin S
    <3>1. \A y \in S : y = 4
      BY <2>4
    <3>2. 4 \in S
      BY <3>1
    <3> QED
      BY <3>1, <3>2
  <2> QED
    BY <2>1, <2>2, <2>3, <2>4
<1> QED
  BY <1>1 DEF Min

\* The end of a sequence.
LEMMA EndOf ==
    ASSUME NEW S, NEW s \in Seq(S), NEW m \in 0 .. Len(s)
    PROVE  LET r == SubSeq(s, 1 + m, Len(s))
           IN  /\ r \in Seq(S) /\ Len(r) = Len(s) - m
               /\ \A i \in 1 .. Len(r) : r[i] = s[m + i] /\ m + i \in 1 .. Len(s)
OBVIOUS

\* What is flushed after a kind is the task's own.
LEMMA RestTypes ==
    ASSUME NEW w \in Writers, NEW k \in Kinds
    PROVE  /\ Rest(w, k) \in Seq(Kinds)
           /\ Len(Rest(w, k)) <= 4
           /\ ToSet(Rest(w, k)) \subseteq OwnKinds(w)
<1>1. CASE w \notin {"loop", "stop"}
  BY <1>1 DEF Rest, ToSet
<1>2. CASE w \in {"loop", "stop"}
  <2> DEFINE m == SelectInSeq(Flushed, LAMBDA q : q = k)
  <2>1. Flushed \in Seq(Kinds) /\ Len(Flushed) = 4
    BY KindsAre
  <2>2. m \in 0 .. 4
    <3> DEFINE I == {i \in 1 .. Len(Flushed) : Flushed[i] = k}
    <3>1. I \subseteq 1 .. 4
      BY <2>1
    <3>2. m = IF I /= {} THEN Min(I) ELSE 0
      BY DEF SelectInSeq
    <3> HIDE DEF m, I
    <3>3. I /= {} => Min(I) \in 1 .. 4
      BY <3>1, MinOfFour
    <3> QED
      BY <3>2, <3>3
  <2> HIDE DEF m
  <2>3. Rest(w, k) = SubSeq(Flushed, 1 + m, Len(Flushed))
    BY <1>2 DEF Rest, m
  <2> DEFINE r == SubSeq(Flushed, 1 + m, Len(Flushed))
  <2>4. r \in Seq(Kinds) /\ Len(r) = 4 - m
        /\ \A i \in 1 .. Len(r) : r[i] = Flushed[m + i] /\ m + i \in 1 .. Len(Flushed)
    <3>1. m \in 0 .. Len(Flushed)
      BY <2>1, <2>2
    <3>2. Len(r) = Len(Flushed) - m /\ r \in Seq(Kinds)
      BY <2>1, <3>1, EndOf
    <3>3. \A i \in 1 .. Len(r) : r[i] = Flushed[m + i] /\ m + i \in 1 .. Len(Flushed)
      BY <2>1, <3>1, EndOf
    <3> QED
      BY <2>1, <3>2, <3>3
  <2> HIDE DEF r
  <2>6. ToSet(r) \subseteq ToSet(Flushed)
    BY <2>1, <2>4 DEF ToSet
  <2> QED
    BY <1>2, <2>2, <2>3, <2>4, <2>6 DEF OwnKinds, r
<1> QED
  BY <1>1, <1>2

\* What Flush comes to: nothing is left, or one of the kinds is being written.
Rests(tasks, w, buf) ==
    /\ writer' = [tasks EXCEPT ![w] = IF w \in Loops THEN Asleep ELSE Off]
    /\ buffer' = buf

Begins(tasks, w, buf, k) ==
    /\ buf[k] /= <<>>
    /\ writer' = [tasks EXCEPT ![w] = Writing(k, 1, buf[k])]
    /\ buffer' = IF TakenOut(k) THEN [buf EXCEPT ![k] = <<>>] ELSE buf

\* A flush begins with one of its kinds that has rows, or there is none and it
\* is over.
LEMMA FlushIs ==
    ASSUME NEW tasks, NEW w, NEW kinds \in Seq(Kinds), Len(kinds) <= 4, NEW buf,
           Flush(tasks, w, kinds, buf)
    PROVE  Rests(tasks, w, buf) \/ \E k \in ToSet(kinds) : Begins(tasks, w, buf, k)
<1> DEFINE full == {i \in DOMAIN kinds : buf[kinds[i]] /= <<>>}
<1>1. CASE full = {}
  BY <1>1 DEF Flush, Rests
<1>2. CASE full /= {}
  <2>1. full \subseteq 1 .. 4
    OBVIOUS
  <2>2. Min(full) \in full
    BY <1>2, <2>1, MinOfFour
  <2>3. kinds[Min(full)] \in ToSet(kinds)
    BY <2>2 DEF ToSet
  <2>4. Begins(tasks, w, buf, kinds[Min(full)])
    BY <1>2, <2>2 DEF Flush, Begins
  <2> QED
    BY <2>2, <2>3, <2>4
<1> QED
  BY <1>1, <1>2

\* What sequences hold.
LEMMA AppendHolds ==
    ASSUME NEW S, NEW s \in Seq(S), NEW e \in S
    PROVE  Append(s, e) \in Seq(S) /\ ToSet(Append(s, e)) = ToSet(s) \union {e}
<1> DEFINE t == Append(s, e)
<1>1. t \in Seq(S) /\ Len(t) = Len(s) + 1 /\ t[Len(t)] = e
      /\ \A i \in 1 .. Len(s) : t[i] = s[i]
  OBVIOUS
<1> HIDE DEF t
<1>2. ToSet(t) \subseteq ToSet(s) \union {e}
  BY <1>1 DEF ToSet
<1>3. ToSet(s) \subseteq ToSet(t)
  BY <1>1 DEF ToSet
<1>4. e \in ToSet(t)
  BY <1>1 DEF ToSet
<1> QED
  BY <1>1, <1>2, <1>3, <1>4 DEF t

\* A concatenation holds what its parts hold.
LEMMA ConcatHolds ==
    ASSUME NEW S, NEW s \in Seq(S), NEW t \in Seq(S)
    PROVE  s \o t \in Seq(S) /\ ToSet(s \o t) = ToSet(s) \union ToSet(t)
<1> DEFINE u == s \o t
<1>1. /\ u \in Seq(S) /\ Len(u) = Len(s) + Len(t)
      /\ \A i \in 1 .. Len(s) : u[i] = s[i]
      /\ \A i \in 1 .. Len(t) : u[Len(s) + i] = t[i]
  OBVIOUS
<1> HIDE DEF u
<1>2. ASSUME NEW i \in 1 .. Len(u) PROVE u[i] \in ToSet(s) \union ToSet(t)
  <2>1. CASE i <= Len(s)
    BY <1>1, <1>2, <2>1 DEF ToSet
  <2>2. CASE i > Len(s)
    <3>1. i - Len(s) \in 1 .. Len(t) /\ Len(s) + (i - Len(s)) = i
      BY <1>1, <1>2, <2>2
    <3>2. u[i] = t[i - Len(s)]
      BY <1>1, <3>1
    <3> QED
      BY <3>1, <3>2 DEF ToSet
  <2> QED
    BY <2>1, <2>2, <1>1, <1>2
<1>3. ASSUME NEW i \in 1 .. Len(s) PROVE s[i] \in ToSet(u)
  <2>1. i \in 1 .. Len(u) /\ u[i] = s[i]
    BY <1>1, <1>3
  <2> QED
    BY <1>1, <2>1 DEF ToSet
<1>4. ASSUME NEW i \in 1 .. Len(t) PROVE t[i] \in ToSet(u)
  <2>1. Len(s) + i \in 1 .. Len(u) /\ u[Len(s) + i] = t[i]
    BY <1>1, <1>4
  <2> QED
    BY <1>1, <2>1 DEF ToSet
<1>5. ToSet(u) \subseteq ToSet(s) \union ToSet(t)
  BY <1>1, <1>2 DEF ToSet
<1>6. ToSet(t) \subseteq ToSet(u)
  BY <1>4 DEF ToSet
<1>7. ToSet(s) \subseteq ToSet(u)
  BY <1>3 DEF ToSet
<1> QED
  BY <1>1, <1>5, <1>6, <1>7 DEF u

-----------------------------------------------------------------------------
(* What a write leaves in a table.                                           *)

\* A set of numbers has a least one.
LEMMA LeastOf ==
    ASSUME NEW S, S \subseteq Nat, S /= {}
    PROVE  \E m \in S : \A k \in S : m <= k
<1> DEFINE R == OpToRel(<, Nat)
<1>1. IsWellFoundedOn(R, Nat)
  BY NatLessThanWellFounded
<1>2. \A x, y \in Nat : x < y => <<x, y>> \in R
  BY DEF OpToRel
<1> HIDE DEF R
<1>3. PICK m \in S : \A k \in S : ~(<<k, m>> \in R)
  BY <1>1, WFMin, Zenon
<1>4. ASSUME NEW k \in S PROVE m <= k
  <2>1. k \in Nat /\ m \in Nat
    OBVIOUS
  <2>2. ~(k < m)
    BY <1>2, <1>3, <2>1
  <2> QED
    BY <2>1, <2>2
<1> QED
  BY <1>4

\* Of every key that comes there is a first row and a last one.
LEMMA FirstAndLast ==
    ASSUME NEW k, NEW rows \in Seq(Items), NEW n \in ToSet(rows)
    PROVE  /\ \E r \in Oldest(k, rows) : Same(k, r, n)
           /\ \E r \in Newest(k, rows) : Same(k, r, n)
<1> DEFINE S == {j \in 1 .. Len(rows) : KeyOf(k, rows[j]) = KeyOf(k, n)}
<1>1. PICK i \in S : TRUE
  BY DEF ToSet
<1>2. \E r \in Oldest(k, rows) : Same(k, r, n)
  <2>1. PICK m \in S : \A j \in S : m <= j
    <3>1. S \subseteq Nat /\ S /= {}
      BY <1>1
    <3> HIDE DEF S
    <3> QED
      BY <3>1, LeastOf
  <2>2. \A j \in DOMAIN rows : j < m => ~Same(k, rows[j], rows[m])
    BY <2>1 DEF Same
  <2>3. rows[m] \in Oldest(k, rows)
    BY <2>1, <2>2 DEF Oldest
  <2> QED
    BY <2>1, <2>3 DEF Same
<1>3. \E r \in Newest(k, rows) : Same(k, r, n)
  <2> DEFINE T == {Len(rows) - j : j \in S}
  <2>1. PICK d \in T : \A e \in T : d <= e
    <3>1. T \subseteq Nat /\ T /= {}
      BY <1>1
    <3> HIDE DEF T
    <3> QED
      BY <3>1, LeastOf
  <2>2. PICK m \in S : d = Len(rows) - m
    OBVIOUS
  <2>3. ASSUME NEW j \in S PROVE j <= m
    <3>1. Len(rows) - m <= Len(rows) - j
      BY <2>1, <2>2
    <3>2. j \in Int /\ m \in Int /\ Len(rows) \in Int
      OBVIOUS
    <3> QED
      BY <3>1, <3>2
  <2>4. \A j \in DOMAIN rows : j > m => ~Same(k, rows[j], rows[m])
    BY <2>3 DEF Same
  <2>5. rows[m] \in Newest(k, rows)
    BY <2>4 DEF Newest
  <2> QED
    BY <2>5 DEF Same
<1> QED
  BY <1>2, <1>3

\* A write takes no key away, and leaves every key it brings; of orders it leaves
\* every row.
LEMMA StoredIs ==
    ASSUME NEW k \in Kinds, NEW rows \in Seq(Items), table[k] \subseteq Items
    PROVE  /\ Stored(k, rows) \subseteq table[k] \union ToSet(rows)
           /\ Covers(k, table[k]) \subseteq Covers(k, Stored(k, rows))
           /\ ToSet(rows) \subseteq Covers(k, Stored(k, rows))
           /\ k = "order" => Stored(k, rows) = table[k] \union ToSet(rows)
<1> DEFINE old == table[k]
           new == Stored(k, rows)
<1>1. Oldest(k, rows) \subseteq ToSet(rows) /\ Newest(k, rows) \subseteq ToSet(rows)
  BY DEF Oldest, Newest, ToSet
<1>2. ToSet(rows) \subseteq Items
  BY DEF ToSet
<1>3. \A m, n, o : Same(k, m, n) /\ Same(k, n, o) => Same(k, m, o) /\ Same(k, n, m)
  BY DEF Same
<1>s. \A n : Same(k, n, n)
  BY DEF Same
<1>4. new \subseteq old \union ToSet(rows)
  BY <1>1, KindsAre DEF Stored
<1>5. CASE k = "order"
  BY <1>5 DEF Stored, Covers
<1>6. CASE k = "metric"
  <2>1. new = old \union ToSet(rows)
    BY <1>6 DEF Stored
  <2> QED
    BY <1>2, <1>4, <1>6, <1>s, <2>1 DEF Covers
<1>7. CASE k \in {"market", "balance"}
  <2>1. new = {r \in old : \A n \in ToSet(rows) : ~Same(k, r, n)} \union Newest(k, rows)
    BY <1>7 DEF Stored
  <2>2. \A n \in ToSet(rows) : \E r \in new : Same(k, r, n)
    BY <2>1, FirstAndLast
  <2>3. \A n \in old : \E r \in new : Same(k, r, n)
    <3> TAKE n \in old
    <3>1. CASE \A m \in ToSet(rows) : ~Same(k, n, m)
      BY <2>1, <3>1, <1>s
    <3>2. ASSUME NEW m \in ToSet(rows), Same(k, n, m) PROVE \E r \in new : Same(k, r, n)
      <4>1. PICK r \in new : Same(k, r, m)
        BY <2>2
      <4>2. Same(k, r, n)
        BY <3>2, <4>1 DEF Same
      <4> QED
        BY <4>2
    <3> QED
      BY <3>1, <3>2
  <2> HIDE DEF new
  <2>4. ASSUME NEW n \in Items, NEW o \in old, Same(k, o, n) PROVE \E r \in new : Same(k, r, n)
    <3>1. PICK r \in new : Same(k, r, o)
      BY <2>3
    <3>2. Same(k, r, n)
      BY <2>4, <3>1 DEF Same
    <3> QED
      BY <3>2
  <2>5. Covers(k, old) \subseteq Covers(k, new)
    BY <1>7, <2>4 DEF Covers
  <2>6. ToSet(rows) \subseteq Covers(k, new)
    BY <1>2, <1>7, <2>2 DEF Covers
  <2> QED
    BY <1>4, <1>7, <2>5, <2>6 DEF new
<1>8. CASE k = "log"
  <2>1. new = old \union {n \in Oldest(k, rows) : \A r \in old : ~Same(k, r, n)}
    BY <1>8 DEF Stored
  <2>2. ASSUME NEW n \in ToSet(rows) PROVE \E r \in new : Same(k, r, n)
    <3>1. PICK o \in Oldest(k, rows) : Same(k, o, n)
      BY FirstAndLast
    <3>2. CASE \A r \in old : ~Same(k, r, o)
      BY <2>1, <3>1, <3>2
    <3>3. ASSUME NEW r \in old, Same(k, r, o) PROVE \E q \in new : Same(k, q, n)
      <4>1. r \in new /\ Same(k, r, n)
        BY <2>1, <3>1, <3>3 DEF Same
      <4> QED
        BY <4>1
    <3> QED
      BY <3>2, <3>3
  <2>3. old \subseteq new
    BY <2>1
  <2> HIDE DEF new
  <2>4. Covers(k, old) \subseteq Covers(k, new)
    BY <1>8, <2>3 DEF Covers
  <2>5. ToSet(rows) \subseteq Covers(k, new)
    BY <1>2, <1>8, <2>2 DEF Covers
  <2> QED
    BY <1>4, <1>8, <2>4, <2>5 DEF new
<1> QED
  BY <1>5, <1>6, <1>7, <1>8, KindsAre

-----------------------------------------------------------------------------
(* Flushing keeps the invariant.                                             *)

\* Whose loss is watched: that of orders always, that of market data and logs
\* until the loop is cancelled.
Watched(k) ==
    \/ k = "order"
    \/ k = "market" /\ "loop" \notin cancelled
    \/ k = "log" /\ "logger" \notin cancelled

\* Item n of a kind is in the list, stood for in the table, or in a flush of one
\* of ws.
Kept(k, n, list, known, tasks, ws) ==
    \/ n \in ToSet(list)
    \/ n \in known
    \/ \E v \in ws : tasks[v].kind = k /\ n \in ToSet(tasks[v].rows)

\* NothingLost with each item's place named.
LEMMA NothingLostIs ==
    NothingLost <=>
        \A k \in Kinds : Watched(k) =>
            \A n \in 1 .. taken[k] : Kept(k, n, buffer[k], Covers(k, table[k]), writer, Writers)
<1>1. ASSUME NEW k \in Kinds
      PROVE  Safe(k) <=> \A n \in 1 .. taken[k] : Kept(k, n, buffer[k], Covers(k, table[k]), writer, Writers)
  BY DEF Safe, OnItsWay, Kept
<1> QED
  BY <1>1, KindsAre DEF NothingLost, Watched

\* Which kinds each task writes.
LEMMA OwnKindsAre ==
    \A v \in Writers :
        /\ OwnKinds(v) \subseteq Kinds
        /\ v \in {"loop", "stop"} => OwnKinds(v) = {"market", "order", "balance", "metric"}
        /\ v \in {"logger", "last"} => OwnKinds(v) = {"log"}
BY KindsAre DEF OwnKinds

\* What w finds as it goes on, with the buffers buf: the other tasks are as the
\* invariant says.
Sound(tasks, w, buf) ==
    /\ taken' \in [Kinds -> Nat] /\ table' \in [Kinds -> SUBSET Items]
    /\ cancelled' \subseteq Loops /\ failures' \in Nat
    /\ tasks \in [Writers -> Flight] /\ buf \in [Kinds -> Seq(Items)]
    /\ \A k \in Kinds : ToSet(buf[k]) \subseteq 1 .. taken'[k] /\ table'[k] \subseteq 1 .. taken'[k]
    /\ \A v \in Writers \ {w} : Own(v, tasks[v])
    /\ \A v \in Writers \ {w}, k \in Kinds :
           tasks[v].kind = k => ToSet(tasks[v].rows) \subseteq 1 .. taken'[k]
    /\ w /= "stop" => "loop" \in cancelled' \/ tasks["stop"] = Off
    /\ w /= "last" => "logger" \in cancelled' \/ tasks["last"] = Off
    /\ w = "stop" => "loop" \in cancelled'
    /\ w = "last" => "logger" \in cancelled'
    /\ \A v \in Writers \ {w} :
           tasks[v].kind = "order" => InStep(tasks[v], buf["order"], table'["order"])

\* What is watched is in a buffer, in a table or in the hands of others.
Covered(tasks, w, buf) ==
    \A k \in Kinds : Watched(k)' =>
        \A n \in 1 .. taken'[k] : Kept(k, n, buf[k], Covers(k, table'[k]), tasks, Writers \ {w})

\* What a task that begins to write a kind holds.
LEMMA WritingTypes ==
    ASSUME NEW k \in Kinds, NEW list \in Seq(Items), NEW n \in 1 .. Len(list)
    PROVE  LET f == Writing(k, n, list)
           IN  /\ f \in Flight /\ f.at = "write" /\ f.kind = k /\ f.next = n + 1
               /\ ~OneByOne(k) => f.rows = list
               /\ OneByOne(k) => f.rows = <<list[n]>>
<1>1. list[n] \in Items /\ <<list[n]>> \in Seq(Items) /\ n + 1 \in Nat
  OBVIOUS
<1> QED
  BY <1>1 DEF Writing, Flight

\* A task w that is at f now, with the buffers b, keeps the invariant if what is
\* not covered is what f writes.
LEMMA Settles ==
    ASSUME NEW tasks, NEW w \in Writers, NEW b, Sound(tasks, w, b), buffer' = b,
           NEW f \in Flight, writer' = [tasks EXCEPT ![w] = f], Own(w, f),
           \A k \in Kinds : f.kind = k => ToSet(f.rows) \subseteq 1 .. taken'[k],
           f.kind = "order" => InStep(f, b["order"], table'["order"]),
           \A k \in Kinds : Watched(k)' =>
               \A n \in 1 .. taken'[k] :
                   \/ Kept(k, n, b[k], Covers(k, table'[k]), tasks, Writers \ {w})
                   \/ f.kind = k /\ n \in ToSet(f.rows)
    PROVE  WriterInv'
<1>a. \A v \in Writers \ {w}, k \in Kinds :
          tasks[v].kind = k => ToSet(tasks[v].rows) \subseteq 1 .. taken'[k]
  BY DEF Sound
<1>1. tasks \in [Writers -> Flight]
  BY DEF Sound
<1>2. writer' \in [Writers -> Flight] /\ writer'[w] = f
  BY <1>1
<1>3. \A v \in Writers \ {w} : writer'[v] = tasks[v]
  BY <1>1
<1>4. TypeOK'
  <2>1. \A v \in Writers, k \in Kinds :
            writer'[v].kind = k => ToSet(writer'[v].rows) \subseteq 1 .. taken'[k]
    <3> SUFFICES ASSUME NEW v \in Writers, NEW k \in Kinds, writer'[v].kind = k
                 PROVE  ToSet(writer'[v].rows) \subseteq 1 .. taken'[k]
      OBVIOUS
    <3>1. CASE v = w
      BY <1>2, <3>1
    <3>2. CASE v /= w
      <4>1. tasks[v].kind = k => ToSet(tasks[v].rows) \subseteq 1 .. taken'[k]
        BY <1>a, <3>2
      <4> QED
        BY <1>3, <3>2, <4>1
    <3> QED
      BY <3>1, <3>2
  <2>2. /\ taken' \in [Kinds -> Nat] /\ table' \in [Kinds -> SUBSET Items]
        /\ cancelled' \subseteq Loops /\ failures' \in Nat
        /\ buffer' \in [Kinds -> Seq(Items)]
        /\ \A k \in Kinds : ToSet(buffer'[k]) \subseteq 1 .. taken'[k] /\ table'[k] \subseteq 1 .. taken'[k]
    BY DEF Sound
  <2> QED
    BY <1>2, <2>1, <2>2 DEF TypeOK, Flight
<1>5. InPlace'
  <2>1. \A v \in Writers : Own(v, writer'[v])
    BY <1>2, <1>3 DEF Sound
  <2>2. "loop" \in cancelled' \/ writer'["stop"] = Off
    BY <1>3, KindsAre DEF Sound
  <2>3. "logger" \in cancelled' \/ writer'["last"] = Off
    BY <1>3, KindsAre DEF Sound
  <2> QED
    BY <2>1, <2>2, <2>3 DEF InPlace
<1>6. OrdersInStep'
  BY <1>2, <1>3 DEF Sound, OrdersInStep
<1>7. ASSUME NEW k \in Kinds, Watched(k)', NEW n \in 1 .. taken'[k]
      PROVE  Kept(k, n, b[k], Covers(k, table'[k]), writer', Writers)
  <2>1. CASE f.kind = k /\ n \in ToSet(f.rows)
    BY <2>1, <1>2 DEF Kept
  <2>2. CASE Kept(k, n, b[k], Covers(k, table'[k]), tasks, Writers \ {w})
    BY <2>2, <1>3 DEF Kept
  <2> QED
    BY <1>7, <2>1, <2>2
<1>8. NothingLost'
  <2>1. \A k \in Kinds : Watched(k)' =>
            \A n \in 1 .. taken'[k] : Kept(k, n, buffer'[k], Covers(k, table'[k]), writer', Writers)
    BY <1>7
  <2>2. ASSUME NEW k \in Kinds
        PROVE  Safe(k)' <=> \A n \in 1 .. taken'[k] :
                                Kept(k, n, buffer'[k], Covers(k, table'[k]), writer', Writers)
    BY DEF Safe, OnItsWay, Kept
  <2> QED
    BY <2>1, <2>2, KindsAre DEF NothingLost, Watched
<1> QED
  BY <1>4, <1>5, <1>6, <1>8 DEF WriterInv

\* A task that flushes when nothing depends on it keeps the invariant.
LEMMA FlushKeeps ==
    ASSUME NEW tasks, NEW w \in Writers, NEW buf, Sound(tasks, w, buf), Covered(tasks, w, buf),
           NEW kinds \in Seq(Kinds), Len(kinds) <= 4, ToSet(kinds) \subseteq OwnKinds(w),
           Flush(tasks, w, kinds, buf)
    PROVE  WriterInv'
<1>1. buf \in [Kinds -> Seq(Items)]
  BY DEF Sound
<1>2. CASE Rests(tasks, w, buf)
  <2>1. PICK f \in {Off, Asleep} : writer' = [tasks EXCEPT ![w] = f] /\ buffer' = buf
    BY <1>2 DEF Rests
  <2>2. f \in Flight /\ f.kind = "none" /\ f.at /= "write"
    BY RestingTypes
  <2>3. Own(w, f)
    BY <2>2 DEF Own
  <2> QED
    BY <2>1, <2>2, <2>3, Settles, KindsAre DEF Covered
<1>3. ASSUME NEW k \in ToSet(kinds), Begins(tasks, w, buf, k) PROVE WriterInv'
  <2> DEFINE f == Writing(k, 1, buf[k])
             b == IF TakenOut(k) THEN [buf EXCEPT ![k] = <<>>] ELSE buf
  <2>1. k \in Kinds /\ k \in OwnKinds(w)
    BY OwnKindsAre
  <2>2. buf[k] \in Seq(Items) /\ 1 \in 1 .. Len(buf[k])
    BY <1>1, <1>3, <2>1 DEF Begins
  <2>3. /\ f \in Flight /\ f.at = "write" /\ f.kind = k /\ f.next = 2
        /\ ~OneByOne(k) => f.rows = buf[k]
        /\ OneByOne(k) => f.rows = <<buf[k][1]>>
    BY <2>1, <2>2, WritingTypes
  <2>4. Own(w, f)
    BY <2>1, <2>3 DEF Own
  <2>5. b \in [Kinds -> Seq(Items)] /\ \A q \in Kinds : q /= k \/ ~TakenOut(k) => b[q] = buf[q]
    <3>1. <<>> \in Seq(Items)
      OBVIOUS
    <3>2. CASE TakenOut(k)
      BY <1>1, <3>1, <3>2
    <3>3. CASE ~TakenOut(k)
      BY <1>1, <3>3
    <3> QED
      BY <3>2, <3>3
  <2>6. TakenOut(k) => b[k] = <<>> /\ f.rows = buf[k] /\ k /= "order"
    BY <1>1, <2>1, <2>3 DEF TakenOut, OneByOne
  <2>7. writer' = [tasks EXCEPT ![w] = f] /\ buffer' = b
    BY <1>3 DEF Begins
  <2> HIDE DEF f, b
  <2>8. b["order"] = buf["order"]
    BY <2>5, <2>6, KindsAre
  <2>9. k = "order" => InStep(f, b["order"], table'["order"])
    <3> SUFFICES ASSUME k = "order" PROVE InStep(f, b["order"], table'["order"])
      OBVIOUS
    <3> DEFINE list == b["order"]
    <3>1. list \in Seq(Items) /\ 1 \in 1 .. Len(list)
      BY <2>2, <2>8
    <3>2. f.rows = <<list[1]>> /\ f.next = 2
      BY <2>3, <2>8 DEF OneByOne
    <3> HIDE DEF list
    <3>3. InStep(f, list, table'["order"])
      BY <3>1, <3>2 DEF InStep
    <3> QED
      BY <3>3 DEF list
  <2>10. \A q \in Kinds : ToSet(b[q]) \subseteq ToSet(buf[q])
    <3>1. ToSet(<<>>) = {}
      BY DEF ToSet
    <3> QED
      BY <3>1, <2>5, <2>6
  <2>11. Sound(tasks, w, b)
    BY <2>5, <2>8, <2>10 DEF Sound
  <2>12. \A q \in Kinds : f.kind = q => ToSet(f.rows) \subseteq 1 .. taken'[q]
    <3>1. OneByOne(k) => ToSet(f.rows) \subseteq ToSet(buf[k])
      BY <2>2, <2>3 DEF ToSet
    <3> QED
      BY <2>1, <2>3, <3>1 DEF Sound
  <2>13. ASSUME NEW q \in Kinds, Watched(q)', NEW n \in 1 .. taken'[q]
         PROVE  \/ Kept(q, n, b[q], Covers(q, table'[q]), tasks, Writers \ {w})
                \/ f.kind = q /\ n \in ToSet(f.rows)
    <3>1. Kept(q, n, buf[q], Covers(q, table'[q]), tasks, Writers \ {w})
      BY <2>13 DEF Covered
    <3>2. CASE n \in ToSet(buf[q])
      BY <3>2, <2>3, <2>5, <2>6 DEF Kept
    <3>3. CASE n \notin ToSet(buf[q])
      BY <3>1, <3>3 DEF Kept
    <3> QED
      BY <3>2, <3>3
  <2>14. /\ f \in Flight /\ writer' = [tasks EXCEPT ![w] = f] /\ buffer' = b
         /\ f.kind = "order" => InStep(f, b["order"], table'["order"])
    BY <2>3, <2>7, <2>9
  <2> QED
    BY <2>4, <2>11, <2>12, <2>13, <2>14, Settles
<1> QED
  BY <1>2, <1>3, FlushIs

-----------------------------------------------------------------------------
(* What a step leaves of the invariant.                                      *)

\* A list that grows at its end, and a table that grows, keep a flush in step.
LEMMA InStepGrows ==
    ASSUME NEW f \in Flight, NEW list \in Seq(Items), NEW known, InStep(f, list, known),
           NEW longer \in Seq(Items), NEW more, known \subseteq more,
           Len(list) <= Len(longer), \A i \in 1 .. Len(list) : longer[i] = list[i]
    PROVE  InStep(f, longer, more)
<1>1. CASE f.rows[1] \in known
  BY <1>1 DEF InStep
<1>2. CASE f.rows[1] \notin known
  <2>1. /\ f.next \in 2 .. Len(list) + 1
        /\ f.rows[1] = list[f.next - 1]
        /\ \A i \in 1 .. f.next - 2 : list[i] \in known
    BY <1>2 DEF InStep
  <2>2. f.next \in 2 .. Len(longer) + 1 /\ f.next - 1 \in 1 .. Len(list)
    BY <2>1
  <2>3. \A i \in 1 .. f.next - 2 : longer[i] \in more
    BY <2>1
  <2> QED
    BY <2>1, <2>2, <2>3 DEF InStep
<1> QED
  BY <1>1, <1>2

\* The row of a flush that writes one by one is in the table or in its list.
LEMMA InStepRows ==
    ASSUME NEW f \in Flight, NEW list \in Seq(Items), NEW known, InStep(f, list, known)
    PROVE  ToSet(f.rows) \subseteq ToSet(list) \union known
<1>1. f.rows \in Seq(Items) /\ Len(f.rows) = 1
  BY DEF Flight, InStep
<1>2. ToSet(f.rows) = {f.rows[1]}
  BY <1>1 DEF ToSet
<1>3. \/ f.rows[1] \in known
      \/ f.next - 1 \in 1 .. Len(list) /\ f.rows[1] = list[f.next - 1]
  BY DEF InStep
<1>4. f.rows[1] \in ToSet(list) \union known
  BY <1>3 DEF ToSet
<1> QED
  BY <1>2, <1>4

\* The tasks other than w are as they were, or over.
Stays(tasks, w) ==
    /\ tasks \in [Writers -> Flight]
    /\ \A v \in Writers \ {w} : tasks[v] \in {writer[v], Off}

\* Items and rows only come, and loops are only cancelled.
Grows(w, buf) ==
    /\ taken' \in [Kinds -> Nat] /\ table' \in [Kinds -> SUBSET Items]
    /\ buf \in [Kinds -> Seq(Items)]
    /\ \A k \in Kinds : /\ taken[k] <= taken'[k]
                        /\ ToSet(buf[k]) \subseteq 1 .. taken'[k]
                        /\ table'[k] \subseteq 1 .. taken'[k]
    /\ cancelled \subseteq cancelled' /\ cancelled' \subseteq Loops /\ failures' \in Nat
    /\ w = "stop" => "loop" \in cancelled'
    /\ w = "last" => "logger" \in cancelled'

\* A step of one task leaves the others sound when buffers only grow and orders
\* stay in step.
LEMMA SoundStays ==
    ASSUME WriterInv, NEW w \in Writers, NEW tasks, Stays(tasks, w),
           NEW buf, Grows(w, buf),
           \A v \in Writers \ {w} :
               writer[v].kind = "order" => InStep(writer[v], buf["order"], table'["order"])
    PROVE  Sound(tasks, w, buf)
<1>1. Off.kind = "none" /\ \A v \in Writers : Own(v, Off)
  BY RestingTypes DEF Own
<1>2. \A v \in Writers \ {w} : Own(v, tasks[v])
  BY <1>1 DEF Stays, WriterInv, InPlace
<1>3. ASSUME NEW v \in Writers \ {w}, NEW k \in Kinds, tasks[v].kind = k
      PROVE  ToSet(tasks[v].rows) \subseteq 1 .. taken'[k]
  <2>1. tasks[v] = writer[v]
    BY <1>1, <1>3, KindsAre DEF Stays
  <2>2. taken[k] \in Nat /\ taken'[k] \in Nat /\ taken[k] <= taken'[k]
    BY DEF Grows, WriterInv, TypeOK
  <2>3. ToSet(writer[v].rows) \subseteq 1 .. taken[k]
    BY <1>3, <2>1 DEF WriterInv, TypeOK
  <2> QED
    BY <2>1, <2>2, <2>3
<1>4. w /= "stop" => "loop" \in cancelled' \/ tasks["stop"] = Off
  BY KindsAre DEF WriterInv, InPlace, Stays, Grows
<1>5. w /= "last" => "logger" \in cancelled' \/ tasks["last"] = Off
  BY KindsAre DEF WriterInv, InPlace, Stays, Grows
<1>6. ASSUME NEW v \in Writers \ {w}, tasks[v].kind = "order"
      PROVE  InStep(tasks[v], buf["order"], table'["order"])
  BY <1>1, <1>6 DEF Stays
<1> QED
  BY <1>2, <1>3, <1>4, <1>5, <1>6 DEF Sound, Grows, Stays

\* What was watched is covered if what the buffers and the tasks no longer hold is
\* in the buffers buf or in the tables.
LEMMA CoveredStays ==
    ASSUME WriterInv, NEW w \in Writers, NEW tasks, NEW buf,
           \A k \in Kinds : Watched(k)' =>
               /\ Watched(k)
               /\ Covers(k, table[k]) \subseteq Covers(k, table'[k])
               /\ ToSet(buffer[k]) \subseteq ToSet(buf[k]) \union Covers(k, table'[k])
               /\ 1 .. taken'[k] \subseteq (1 .. taken[k]) \union ToSet(buf[k])
               /\ \A v \in Writers :
                      \/ v /= w /\ tasks[v] = writer[v]
                      \/ writer[v].kind = k =>
                             ToSet(writer[v].rows) \subseteq ToSet(buf[k]) \union Covers(k, table'[k])
    PROVE  Covered(tasks, w, buf)
<1> SUFFICES ASSUME NEW k \in Kinds, Watched(k)', NEW n \in 1 .. taken'[k]
             PROVE  Kept(k, n, buf[k], Covers(k, table'[k]), tasks, Writers \ {w})
  BY DEF Covered
<1>1. CASE n \in ToSet(buf[k])
  BY <1>1 DEF Kept
<1>2. CASE n \notin ToSet(buf[k])
  <2>1. Kept(k, n, buffer[k], Covers(k, table[k]), writer, Writers)
    BY <1>2, NothingLostIs DEF WriterInv
  <2>2. CASE n \in ToSet(buffer[k]) \/ n \in Covers(k, table[k])
    BY <1>2, <2>2 DEF Kept
  <2>3. ASSUME NEW v \in Writers, writer[v].kind = k, n \in ToSet(writer[v].rows)
        PROVE  Kept(k, n, buf[k], Covers(k, table'[k]), tasks, Writers \ {w})
    BY <1>2, <2>3 DEF Kept
  <2> QED
    BY <2>1, <2>2, <2>3 DEF Kept
<1> QED
  BY <1>1, <1>2

-----------------------------------------------------------------------------
(* Every step keeps the invariant.                                           *)

\* What the invariant says of each variable.
LEMMA Parts ==
    ASSUME WriterInv
    PROVE  /\ taken \in [Kinds -> Nat] /\ buffer \in [Kinds -> Seq(Items)]
           /\ table \in [Kinds -> SUBSET Items] /\ writer \in [Writers -> Flight]
           /\ cancelled \subseteq Loops /\ failures \in Nat
           /\ \A k \in Kinds : ToSet(buffer[k]) \subseteq 1 .. taken[k] /\ table[k] \subseteq 1 .. taken[k]
           /\ \A v \in Writers, k \in Kinds :
                  writer[v].kind = k => ToSet(writer[v].rows) \subseteq 1 .. taken[k]
           /\ \A v \in Writers : Own(v, writer[v])
           /\ \A v \in Writers :
                  writer[v].kind = "order" => InStep(writer[v], buffer["order"], table["order"])
BY DEF WriterInv, TypeOK, InPlace, OrdersInStep, Flight

\* Who is not writing holds nothing.
LEMMA Resting ==
    ASSUME WriterInv, NEW v \in Writers, writer[v].at /= "write"
    PROVE  writer[v].kind = "none"
<1>1. writer[v] \in {Off, Asleep}
  BY Parts DEF Own
<1> QED
  BY <1>1, RestingTypes

\* A task that writes is writing what is its own, in its time.
LEMMA AtWork ==
    ASSUME WriterInv, NEW v \in Writers, writer[v].at = "write"
    PROVE  /\ writer[v].kind \in Kinds /\ writer[v].kind \in OwnKinds(v)
           /\ writer[v].next > 1
           /\ v = "stop" => "loop" \in cancelled
           /\ v = "last" => "logger" \in cancelled
<1>1. writer[v].kind \in OwnKinds(v) /\ writer[v].next > 1
  BY Parts DEF Own
<1>2. writer[v] /= Off
  BY RestingTypes
<1> QED
  BY <1>1, <1>2, OwnKindsAre DEF WriterInv, InPlace

\* An item that comes.
LEMMA CollectStep ==
    ASSUME WriterInv, NEW kind \in Kinds, Collect(kind)
    PROVE  WriterInv'
<1> DEFINE buf == [buffer EXCEPT ![kind] = Append(@, taken[kind] + 1)]
           e == taken[kind] + 1
<1>1. /\ taken' = [taken EXCEPT ![kind] = e] /\ table' = table
      /\ cancelled' = cancelled /\ failures' = failures
      /\ \/ writer["caller"] = Off /\ Flush(writer, "caller", <<kind>>, buf)
         \/ buffer' = buf /\ writer' = writer
  BY DEF Collect
<1>2. buffer[kind] \in Seq(Items) /\ taken[kind] \in Nat /\ e \in Items
  BY Parts DEF Items
<1>3. Append(buffer[kind], e) \in Seq(Items)
      /\ ToSet(Append(buffer[kind], e)) = ToSet(buffer[kind]) \union {e}
  BY <1>2, AppendHolds
<1>4. /\ buf \in [Kinds -> Seq(Items)] /\ buf[kind] = Append(buffer[kind], e)
      /\ \A q \in Kinds \ {kind} : buf[q] = buffer[q]
  BY <1>3, Parts
<1>5. /\ taken' \in [Kinds -> Nat] /\ taken'[kind] = e
      /\ \A q \in Kinds \ {kind} : taken'[q] = taken[q]
  BY <1>1, <1>2, Parts
<1>6. \A q \in Kinds : /\ Len(buffer[q]) <= Len(buf[q])
                       /\ \A i \in 1 .. Len(buffer[q]) : buf[q][i] = buffer[q][i]
  <2>1. /\ Len(buffer[kind]) <= Len(Append(buffer[kind], e))
        /\ \A i \in 1 .. Len(buffer[kind]) : Append(buffer[kind], e)[i] = buffer[kind][i]
    BY <1>2
  <2>2. \A q \in Kinds : Len(buffer[q]) \in Nat
    BY Parts
  <2> QED
    BY <1>4, <2>1, <2>2
<1> HIDE DEF buf
<1>7. \A q \in Kinds : /\ ToSet(buffer[q]) \subseteq ToSet(buf[q])
                       /\ ToSet(buf[q]) \subseteq 1 .. taken'[q]
                       /\ table[q] \subseteq 1 .. taken'[q]
                       /\ taken[q] <= taken'[q]
                       /\ 1 .. taken'[q] \subseteq (1 .. taken[q]) \union ToSet(buf[q])
  <2>1. ASSUME NEW q \in Kinds \ {kind}
        PROVE  /\ ToSet(buffer[q]) \subseteq ToSet(buf[q])
               /\ ToSet(buf[q]) \subseteq 1 .. taken'[q]
               /\ table[q] \subseteq 1 .. taken'[q]
               /\ taken[q] <= taken'[q]
               /\ 1 .. taken'[q] \subseteq (1 .. taken[q]) \union ToSet(buf[q])
    BY <1>4, <1>5, Parts
  <2>2. ToSet(buf[kind]) = ToSet(buffer[kind]) \union {e}
    BY <1>3, <1>4
  <2>3. ToSet(buffer[kind]) \subseteq 1 .. taken[kind] /\ table[kind] \subseteq 1 .. taken[kind]
    BY Parts
  <2>4. 1 .. taken[kind] \subseteq 1 .. e /\ e \in 1 .. e /\ 1 .. e = (1 .. taken[kind]) \union {e}
    BY <1>2
  <2>5. taken[kind] <= taken'[kind]
    BY <1>2, <1>5
  <2> HIDE DEF e
  <2> QED
    BY <1>5, <2>1, <2>2, <2>3, <2>4, <2>5
<1>8. "caller" \in Writers /\ Grows("caller", buf)
  <2>1. /\ table' \in [Kinds -> SUBSET Items] /\ cancelled' \subseteq Loops /\ failures' \in Nat
    BY <1>1, Parts
  <2>2. "caller" \in Writers
    BY KindsAre
  <2> QED
    BY <1>1, <1>4, <1>5, <1>7, <2>1, <2>2 DEF Grows
<1>9. Stays(writer, "caller")
  BY Parts DEF Stays
<1>10. \A v \in Writers :
          writer[v].kind = "order" => InStep(writer[v], buf["order"], table'["order"])
  <2>1. ASSUME NEW v \in Writers, writer[v].kind = "order"
        PROVE  InStep(writer[v], buf["order"], table["order"])
    <3>1. "order" \in Kinds
      BY KindsAre
    <3>2. writer[v] \in Flight /\ InStep(writer[v], buffer["order"], table["order"])
      BY <2>1, Parts
    <3>3. buffer["order"] \in Seq(Items) /\ buf["order"] \in Seq(Items)
      BY <3>1, <1>4, Parts
    <3> QED
      BY <3>1, <3>2, <3>3, <1>6, InStepGrows
  <2> QED
    BY <1>1, <2>1
<1>11. Sound(writer, "caller", buf)
  BY <1>8, <1>9, <1>10, SoundStays
<1>12. \A k \in Kinds : Watched(k)' => Watched(k)
  BY <1>1 DEF Watched
<1>13. CASE writer["caller"] = Off /\ Flush(writer, "caller", <<kind>>, buf)
  <2>1. Covered(writer, "caller", buf)
    <3>1. writer["caller"].kind = "none"
      BY <1>13, RestingTypes
    <3> QED
      BY <1>1, <1>7, <1>8, <1>12, <3>1, CoveredStays, KindsAre
  <2>2. /\ <<kind>> \in Seq(Kinds) /\ Len(<<kind>>) <= 4
        /\ ToSet(<<kind>>) \subseteq OwnKinds("caller")
    BY DEF ToSet, OwnKinds
  <2> QED
    BY <1>8, <1>11, <1>13, <2>1, <2>2, FlushKeeps
<1>14. CASE buffer' = buf /\ writer' = writer
  <2> DEFINE f == writer["caller"]
  <2>1. f \in Flight /\ Own("caller", f) /\ writer' = [writer EXCEPT !["caller"] = f]
    BY <1>8, <1>14, Parts
  <2>2. \A k \in Kinds : f.kind = k => ToSet(f.rows) \subseteq 1 .. taken'[k]
    <3>1. \A k \in Kinds : f.kind = k => ToSet(f.rows) \subseteq 1 .. taken[k]
      BY <1>8, Parts
    <3>2. \A k \in Kinds : 1 .. taken[k] \subseteq 1 .. taken'[k]
      BY <1>5, <1>7, Parts
    <3> QED
      BY <3>1, <3>2
  <2>3. f.kind = "order" => InStep(f, buf["order"], table'["order"])
    BY <1>8, <1>10
  <2>4. ASSUME NEW k \in Kinds, Watched(k)', NEW n \in 1 .. taken'[k]
        PROVE  \/ Kept(k, n, buf[k], Covers(k, table'[k]), writer, Writers \ {"caller"})
               \/ f.kind = k /\ n \in ToSet(f.rows)
    <3>1. CASE n \in ToSet(buf[k])
      BY <3>1 DEF Kept
    <3>2. CASE n \notin ToSet(buf[k])
      <4>1. Kept(k, n, buffer[k], Covers(k, table[k]), writer, Writers)
        BY <1>7, <1>12, <2>4, <3>2, NothingLostIs DEF WriterInv
      <4> QED
        BY <1>1, <1>7, <3>2, <4>1 DEF Kept
    <3> QED
      BY <3>1, <3>2
  <2> HIDE DEF f
  <2> QED
    BY <1>8, <1>11, <1>14, <2>1, <2>2, <2>3, <2>4, Settles
<1> QED
  BY <1>1, <1>13, <1>14

\* A loop that wakes.
LEMMA WakesStep ==
    ASSUME WriterInv, NEW w \in Writers, NEW kinds \in Seq(Kinds), Len(kinds) <= 4,
           ToSet(kinds) \subseteq OwnKinds(w), w \notin {"stop", "last"}, Wakes(w, kinds)
    PROVE  WriterInv'
<1>1. /\ writer[w] = Asleep /\ Flush(writer, w, kinds, buffer)
      /\ taken' = taken /\ table' = table /\ cancelled' = cancelled /\ failures' = failures
  BY DEF Wakes
<1>2. writer[w].kind = "none"
  BY <1>1, RestingTypes
<1>3. Grows(w, buffer)
  <2>1. \A k \in Kinds : taken[k] <= taken[k]
    BY Parts
  <2> QED
    BY <1>1, <2>1, Parts DEF Grows
<1>4. Stays(writer, w)
  BY Parts DEF Stays
<1>5. Sound(writer, w, buffer)
  <2>1. \A v \in Writers \ {w} :
            writer[v].kind = "order" => InStep(writer[v], buffer["order"], table'["order"])
    BY <1>1, Parts
  <2> QED
    BY <1>3, <1>4, <2>1, SoundStays
<1>6. Covered(writer, w, buffer)
  <2>1. \A k \in Kinds : Watched(k)' => Watched(k)
    BY <1>1 DEF Watched
  <2> QED
    BY <1>1, <1>2, <2>1, CoveredStays, KindsAre
<1> QED
  BY <1>1, <1>5, <1>6, FlushKeeps

\* Rows that reach a table are the collected ones, and disturb no flush.
LEMMA RowsCome ==
    ASSUME WriterInv, NEW w \in Writers, writer[w].at = "write",
           table' \in {table, [table EXCEPT ![writer[w].kind] = Stored(writer[w].kind, writer[w].rows)]}
    PROVE  /\ table' \in [Kinds -> SUBSET Items]
           /\ \A k \in Kinds : /\ Covers(k, table[k]) \subseteq Covers(k, table'[k])
                               /\ table'[k] \subseteq 1 .. taken[k]
           /\ \A v \in Writers :
                  writer[v].kind = "order" => InStep(writer[v], buffer["order"], table'["order"])
<1> DEFINE k == writer[w].kind
           rows == writer[w].rows
           new == Stored(k, rows)
<1>1. k \in Kinds /\ ToSet(rows) \subseteq 1 .. taken[k] /\ rows \in Seq(Items)
  BY Parts, AtWork DEF Flight
<1>2. /\ table \in [Kinds -> SUBSET Items] /\ taken[k] \in Nat
      /\ \A q \in Kinds : table[q] \subseteq 1 .. taken[q]
  BY <1>1, Parts
<1>3. /\ new \subseteq table[k] \union ToSet(rows)
      /\ Covers(k, table[k]) \subseteq Covers(k, new)
      /\ k = "order" => new = table[k] \union ToSet(rows)
  BY <1>1, <1>2, StoredIs
<1>6. table' \in {table, [table EXCEPT ![k] = new]}
  OBVIOUS
<1> HIDE DEF new, rows, k
<1>4. /\ table' \in [Kinds -> SUBSET Items]
      /\ \A q \in Kinds : /\ Covers(q, table[q]) \subseteq Covers(q, table'[q])
                          /\ table'[q] \subseteq 1 .. taken[q]
      /\ table["order"] \subseteq table'["order"]
  <2>1. CASE table' = table
    BY <1>2, <2>1
  <2>2. CASE table' = [table EXCEPT ![k] = new]
    <3>1. new \subseteq 1 .. taken[k]
      BY <1>1, <1>2, <1>3
    <3>4. new \in SUBSET Items
      BY <1>2, <3>1 DEF Items
    <3>2. table' \in [Kinds -> SUBSET Items]
      BY <1>1, <1>2, <2>2, <3>4
    <3>3. table'[k] = new /\ \A q \in Kinds \ {k} : table'[q] = table[q]
      BY <1>1, <1>2, <2>2
    <3>5. table["order"] \subseteq table'["order"]
      BY <1>1, <1>3, <3>3, KindsAre
    <3> QED
      BY <1>2, <1>3, <3>1, <3>2, <3>3, <3>5
  <2> QED
    BY <1>6, <2>1, <2>2
<1>5. ASSUME NEW v \in Writers, writer[v].kind = "order"
      PROVE  InStep(writer[v], buffer["order"], table'["order"])
  <2>1. "order" \in Kinds
    BY KindsAre
  <2>2. writer[v] \in Flight /\ InStep(writer[v], buffer["order"], table["order"])
    BY <1>5, Parts
  <2>3. buffer["order"] \in Seq(Items) /\ Len(buffer["order"]) <= Len(buffer["order"])
    BY <2>1, Parts
  <2> QED
    BY <1>4, <2>1, <2>2, <2>3, InStepGrows
<1> QED
  BY <1>4, <1>5

\* A task has written its rows.
LEMMA WrittenStep ==
    ASSUME WriterInv, NEW w \in Writers, Written(w)
    PROVE  WriterInv'
<1> DEFINE f == writer[w]
           k == f.kind
<1>1. /\ f.at = "write" /\ ~Conflicts(k, f.rows)
      /\ table' = [table EXCEPT ![k] = Stored(k, f.rows)]
      /\ taken' = taken /\ cancelled' = cancelled /\ failures' = failures
  BY DEF Written
<1>2. /\ f \in Flight /\ k \in Kinds /\ f.rows \in Seq(Items) /\ f.next \in Nat /\ f.next > 1
      /\ k \in OwnKinds(w) /\ buffer[k] \in Seq(Items)
      /\ w = "stop" => "loop" \in cancelled
      /\ w = "last" => "logger" \in cancelled
  BY <1>1, Parts, AtWork DEF Flight
<1>3. /\ table' \in [Kinds -> SUBSET Items]
      /\ \A q \in Kinds : /\ Covers(q, table[q]) \subseteq Covers(q, table'[q])
                          /\ table'[q] \subseteq 1 .. taken[q]
      /\ \A v \in Writers :
             writer[v].kind = "order" => InStep(writer[v], buffer["order"], table'["order"])
  BY <1>1, RowsCome
<1>4. /\ ToSet(f.rows) \subseteq Covers(k, table'[k])
      /\ k = "order" => table'[k] = table[k] \union ToSet(f.rows)
  <2>1. table'[k] = Stored(k, f.rows) /\ table[k] \subseteq Items
    BY <1>1, <1>2, Parts
  <2> QED
    BY <1>2, <2>1, StoredIs
<1>5. Stays(writer, w)
  BY Parts DEF Stays
<1>6. \A q \in Kinds : taken[q] <= taken'[q] /\ 1 .. taken'[q] = 1 .. taken[q]
  BY <1>1, Parts
<1>7. \A q \in Kinds : Watched(q)' => Watched(q)
  BY <1>1 DEF Watched
<1>8. \A v \in Writers, q \in Kinds :
          \/ v /= w /\ writer[v] = writer[v]
          \/ writer[v].kind = q => ToSet(writer[v].rows) \subseteq Covers(q, table'[q])
  BY <1>4
\* The order that was written is the one the flush stood at.
<1>9. k = "order" =>
         /\ f.next \in 2 .. Len(buffer[k]) + 1
         /\ f.rows[1] = buffer[k][f.next - 1] /\ f.rows[1] \in table'[k]
         /\ \A i \in 1 .. f.next - 2 : buffer[k][i] \in table'[k]
  <2> SUFFICES ASSUME k = "order"
               PROVE  /\ f.next \in 2 .. Len(buffer[k]) + 1
                      /\ f.rows[1] = buffer[k][f.next - 1] /\ f.rows[1] \in table'[k]
                      /\ \A i \in 1 .. f.next - 2 : buffer[k][i] \in table'[k]
    OBVIOUS
  <2>1. InStep(f, buffer[k], table[k])
    BY Parts
  <2>2. f.rows[1] \in ToSet(f.rows)
    BY <1>2, <2>1 DEF InStep, ToSet
  <2>3. f.rows[1] \notin table[k]
    BY <1>1, <2>2 DEF Conflicts, Same
  <2> QED
    BY <1>2, <1>3, <1>4, <2>1, <2>2, <2>3 DEF InStep
<1> HIDE DEF k, f
<1>10. CASE /\ OneByOne(k) /\ f.next <= Len(buffer[k])
            /\ writer' = [writer EXCEPT ![w] = Writing(k, f.next, buffer[k])]
            /\ buffer' = buffer
  <2> DEFINE g == Writing(k, f.next, buffer[k])
  <2>1. f.next \in 1 .. Len(buffer[k])
    BY <1>2, <1>10
  <2>2. /\ g \in Flight /\ g.at = "write" /\ g.kind = k /\ g.next = f.next + 1
        /\ g.rows = <<buffer[k][f.next]>>
    BY <1>2, <1>10, <2>1, WritingTypes
  <2>3. writer' = [writer EXCEPT ![w] = g]
    BY <1>10
  <2> HIDE DEF g
  <2>4. Own(w, g)
    BY <1>2, <2>2 DEF Own
  <2>5. Grows(w, buffer)
    BY <1>1, <1>2, <1>3, <1>6, Parts DEF Grows
  <2>6. Sound(writer, w, buffer)
    BY <1>3, <1>5, <2>5, SoundStays
  <2>7. Covered(writer, w, buffer)
    BY <1>1, <1>3, <1>7, <1>8, CoveredStays
  <2>8. \A q \in Kinds : g.kind = q => ToSet(g.rows) \subseteq 1 .. taken'[q]
    <3>1. ToSet(g.rows) \subseteq ToSet(buffer[k])
      BY <2>1, <2>2 DEF ToSet
    <3> QED
      BY <1>1, <1>2, <2>2, <3>1, Parts
  <2>9. g.kind = "order" => InStep(g, buffer["order"], table'["order"])
    <3> SUFFICES ASSUME k = "order" PROVE InStep(g, buffer[k], table'[k])
      BY <2>2
    <3>1. g.next \in 2 .. Len(buffer[k]) + 1 /\ g.rows[1] = buffer[k][g.next - 1]
          /\ Len(g.rows) = 1
      BY <1>2, <2>1, <2>2
    <3>2. \A i \in 1 .. g.next - 2 : buffer[k][i] \in table'[k]
      BY <1>2, <1>9, <2>2
    <3> QED
      BY <3>1, <3>2 DEF InStep
  <2>10. \A q \in Kinds : Watched(q)' =>
            \A n \in 1 .. taken'[q] :
                \/ Kept(q, n, buffer[q], Covers(q, table'[q]), writer, Writers \ {w})
                \/ g.kind = q /\ n \in ToSet(g.rows)
    BY <2>7 DEF Covered
  <2>11. g \in Flight /\ buffer' = buffer
    BY <1>10, <2>2
  <2> QED
    BY <2>3, <2>4, <2>6, <2>8, <2>9, <2>10, <2>11, Settles
<1>11. ASSUME ~(OneByOne(k) /\ f.next <= Len(buffer[k])),
              NEW b, b = IF TakenOut(k) THEN buffer ELSE [buffer EXCEPT ![k] = <<>>],
              Flush(writer, w, Rest(w, k), b)
       PROVE  WriterInv'
  <2>1. /\ b \in [Kinds -> Seq(Items)]
        /\ \A q \in Kinds \ {k} : b[q] = buffer[q]
        /\ IF TakenOut(k) THEN b[k] = buffer[k] ELSE b[k] = <<>>
    <3>1. <<>> \in Seq(Items) /\ buffer \in [Kinds -> Seq(Items)]
      BY Parts
    <3> QED
      BY <1>2, <1>11, <3>1
  <2>2. ToSet(<<>>) = {}
    BY DEF ToSet
  <2>3. \A q \in Kinds : ToSet(b[q]) \subseteq 1 .. taken'[q]
    BY <1>1, <2>1, <2>2, Parts
  <2>4. Grows(w, b)
    BY <1>1, <1>2, <1>3, <1>6, <2>1, <2>3, Parts DEF Grows
  <2>5. k = "order" => ToSet(buffer[k]) \subseteq table'[k]
    <3> SUFFICES ASSUME k = "order", NEW i \in 1 .. Len(buffer[k]) PROVE buffer[k][i] \in table'[k]
      BY <1>2 DEF ToSet
    <3>1. f.next = Len(buffer[k]) + 1
      BY <1>2, <1>9, <1>11 DEF OneByOne
    <3>2. i \in 1 .. f.next - 2 \/ i = f.next - 1
      BY <1>2, <3>1
    <3> QED
      BY <1>9, <3>2
  <2>6. ASSUME NEW v \in Writers, writer[v].kind = "order"
        PROVE  InStep(writer[v], b["order"], table'["order"])
    <3>1. CASE k /= "order"
      BY <1>3, <2>1, <2>6, <3>1, KindsAre
    <3>2. CASE k = "order"
      <4>1. InStep(writer[v], buffer[k], table'[k]) /\ writer[v] \in Flight
        BY <1>3, <2>6, <3>2, Parts
      <4>2. ToSet(writer[v].rows) \subseteq table'[k]
        BY <1>2, <2>5, <3>2, <4>1, InStepRows
      <4>3. Len(writer[v].rows) = 1 /\ writer[v].rows[1] \in ToSet(writer[v].rows)
        BY <4>1 DEF InStep, ToSet
      <4> QED
        BY <3>2, <4>2, <4>3 DEF InStep
    <3> QED
      BY <3>1, <3>2
  <2>7. Sound(writer, w, b)
    BY <1>5, <2>4, <2>6, SoundStays
  <2>8. \A q \in Kinds : Watched(q) => ToSet(buffer[q]) \subseteq ToSet(b[q]) \union Covers(q, table'[q])
    <3>1. Watched(k) => TakenOut(k) \/ k = "order"
      BY DEF Watched, TakenOut
    <3> QED
      BY <2>1, <2>5, <3>1 DEF Covers
  <2>9. Covered(writer, w, b)
    BY <1>3, <1>6, <1>7, <1>8, <2>8, CoveredStays
  <2> QED
    BY <1>2, <1>11, <2>7, <2>9, RestTypes, FlushKeeps
<1> QED
  <2>1. \/ /\ OneByOne(k) /\ f.next <= Len(buffer[k])
           /\ writer' = [writer EXCEPT ![w] = Writing(k, f.next, buffer[k])]
           /\ buffer' = buffer
        \/ /\ ~(OneByOne(k) /\ f.next <= Len(buffer[k]))
           /\ Flush(writer, w, Rest(w, k),
                    IF TakenOut(k) THEN buffer ELSE [buffer EXCEPT ![k] = <<>>])
    BY DEF Written, f, k
  <2> QED
    BY <1>10, <1>11, <2>1

\* A write that failed.
LEMMA WriteFailsStep ==
    ASSUME WriterInv, NEW w \in Writers, WriteFails(w)
    PROVE  WriterInv'
<1> DEFINE f == writer[w]
           k == f.kind
<1>1. /\ f.at = "write" /\ failures' \in {failures, failures + 1}
      /\ table' \in {table, [table EXCEPT ![k] = Stored(k, f.rows)]}
      /\ taken' = taken /\ cancelled' = cancelled
      /\ Flush(writer, w, Rest(w, k), PutBack(f))
  BY DEF WriteFails
<1>2. /\ f \in Flight /\ k \in Kinds /\ f.rows \in Seq(Items)
      /\ buffer[k] \in Seq(Items) /\ failures' \in Nat
      /\ w = "stop" => "loop" \in cancelled
      /\ w = "last" => "logger" \in cancelled
  BY <1>1, Parts, AtWork DEF Flight
<1>3. /\ table' \in [Kinds -> SUBSET Items]
      /\ \A q \in Kinds : /\ Covers(q, table[q]) \subseteq Covers(q, table'[q])
                          /\ table'[q] \subseteq 1 .. taken[q]
      /\ \A v \in Writers :
             writer[v].kind = "order" => InStep(writer[v], buffer["order"], table'["order"])
  BY <1>1, RowsCome
<1>4. PICK b : b = PutBack(f)
  OBVIOUS
<1>5. /\ b \in [Kinds -> Seq(Items)]
      /\ \A q \in Kinds : \/ b[q] = buffer[q] /\ (q /= k \/ ~TakenOut(k))
                          \/ /\ q = k /\ TakenOut(k)
                             /\ ToSet(b[q]) = ToSet(buffer[q]) \union ToSet(f.rows)
  <2>1. CASE TakenOut(k)
    <3>1. b = [buffer EXCEPT ![k] = @ \o f.rows]
      BY <1>4, <2>1 DEF PutBack
    <3>2. /\ buffer[k] \o f.rows \in Seq(Items)
          /\ ToSet(buffer[k] \o f.rows) = ToSet(buffer[k]) \union ToSet(f.rows)
      BY <1>2, ConcatHolds
    <3>3. buffer \in [Kinds -> Seq(Items)]
      BY Parts
    <3>4. /\ b \in [Kinds -> Seq(Items)] /\ b[k] = buffer[k] \o f.rows
          /\ \A q \in Kinds \ {k} : b[q] = buffer[q]
      BY <1>2, <3>1, <3>2, <3>3
    <3> QED
      BY <2>1, <3>2, <3>4
  <2>2. CASE ~TakenOut(k)
    BY <1>4, <2>2, Parts DEF PutBack
  <2> QED
    BY <2>1, <2>2
<1>6. k = "order" => ToSet(f.rows) \subseteq ToSet(buffer[k]) \union table[k]
  BY <1>2, Parts, InStepRows
<1>7. \A q \in Kinds : k = q => ToSet(f.rows) \subseteq 1 .. taken[q]
  BY Parts
<1>8. \A v \in Writers : v = w => writer[v] = f
  OBVIOUS
<1>9. Stays(writer, w)
  BY Parts DEF Stays
<1> HIDE DEF k, f
<1>10. /\ \A q \in Kinds : /\ taken[q] <= taken'[q] /\ 1 .. taken'[q] = 1 .. taken[q]
                           /\ ToSet(b[q]) \subseteq 1 .. taken'[q]
       /\ b["order"] = buffer["order"]
  <2>1. \A q \in Kinds : taken[q] <= taken'[q] /\ 1 .. taken'[q] = 1 .. taken[q]
    BY <1>1, Parts
  <2>2. \A q \in Kinds : ToSet(b[q]) \subseteq 1 .. taken[q]
    BY <1>5, <1>7, Parts
  <2> QED
    BY <1>5, <2>1, <2>2, KindsAre DEF TakenOut
<1>11. Grows(w, b)
  BY <1>1, <1>2, <1>3, <1>5, <1>10, Parts DEF Grows
<1>12. Sound(writer, w, b)
  BY <1>3, <1>9, <1>10, <1>11, SoundStays
<1>13. Covered(writer, w, b)
  <2>1. \A q \in Kinds : Watched(q)' => Watched(q)
    BY <1>1 DEF Watched
  <2>2. \A q \in Kinds : ToSet(buffer[q]) \subseteq ToSet(b[q])
    BY <1>5
  <2>3. ASSUME NEW q \in Kinds, Watched(q), k = q
        PROVE  ToSet(f.rows) \subseteq ToSet(b[q]) \union Covers(q, table'[q])
    <3>1. TakenOut(k) \/ k = "order"
      BY <2>3 DEF Watched, TakenOut
    <3>2. k = "order" => ToSet(f.rows) \subseteq ToSet(buffer[k]) \union Covers(k, table[k])
      BY <1>6 DEF Covers
    <3> QED
      BY <1>3, <1>5, <2>2, <2>3, <3>1, <3>2
  <2>4. \A q \in Kinds : Watched(q)' =>
            \A v \in Writers :
                \/ v /= w /\ writer[v] = writer[v]
                \/ writer[v].kind = q => ToSet(writer[v].rows) \subseteq ToSet(b[q]) \union Covers(q, table'[q])
    BY <1>8, <2>1, <2>3 DEF k
  <2> QED
    BY <1>3, <1>10, <2>1, <2>2, <2>4, CoveredStays
<1> QED
  BY <1>1, <1>2, <1>4, <1>12, <1>13, RestTypes, FlushKeeps

\* A loop that is cancelled, and the last flush of what it wrote.
LEMMA CancelStep ==
    ASSUME WriterInv, NEW w \in Loops, Cancel(w)
    PROVE  WriterInv'
<1> DEFINE f == writer[w]
           k == f.kind
           last == IF w = "loop" THEN "stop" ELSE "last"
           kinds == IF w = "loop" THEN Flushed ELSE <<"log">>
<1>1. /\ w \notin cancelled /\ cancelled' = cancelled \union {w}
      /\ taken' = taken /\ failures' = failures
      /\ IF f.at = "write"
         THEN table' \in {table, [table EXCEPT ![k] = Stored(k, f.rows)]}
         ELSE table' = table
      /\ Flush([writer EXCEPT ![w] = Off], last, kinds, buffer)
  BY DEF Cancel
<1>2. /\ w \in Writers /\ last \in Writers /\ last /= w /\ writer[last] = Off
      /\ last = "stop" => w = "loop"
      /\ last = "last" => w = "logger"
  BY <1>1, KindsAre DEF WriterInv, InPlace
<1>3. /\ kinds \in Seq(Kinds) /\ Len(kinds) <= 4 /\ ToSet(kinds) \subseteq OwnKinds(last)
  <2>1. CASE w = "loop"
    BY <2>1, KindsAre DEF OwnKinds
  <2>2. CASE w /= "loop"
    BY <2>2, KindsAre DEF OwnKinds, ToSet
  <2> QED
    BY <2>1, <2>2
<1>4. PICK tasks : tasks = [writer EXCEPT ![w] = Off]
  OBVIOUS
<1>5. /\ tasks \in [Writers -> Flight] /\ tasks[w] = Off
      /\ \A v \in Writers \ {w} : tasks[v] = writer[v]
  <2>1. Off \in Flight /\ writer \in [Writers -> Flight]
    BY RestingTypes, Parts
  <2> QED
    BY <1>2, <1>4, <2>1
<1>6. /\ table' \in [Kinds -> SUBSET Items]
      /\ \A q \in Kinds : /\ Covers(q, table[q]) \subseteq Covers(q, table'[q])
                          /\ table'[q] \subseteq 1 .. taken[q]
      /\ \A v \in Writers :
             writer[v].kind = "order" => InStep(writer[v], buffer["order"], table'["order"])
  <2>1. CASE f.at = "write"
    BY <1>1, <1>2, <2>1, RowsCome
  <2>2. CASE f.at /= "write"
    BY <1>1, <2>2, Parts
  <2> QED
    BY <2>1, <2>2
\* What the loop was writing and nobody has is not watched any more.
<1>7. \A q \in Kinds : Watched(q)' => Watched(q)
  BY <1>1 DEF Watched
<1>8. ASSUME NEW q \in Kinds, Watched(q)', k = q
      PROVE  ToSet(f.rows) \subseteq ToSet(buffer[q]) \union Covers(q, table'[q])
  <2>1. f.at = "write"
    BY <1>2, <1>8, Resting, KindsAre
  <2>2. k \in OwnKinds(w)
    BY <1>2, <2>1, AtWork
  <2>3. k = "order"
    BY <1>1, <1>2, <1>8, <2>2, OwnKindsAre, KindsAre DEF Watched
  <2>4. f \in Flight /\ InStep(f, buffer[q], table'[q]) /\ buffer[q] \in Seq(Items)
    BY <1>2, <1>6, <1>8, <2>3, Parts
  <2>5. ToSet(f.rows) \subseteq ToSet(buffer[q]) \union table'[q]
    BY <2>4, InStepRows
  <2> QED
    BY <1>8, <2>3, <2>5 DEF Covers
<1>9. f = writer[w] /\ k = f.kind /\ writer[last].kind = "none"
  BY <1>2, RestingTypes
<1> HIDE DEF f, k, last, kinds
<1>10. Stays(tasks, last)
  BY <1>5 DEF Stays
<1>11. Grows(last, buffer)
  <2>1. \A q \in Kinds : taken[q] <= taken'[q] /\ 1 .. taken'[q] = 1 .. taken[q]
    BY <1>1, Parts
  <2> QED
    BY <1>1, <1>2, <1>6, <2>1, KindsAre, Parts DEF Grows
<1>12. Sound(tasks, last, buffer)
  BY <1>2, <1>6, <1>10, <1>11, SoundStays
<1>13. Covered(tasks, last, buffer)
  <2>1. ASSUME NEW q \in Kinds, Watched(q)', NEW v \in Writers
        PROVE  \/ v /= last /\ tasks[v] = writer[v]
               \/ writer[v].kind = q =>
                      ToSet(writer[v].rows) \subseteq ToSet(buffer[q]) \union Covers(q, table'[q])
    <3>1. CASE v = last
      BY <1>9, <3>1, KindsAre
    <3>2. CASE v = w
      BY <1>8, <1>9, <2>1, <3>2
    <3>3. CASE v /= last /\ v /= w
      BY <1>5, <3>3
    <3> QED
      BY <3>1, <3>2, <3>3
  <2> QED
    BY <1>1, <1>2, <1>6, <1>7, <2>1, CoveredStays
<1>14. Flush(tasks, last, kinds, buffer)
  BY <1>1, <1>4
<1> QED
  BY <1>2, <1>3, <1>12, <1>13, <1>14, FlushKeeps

\* A stuttering step keeps the invariant.
LEMMA WriterStays ==
    ASSUME WriterInv, UNCHANGED vars
    PROVE  WriterInv'
<1>1. TypeOK'
  BY DEF WriterInv, TypeOK, vars
<1>2. InPlace'
  BY DEF WriterInv, InPlace, vars
<1>3. OrdersInStep'
  BY DEF WriterInv, OrdersInStep, vars
<1>4. NothingLost'
  BY DEF WriterInv, NothingLost, Safe, OnItsWay, vars
<1> QED
  BY <1>1, <1>2, <1>3, <1>4 DEF WriterInv

\* At first buffers, tables and flushes are empty.
LEMMA WriterInit ==
    ASSUME Init
    PROVE  WriterInv
<1>1. \A w \in Writers : /\ writer[w] \in {Off, Asleep} /\ writer[w] \in Flight
                         /\ writer[w].kind = "none" /\ writer[w].at /= "write"
  BY RestingTypes DEF Init
<1>2. \A k \in Kinds : /\ buffer[k] = <<>> /\ ToSet(buffer[k]) = {}
                       /\ table[k] = {} /\ taken[k] = 0 /\ 1 .. taken[k] = {}
  BY DEF Init, ToSet
<1>3. "none" \notin Kinds
  BY KindsAre
<1>4. TypeOK
  <2>1. writer \in [Writers -> Flight]
    BY <1>1 DEF Init
  <2>2. /\ taken \in [Kinds -> Nat] /\ table \in [Kinds -> SUBSET Items]
        /\ buffer \in [Kinds -> Seq(Items)] /\ cancelled \subseteq Loops /\ failures \in Nat
    <3>1. <<>> \in Seq(Items)
      OBVIOUS
    <3> QED
      BY <3>1 DEF Init
  <2> QED
    BY <1>1, <1>2, <1>3, <2>1, <2>2 DEF TypeOK, Flight
<1>5. InPlace
  BY <1>1, KindsAre DEF InPlace, Own, Init
<1>6. OrdersInStep
  BY <1>1 DEF OrdersInStep
<1>7. NothingLost
  BY <1>2, KindsAre DEF NothingLost, Safe
<1> QED
  BY <1>4, <1>5, <1>6, <1>7 DEF WriterInv

\* Every step keeps the invariant.
LEMMA WriterNext ==
    ASSUME WriterInv, [Next]_vars
    PROVE  WriterInv'
<1>1. \A k \in ToSet(Flushed) \union {"log"} : k \in Kinds
  BY KindsAre
<1>2. ASSUME NEW k \in ToSet(Flushed), Collect(k) PROVE WriterInv'
  BY <1>1, <1>2, CollectStep
<1>3. CASE Emit
  BY <1>1, <1>3, CollectStep DEF Emit
<1>4. CASE Wake
  <2>1. /\ Flushed \in Seq(Kinds) /\ Len(Flushed) <= 4 /\ ToSet(Flushed) \subseteq OwnKinds("loop")
    BY KindsAre DEF OwnKinds
  <2> QED
    BY <1>4, <2>1, WakesStep, KindsAre DEF Wake
<1>5. CASE WakeLogger
  <2>1. /\ <<"log">> \in Seq(Kinds) /\ Len(<<"log">>) <= 4
        /\ ToSet(<<"log">>) \subseteq OwnKinds("logger")
    BY KindsAre DEF OwnKinds, ToSet
  <2> QED
    BY <1>5, <2>1, WakesStep, KindsAre DEF WakeLogger
<1>6. ASSUME NEW w \in Loops, Cancel(w) PROVE WriterInv'
  BY <1>6, CancelStep
<1>7. ASSUME NEW w \in Writers, Written(w) PROVE WriterInv'
  BY <1>7, WrittenStep
<1>8. ASSUME NEW w \in Writers, WriteFails(w) PROVE WriterInv'
  BY <1>8, WriteFailsStep
<1>9. CASE UNCHANGED vars
  BY <1>9, WriterStays
<1> QED
  BY <1>2, <1>3, <1>4, <1>5, <1>6, <1>7, <1>8, <1>9 DEF Next

\* The invariant holds of every reachable state.
LEMMA WriterInvariant == Spec => []WriterInv
<1>1. Init => WriterInv
  BY WriterInit
<1>2. WriterInv /\ [Next]_vars => WriterInv'
  BY WriterNext
<1> QED
  BY <1>1, <1>2, PTL DEF Spec

\* The buffers, the tables and the flushes have their types: every row in a buffer,
\* a table or a flush is an item that was collected.
THEOREM WriterTypeCorrect == Spec => []TypeOK
<1>1. WriterInv => TypeOK
  BY DEF WriterInv
<1> QED
  BY <1>1, WriterInvariant, PTL

\* Every order that was collected is in its buffer, in the table or on its way,
\* and so are market data and logs until their loop is cancelled, or a row with
\* their key is in the table: however the flushes of the five tasks overlap, are
\* refused and fail, and whatever keys the rows have.
THEOREM NothingIsLost == Spec => []NothingLost
<1>1. WriterInv => NothingLost
  BY DEF WriterInv
<1> QED
  BY <1>1, WriterInvariant, PTL
=============================================================================
