---------------------------- MODULE RedisProofs -----------------------------
(* What goes through Redis, for any stocks, callers, sizes and bounds: no tick *)
(* overtakes another on its way from the broker to the strategies unless two   *)
(* tasks have them in hand at once, and what the processes that share a rate   *)
(* limit keep of it.                                                           *)
EXTENDS TickStream, FiniteSetTheorems, WellFoundedInduction, TLAPS

\* Ticks without the bound on how many there are.
Ticks == [stock : Stocks, version : Nat]

\* u may be evaluated after t.
OlderIn(pairs, t, u) == t.stock = u.stock => t.version <= u.version \/ <<u, t>> \in pairs
Older(t, u) == OlderIn(late, t, u)
NewestLast(q) == \A i, j \in DOMAIN q : i < j => Older(q[i], q[j])

\* The ticks in the stream that the engine has not read.
IsUnread(i) == added - Len(stream) + i > position

\* The ticks that the stream still has for the engine, and the one that is on
\* its way to the stream.
Ahead == {stream[i] : i \in {j \in DOMAIN stream : IsUnread(j)}}
             \union {h.tick : h \in {g \in handling : g.step = "add"}}

Steps == {"add", "cache", "ask", "put"}
Handlers == [tick : Ticks, step : Steps]
IsPolled(h) == h.step \in {"ask", "put"}

StateTypes ==
    /\ streaming \in BOOLEAN
    /\ made \in [Stocks -> Nat] /\ seen \in [Stocks -> Nat] /\ cached \in [Stocks -> Nat]
    /\ added \in Nat /\ position \in 0 .. added
    /\ stream \in Seq(Ticks) /\ Len(stream) <= added
    /\ queue \in Seq(Ticks)
    /\ batch \subseteq Ticks
    /\ handling \subseteq Handlers

\* What the broker has not sent is nowhere.
OnlyMade ==
    /\ \A s \in Stocks : seen[s] <= made[s] /\ cached[s] <= made[s]
    /\ \A i \in DOMAIN stream : stream[i].version <= made[stream[i].stock]
    /\ \A i \in DOMAIN queue : queue[i].version <= made[queue[i].stock]
    /\ \A t \in batch : t.version <= made[t.stock]
    /\ \A h \in handling : h.tick.version <= made[h.tick.stock]

\* What the handlers are about to add may follow the stream and one another.
Ordered ==
    /\ NewestLast(stream)
    /\ \A h \in handling : h.step = "add" => \A i \in DOMAIN stream : Older(stream[i], h.tick)
    /\ \A h, g \in handling : h.step = "add" /\ g.step = "add" => Older(h.tick, g.tick)

\* The engine is behind: what it has read may follow what it evaluated, and all
\* it has yet to read may follow both.
Behind ==
    /\ \A t \in Ahead : Older(SeenTick(t.stock), t) /\ \A u \in batch : Older(u, t)
    /\ \A t \in batch : Older(SeenTick(t.stock), t)
    /\ \A t, u \in batch : t.stock = u.stock => t = u

\* The same without a stream, for the queue and the pollers.
QueueBehind ==
    ~streaming =>
        /\ batch = {} /\ stream = <<>>
        /\ \A h \in handling : h.step /= "add"
        /\ NewestLast(queue)
        /\ \A i \in DOMAIN queue : Older(SeenTick(queue[i].stock), queue[i])
        /\ \A h \in handling : IsPolled(h) =>
               /\ Older(SeenTick(h.tick.stock), h.tick)
               /\ \A i \in DOMAIN queue : Older(queue[i], h.tick)
               /\ \A g \in handling : IsPolled(g) => Older(h.tick, g.tick)

TickInv == StateTypes /\ OnlyMade /\ Ordered /\ Behind /\ QueueBehind

-----------------------------------------------------------------------------
(* Positions, and sequences in the order of their versions.                  *)

\* A set of numbers has a least one.
LEMMA LeastOf ==
    ASSUME NEW S, S \subseteq Nat, S /= {}
    PROVE  \E m \in S : \A k \in S : m <= k
<1> DEFINE R == OpToRel(<, Nat)
<1>1. IsWellFoundedOn(R, Nat)
  BY NatLessThanWellFounded
<1>2. \A x, y \in Nat : x < y => <<x, y>> \in R
  BY DEF OpToRel
<1> HIDE DEF R
<1>3. PICK m \in S : \A k \in S : ~(<<k, m>> \in R)
  BY <1>1, WFMin, Zenon
<1>4. ASSUME NEW k \in S PROVE m <= k
  <2>1. k \in Nat /\ m \in Nat
    OBVIOUS
  <2>2. ~(k < m)
    BY <1>2, <1>3, <2>1
  <2> QED
    BY <2>1, <2>2
<1> QED
  BY <1>4

\* A set of positions has a last one.
LEMMA LastOf ==
    ASSUME NEW n \in Nat, NEW S, S \subseteq 1 .. n, S /= {}
    PROVE  \E m \in S : \A k \in S : k <= m
<1> DEFINE T == {n - i : i \in S}
<1>a. \A i \in S : i \in Int /\ 1 <= i /\ i <= n
  OBVIOUS
<1>1. T \subseteq Nat /\ T /= {}
  <2>1. \A i \in S : n - i \in Nat
    BY <1>a
  <2> QED
    BY <2>1
<1>2. PICK d \in T : \A e \in T : d <= e
  BY <1>1, LeastOf
<1>3. PICK m \in S : d = n - m
  OBVIOUS
<1>4. ASSUME NEW k \in S PROVE k <= m
  <2>1. d <= n - k
    BY <1>2
  <2>2. k \in Int /\ m \in Int /\ n \in Int
    BY <1>a
  <2> QED
    BY <1>3, <2>1, <2>2
<1> QED
  BY <1>4
\* The first r of the last u entries of a sequence.
LEMMA Excerpt ==
    ASSUME NEW S, NEW q \in Seq(S), NEW u \in Nat, NEW r \in Nat, u <= Len(q), r <= u
    PROVE  LET m == SubSeq(q, Len(q) - u + 1, Len(q) - u + r)
           IN  /\ DOMAIN m = 1 .. r
               /\ \A k \in 1 .. r : /\ Len(q) - u + k \in DOMAIN q
                                    /\ m[k] = q[Len(q) - u + k]
<1> DEFINE n == Len(q) - u
           m == SubSeq(q, n + 1, n + r)
<1>1. Len(q) \in Nat /\ DOMAIN q = 1 .. Len(q)
  OBVIOUS
<1>2. n \in Nat /\ n + r <= Len(q)
  BY <1>1
<1> HIDE DEF n
<1>3. \A k \in 1 .. r : n + k \in 1 .. Len(q)
  BY <1>1, <1>2
<1>4. n + 1 \in 1 .. Len(q) + 1 /\ n + r \in n .. Len(q) /\ (n + r) - (n + 1) + 1 = r
  BY <1>1, <1>2
<1>5. Len(m) = r /\ DOMAIN m = 1 .. r
  BY <1>1, <1>2, <1>4
<1>6. ASSUME NEW k \in 1 .. r PROVE m[k] = q[n + k]
  <2>1. m[k] = q[(n + 1) + k - 1]
    BY <1>1, <1>2, <1>4
  <2>2. (n + 1) + k - 1 = n + k
    BY <1>2
  <2> QED
    BY <2>1, <2>2
<1> QED
  BY <1>1, <1>3, <1>5, <1>6 DEF n

\* Without its first tick a queue stays sorted, and that tick is older than the
\* rest.
LEMMA TailOrdered ==
    ASSUME NEW q \in Seq(Ticks), q /= <<>>, NewestLast(q)
    PROVE  /\ Head(q) = q[1] /\ 1 \in DOMAIN q /\ Head(q) \in Ticks
           /\ Tail(q) \in Seq(Ticks) /\ Len(Tail(q)) = Len(q) - 1 /\ Len(q) \in Nat
           /\ \A i \in DOMAIN Tail(q) : i + 1 \in DOMAIN q /\ Tail(q)[i] = q[i + 1]
           /\ NewestLast(Tail(q))
           /\ \A i \in DOMAIN Tail(q) : Older(Head(q), Tail(q)[i])
<1> DEFINE r == Tail(q)
<1>1. /\ Head(q) = q[1] /\ 1 \in DOMAIN q /\ q[1] \in Ticks
      /\ r \in Seq(Ticks) /\ Len(r) = Len(q) - 1 /\ Len(q) \in Nat
  OBVIOUS
<1>2. \A i \in DOMAIN r : i + 1 \in DOMAIN q /\ r[i] = q[i + 1] /\ i \in Nat /\ 1 < i + 1
  OBVIOUS
<1> HIDE DEF r
<1>3. \A i, j \in DOMAIN r : i < j => i + 1 < j + 1
  BY <1>2
<1>4. NewestLast(r)
  BY <1>2, <1>3 DEF NewestLast
<1>5. \A i \in DOMAIN r : Older(q[1], r[i])
  BY <1>1, <1>2 DEF NewestLast
<1> QED
  BY <1>1, <1>2, <1>4, <1>5 DEF r

\* A tick that is newer than all others is appended in order.
LEMMA AppendOrdered ==
    ASSUME NEW q \in Seq(Ticks), NewestLast(q), NEW t \in Ticks,
           \A i \in DOMAIN q : Older(q[i], t)
    PROVE  /\ Append(q, t) \in Seq(Ticks) /\ Len(Append(q, t)) = Len(q) + 1
           /\ Append(q, t) /= <<>> /\ Len(q) \in Nat
           /\ \A i \in DOMAIN Append(q, t) :
                  \/ i \in DOMAIN q /\ Append(q, t)[i] = q[i]
                  \/ i = Len(q) + 1 /\ Append(q, t)[i] = t
           /\ NewestLast(Append(q, t))
<1> DEFINE r == Append(q, t)
<1>1. r \in Seq(Ticks) /\ Len(r) = Len(q) + 1 /\ Len(q) \in Nat /\ r /= <<>>
  OBVIOUS
<1>2. \A i \in DOMAIN r : \/ i \in DOMAIN q /\ r[i] = q[i]
                          \/ i = Len(q) + 1 /\ r[i] = t
  OBVIOUS
<1>3. \A i \in DOMAIN q : i \in Nat /\ i <= Len(q)
  OBVIOUS
<1>4. \A i \in DOMAIN r : i \in Nat /\ i <= Len(q) + 1
  BY <1>1
<1> HIDE DEF r
<1>5. ASSUME NEW i \in DOMAIN r, NEW j \in DOMAIN r, i < j PROVE Older(r[i], r[j])
  <2>1. i \in DOMAIN q /\ r[i] = q[i]
    BY <1>1, <1>2, <1>4, <1>5
  <2>2. CASE j \in DOMAIN q /\ r[j] = q[j]
    BY <1>5, <2>1, <2>2 DEF NewestLast
  <2>3. CASE r[j] = t
    BY <2>1, <2>3
  <2> QED
    BY <1>2, <2>2, <2>3
<1> QED
  BY <1>1, <1>2, <1>5 DEF NewestLast, r

\* put_nowait adds the newest or nothing.
LEMMA PutOrdered ==
    ASSUME NEW q \in Seq(Ticks), NewestLast(q), NEW t \in Ticks,
           \A i \in DOMAIN q : Older(q[i], t)
    PROVE  /\ Put(q, t) \in Seq(Ticks) /\ NewestLast(Put(q, t))
           /\ \A i \in DOMAIN Put(q, t) :
                  Put(q, t)[i] = t \/ (i \in DOMAIN q /\ Put(q, t)[i] = q[i])
<1>1. CASE Put(q, t) = q
  BY <1>1
<1>2. CASE Put(q, t) = Append(q, t)
  BY <1>2, AppendOrdered
<1> QED
  BY <1>1, <1>2 DEF Put

\* The same without the order.
LEMMA PutType ==
    ASSUME NEW q \in Seq(Ticks), NEW t \in Ticks
    PROVE  /\ Put(q, t) \in Seq(Ticks)
           /\ \A i \in DOMAIN Put(q, t) :
                  Put(q, t)[i] = t \/ (i \in DOMAIN q /\ Put(q, t)[i] = q[i])
<1>1. CASE Put(q, t) = q
  BY <1>1
<1>2. CASE Put(q, t) = Append(q, t)
  BY <1>2
<1> QED
  BY <1>1, <1>2 DEF Put

-----------------------------------------------------------------------------
(* What the steps share.                                                     *)

\* The engine stays behind when nothing new is ahead of it.
LEMMA FewerAhead ==
    ASSUME Behind, Ahead' \subseteq Ahead, UNCHANGED <<seen, batch, late>>
    PROVE  Behind'
BY DEF Behind, Older, SeenTick

\* The entries of a shorter stream were in the stream, as unread as they are now.
LEMMA TailAhead ==
    ASSUME StateTypes, Ordered, stream /= <<>>, stream' = Tail(stream),
           UNCHANGED <<added, position>>
    PROVE  /\ \A i \in DOMAIN stream' : i + 1 \in DOMAIN stream /\ stream'[i] = stream[i + 1]
           /\ \A i \in DOMAIN stream' : IsUnread(i)' => IsUnread(i + 1)
<1>1. /\ Len(stream') = Len(stream) - 1 /\ Len(stream) \in Nat
      /\ \A i \in DOMAIN stream' : i + 1 \in DOMAIN stream /\ stream'[i] = stream[i + 1]
      /\ stream' \in Seq(Ticks)
  BY TailOrdered DEF StateTypes, Ordered
<1>2. \A i \in DOMAIN stream' : i \in Nat
  BY <1>1
<1>3. added' = added /\ position' = position /\ added \in Nat /\ position \in Nat
  BY DEF StateTypes
<1>4. ASSUME NEW i \in DOMAIN stream', IsUnread(i)' PROVE IsUnread(i + 1)
  <2>1. added - Len(stream') + i > position
    BY <1>3, <1>4 DEF IsUnread
  <2> QED
    BY <1>1, <1>2, <1>3, <2>1 DEF IsUnread
<1> QED
  BY <1>1, <1>4

\* Handlers and pollers go on or end; what they put into the queue is another
\* matter.
LEMMA HandlersStep ==
    ASSUME TickInv,
           UNCHANGED <<streaming, made, late, stream, added, position, batch, seen>>,
           cached' \in [Stocks -> Nat], \A s \in Stocks : cached'[s] <= made[s],
           queue' \in Seq(Ticks),
           \A i \in DOMAIN queue' : queue'[i].version <= made[queue'[i].stock],
           handling' \subseteq Handlers,
           \A g \in handling' : \/ g \in handling
                                \/ g.step /= "add" /\ \E h \in handling : h.tick = g.tick
    PROVE  StateTypes' /\ OnlyMade' /\ Ordered' /\ Behind'
<1>a. StateTypes /\ OnlyMade /\ Ordered /\ Behind
  BY DEF TickInv
<1>1. StateTypes'
  BY <1>a DEF StateTypes
<1>2. OnlyMade'
  <2>1. \A g \in handling' : g.tick.version <= made[g.tick.stock]
    BY <1>a DEF OnlyMade
  <2> QED
    BY <1>a, <2>1 DEF OnlyMade
<1>3. \A g \in handling' : g.step = "add" => g \in handling
  OBVIOUS
<1>4. Ordered'
  BY <1>a, <1>3 DEF Ordered, NewestLast, Older
<1>5. Ahead' \subseteq Ahead
  BY <1>3 DEF Ahead, IsUnread
<1> QED
  BY <1>a, <1>1, <1>2, <1>4, <1>5, FewerAhead

\* The queue and the pollers' ticks stay in order when neither gets anything new.
LEMMA QueueStays ==
    ASSUME QueueBehind, UNCHANGED <<streaming, late, stream, batch, seen>>,
           streaming \/ queue' = queue,
           \A g \in handling' :
               \/ g \in handling
               \/ g.step = "cache"
               \/ IsPolled(g) /\ \E h \in handling : h.tick = g.tick /\ IsPolled(h)
    PROVE  QueueBehind'
<1> SUFFICES ASSUME ~streaming PROVE QueueBehind'
  BY DEF QueueBehind
<1>1. /\ batch = {} /\ stream = <<>> /\ NewestLast(queue) /\ queue' = queue
      /\ \A h \in handling : h.step /= "add"
      /\ \A i \in DOMAIN queue : Older(SeenTick(queue[i].stock), queue[i])
      /\ \A h \in handling : IsPolled(h) =>
             /\ Older(SeenTick(h.tick.stock), h.tick)
             /\ \A i \in DOMAIN queue : Older(queue[i], h.tick)
             /\ \A g \in handling : IsPolled(g) => Older(h.tick, g.tick)
  BY DEF QueueBehind
<1>2. \A g \in handling' : IsPolled(g) => \E h \in handling : h.tick = g.tick /\ IsPolled(h)
  BY DEF IsPolled
<1>3. \A g \in handling' : g.step /= "add"
  BY <1>1 DEF IsPolled
<1>4. \A t, u : Older(t, u)' <=> Older(t, u)
  BY DEF Older
<1>5. NewestLast(queue)'
  BY <1>1, <1>4 DEF NewestLast
<1>6. \A s : SeenTick(s)' = SeenTick(s)
  BY DEF SeenTick
<1>7. \A i \in DOMAIN queue' : Older(SeenTick(queue'[i].stock), queue'[i])
  BY <1>1
<1>8. ASSUME NEW g \in handling', IsPolled(g)
      PROVE  /\ Older(SeenTick(g.tick.stock), g.tick)
             /\ \A i \in DOMAIN queue' : Older(queue'[i], g.tick)
             /\ \A f \in handling' : IsPolled(f) => Older(g.tick, f.tick)
  BY <1>1, <1>2, <1>8
<1> QED
  BY <1>1, <1>3, <1>4, <1>5, <1>6, <1>7, <1>8 DEF QueueBehind, Older, SeenTick

\* A step that leaves the road alone.
LEMMA RoadStays ==
    ASSUME TickInv, cached' \in [Stocks -> Nat], \A s \in Stocks : cached'[s] <= made[s],
           UNCHANGED <<streaming, made, handling, late, stream, added, position, queue, batch, seen>>
    PROVE  TickInv'
<1>a. StateTypes /\ OnlyMade /\ QueueBehind
  BY DEF TickInv
<1>1. /\ queue' \in Seq(Ticks)
      /\ \A i \in DOMAIN queue' : queue'[i].version <= made[queue'[i].stock]
      /\ handling' \subseteq Handlers
  BY <1>a DEF StateTypes, OnlyMade
<1>2. StateTypes' /\ OnlyMade' /\ Ordered' /\ Behind'
  BY <1>1, HandlersStep
<1>3. QueueBehind'
  BY <1>a, QueueStays
<1> QED
  BY <1>2, <1>3 DEF TickInv

-----------------------------------------------------------------------------
(* What comes into the hands of a task.                                      *)

\* The broker sends something newer.
LEMMA NewerMade ==
    ASSUME StateTypes, NEW s \in Stocks, made' = [made EXCEPT ![s] = @ + 1]
    PROVE  /\ made' \in [Stocks -> Nat]
           /\ made'[s] = made[s] + 1 /\ made[s] \in Nat
           /\ \A t \in Stocks : made[t] \in Nat /\ made'[t] \in Nat /\ made[t] <= made'[t]
           /\ Newer(s) \in Ticks
           /\ Newer(s).version <= made'[Newer(s).stock]
BY DEF StateTypes, Newer, Ticks

\* What the broker has sent it has sent when there is more of it.
LEMMA StillMade ==
    ASSUME StateTypes, made' \in [Stocks -> Nat],
           \A s \in Stocks : made[s] <= made'[s],
           NEW t \in Ticks, t.version <= made[t.stock]
    PROVE  t.version <= made'[t.stock]
<1>1. t.stock \in Stocks /\ t.version \in Nat
  BY DEF Ticks
<1>2. made[t.stock] \in Nat /\ made'[t.stock] \in Nat /\ made[t.stock] <= made'[t.stock]
  BY <1>1 DEF StateTypes
<1> QED
  BY <1>1, <1>2

\* A tick that is taken in hand may follow all that the broker had sent.
LEMMA TakenLast ==
    ASSUME StateTypes, NEW t \in Ticks, LateFor(t) \subseteq late',
           NEW u \in Ticks, u.version <= made[u.stock]
    PROVE  OlderIn(late', u, t)
<1> SUFFICES ASSUME u.stock = t.stock, ~(u.version <= t.version)
             PROVE  <<t, u>> \in late'
  BY DEF OlderIn
<1>1. /\ t.stock \in Stocks /\ t.version \in Nat /\ u.version \in Nat
      /\ made[t.stock] \in Nat
  BY DEF Ticks, StateTypes
<1>2. u.version \in t.version + 1 .. made[t.stock]
  BY <1>1
<1>3. u = [t EXCEPT !.version = u.version]
  BY DEF Ticks
<1>4. <<t, u>> \in LateFor(t)
  BY <1>2, <1>3 DEF LateFor
<1> QED
  BY <1>4

\* What waits in other hands may follow it.
LEMMA TakenFirst ==
    ASSUME StateTypes, NEW t \in Ticks, LateFor(t) \subseteq late',
           NEW g \in handling, g.step \in Waits
    PROVE  OlderIn(late', t, g.tick)
<1> SUFFICES ASSUME t.stock = g.tick.stock, ~(t.version <= g.tick.version)
             PROVE  <<g.tick, t>> \in late'
  BY DEF OlderIn
<1>1. t.version \in Nat /\ g.tick.version \in Nat
  BY DEF Ticks, StateTypes, Handlers
<1>2. g.tick.version < t.version
  BY <1>1
<1>3. <<g.tick, t>> \in LateFor(t)
  BY <1>2 DEF LateFor
<1> QED
  BY <1>3

\* What may follow may follow for ever.
LEMMA OlderStays ==
    ASSUME late \subseteq late', NEW t, NEW u, Older(t, u)
    PROVE  OlderIn(late', t, u)
BY DEF Older, OlderIn

\* Whoever takes a tick in hand, and whether it goes to the queue at once.
LEMMA TakeStep ==
    ASSUME TickInv, NEW t \in Ticks, NEW step \in Steps, Take(t, step),
           t.version <= made'[t.stock], step = "add" => streaming,
           made' \in [Stocks -> Nat], \A s \in Stocks : made[s] <= made'[s],
           queue' = queue \/ queue' = Put(queue, t),
           UNCHANGED <<streaming, stream, added, position, batch, seen, cached>>
    PROVE  TickInv'
<1> DEFINE h == [tick |-> t, step |-> step]
<1>a. StateTypes /\ OnlyMade /\ Ordered /\ Behind /\ QueueBehind
  BY DEF TickInv
<1>b. /\ handling' = handling \union {h}
      /\ late \subseteq late'
      /\ step = "add" \/ ~streaming => LateFor(t) \subseteq late'
  BY DEF Take
<1>c. h \in Handlers /\ h.tick = t /\ h.step = step
  BY DEF Handlers
<1> HIDE DEF h
<1>d. /\ queue' \in Seq(Ticks)
      /\ \A i \in DOMAIN queue' : queue'[i] = t \/ (i \in DOMAIN queue /\ queue'[i] = queue[i])
  BY <1>a, PutType DEF StateTypes
<1>e. /\ \A i \in DOMAIN stream : stream[i] \in Ticks /\ stream[i].version <= made[stream[i].stock]
      /\ \A i \in DOMAIN queue : queue[i] \in Ticks /\ queue[i].version <= made[queue[i].stock]
      /\ \A u \in batch : u \in Ticks /\ u.version <= made[u.stock]
      /\ \A g \in handling : g.tick \in Ticks /\ g.tick.version <= made[g.tick.stock]
  BY <1>a DEF StateTypes, OnlyMade, Handlers
<1>f. \A s \in Stocks : SeenTick(s) \in Ticks /\ SeenTick(s).version <= made[SeenTick(s).stock]
  BY <1>a DEF StateTypes, OnlyMade, SeenTick, Ticks
<1>g. t.stock \in Stocks
  BY DEF Ticks
<1>h. \A s : SeenTick(s)' = SeenTick(s)
  BY DEF SeenTick
<1>1. StateTypes'
  BY <1>a, <1>b, <1>c, <1>d DEF StateTypes
<1>2. OnlyMade'
  <2>1. \A s \in Stocks : seen'[s] <= made'[s] /\ cached'[s] <= made'[s]
    BY <1>a DEF StateTypes, OnlyMade
  <2>2. \A i \in DOMAIN stream' : stream'[i].version <= made'[stream'[i].stock]
    BY <1>a, <1>e, StillMade
  <2>3. \A i \in DOMAIN queue' : queue'[i].version <= made'[queue'[i].stock]
    BY <1>a, <1>d, <1>e, StillMade
  <2>4. \A u \in batch' : u.version <= made'[u.stock]
    BY <1>a, <1>e, StillMade
  <2>5. \A g \in handling' : g.tick.version <= made'[g.tick.stock]
    BY <1>a, <1>b, <1>c, <1>e, StillMade
  <2> QED
    BY <2>1, <2>2, <2>3, <2>4, <2>5 DEF OnlyMade
<1>3. step = "add" => "add" \in Waits
  BY DEF Waits
<1>4. step = "add" =>
          /\ \A u \in Ticks : u.version <= made[u.stock] => OlderIn(late', u, t)
          /\ \A g \in handling : g.step = "add" => OlderIn(late', t, g.tick)
  BY <1>a, <1>b, <1>3, TakenLast, TakenFirst
<1>5. NewestLast(stream)'
  BY <1>a, <1>b, OlderStays DEF Ordered, NewestLast, Older
<1>6. Ordered'
  <2>1. ASSUME NEW g \in handling', g.step = "add", NEW i \in DOMAIN stream
        PROVE  OlderIn(late', stream[i], g.tick)
    <3>1. CASE g \in handling
      BY <1>a, <1>b, <2>1, <3>1, OlderStays DEF Ordered
    <3>2. CASE g = h
      BY <1>c, <1>e, <1>4, <2>1, <3>2
    <3> QED
      BY <1>b, <3>1, <3>2
  <2>2. ASSUME NEW g \in handling', NEW f \in handling', g.step = "add", f.step = "add"
        PROVE  OlderIn(late', g.tick, f.tick)
    <3>1. CASE g \in handling /\ f \in handling
      BY <1>a, <1>b, <2>2, <3>1, OlderStays DEF Ordered
    <3>2. CASE g \in handling /\ f = h
      BY <1>c, <1>e, <1>4, <2>2, <3>2
    <3>3. CASE g = h /\ f \in handling
      BY <1>c, <1>4, <2>2, <3>3
    <3>4. CASE g = h /\ f = h
      <4>1. t.version \in Nat
        BY DEF Ticks
      <4> QED
        BY <1>c, <3>4, <4>1 DEF OlderIn
    <3> QED
      BY <1>b, <3>1, <3>2, <3>3, <3>4
  <2>3. \A g \in handling' : g.step = "add" => \A i \in DOMAIN stream' : OlderIn(late', stream'[i], g.tick)
    BY <2>1
  <2> QED
    BY <1>5, <2>2, <2>3 DEF Ordered, Older
<1>7. Behind'
  <2>1. ASSUME NEW u \in Ahead'
        PROVE  u \in Ahead \/ (step = "add" /\ u = t)
    BY <1>b, <1>c, <2>1 DEF Ahead, IsUnread
  <2>2. ASSUME NEW u \in Ahead'
        PROVE  OlderIn(late', SeenTick(u.stock), u) /\ \A v \in batch : OlderIn(late', v, u)
    <3>1. CASE u \in Ahead
      BY <1>a, <1>b, <1>h, <3>1, OlderStays DEF Behind
    <3>2. CASE step = "add" /\ u = t
      BY <1>e, <1>f, <1>g, <1>h, <1>4, <3>2
    <3> QED
      BY <2>1, <2>2, <3>1, <3>2
  <2>3. \A u \in batch : OlderIn(late', SeenTick(u.stock), u)
    BY <1>a, <1>b, <1>h, OlderStays DEF Behind
  <2> QED
    BY <1>a, <2>2, <2>3 DEF Behind, Older, SeenTick
<1>8. QueueBehind'
  <2> SUFFICES ASSUME ~streaming PROVE QueueBehind'
    BY DEF QueueBehind
  <2>a. /\ batch = {} /\ stream = <<>> /\ NewestLast(queue)
        /\ \A g \in handling : g.step /= "add"
        /\ \A i \in DOMAIN queue : Older(SeenTick(queue[i].stock), queue[i])
        /\ \A g \in handling : IsPolled(g) =>
               /\ Older(SeenTick(g.tick.stock), g.tick)
               /\ \A i \in DOMAIN queue : Older(queue[i], g.tick)
               /\ \A f \in handling : IsPolled(f) => Older(g.tick, f.tick)
    BY <1>a DEF QueueBehind
  <2>b. /\ LateFor(t) \subseteq late'
        /\ \A u \in Ticks : u.version <= made[u.stock] => OlderIn(late', u, t)
        /\ \A g \in handling : IsPolled(g) => OlderIn(late', t, g.tick)
    <3>1. \A g \in handling : IsPolled(g) => g.step \in Waits
      BY DEF Waits, IsPolled
    <3> QED
      BY <1>a, <1>b, <3>1, TakenLast, TakenFirst
  <2>c. OlderIn(late', t, t)
    <3>1. t.version \in Nat
      BY DEF Ticks
    <3> QED
      BY <3>1 DEF OlderIn
  <2>d. \A g \in handling' : g \in handling \/ g.tick = t
    BY <1>b, <1>c
  <2>e. \A u, v : Older(u, v) => OlderIn(late', u, v)
    BY <1>b DEF Older, OlderIn
  <2>1. \A g \in handling' : g.step /= "add"
    BY <1>b, <1>c, <2>a
  <2>2. NewestLast(queue)'
    <3>1. CASE queue' = queue
      BY <2>a, <2>e, <3>1 DEF NewestLast, Older
    <3>2. CASE queue' = Append(queue, t)
      <4>1. /\ DOMAIN queue' = 1 .. Len(queue) + 1 /\ DOMAIN queue = 1 .. Len(queue)
            /\ Len(queue) \in Nat
            /\ \A i \in 1 .. Len(queue) : queue'[i] = queue[i]
            /\ queue'[Len(queue) + 1] = t
        BY <1>a, <3>2 DEF StateTypes
      <4>2. ASSUME NEW i \in DOMAIN queue', NEW j \in DOMAIN queue', i < j
            PROVE  OlderIn(late', queue'[i], queue'[j])
        <5>1. i \in DOMAIN queue /\ queue'[i] = queue[i]
          BY <4>1, <4>2
        <5>2. CASE j \in DOMAIN queue
          BY <4>1, <4>2, <5>1, <5>2, <2>a, <2>e DEF NewestLast
        <5>3. CASE queue'[j] = t
          BY <1>e, <2>b, <5>1, <5>3
        <5> QED
          BY <4>1, <5>2, <5>3
      <4> QED
        BY <4>2 DEF NewestLast, Older
    <3> QED
      BY <3>1, <3>2 DEF Put
  <2>3. OlderIn(late', SeenTick(t.stock), t)
    BY <1>f, <1>g, <1>h, <2>b
  <2>4. \A i \in DOMAIN queue' : OlderIn(late', SeenTick(queue'[i].stock), queue'[i])
    BY <1>d, <1>h, <2>a, <2>e, <2>3
  <2>5. ASSUME NEW g \in handling', IsPolled(g)
        PROVE  /\ OlderIn(late', SeenTick(g.tick.stock), g.tick)
               /\ \A i \in DOMAIN queue' : OlderIn(late', queue'[i], g.tick)
               /\ \A f \in handling' : IsPolled(f) => OlderIn(late', g.tick, f.tick)
    <3>1. CASE g \in handling
      <4>1. OlderIn(late', SeenTick(g.tick.stock), g.tick)
        BY <1>h, <2>a, <2>e, <2>5, <3>1
      <4>2. \A i \in DOMAIN queue' : OlderIn(late', queue'[i], g.tick)
        BY <1>d, <2>a, <2>b, <2>e, <2>5, <3>1
      <4>3. \A f \in handling' : IsPolled(f) => OlderIn(late', g.tick, f.tick)
        BY <1>e, <2>a, <2>b, <2>d, <2>e, <2>5, <3>1
      <4> QED
        BY <4>1, <4>2, <4>3
    <3>2. CASE g.tick = t
      <4>2. \A i \in DOMAIN queue' : OlderIn(late', queue'[i], t)
        BY <1>d, <1>e, <2>b, <2>c
      <4>3. \A f \in handling' : IsPolled(f) => OlderIn(late', t, f.tick)
        BY <2>b, <2>c, <2>d
      <4> QED
        BY <2>3, <3>2, <4>2, <4>3
    <3> QED
      BY <2>d, <3>1, <3>2
  <2> QED
    BY <2>a, <2>1, <2>2, <2>4, <2>5 DEF QueueBehind, Older, SeenTick
<1> QED
  BY <1>1, <1>2, <1>6, <1>7, <1>8 DEF TickInv

-----------------------------------------------------------------------------
(* The collector.                                                            *)

\* A receiver's tick goes to the stream or is in the queue at once.
LEMMA TradeStep ==
    ASSUME TickInv, NEW s \in Stocks, Trade(s)
    PROVE  TickInv'
<1>a. StateTypes
  BY DEF TickInv
<1>1. /\ made' = [made EXCEPT ![s] = @ + 1]
      /\ Take(Newer(s), IF streaming THEN "add" ELSE "cache")
      /\ queue' = queue \/ queue' = Put(queue, Newer(s))
      /\ UNCHANGED <<streaming, stream, added, position, batch, seen, cached>>
  BY DEF Trade
<1>2. /\ made' \in [Stocks -> Nat] /\ \A t \in Stocks : made[t] <= made'[t]
      /\ Newer(s) \in Ticks /\ Newer(s).version <= made'[Newer(s).stock]
  BY <1>a, <1>1, NewerMade
<1>3. CASE streaming
  <2>1. Take(Newer(s), "add")
    BY <1>1, <1>3
  <2> QED
    BY <1>1, <1>2, <1>3, <2>1, TakeStep DEF Steps
<1>4. CASE ~streaming
  <2>1. Take(Newer(s), "cache")
    BY <1>1, <1>4
  <2> QED
    BY <1>1, <1>2, <2>1, TakeStep DEF Steps
<1> QED
  BY <1>3, <1>4

\* An order book takes a version and goes another way.
LEMMA OrderBookStep ==
    ASSUME TickInv, NEW s \in Stocks, OrderBook(s)
    PROVE  TickInv'
<1>a. StateTypes /\ OnlyMade /\ Ordered /\ Behind /\ QueueBehind
  BY DEF TickInv
<1>b. /\ made' = [made EXCEPT ![s] = @ + 1]
      /\ UNCHANGED <<streaming, handling, late, stream, added, position, queue, batch, seen, cached>>
  BY DEF OrderBook
<1>c. made' \in [Stocks -> Nat] /\ \A t \in Stocks : made[t] <= made'[t]
  BY <1>a, <1>b, NewerMade
<1>1. StateTypes'
  BY <1>a, <1>b, <1>c DEF StateTypes
<1>2. OnlyMade'
  <2>1. \A t \in Stocks : seen'[t] <= made'[t] /\ cached'[t] <= made'[t]
    BY <1>a, <1>b, <1>c DEF StateTypes, OnlyMade
  <2>2. /\ \A i \in DOMAIN stream : stream[i] \in Ticks
        /\ \A i \in DOMAIN queue : queue[i] \in Ticks
        /\ \A h \in handling : h.tick \in Ticks
        /\ \A t \in batch : t \in Ticks
    BY <1>a DEF StateTypes, Handlers
  <2> QED
    BY <1>a, <1>b, <1>c, <2>1, <2>2, StillMade DEF OnlyMade
<1>3. Ahead' = Ahead
  BY <1>b DEF Ahead, IsUnread
<1>4. Behind'
  BY <1>a, <1>b, <1>3, FewerAhead
<1>5. Ordered'
  BY <1>a, <1>b DEF Ordered, NewestLast, Older
<1>6. QueueBehind'
  BY <1>a, <1>b, QueueStays
<1> QED
  BY <1>1, <1>2, <1>4, <1>5, <1>6 DEF TickInv

\* A poller's answer is new when it is asked for,
LEMMA AskStep ==
    ASSUME TickInv, NEW s \in Stocks, Ask(s)
    PROVE  TickInv'
<1>a. StateTypes
  BY DEF TickInv
<1>1. /\ made' = [made EXCEPT ![s] = @ + 1]
      /\ Take(Newer(s), "ask")
      /\ UNCHANGED <<streaming, stream, added, position, queue, batch, seen, cached>>
  BY DEF Ask
<1>2. /\ made' \in [Stocks -> Nat] /\ \A t \in Stocks : made[t] <= made'[t]
      /\ Newer(s) \in Ticks /\ Newer(s).version <= made'[Newer(s).stock]
  BY <1>a, <1>1, NewerMade
<1> QED
  BY <1>1, <1>2, TakeStep DEF Steps

\* or it is what the price cache holds.
LEMMA HitStep ==
    ASSUME TickInv, NEW s \in Stocks, Hit(s)
    PROVE  TickInv'
<1> DEFINE t == [stock |-> s, version |-> cached[s]]
<1>a. StateTypes /\ OnlyMade
  BY DEF TickInv
<1>1. /\ Take(t, "put")
      /\ UNCHANGED <<streaming, made, stream, added, position, queue, batch, seen, cached>>
  BY DEF Hit
<1>2. t \in Ticks /\ t.version <= made'[t.stock]
  BY <1>a, <1>1 DEF StateTypes, OnlyMade, Ticks
<1>3. made' \in [Stocks -> Nat] /\ \A r \in Stocks : made[r] <= made'[r]
  BY <1>a, <1>1 DEF StateTypes
<1> HIDE DEF t
<1> QED
  BY <1>1, <1>2, <1>3, TakeStep DEF Steps

\* A handler that goes on has the tick it had.
LEMMA GoesTypes ==
    ASSUME StateTypes, NEW h \in handling, NEW step \in Steps, Goes(h, step)
    PROVE  /\ handling' \subseteq Handlers
           /\ \A g \in handling' : g \in handling \/ (g.tick = h.tick /\ g.step = step)
BY DEF StateTypes, Handlers, Goes

\* The tick that enters the stream is newer than all in it; the oldest may
\* leave.
LEMMA AddStep ==
    ASSUME TickInv, NEW h \in handling, Add(h)
    PROVE  TickInv'
<1> DEFINE longer == Append(stream, h.tick)
<1>a. StateTypes /\ OnlyMade /\ Ordered /\ Behind /\ QueueBehind
  BY DEF TickInv
<1>b. /\ h.step = "add" /\ Goes(h, "cache")
      /\ added' = added + 1
      /\ stream' = longer \/ stream' = Tail(longer)
      /\ UNCHANGED <<streaming, made, late, position, queue, batch, seen, cached>>
  BY DEF Add
<1>c. h.tick \in Ticks /\ h.tick.version <= made[h.tick.stock]
  BY <1>a DEF StateTypes, OnlyMade, Handlers
<1>d. stream \in Seq(Ticks) /\ NewestLast(stream) /\ \A i \in DOMAIN stream : Older(stream[i], h.tick)
  BY <1>a, <1>b DEF StateTypes, Ordered
<1>e. /\ added \in Nat /\ position \in Nat /\ position <= added
      /\ Len(stream) \in Nat /\ Len(stream) <= added
  BY <1>a DEF StateTypes
<1>1. /\ longer \in Seq(Ticks) /\ Len(longer) = Len(stream) + 1 /\ longer /= <<>>
      /\ \A i \in DOMAIN longer : \/ i \in DOMAIN stream /\ longer[i] = stream[i]
                                  \/ i = Len(stream) + 1 /\ longer[i] = h.tick
      /\ NewestLast(longer)
  BY <1>c, <1>d, AppendOrdered
<1>f. /\ handling' \subseteq Handlers
      /\ \A g \in handling' : g \in handling \/ (g.tick = h.tick /\ g.step = "cache")
  BY <1>a, <1>b, GoesTypes DEF Steps
<1> HIDE DEF longer
\* The entries of the stream now are those before, as unread, or the new one.
<1>2. /\ stream' \in Seq(Ticks) /\ Len(stream') <= added' /\ NewestLast(stream')
      /\ \A i \in DOMAIN stream' :
             \/ stream'[i] = h.tick
             \/ \E j \in DOMAIN stream : stream'[i] = stream[j] /\ (IsUnread(i)' => IsUnread(j))
  <2>1. CASE stream' = longer
    <3>1. ASSUME NEW i \in DOMAIN stream, IsUnread(i)' PROVE IsUnread(i)
      <4>1. i \in Nat
        BY <1>d
      <4>2. added' - Len(stream') + i > position'
        BY <3>1 DEF IsUnread
      <4>3. (added + 1) - (Len(stream) + 1) + i > position
        BY <1>1, <1>b, <2>1, <4>2
      <4> QED
        BY <4>1, <4>3, <1>e DEF IsUnread
    <3>2. Len(stream') <= added'
      BY <1>1, <1>b, <1>e, <2>1
    <3> QED
      BY <1>1, <2>1, <3>1, <3>2
  <2>2. CASE stream' = Tail(longer)
    <3>1. /\ stream' \in Seq(Ticks) /\ NewestLast(stream')
          /\ Len(stream') = Len(stream)
          /\ \A i \in DOMAIN stream' : i + 1 \in DOMAIN longer /\ stream'[i] = longer[i + 1]
      <4>1. Len(stream') = Len(longer) - 1
        BY <1>1, <2>2, TailOrdered
      <4>2. Len(stream') = Len(stream)
        BY <1>1, <1>e, <4>1
      <4> QED
        BY <1>1, <2>2, <4>2, TailOrdered
    <3>2. \A i \in DOMAIN stream' : i \in Nat
      BY <3>1
    <3>3. ASSUME NEW i \in DOMAIN stream', IsUnread(i)' PROVE IsUnread(i + 1)
      <4>2. added' - Len(stream') + i > position'
        BY <3>3 DEF IsUnread
      <4>3. (added + 1) - Len(stream) + i > position
        BY <3>1, <1>b, <4>2
      <4> QED
        BY <3>2, <4>3, <1>e DEF IsUnread
    <3>4. Len(stream') <= added'
      BY <3>1, <1>b, <1>e
    <3>5. ASSUME NEW i \in DOMAIN stream'
          PROVE  \/ stream'[i] = h.tick
                 \/ \E j \in DOMAIN stream : stream'[i] = stream[j] /\ (IsUnread(i)' => IsUnread(j))
      <4>1. i + 1 \in DOMAIN longer /\ stream'[i] = longer[i + 1]
        BY <3>1
      <4>2. CASE stream'[i] = h.tick
        BY <4>2
      <4>3. CASE i + 1 \in DOMAIN stream /\ stream'[i] = stream[i + 1]
        BY <4>3, <3>3
      <4> QED
        BY <1>1, <4>1, <4>2, <4>3
    <3> QED
      BY <3>1, <3>4, <3>5
  <2> QED
    BY <1>b, <2>1, <2>2
<1>3. StateTypes'
  <2>1. added' \in Nat /\ position' \in 0 .. added'
    BY <1>b, <1>e
  <2> QED
    BY <1>a, <1>b, <1>f, <1>2, <2>1 DEF StateTypes
<1>4. OnlyMade'
  <2>1. \A i \in DOMAIN stream' : stream'[i].version <= made[stream'[i].stock]
    BY <1>a, <1>c, <1>2 DEF OnlyMade
  <2>2. \A g \in handling' : g.tick.version <= made[g.tick.stock]
    BY <1>a, <1>c, <1>f DEF OnlyMade
  <2> QED
    BY <1>a, <1>b, <2>1, <2>2 DEF OnlyMade
<1>5. Ordered'
  <2>1. \A g \in handling' : g.step = "add" => g \in handling
    BY <1>f
  <2>2. ASSUME NEW g \in handling', g.step = "add", NEW i \in DOMAIN stream'
        PROVE  Older(stream'[i], g.tick)
    <3>1. CASE stream'[i] = h.tick
      BY <1>a, <1>b, <2>1, <2>2, <3>1 DEF Ordered
    <3>2. CASE \E j \in DOMAIN stream : stream'[i] = stream[j]
      BY <1>a, <2>1, <2>2, <3>2 DEF Ordered
    <3> QED
      BY <1>2, <3>1, <3>2
  <2>3. NewestLast(stream)'
    BY <1>b, <1>2 DEF NewestLast, Older
  <2> QED
    BY <1>a, <1>b, <2>1, <2>2, <2>3 DEF Ordered, Older
<1>6. Behind'
  <2>1. h.tick \in Ahead
    BY <1>b DEF Ahead
  <2>2. \A i \in DOMAIN stream' : IsUnread(i)' => stream'[i] \in Ahead
    BY <1>2, <2>1 DEF Ahead
  <2>3. \A g \in handling' : g.step = "add" => g \in handling
    BY <1>f
  <2>4. Ahead' \subseteq Ahead
    BY <2>2, <2>3 DEF Ahead
  <2> QED
    BY <1>a, <1>b, <2>4, FewerAhead
<1>7. QueueBehind'
  <2>1. streaming
    BY <1>a, <1>b DEF QueueBehind, StateTypes
  <2> QED
    BY <1>b, <2>1 DEF QueueBehind
<1> QED
  BY <1>3, <1>4, <1>5, <1>6, <1>7 DEF TickInv

\* A tick that Redis did not take may go to the queue, which is then not read.
LEMMA AddFailsStep ==
    ASSUME TickInv, NEW h \in handling, AddFails(h)
    PROVE  TickInv'
<1>a. StateTypes /\ OnlyMade /\ QueueBehind
  BY DEF TickInv
<1>b. /\ h.step = "add" /\ Goes(h, "cache")
      /\ queue' = queue \/ queue' = Put(queue, h.tick)
      /\ UNCHANGED <<streaming, made, late, stream, added, position, batch, seen, cached>>
  BY DEF AddFails
<1>c. h.tick \in Ticks /\ h.tick.version <= made[h.tick.stock]
  BY <1>a DEF StateTypes, OnlyMade, Handlers
<1>1. /\ queue' \in Seq(Ticks)
      /\ \A i \in DOMAIN queue' :
             queue'[i] = h.tick \/ (i \in DOMAIN queue /\ queue'[i] = queue[i])
  <2>1. queue \in Seq(Ticks)
    BY <1>a DEF StateTypes
  <2>2. CASE queue' = queue
    BY <2>1, <2>2
  <2>3. CASE queue' = Put(queue, h.tick)
    <3> DEFINE q == Put(queue, h.tick)
    <3>1. /\ q \in Seq(Ticks)
          /\ \A i \in DOMAIN q : q[i] = h.tick \/ (i \in DOMAIN queue /\ q[i] = queue[i])
      BY <1>c, <2>1, PutType
    <3> HIDE DEF q
    <3>2. queue' = q
      BY <2>3 DEF q
    <3> QED
      BY <3>1, <3>2
  <2> QED
    BY <1>b, <2>2, <2>3
<1>2. \A i \in DOMAIN queue' : queue'[i].version <= made[queue'[i].stock]
  BY <1>a, <1>c, <1>1 DEF OnlyMade
<1>3. /\ handling' \subseteq Handlers
      /\ \A g \in handling' : g \in handling \/ (g.tick = h.tick /\ g.step = "cache")
  BY <1>a, <1>b, GoesTypes DEF Steps
<1>4. /\ cached' \in [Stocks -> Nat] /\ \A s \in Stocks : cached'[s] <= made[s]
  BY <1>a, <1>b DEF StateTypes, OnlyMade
<1>5. StateTypes' /\ OnlyMade' /\ Ordered' /\ Behind'
  <2>1. \A g \in handling' : \/ g \in handling
                             \/ g.step /= "add" /\ \E f \in handling : f.tick = g.tick
    BY <1>3
  <2> HIDE DEF TickInv
  <2> QED
    BY <1>b, <1>1, <1>2, <1>3, <1>4, <2>1, HandlersStep
<1>6. streaming
  BY <1>a, <1>b DEF QueueBehind, StateTypes
<1>7. QueueBehind'
  BY <1>b, <1>6 DEF QueueBehind
<1> QED
  BY <1>5, <1>7 DEF TickInv

\* A handler that is done leaves the rest alone; a poller has its answer cached.
LEMMA CacheStep ==
    ASSUME TickInv, NEW h \in handling, Cache(h)
    PROVE  TickInv'
<1>a. StateTypes /\ OnlyMade /\ QueueBehind
  BY DEF TickInv
<1>b. /\ (h.step = "cache" /\ handling' = handling \ {h}) \/ (h.step = "ask" /\ Goes(h, "put"))
      /\ cached' = cached \/ cached' = [cached EXCEPT ![h.tick.stock] = h.tick.version]
      /\ UNCHANGED <<streaming, made, late, stream, added, position, queue, batch, seen>>
  BY DEF Cache
<1>c. /\ h.tick.stock \in Stocks /\ h.tick.version \in Nat
      /\ h.tick.version <= made[h.tick.stock]
  BY <1>a DEF StateTypes, OnlyMade, Handlers, Ticks
<1>1. cached' \in [Stocks -> Nat] /\ \A s \in Stocks : cached'[s] <= made[s]
  BY <1>a, <1>b, <1>c DEF StateTypes, OnlyMade
<1>2. /\ handling' \subseteq Handlers
      /\ \A g \in handling' :
             g \in handling \/ (h.step = "ask" /\ g.tick = h.tick /\ g.step = "put")
  <2>1. CASE Goes(h, "put") /\ h.step = "ask"
    BY <1>a, <2>1, GoesTypes DEF Steps
  <2>2. CASE handling' = handling \ {h}
    BY <1>a, <2>2 DEF StateTypes
  <2> QED
    BY <1>b, <2>1, <2>2
<1>3. /\ queue' \in Seq(Ticks)
      /\ \A i \in DOMAIN queue' : queue'[i].version <= made[queue'[i].stock]
  BY <1>a, <1>b DEF StateTypes, OnlyMade
<1>4. StateTypes' /\ OnlyMade' /\ Ordered' /\ Behind'
  <2>1. \A g \in handling' : \/ g \in handling
                             \/ g.step /= "add" /\ \E f \in handling : f.tick = g.tick
    BY <1>2
  <2> QED
    BY <1>b, <1>1, <1>2, <1>3, <2>1, HandlersStep
<1>5. QueueBehind'
  <2>1. \A g \in handling' :
            \/ g \in handling
            \/ g.step = "cache"
            \/ IsPolled(g) /\ \E f \in handling : f.tick = g.tick /\ IsPolled(f)
    BY <1>2 DEF IsPolled
  <2> QED
    BY <1>a, <1>b, <2>1, QueueStays
<1> QED
  BY <1>4, <1>5 DEF TickInv

\* A poller that ends drops what it had.
LEMMA PollEndsStep ==
    ASSUME TickInv, NEW h \in handling, PollEnds(h)
    PROVE  TickInv'
<1>a. StateTypes /\ OnlyMade /\ QueueBehind
  BY DEF TickInv
<1>b. /\ handling' = handling \ {h}
      /\ UNCHANGED <<streaming, made, late, stream, added, position, queue, batch, seen, cached>>
  BY DEF PollEnds
<1>1. /\ cached' \in [Stocks -> Nat] /\ \A s \in Stocks : cached'[s] <= made[s]
      /\ queue' \in Seq(Ticks)
      /\ \A i \in DOMAIN queue' : queue'[i].version <= made[queue'[i].stock]
      /\ handling' \subseteq Handlers
  BY <1>a, <1>b DEF StateTypes, OnlyMade
<1>2. StateTypes' /\ OnlyMade' /\ Ordered' /\ Behind'
  BY <1>b, <1>1, HandlersStep
<1>3. QueueBehind'
  BY <1>a, <1>b, QueueStays
<1> QED
  BY <1>2, <1>3 DEF TickInv

\* What a poller puts may follow all that is queued.
LEMMA PutPolledStep ==
    ASSUME TickInv, NEW h \in handling, PutPolled(h)
    PROVE  TickInv'
<1> DEFINE t == h.tick
<1>a. StateTypes /\ OnlyMade /\ QueueBehind
  BY DEF TickInv
<1>b. /\ IsPolled(h) /\ handling' = handling \ {h} /\ queue' = Append(queue, t)
      /\ UNCHANGED <<streaming, made, late, stream, added, position, batch, seen, cached>>
  BY DEF PutPolled, IsPolled
<1>c. t \in Ticks /\ t.version <= made[t.stock] /\ queue \in Seq(Ticks)
  BY <1>a DEF StateTypes, OnlyMade, Handlers
<1> HIDE DEF t
<1>1. /\ cached' \in [Stocks -> Nat] /\ \A s \in Stocks : cached'[s] <= made[s]
      /\ handling' \subseteq Handlers
  BY <1>a, <1>b DEF StateTypes, OnlyMade
<1>2. /\ queue' \in Seq(Ticks)
      /\ \A i \in DOMAIN queue' : queue'[i] = t \/ (i \in DOMAIN queue /\ queue'[i] = queue[i])
  BY <1>b, <1>c
<1>3. \A i \in DOMAIN queue' : queue'[i].version <= made[queue'[i].stock]
  BY <1>a, <1>c, <1>2 DEF OnlyMade
<1>4. StateTypes' /\ OnlyMade' /\ Ordered' /\ Behind'
  BY <1>b, <1>1, <1>2, <1>3, HandlersStep
<1>5. QueueBehind'
  <2> SUFFICES ASSUME ~streaming PROVE QueueBehind'
    BY <1>b DEF QueueBehind
  <2>a. /\ batch = {} /\ stream = <<>> /\ NewestLast(queue)
        /\ \A g \in handling : g.step /= "add"
        /\ \A i \in DOMAIN queue : Older(SeenTick(queue[i].stock), queue[i])
        /\ \A g \in handling : IsPolled(g) =>
               /\ Older(SeenTick(g.tick.stock), g.tick)
               /\ \A i \in DOMAIN queue : Older(queue[i], g.tick)
               /\ \A f \in handling : IsPolled(f) => Older(g.tick, f.tick)
    BY <1>a DEF QueueBehind
  <2>b. /\ Older(SeenTick(t.stock), t)
        /\ \A i \in DOMAIN queue : Older(queue[i], t)
        /\ \A f \in handling : IsPolled(f) => Older(t, f.tick)
    BY <1>b, <2>a DEF t
  <2>1. NewestLast(queue')
    BY <1>b, <1>c, <2>a, <2>b, AppendOrdered
  <2>2. \A i \in DOMAIN queue' : Older(SeenTick(queue'[i].stock), queue'[i])
    BY <1>2, <2>a, <2>b
  <2>3. ASSUME NEW g \in handling', IsPolled(g)
        PROVE  /\ Older(SeenTick(g.tick.stock), g.tick)
               /\ \A i \in DOMAIN queue' : Older(queue'[i], g.tick)
               /\ \A f \in handling' : IsPolled(f) => Older(g.tick, f.tick)
    BY <1>b, <1>2, <2>a, <2>b, <2>3
  <2>4. \A g \in handling' : g.step /= "add"
    BY <1>b, <2>a
  <2> QED
    BY <1>b, <2>a, <2>1, <2>2, <2>3, <2>4 DEF QueueBehind, NewestLast, Older, SeenTick
<1> QED
  BY <1>4, <1>5 DEF TickInv

\* What the REST collector takes from the queue the engine never sees.
LEMMA CollectorTakesStep ==
    ASSUME TickInv, CollectorTakes
    PROVE  TickInv'
<1>a. StateTypes /\ OnlyMade /\ QueueBehind
  BY DEF TickInv
<1>b. /\ queue /= <<>> /\ queue' = Tail(queue) /\ queue \in Seq(Ticks)
      /\ UNCHANGED <<streaming, made, handling, late, stream, added, position, batch, seen, cached>>
  BY <1>a DEF CollectorTakes, StateTypes
<1>1. /\ cached' \in [Stocks -> Nat] /\ \A s \in Stocks : cached'[s] <= made[s]
      /\ handling' \subseteq Handlers
  BY <1>a, <1>b DEF StateTypes, OnlyMade
<1>2. /\ queue' \in Seq(Ticks)
      /\ \A i \in DOMAIN queue' : i + 1 \in DOMAIN queue /\ queue'[i] = queue[i + 1]
  BY <1>b
<1>3. \A i \in DOMAIN queue' : queue'[i].version <= made[queue'[i].stock]
  BY <1>a, <1>2 DEF OnlyMade
<1>4. StateTypes' /\ OnlyMade' /\ Ordered' /\ Behind'
  BY <1>b, <1>1, <1>2, <1>3, HandlersStep
<1>5. QueueBehind'
  <2> SUFFICES ASSUME ~streaming PROVE QueueBehind'
    BY <1>b DEF QueueBehind
  <2>1. NewestLast(queue')
    BY <1>a, <1>b, TailOrdered DEF QueueBehind
  <2> QED
    BY <1>a, <1>b, <1>2, <2>1 DEF QueueBehind, NewestLast, Older, SeenTick
<1> QED
  BY <1>4, <1>5 DEF TickInv

\* Trimming takes the oldest entry, read or not.
LEMMA TrimStep ==
    ASSUME TickInv, Trim
    PROVE  TickInv'
<1>a. StateTypes /\ OnlyMade /\ Ordered /\ Behind /\ QueueBehind
  BY DEF TickInv
<1>b. /\ stream /= <<>> /\ stream' = Tail(stream)
      /\ UNCHANGED <<streaming, made, handling, late, added, position, queue, batch, seen, cached>>
  BY DEF Trim
<1>1. /\ stream' \in Seq(Ticks) /\ NewestLast(stream')
      /\ Len(stream') = Len(stream) - 1 /\ Len(stream) \in Nat
  BY <1>a, <1>b, TailOrdered DEF StateTypes, Ordered
<1>2. \A i \in DOMAIN stream' : /\ i + 1 \in DOMAIN stream /\ stream'[i] = stream[i + 1]
                                /\ IsUnread(i)' => IsUnread(i + 1)
  BY <1>a, <1>b, TailAhead
<1>3. StateTypes'
  <2>1. Len(stream') <= added'
    BY <1>a, <1>b, <1>1 DEF StateTypes
  <2> QED
    BY <1>a, <1>b, <1>1, <2>1 DEF StateTypes
<1>4. OnlyMade'
  BY <1>a, <1>b, <1>2 DEF OnlyMade
<1>5. Ordered'
  BY <1>a, <1>b, <1>1, <1>2 DEF Ordered, NewestLast, Older
<1>6. Behind'
  <2>1. Ahead' \subseteq Ahead
    BY <1>b, <1>2 DEF Ahead
  <2> QED
    BY <1>a, <1>b, <2>1, FewerAhead
<1>7. QueueBehind'
  BY <1>a, <1>b, QueueStays DEF QueueBehind
<1> QED
  BY <1>3, <1>4, <1>5, <1>6, <1>7 DEF TickInv

-----------------------------------------------------------------------------
(* The engine.                                                               *)

\* What XREAD answers are unread entries, in their order.
LEMMA MessagesAre ==
    ASSUME StateTypes, Count \in Nat
    PROVE  /\ Unread \in Nat /\ Read \in Nat /\ Read <= Unread
           /\ Unread <= Len(stream) /\ Unread <= added - position
           /\ DOMAIN Messages = 1 .. Read
           /\ \A k \in 1 .. Read : /\ Len(stream) - Unread + k \in DOMAIN stream
                                   /\ Messages[k] = stream[Len(stream) - Unread + k]
           /\ \A i \in DOMAIN stream : IsUnread(i) <=> i > Len(stream) - Unread
<1>1. stream \in Seq(Ticks) /\ Len(stream) \in Nat /\ DOMAIN stream = 1 .. Len(stream)
      /\ added \in Nat /\ position \in Nat /\ position <= added /\ Len(stream) <= added
  BY DEF StateTypes
<1>2. /\ Unread \in Nat /\ Read \in Nat /\ Read <= Unread
      /\ Unread <= Len(stream) /\ Unread <= added - position
      /\ (Unread = Len(stream) \/ Unread = added - position)
  BY <1>1 DEF Unread, Read, Lesser
<1>3. /\ DOMAIN Messages = 1 .. Read
      /\ \A k \in 1 .. Read : /\ Len(stream) - Unread + k \in DOMAIN stream
                              /\ Messages[k] = stream[Len(stream) - Unread + k]
  <2> HIDE DEF StateTypes
  <2> QED
    BY <1>1, <1>2, Excerpt DEF Messages
<1>4. ASSUME NEW i \in DOMAIN stream PROVE IsUnread(i) <=> i > Len(stream) - Unread
  <2>1. i \in Nat /\ i >= 1 /\ i <= Len(stream)
    BY <1>1
  <2>2. CASE Unread = added - position
    BY <1>1, <1>2, <2>1, <2>2 DEF IsUnread
  <2>3. CASE Unread = Len(stream)
    BY <1>1, <1>2, <2>1, <2>3 DEF IsUnread
  <2> QED
    BY <1>2, <2>2, <2>3
<1> QED
  BY <1>2, <1>3, <1>4

\* Conflation: a tick of the batch is the last message of its stock.
LEMMA LatestIs ==
    ASSUME StateTypes, Count \in Nat, NEW t \in Latest
    PROVE  /\ t \in Ticks
           /\ \E k \in 1 .. Read :
                  /\ t = Messages[k]
                  /\ \A j \in 1 .. Read : Messages[j].stock = t.stock => j <= k
<1> DEFINE of(s) == {i \in 1 .. Read : Messages[i].stock = s}
           last(s) == CHOOSE i \in of(s) : \A j \in of(s) : j <= i
<1>1. /\ DOMAIN Messages = 1 .. Read /\ Read \in Nat
      /\ \A k \in 1 .. Read : Messages[k] \in Ticks
  <2>1. \A i \in DOMAIN stream : stream[i] \in Ticks
    BY DEF StateTypes
  <2> QED
    BY <2>1, MessagesAre
<1>2. PICK s \in Stocks : of(s) /= {} /\ t = [stock |-> s, version |-> Messages[last(s)].version]
  BY <1>1 DEF Latest
<1>3. last(s) \in of(s) /\ \A j \in of(s) : j <= last(s)
  <2>1. of(s) \subseteq 1 .. Read
    OBVIOUS
  <2> HIDE DEF of
  <2>2. \E i \in of(s) : \A j \in of(s) : j <= i
    BY <1>1, <1>2, <2>1, LastOf
  <2> QED
    BY <2>2
<1> QED
  BY <1>1, <1>2, <1>3 DEF Ticks

\* What is read is newer than what was evaluated and older than what is left.
LEMMA ReadStreamStep ==
    ASSUME TickInv, Count \in Nat, ReadStream
    PROVE  TickInv'
<1> DEFINE n == Len(stream) - Unread
<1>a. StateTypes /\ OnlyMade /\ Ordered /\ Behind /\ QueueBehind
  BY DEF TickInv
<1>b. /\ streaming /\ batch = {} /\ batch' = Latest
      /\ position' = added - Unread + Read
      /\ UNCHANGED <<streaming, made, handling, late, stream, added, queue, seen, cached>>
  BY DEF ReadStream
<1>c. /\ Unread \in Nat /\ Read \in Nat /\ Read <= Unread
      /\ Len(stream) \in Nat /\ added \in Nat /\ position \in Nat
      /\ Unread <= Len(stream) /\ Len(stream) <= added /\ Unread <= added - position
  BY <1>a, MessagesAre DEF StateTypes
<1>d. /\ n \in Nat
      /\ \A k \in 1 .. Read : n + k \in DOMAIN stream /\ Messages[k] = stream[n + k]
      /\ \A i \in DOMAIN stream : IsUnread(i) <=> i > n
  BY <1>a, <1>c, MessagesAre
<1>e. \A i \in DOMAIN stream : i \in Nat
  BY <1>a DEF StateTypes
<1> HIDE DEF n
<1>1. position' \in 0 .. added'
  BY <1>b, <1>c
<1>2. ASSUME NEW i \in DOMAIN stream, IsUnread(i)'
      PROVE  IsUnread(i) /\ i > n + Read
  <2>1. added - Len(stream) + i > added - Unread + Read
    BY <1>b, <1>2 DEF IsUnread
  <2>2. i > n + Read
    BY <2>1, <1>c, <1>e DEF n
  <2>3. i > n
    BY <2>2, <1>c, <1>d, <1>e
  <2> QED
    BY <2>2, <2>3, <1>d
\* A tick of the batch was unread, and what of its stock is unread now came later.
<1>3. ASSUME NEW t \in batch'
      PROVE  /\ t \in Ticks
             /\ \E i \in DOMAIN stream :
                   /\ t = stream[i] /\ IsUnread(i)
                   /\ \A j \in DOMAIN stream : IsUnread(j)' => i < j
  <2>1. PICK k \in 1 .. Read : t = Messages[k]
    BY <1>a, <1>b, <1>3, LatestIs
  <2>2. t \in Ticks
    BY <1>a, <1>b, <1>3, LatestIs
  <2>3. k \in Nat /\ 1 <= k /\ k <= Read
    BY <1>c
  <2>4. n + k \in DOMAIN stream /\ t = stream[n + k]
    BY <1>d, <2>1
  <2>5. n + k > n
    BY <1>d, <2>3
  <2>6. ASSUME NEW j \in DOMAIN stream, IsUnread(j)' PROVE n + k < j
    <3>1. j > n + Read
      BY <1>2, <2>6
    <3> QED
      BY <3>1, <2>3, <1>c, <1>d, <1>e
  <2> QED
    BY <2>2, <2>4, <2>5, <2>6, <1>d
<1>4. StateTypes'
  BY <1>a, <1>b, <1>1, <1>3 DEF StateTypes
<1>5. OnlyMade'
  <2>1. \A t \in batch' : t.version <= made[t.stock]
    BY <1>a, <1>3 DEF OnlyMade
  <2> QED
    BY <1>a, <1>b, <2>1 DEF OnlyMade
<1>6. Ordered'
  BY <1>a, <1>b DEF Ordered, NewestLast, Older
<1>7. Behind'
  <2>1. ASSUME NEW t \in Ahead' PROVE Older(SeenTick(t.stock), t) /\ \A u \in batch' : Older(u, t)
    <3>1. CASE \E h \in handling : h.step = "add" /\ t = h.tick
      <4>1. PICK h \in handling : h.step = "add" /\ t = h.tick
        BY <3>1
      <4>2. t \in Ahead
        BY <4>1 DEF Ahead
      <4>3. \A u \in batch' : Older(u, t)
        BY <1>a, <1>3, <4>1 DEF Ordered
      <4> QED
        BY <1>a, <4>2, <4>3 DEF Behind
    <3>2. CASE \E j \in DOMAIN stream : IsUnread(j)' /\ t = stream[j]
      <4>1. PICK j \in DOMAIN stream : IsUnread(j)' /\ t = stream[j]
        BY <3>2
      <4>2. t \in Ahead
        BY <1>2, <4>1 DEF Ahead
      <4>3. ASSUME NEW u \in batch' PROVE Older(u, t)
        <5>1. PICK i \in DOMAIN stream : u = stream[i] /\ i < j
          BY <1>3, <4>1
        <5> QED
          BY <1>a, <4>1, <5>1 DEF Ordered, NewestLast
      <4> QED
        BY <1>a, <4>2, <4>3 DEF Behind
    <3> QED
      BY <1>b, <2>1, <3>1, <3>2 DEF Ahead
  <2>2. \A t \in batch' : Older(SeenTick(t.stock), t)
    BY <1>a, <1>3 DEF Behind, Ahead
  <2>3. ASSUME NEW t \in batch', NEW u \in batch', t.stock = u.stock PROVE t = u
    BY <1>b, <2>3 DEF Latest
  <2> QED
    BY <1>b, <2>1, <2>2, <2>3 DEF Behind, Older, SeenTick
<1>8. QueueBehind'
  BY <1>b DEF QueueBehind
<1> QED
  BY <1>4, <1>5, <1>6, <1>7, <1>8 DEF TickInv

\* What may follow what was evaluated is evaluated.
LEMMA SeenMoves ==
    ASSUME StateTypes, NEW t \in Ticks, Older(SeenTick(t.stock), t),
           seen' = seen \/ seen' = [seen EXCEPT ![t.stock] = t.version]
    PROVE  NotOlder
<1>1. t.stock \in Stocks /\ t.version \in Nat /\ \A s \in Stocks : seen[s] \in Nat
  BY DEF Ticks, StateTypes
<1>2. CASE seen' = seen
  BY <1>1, <1>2 DEF NotOlder
<1>3. CASE seen' = [seen EXCEPT ![t.stock] = t.version]
  <2>1. seen'[t.stock] = t.version /\ \A s \in Stocks : s /= t.stock => seen'[s] = seen[s]
    BY <1>1, <1>3 DEF StateTypes
  <2>2. SeenTick(t.stock)' = t
    BY <2>1 DEF SeenTick, Ticks
  <2>3. SeenTick(t.stock).stock = t.stock /\ SeenTick(t.stock).version = seen[t.stock]
    BY DEF SeenTick
  <2>4. seen[t.stock] <= t.version \/ <<t, SeenTick(t.stock)>> \in late
    BY <2>3 DEF Older, OlderIn
  <2>5. ASSUME NEW s \in Stocks
        PROVE  seen'[s] >= seen[s] \/ <<SeenTick(s)', SeenTick(s)>> \in late
    BY <1>1, <2>1, <2>2, <2>4
  <2> QED
    BY <2>5 DEF NotOlder
<1> QED
  BY <1>2, <1>3

\* A tick of the batch is evaluated or passed over, and what is evaluated is not
\* older than what was.
LEMMA EvaluateStep ==
    ASSUME TickInv, NEW tick \in batch, Evaluate(tick)
    PROVE  TickInv' /\ NotOlder
<1>a. StateTypes /\ OnlyMade /\ Ordered /\ Behind /\ QueueBehind
  BY DEF TickInv
<1>b. /\ batch' = batch \ {tick}
      /\ seen' = seen \/ seen' = [seen EXCEPT ![tick.stock] = tick.version]
      /\ UNCHANGED <<streaming, made, handling, late, stream, added, position, queue, cached>>
  BY DEF Evaluate
<1>c. tick \in Ticks /\ tick.stock \in Stocks /\ tick.version \in Nat
  BY <1>a DEF StateTypes, Ticks
<1>d. /\ seen' \in [Stocks -> Nat]
      /\ \A s \in Stocks : \/ SeenTick(s)' = SeenTick(s)
                           \/ s = tick.stock /\ SeenTick(s)' = tick
  BY <1>a, <1>b, <1>c DEF StateTypes, SeenTick, Ticks
<1>e. /\ Older(SeenTick(tick.stock), tick) /\ tick.version <= made[tick.stock]
      /\ \A s \in Stocks : seen[s] \in Nat
  BY <1>a DEF Behind, OnlyMade, StateTypes
<1>1. NotOlder
  BY <1>a, <1>b, <1>c, <1>e, SeenMoves
<1>2. StateTypes'
  BY <1>a, <1>b, <1>d DEF StateTypes
<1>3. OnlyMade'
  <2>1. \A s \in Stocks : seen'[s] <= made[s]
    BY <1>a, <1>b, <1>c, <1>e DEF OnlyMade, StateTypes
  <2> QED
    BY <1>a, <1>b, <2>1 DEF OnlyMade
<1>4. Ordered'
  BY <1>a, <1>b DEF Ordered, NewestLast, Older
<1>5. Behind'
  <2>1. Ahead' = Ahead
    BY <1>b DEF Ahead, IsUnread
  <2>2. \A t \in Ahead : t.stock \in Stocks
    <3>1. \A t \in Ahead : t \in Ticks
      BY <1>a DEF Ahead, StateTypes, Handlers
    <3> QED
      BY <3>1 DEF Ticks
  <2>3. ASSUME NEW t \in Ahead PROVE Older(SeenTick(t.stock)', t)
    <3>1. CASE SeenTick(t.stock)' = SeenTick(t.stock)
      BY <1>a, <3>1 DEF Behind
    <3>2. CASE SeenTick(t.stock)' = tick
      BY <1>a, <3>2 DEF Behind
    <3> QED
      BY <1>d, <2>2, <3>1, <3>2
  <2>4. ASSUME NEW t \in batch' PROVE Older(SeenTick(t.stock)', t)
    <3>1. t \in batch /\ t.stock /= tick.stock /\ t.stock \in Stocks
      BY <1>a, <1>b, <2>4 DEF Behind, StateTypes, Ticks
    <3>2. SeenTick(t.stock)' = SeenTick(t.stock)
      BY <1>d, <3>1
    <3> QED
      BY <1>a, <3>1, <3>2 DEF Behind
  <2> QED
    BY <1>a, <1>b, <2>1, <2>3, <2>4 DEF Behind, Older, SeenTick
<1>6. QueueBehind'
  <2>1. streaming
    BY <1>a DEF QueueBehind, StateTypes
  <2> QED
    BY <1>b, <2>1 DEF QueueBehind
<1> QED
  BY <1>1, <1>2, <1>3, <1>4, <1>5, <1>6 DEF TickInv

\* What is in the queue may follow what was evaluated.
LEMMA ReadQueueStep ==
    ASSUME TickInv, ReadQueue
    PROVE  TickInv' /\ NotOlder
<1> DEFINE tick == Head(queue)
<1>a. StateTypes /\ OnlyMade /\ Ordered /\ Behind /\ QueueBehind
  BY DEF TickInv
<1>b. /\ ~streaming /\ queue /= <<>> /\ queue' = Tail(queue)
      /\ seen' = [seen EXCEPT ![tick.stock] = tick.version]
      /\ UNCHANGED <<streaming, made, handling, late, stream, added, position, batch, cached>>
  BY DEF ReadQueue
<1>c. /\ batch = {} /\ stream = <<>> /\ NewestLast(queue) /\ queue \in Seq(Ticks)
      /\ \A h \in handling : h.step /= "add"
      /\ \A i \in DOMAIN queue : Older(SeenTick(queue[i].stock), queue[i])
      /\ \A h \in handling : IsPolled(h) =>
             /\ Older(SeenTick(h.tick.stock), h.tick)
             /\ \A i \in DOMAIN queue : Older(queue[i], h.tick)
             /\ \A g \in handling : IsPolled(g) => Older(h.tick, g.tick)
  BY <1>a, <1>b DEF QueueBehind, StateTypes
<1>d. /\ 1 \in DOMAIN queue /\ tick = queue[1] /\ tick \in Ticks
      /\ queue' \in Seq(Ticks) /\ NewestLast(queue')
      /\ \A i \in DOMAIN queue' : i + 1 \in DOMAIN queue /\ queue'[i] = queue[i + 1]
      /\ \A i \in DOMAIN queue' : Older(tick, queue'[i])
  BY <1>b, <1>c, TailOrdered
<1> HIDE DEF tick
<1>e. /\ tick.stock \in Stocks /\ tick.version \in Nat
      /\ Older(SeenTick(tick.stock), tick) /\ tick.version <= made[tick.stock]
  BY <1>a, <1>c, <1>d DEF Ticks, OnlyMade
<1>f. /\ seen' \in [Stocks -> Nat]
      /\ \A s \in Stocks : \/ SeenTick(s)' = SeenTick(s)
                           \/ s = tick.stock /\ SeenTick(s)' = tick
  BY <1>a, <1>b, <1>d, <1>e DEF StateTypes, SeenTick, Ticks
<1>1. NotOlder
  BY <1>a, <1>b, <1>d, <1>e, SeenMoves
<1>2. StateTypes'
  BY <1>a, <1>b, <1>d, <1>f DEF StateTypes
<1>3. OnlyMade'
  <2>1. \A s \in Stocks : seen'[s] <= made[s]
    BY <1>a, <1>b, <1>e DEF OnlyMade, StateTypes
  <2>2. \A i \in DOMAIN queue' : queue'[i].version <= made[queue'[i].stock]
    BY <1>a, <1>d DEF OnlyMade
  <2> QED
    BY <1>a, <1>b, <2>1, <2>2 DEF OnlyMade
<1>4. Ordered'
  BY <1>a, <1>b DEF Ordered, NewestLast, Older
\* Without a stream nothing is ahead but the queue.
<1>5. Behind'
  <2>1. ASSUME NEW t \in Ahead' PROVE FALSE
    <3>1. DOMAIN stream' = {} /\ handling' = handling
      BY <1>b, <1>c
    <3> QED
      BY <1>c, <2>1, <3>1 DEF Ahead
  <2> QED
    BY <1>b, <1>c, <2>1 DEF Behind
<1>6. QueueBehind'
  <2>1. ASSUME NEW i \in DOMAIN queue', NEW u, u = queue'[i]
        PROVE  Older(SeenTick(u.stock)', u)
    <3>0. u \in Ticks
      BY <1>d, <2>1
    <3>1. u.stock \in Stocks
      BY <3>0 DEF Ticks
    <3>2. CASE SeenTick(u.stock)' = SeenTick(u.stock)
      BY <1>c, <1>d, <2>1, <3>2
    <3>3. CASE SeenTick(u.stock)' = tick
      BY <1>d, <2>1, <3>3
    <3> QED
      BY <1>f, <3>1, <3>2, <3>3
  <2>2. ASSUME NEW h \in handling, IsPolled(h)
        PROVE  Older(SeenTick(h.tick.stock)', h.tick)
    <3>1. h.tick.stock \in Stocks
      BY <1>a DEF StateTypes, Handlers, Ticks
    <3>2. CASE SeenTick(h.tick.stock)' = SeenTick(h.tick.stock)
      BY <1>c, <2>2, <3>2
    <3>3. CASE SeenTick(h.tick.stock)' = tick
      BY <1>c, <1>d, <2>2, <3>3
    <3> QED
      BY <1>f, <3>1, <3>2, <3>3
  <2>3. \A h \in handling : IsPolled(h) => \A i \in DOMAIN queue' : Older(queue'[i], h.tick)
    BY <1>c, <1>d
  <2>4. \A i \in DOMAIN queue' : Older(SeenTick(queue[i].stock), queue[i])'
    BY <1>b, <2>1 DEF Older, SeenTick
  <2>5. NewestLast(queue)'
    BY <1>b, <1>d DEF NewestLast, Older
  <2>6. \A h \in handling' : IsPolled(h) =>
            /\ Older(SeenTick(h.tick.stock), h.tick)'
            /\ \A i \in DOMAIN queue' : Older(queue[i], h.tick)'
            /\ \A g \in handling' : IsPolled(g) => Older(h.tick, g.tick)'
    BY <1>b, <1>c, <2>2, <2>3 DEF Older, SeenTick
  <2> QED
    BY <1>b, <1>c, <2>4, <2>5, <2>6 DEF QueueBehind
<1> QED
  BY <1>1, <1>2, <1>3, <1>4, <1>5, <1>6 DEF TickInv

\* A new start has evaluated nothing.
LEMMA RestartStep ==
    ASSUME TickInv, Restart
    PROVE  TickInv'
<1>a. StateTypes /\ OnlyMade /\ Ordered /\ Behind /\ QueueBehind
  BY DEF TickInv
<1>b. /\ handling' = {} /\ batch' = {} /\ queue' = <<>> /\ position' = 0
      /\ seen' = [s \in Stocks |-> 0]
      /\ UNCHANGED <<streaming, made, late, stream, added, cached>>
  BY DEF Restart, Zero
<1>1. \A t \in Ahead' : t \in Ticks
  BY <1>a, <1>b DEF Ahead, StateTypes
<1>2. \A t \in Ticks : t.stock \in Stocks /\ t.version \in Nat
  BY DEF Ticks
<1>3. StateTypes'
  BY <1>a, <1>b DEF StateTypes
<1>4. OnlyMade'
  BY <1>a, <1>b DEF OnlyMade, StateTypes
<1>5. Ordered'
  BY <1>a, <1>b DEF Ordered, NewestLast, Older
<1>6. Behind'
  BY <1>b, <1>1, <1>2 DEF Behind, Older, OlderIn, SeenTick
<1>7. QueueBehind'
  BY <1>a, <1>b DEF QueueBehind, NewestLast
<1> QED
  BY <1>3, <1>4, <1>5, <1>6, <1>7 DEF TickInv

-----------------------------------------------------------------------------

\* At first there is no tick anywhere.
LEMMA TickInit == Init => TickInv
<1> SUFFICES ASSUME Init PROVE TickInv
  OBVIOUS
<1>1. /\ streaming \in BOOLEAN
      /\ made = [s \in Stocks |-> 0] /\ seen = [s \in Stocks |-> 0]
      /\ cached = [s \in Stocks |-> 0]
      /\ handling = {} /\ batch = {} /\ stream = <<>> /\ queue = <<>>
      /\ added = 0 /\ position = 0
  BY DEF Init, Zero
<1>2. StateTypes
  BY <1>1 DEF StateTypes
<1>3. OnlyMade /\ Ordered /\ QueueBehind
  BY <1>1 DEF OnlyMade, Ordered, QueueBehind, NewestLast
<1>4. Behind
  BY <1>1 DEF Behind, Ahead
<1> QED
  BY <1>2, <1>3, <1>4 DEF TickInv

\* Every step keeps the ticks in their order.
LEMMA TickNext ==
    ASSUME TickInv, Count \in Nat, [Next]_vars
    PROVE  TickInv' /\ (NotOlder \/ UNCHANGED vars)
<1>0. ASSUME UNCHANGED seen PROVE NotOlder
  BY <1>0 DEF NotOlder, TickInv, StateTypes
<1>1. ASSUME NEW s \in Stocks, Trade(s) PROVE TickInv' /\ NotOlder
  BY <1>0, <1>1, TradeStep DEF Trade
<1>2. ASSUME NEW s \in Stocks, OrderBook(s) PROVE TickInv' /\ NotOlder
  BY <1>0, <1>2, OrderBookStep DEF OrderBook
<1>3. ASSUME NEW s \in Stocks, Expire(s) PROVE TickInv' /\ NotOlder
  <2>1. cached' = [cached EXCEPT ![s] = 0]
        /\ UNCHANGED <<streaming, made, handling, late, stream, added, position, queue, batch, seen>>
    BY <1>3 DEF Expire
  <2>2. cached' \in [Stocks -> Nat] /\ \A t \in Stocks : cached'[t] <= made[t]
    BY <2>1 DEF TickInv, StateTypes, OnlyMade
  <2> QED
    BY <1>0, <2>1, <2>2, RoadStays
<1>r. ASSUME UNCHANGED <<streaming, made, handling, late, stream, added, position, queue, batch,
                         seen, cached>>
      PROVE  TickInv' /\ NotOlder
  <2>1. cached' \in [Stocks -> Nat] /\ \A t \in Stocks : cached'[t] <= made[t]
    BY <1>r DEF TickInv, StateTypes, OnlyMade
  <2> QED
    BY <1>0, <1>r, <2>1, RoadStays
<1>14. ASSUME NEW s \in Stocks, Cool(s) PROVE TickInv' /\ NotOlder
  BY <1>r, <1>14 DEF Cool
<1>15. ASSUME NEW s \in Stocks, Ask(s) PROVE TickInv' /\ NotOlder
  BY <1>0, <1>15, AskStep DEF Ask
<1>16. ASSUME NEW s \in Stocks, Hit(s) PROVE TickInv' /\ NotOlder
  BY <1>0, <1>16, HitStep DEF Hit
<1>17. ASSUME NEW h \in handling, PutPolled(h) PROVE TickInv' /\ NotOlder
  BY <1>0, <1>17, PutPolledStep DEF PutPolled
<1>18. ASSUME NEW h \in handling, PollEnds(h) PROVE TickInv' /\ NotOlder
  BY <1>0, <1>18, PollEndsStep DEF PollEnds
<1>19. CASE CollectorTakes
  BY <1>0, <1>19, CollectorTakesStep DEF CollectorTakes
<1>4. ASSUME NEW h \in handling, Add(h) PROVE TickInv' /\ NotOlder
  BY <1>0, <1>4, AddStep DEF Add
<1>5. ASSUME NEW h \in handling, AddFails(h) PROVE TickInv' /\ NotOlder
  BY <1>0, <1>5, AddFailsStep DEF AddFails
<1>6. ASSUME NEW h \in handling, Cache(h) PROVE TickInv' /\ NotOlder
  BY <1>0, <1>6, CacheStep DEF Cache
<1>7. CASE Trim
  BY <1>0, <1>7, TrimStep DEF Trim
<1>8. CASE ReadStream
  BY <1>0, <1>8, ReadStreamStep DEF ReadStream
<1>9. CASE ReadQueue
  BY <1>9, ReadQueueStep
<1>10. CASE ReadBook
  BY <1>r, <1>10 DEF ReadBook
<1>11. ASSUME NEW tick \in batch, Evaluate(tick) PROVE TickInv' /\ NotOlder
  BY <1>11, EvaluateStep
<1>12. CASE Restart
  BY <1>12, RestartStep DEF Restart, NotOlder
<1>13. CASE UNCHANGED vars
  BY <1>r, <1>13 DEF vars
<1> QED
  BY <1>1, <1>2, <1>3, <1>4, <1>5, <1>6, <1>7, <1>8, <1>9, <1>10, <1>11, <1>12, <1>13, <1>14,
     <1>15, <1>16, <1>17, <1>18, <1>19 DEF Next

\* However many tasks receive and poll at once, and however ticks are conflated,
\* throttled, lost or trimmed on the way from the broker through the stream or the
\* queue: a tick that is older than the last one evaluated of its stock is evaluated
\* only after a new start, or when it was still in the hands of a task as the newer
\* one came to another, or came out of the price cache.
THEOREM NothingOlderSeen ==
    ASSUME Count \in Nat
    PROVE  Spec => NeverOlder
<1>1. Init => TickInv
  BY TickInit
<1>2. TickInv /\ [Next]_vars => TickInv' /\ [NotOlder]_vars
  BY TickNext
<1> QED
  BY <1>1, <1>2, PTL DEF Spec, NeverOlder

-----------------------------------------------------------------------------
(* One receiver and no REST fallback.                                        *)

Alone ==
    /\ IsFiniteSet(handling)
    /\ late = {}
    /\ \A h \in handling : ~IsPolled(h)

InOrder == seen' = Zero \/ \A s \in Stocks : seen'[s] >= seen[s]

\* The one receiver has nothing in hand when the next tick comes.
LEMMA AloneTrade ==
    ASSUME StateTypes, Alone, Receivers = 1, NEW s \in Stocks, Trade(s)
    PROVE  Alone'
<1> DEFINE busy == {h \in handling : h.step \in {"add", "cache"}}
           new == [tick |-> Newer(s), step |-> IF streaming THEN "add" ELSE "cache"]
<1>1. busy = {}
  <2>1. IsFiniteSet(busy)
    BY FS_Subset DEF Alone
  <2> HIDE DEF busy
  <2>2. Cardinality(busy) \in Nat /\ (Cardinality(busy) = 0 <=> busy = {})
    BY <2>1, FS_CardinalityType, FS_EmptySet
  <2>3. Cardinality(busy) < 1
    BY DEF Trade, IsFree, busy
  <2> QED
    BY <2>2, <2>3
<1>2. handling = {}
  BY <1>1 DEF Alone, IsPolled, StateTypes, Handlers, Steps
<1>3. handling' = {new} /\ late' \subseteq late \union LateFor(Newer(s))
  BY <1>2 DEF Trade, Take
<1>4. LateFor(Newer(s)) = {}
  <2>1. made[s] \in Nat /\ Newer(s).stock = s /\ Newer(s).version = made[s] + 1
    BY DEF StateTypes, Newer
  <2>2. (made[s] + 1) + 1 .. made[s] = {}
    BY <2>1
  <2> QED
    BY <1>2, <2>1, <2>2 DEF LateFor
<1>5. new.step /= "ask" /\ new.step /= "put"
  OBVIOUS
<1> HIDE DEF new
<1>6. IsFiniteSet(handling')
  BY <1>3, FS_Singleton
<1> QED
  BY <1>3, <1>4, <1>5, <1>6 DEF Alone, IsPolled

\* A handler that goes on or ends.
LEMMA AloneGoes ==
    ASSUME Alone, late' = late,
           \/ handling' \subseteq handling
           \/ \E h \in handling : Goes(h, "cache")
    PROVE  Alone'
<1>1. CASE handling' \subseteq handling
  BY <1>1, FS_Subset DEF Alone
<1>2. ASSUME NEW h \in handling, Goes(h, "cache") PROVE Alone'
  <2> DEFINE g == [h EXCEPT !.step = "cache"]
             rest == handling \ {h}
  <2>1. handling' = rest \union {g}
    BY <1>2 DEF Goes
  <2>2. g.step = "cache" \/ g = h
    OBVIOUS
  <2>3. IsFiniteSet(rest) /\ IsFiniteSet({g})
    BY FS_Subset, FS_Singleton DEF Alone
  <2>4. ~IsPolled(g)
    BY <2>2 DEF Alone, IsPolled
  <2>5. \A f \in rest : ~IsPolled(f)
    BY DEF Alone
  <2> HIDE DEF g, rest
  <2>6. IsFiniteSet(handling')
    BY <2>1, <2>3, FS_Union
  <2> QED
    BY <2>1, <2>4, <2>5, <2>6 DEF Alone, IsPolled
<1> QED
  BY <1>1, <1>2

\* With one receiver and no poller no two ticks are ever in hand at once.
LEMMA AloneNext ==
    ASSUME TickInv, Alone, Receivers = 1, Polled = {}, [Next]_vars
    PROVE  Alone'
<1>0. StateTypes
  BY DEF TickInv
<1>1. ASSUME NEW s \in Stocks, Trade(s) PROVE Alone'
  BY <1>0, <1>1, AloneTrade
<1>2. ASSUME NEW s \in Stocks, Ask(s) \/ Hit(s) PROVE FALSE
  BY <1>2 DEF Ask, Hit, MayPoll
<1>3. ASSUME NEW h \in handling, Add(h) \/ AddFails(h) PROVE Alone'
  BY <1>3, AloneGoes DEF Add, AddFails
<1>4. ASSUME NEW h \in handling, Cache(h) PROVE Alone'
  <2>1. h.step /= "ask"
    BY DEF Alone, IsPolled
  <2> QED
    BY <1>4, <2>1, AloneGoes DEF Cache
<1>5. ASSUME NEW h \in handling, PutPolled(h) \/ PollEnds(h) PROVE Alone'
  BY <1>5, AloneGoes DEF PutPolled, PollEnds
<1>6. CASE Restart
  BY <1>6, AloneGoes DEF Restart
<1>7. ASSUME UNCHANGED <<handling, late>> PROVE Alone'
  BY <1>7, AloneGoes
<1>8. ASSUME NEW s \in Stocks, OrderBook(s) \/ Expire(s) \/ Cool(s) PROVE Alone'
  BY <1>7, <1>8 DEF OrderBook, Expire, Cool
<1>9. CASE Trim \/ CollectorTakes \/ ReadStream \/ ReadQueue \/ ReadBook
  BY <1>7, <1>9 DEF Trim, CollectorTakes, ReadStream, ReadQueue, ReadBook
<1>10. ASSUME NEW tick \in batch, Evaluate(tick) PROVE Alone'
  BY <1>7, <1>10 DEF Evaluate
<1>11. CASE UNCHANGED vars
  BY <1>7, <1>11 DEF vars
<1> QED
  BY <1>1, <1>2, <1>3, <1>4, <1>5, <1>6, <1>8, <1>9, <1>10, <1>11 DEF Next

\* As long as one task receives and no REST poller runs, the handler that is
\* awaited keeps the ticks in order: what is evaluated is never older than the
\* last, until the process starts again.
THEOREM OneReceiverKeepsOrder ==
    ASSUME Count \in Nat, Receivers = 1, Polled = {}
    PROVE  Spec => [][InOrder]_vars
<1>1. Init => TickInv /\ Alone
  <2>1. Init => Alone
    BY FS_EmptySet DEF Init, Alone
  <2> QED
    BY <2>1, TickInit
<1>2. TickInv /\ Alone /\ [Next]_vars => TickInv' /\ Alone' /\ [InOrder]_vars
  <2> SUFFICES ASSUME TickInv, Alone, [Next]_vars
               PROVE  TickInv' /\ Alone' /\ [InOrder]_vars
    OBVIOUS
  <2>1. TickInv' /\ (NotOlder \/ UNCHANGED vars)
    BY TickNext
  <2>2. Alone'
    BY AloneNext
  <2>3. NotOlder => InOrder
    BY DEF Alone, NotOlder, InOrder
  <2> QED
    BY <2>1, <2>2, <2>3
<1> QED
  BY <1>1, <1>2, PTL DEF Spec

-----------------------------------------------------------------------------
(* The rate limiter that processes share, DistributedRateLimiter.             *)

CONSTANTS Callers, Limits, Window, MaxNow, MaxGranted

VARIABLES algorithm, limit, now, entries, expires, tokens, refilled, pc, stamp, granted

Limiter == INSTANCE DistributedRateLimiter

\* The limiter counts as this module does.
LEMMA SameCount == \A S : Limiter!Cardinality(S) = Cardinality(S)
BY DEF Limiter!Cardinality, Cardinality

(* The invariants.                                                           *)

SharedTypes ==
    /\ algorithm \in {"sliding_window_log", "token_bucket"}
    /\ limit \in Limits
    /\ now \in Limiter!Times
    /\ pc \in [Callers -> {"idle", "sent", "refused"}]
    /\ stamp \in [Callers -> 0 .. MaxNow]
    /\ \A c \in Callers : pc[c] = "sent" => stamp[c] \in 1 .. now /\ now <= stamp[c] + limit.lag

\* The log holds times that were granted, each once.
LogTypes ==
    /\ \A e \in entries : \E g \in granted : g[1] = e
    /\ entries \subseteq 1 .. now /\ granted \subseteq (1 .. now) \X Nat
    /\ expires \in Nat

\* The times granted in the span that no late script reaches into.
TimesIn(t) == {g[1] : g \in Limiter!Within(Window - limit.lag, t)}

\* Every granted time of the last window is still in the set: no script has
\* removed it, for none carries a time to come, and the key has not expired. The
\* times of a span are those, and so fewer than the limit when one is added.
Remembered ==
    /\ \A g \in granted : g[1] + Window < expires
    /\ \A g \in granted : now - Window < g[1] => g[1] \in entries
    /\ \A t \in Limiter!Times : Cardinality(TimesIn(t)) <= limit.max

\* Of a limit of one request a late script finds the last one, which no script of
\* any time removes without a newer one, and so the granted times lie apart.
Apart ==
    /\ \A g, h \in granted : g[1] <= h[1] => g = h \/ g[1] + Window <= h[1]
    /\ granted /= {} => \E g \in granted : /\ \A h \in granted : h[1] <= g[1]
                                           /\ g[1] \in entries /\ g[1] + Window < expires

Single == limit.max = 1 /\ limit.lag <= 1

LogInv == LogTypes /\ Remembered /\ (Single => Apart)

\* The requests granted for the times from s to t, and what the bucket would hold
\* at t if nobody took from it.
Between(s, t) == {g \in granted : s <= g[1] /\ g[1] <= t}
Level(t) == tokens + (t - refilled) * limit.max

\* What was granted for some times and what is left for the last of them were all
\* in the bucket at the first of them or have come since.
BucketInv ==
    /\ refilled \in 0 .. MaxNow /\ tokens \in Int
    /\ granted \subseteq Limiter!Times \X Nat /\ IsFiniteSet(granted)
    /\ refilled = 0 => granted = {}
    /\ \A s, t \in Int :
           s <= t /\ Between(s, t) /= {}
           => /\ Cardinality(Between(s, t)) * Window + Level(t)
                      <= Limiter!Capacity + (t - s) * limit.max
              /\ Cardinality(Between(s, t)) * Window <= Limiter!Capacity + (t - s) * limit.max

IInv ==
    /\ SharedTypes
    /\ IsFiniteSet(granted)
    /\ IF algorithm = "sliding_window_log" THEN LogInv ELSE BucketInv

\* Limits, windows and lags are numbers.
LimiterAssumption ==
    /\ Window \in Nat \ {0} /\ MaxNow \in Nat \ {0}
    /\ \A l \in Limits : l.max \in Nat /\ l.lag \in Nat
-----------------------------------------------------------------------------
(* Counting and multiplying.                                                 *)

\* One more or fewer is counted.
LEMMA OneMore ==
    ASSUME NEW S, IsFiniteSet(S), NEW T, NEW x, T \subseteq S \union {x}
    PROVE  /\ IsFiniteSet(T) /\ Cardinality(T) \in Nat /\ Cardinality(S) \in Nat
           /\ Cardinality(T) <= Cardinality(S) + 1
<1>1. IsFiniteSet(S \union {x})
  BY FS_AddElement
<1>2. \/ Cardinality(S \union {x}) = Cardinality(S)
      \/ Cardinality(S \union {x}) = Cardinality(S) + 1
  BY FS_AddElement
<1>3. IsFiniteSet(T) /\ Cardinality(T) <= Cardinality(S \union {x})
  BY <1>1, FS_Subset
<1>4. Cardinality(T) \in Nat /\ Cardinality(S) \in Nat
  BY <1>3, FS_CardinalityType
<1> QED
  BY <1>2, <1>3, <1>4

\* Refilling goes by the time that has passed, in one go or in two.
LEMMA Rates ==
    ASSUME NEW m \in Nat, NEW a \in Int, NEW b \in Int, NEW c \in Int
    PROVE  /\ (c - a) * m = (c - b) * m + (b - a) * m
           /\ (c - a) * m \in Int /\ (c - b) * m \in Int /\ (b - a) * m \in Int
           /\ a <= b => (b - a) * m >= 0
OBVIOUS

\* As many requests as before and one more take one request's tokens more.
LEMMA Tokens ==
    ASSUME NEW w \in Nat, NEW n \in Nat, NEW k \in Nat, k <= n + 1
    PROVE  k * w \in Nat /\ n * w \in Nat /\ k * w <= n * w + w
<1>1. k * w <= (n + 1) * w
  OBVIOUS
<1>2. (n + 1) * w = n * w + w
  OBVIOUS
<1>3. k * w \in Nat /\ n * w \in Nat
  OBVIOUS
<1> QED
  BY <1>1, <1>2, <1>3

\* The account of an interval closes again when the level falls and what flowed
\* in does not.
LEMMA LeftOver ==
    ASSUME NEW n \in Int, NEW u \in Int, NEW r \in Int, NEW p \in Int, NEW l \in Int,
           NEW c \in Int, NEW q \in Int, u <= r, r + p <= l, n + l <= c + q, n <= c + q
    PROVE  n + (u + p) <= c + q /\ n <= c + q
OBVIOUS

\* The least of two numbers is at most either.
LEMMA LesserOfTwo ==
    ASSUME NEW a \in Int, NEW b \in Int
    PROVE  Limiter!Min({a, b}) \in Int /\ Limiter!Min({a, b}) <= a /\ Limiter!Min({a, b}) <= b
<1>1. \E x \in {a, b} : \A y \in {a, b} : x <= y
  <2>1. CASE a <= b
    BY <2>1
  <2>2. CASE b <= a
    BY <2>2
  <2> QED
    BY <2>1, <2>2
<1>2. Limiter!Min({a, b}) \in {a, b} /\ \A y \in {a, b} : Limiter!Min({a, b}) <= y
  BY <1>1 DEF Limiter!Min
<1> QED
  BY <1>2

-----------------------------------------------------------------------------
(* The window log.                                                           *)

\* What the script leaves.
LEMMA WindowScriptIs ==
    ASSUME NEW t, Limiter!WindowScript(t)
    PROVE  \/ /\ Cardinality(Limiter!Kept(t)) < limit.max
              /\ entries' = Limiter!Kept(t) \union {t} /\ expires' = now + Window + 1
              /\ granted' = granted \union {<<t, Cardinality(granted)>>}
           \/ /\ ~(Cardinality(Limiter!Kept(t)) < limit.max)
              /\ entries' = Limiter!Kept(t) /\ UNCHANGED <<expires, granted>>
BY SameCount DEF Limiter!WindowScript

\* What a script keeps are entries, finitely many.
LEMMA KeptIs ==
    ASSUME LogTypes, now \in Nat, NEW t
    PROVE  /\ Limiter!Kept(t) \subseteq entries /\ Limiter!Kept(t) \subseteq 1 .. now
           /\ IsFiniteSet(Limiter!Kept(t)) /\ Cardinality(Limiter!Kept(t)) \in Nat
<1>1. Limiter!Kept(t) \subseteq entries /\ Limiter!Kept(t) \subseteq 1 .. now
  BY DEF Limiter!Kept, LogTypes
<1>2. IsFiniteSet(1 .. now)
  BY FS_Interval
<1>3. IsFiniteSet(Limiter!Kept(t))
  BY <1>1, <1>2, FS_Subset
<1> QED
  BY <1>1, <1>3, FS_CardinalityType

\* The log keeps to the times that were granted.
LEMMA ScriptTypes ==
    ASSUME LimiterAssumption, now \in Limiter!Times, NEW t \in 1 .. now,
           LogTypes, IsFiniteSet(granted), Limiter!WindowScript(t), now' = now
    PROVE  LogTypes' /\ IsFiniteSet(granted')
<1> DEFINE new == <<t, Cardinality(granted)>>
<1>1. now \in Nat
  BY DEF Limiter!Times
<1>2. Limiter!Kept(t) \subseteq 1 .. now /\ Limiter!Kept(t) \subseteq entries
  BY <1>1, KeptIs
<1>3. now + Window + 1 \in Nat
  BY <1>1 DEF LimiterAssumption
<1>4. new \in (1 .. now) \X Nat /\ new[1] = t
  BY FS_CardinalityType
<1>5. \A e \in Limiter!Kept(t) : \E g \in granted : g[1] = e
  BY <1>2 DEF LogTypes
<1>6. IsFiniteSet(granted \union {new})
  BY FS_AddElement
<1>7. \/ /\ entries' = Limiter!Kept(t) \union {t} /\ expires' = now + Window + 1
         /\ granted' = granted \union {new}
      \/ entries' = Limiter!Kept(t) /\ UNCHANGED <<expires, granted>>
  BY WindowScriptIs
<1> HIDE DEF new
<1>8. CASE /\ entries' = Limiter!Kept(t) \union {t} /\ expires' = now + Window + 1
           /\ granted' = granted \union {new}
  <2>1. \A e \in entries' : \E g \in granted' : g[1] = e
    BY <1>4, <1>5, <1>8
  <2>2. entries' \subseteq 1 .. now /\ granted' \subseteq (1 .. now) \X Nat
    BY <1>2, <1>4, <1>8 DEF LogTypes
  <2> QED
    BY <1>3, <1>6, <1>8, <2>1, <2>2 DEF LogTypes
<1>9. CASE entries' = Limiter!Kept(t) /\ UNCHANGED <<expires, granted>>
  BY <1>2, <1>5, <1>9 DEF LogTypes
<1> QED
  BY <1>7, <1>8, <1>9

\* A script, however late, keeps the times of the last window, and of a span that
\* holds its own time it finds all the other times.
LEMMA ScriptRemembers ==
    ASSUME LimiterAssumption, now \in Limiter!Times, limit.max \in Nat, limit.lag \in Nat,
           NEW t \in 1 .. now, now <= t + limit.lag,
           LogTypes, Remembered, Limiter!WindowScript(t), UNCHANGED <<limit, now>>
    PROVE  Remembered'
<1> DEFINE new == <<t, Cardinality(granted)>>
           span == Window - limit.lag
<1>a. now \in Nat /\ t \in Nat /\ t <= now /\ Window \in Nat /\ span \in Int
  BY DEF Limiter!Times, LimiterAssumption
<1>b. \A g \in granted : g[1] \in Nat /\ g[1] <= now
  BY <1>a DEF LogTypes
<1>c. new[1] = t
  OBVIOUS
<1>d. \A u : TimesIn(u) = {g[1] : g \in {h \in granted : u - span < h[1] /\ h[1] <= u}}
  BY DEF TimesIn, Limiter!Within
<1>e. \A u : TimesIn(u)' = {g[1] : g \in {h \in granted' : u - span < h[1] /\ h[1] <= u}}
  BY DEF TimesIn, Limiter!Within
<1>1. IsFiniteSet(Limiter!Kept(t)) /\ Cardinality(Limiter!Kept(t)) \in Nat
  BY <1>a, KeptIs
<1>2. ASSUME NEW g \in granted, now - Window < g[1] PROVE g[1] \in Limiter!Kept(t)
  <2>1. g[1] \in entries /\ g[1] + Window < expires /\ g[1] \in Nat
    BY <1>2, <1>b DEF Remembered
  <2>2. ~(now >= expires) /\ g[1] > t - Window
    BY <2>1, <1>2, <1>a DEF LogTypes
  <2> QED
    BY <2>1, <2>2 DEF Limiter!Kept
<1>f. \/ /\ Cardinality(Limiter!Kept(t)) < limit.max
         /\ entries' = Limiter!Kept(t) \union {t} /\ expires' = now + Window + 1
         /\ granted' = granted \union {new}
      \/ entries' = Limiter!Kept(t) /\ expires' = expires /\ granted' = granted
  BY WindowScriptIs
<1>g. /\ \A g \in granted : g[1] + Window < expires
      /\ \A u \in Limiter!Times : Cardinality(TimesIn(u)) <= limit.max
  BY DEF Remembered
<1>h. Limiter!Times' = Limiter!Times
  BY DEF Limiter!Times
<1> HIDE DEF new, span
<1>3. CASE entries' = Limiter!Kept(t) /\ expires' = expires /\ granted' = granted
  <2>1. \A u \in Limiter!Times : TimesIn(u)' = TimesIn(u)
    BY <1>3, <1>d, <1>e
  <2> QED
    BY <1>3, <2>1, <1>2, <1>g, <1>h DEF Remembered
<1>4. CASE /\ Cardinality(Limiter!Kept(t)) < limit.max
           /\ entries' = Limiter!Kept(t) \union {t} /\ expires' = now + Window + 1
           /\ granted' = granted \union {new}
  <2>1. \A g \in granted' : g[1] + Window < expires'
    <3>1. ASSUME NEW g \in granted' PROVE g[1] \in Nat /\ g[1] <= now
      BY <1>a, <1>b, <1>c, <1>4
    <3> QED
      BY <1>a, <1>4, <3>1
  <2>2. \A g \in granted' : now - Window < g[1] => g[1] \in entries'
    BY <1>4, <1>2, <1>c
  <2>3. ASSUME NEW u \in Limiter!Times, ~(u - span < t /\ t <= u)
        PROVE  Cardinality(TimesIn(u)') <= limit.max
    <3>1. TimesIn(u)' = TimesIn(u)
      BY <1>4, <1>c, <1>d, <1>e, <2>3
    <3> QED
      BY <3>1, <1>g
  <2>4. ASSUME NEW u \in Limiter!Times, u - span < t, t <= u
        PROVE  Cardinality(TimesIn(u)') <= limit.max
    <3>1. u \in Nat
      BY DEF Limiter!Times
    <3>2. ASSUME NEW g \in granted', u - span < g[1]
          PROVE  g[1] \in Limiter!Kept(t) \union {t}
      <4>1. CASE g = new
        BY <4>1, <1>c
      <4>2. CASE g \in granted
        <5>1. now - Window < g[1]
          BY <1>a, <1>b, <4>2, <3>1, <3>2, <2>4 DEF span
        <5> QED
          BY <1>2, <4>2, <5>1
      <4> QED
        BY <1>4, <4>1, <4>2
    <3>3. TimesIn(u)' \subseteq Limiter!Kept(t) \union {t}
      BY <1>e, <3>2
    <3>4. /\ Cardinality(TimesIn(u)') \in Nat
          /\ Cardinality(TimesIn(u)') <= Cardinality(Limiter!Kept(t)) + 1
      BY <1>1, <3>3, OneMore
    <3> QED
      BY <1>1, <1>4, <3>4
  <2>5. \A u \in Limiter!Times : Cardinality(TimesIn(u)') <= limit.max
    BY <2>3, <2>4
  <2> QED
    BY <2>1, <2>2, <2>5, <1>h DEF Remembered
<1> QED
  BY <1>f, <1>3, <1>4

\* A script that runs late finds the last granted time, or a window has passed
\* since.
LEMMA ScriptApart ==
    ASSUME LimiterAssumption, now \in Limiter!Times, limit.max = 1,
           NEW t \in 1 .. now, now <= t + 1,
           LogTypes, Apart, Limiter!WindowScript(t), now' = now
    PROVE  Apart'
<1> DEFINE new == <<t, Cardinality(granted)>>
<1>a. now \in Nat /\ t \in Nat /\ Window \in Nat /\ Window > 0 /\ expires \in Nat
  BY DEF Limiter!Times, LimiterAssumption, LogTypes
<1>b. \A g \in granted : g[1] \in Nat /\ g[1] <= now
  BY <1>a DEF LogTypes
<1>1. IsFiniteSet(Limiter!Kept(t)) /\ Cardinality(Limiter!Kept(t)) \in Nat
  BY <1>a, KeptIs
<1>2. Cardinality(Limiter!Kept(t)) < limit.max <=> Limiter!Kept(t) = {}
  BY <1>1, FS_EmptySet
<1>c. \A e \in Limiter!Kept(t) : e \in Nat /\ \E g \in granted : g[1] = e
  <2>1. Limiter!Kept(t) \subseteq entries
    BY <1>a, KeptIs
  <2>2. \A e \in entries : e \in Nat /\ \E g \in granted : g[1] = e
    BY <1>a DEF LogTypes
  <2> QED
    BY <2>1, <2>2
<1>d. /\ \A g, h \in granted : g[1] <= h[1] => g = h \/ g[1] + Window <= h[1]
      /\ granted /= {} => \E g \in granted : /\ \A h \in granted : h[1] <= g[1]
                                             /\ g[1] \in entries /\ g[1] + Window < expires
  BY DEF Apart
<1>e. new[1] = t
  OBVIOUS
<1>f. \/ /\ Limiter!Kept(t) = {}
         /\ entries' = Limiter!Kept(t) \union {t} /\ expires' = now + Window + 1
         /\ granted' = granted \union {new}
      \/ /\ Limiter!Kept(t) /= {}
         /\ entries' = Limiter!Kept(t) /\ expires' = expires /\ granted' = granted
  BY <1>2, WindowScriptIs
<1> HIDE DEF new
<1>3. CASE /\ Limiter!Kept(t) /= {}
           /\ entries' = Limiter!Kept(t) /\ expires' = expires /\ granted' = granted
  <2>1. PICK e \in Limiter!Kept(t) : TRUE
    BY <1>3
  <2>2. PICK k \in granted : k[1] = e
    BY <1>c, <2>1
  <2>3. e \in Nat /\ e > t - Window /\ ~(now >= expires)
    BY <1>c, <2>1 DEF Limiter!Kept
  <2>4. PICK g \in granted : /\ \A h \in granted : h[1] <= g[1]
                             /\ g[1] \in entries /\ g[1] + Window < expires
    BY <1>d, <2>2
  <2>5. e <= g[1] /\ g[1] \in Nat
    BY <1>b, <2>2, <2>4
  <2>6. g[1] \in Limiter!Kept(t)
    <3>1. g[1] > t - Window
      BY <1>a, <2>3, <2>5
    <3> QED
      BY <2>3, <2>4, <3>1 DEF Limiter!Kept
  <2> QED
    BY <1>d, <1>3, <2>4, <2>6 DEF Apart
<1>4. CASE /\ Limiter!Kept(t) = {}
           /\ entries' = Limiter!Kept(t) \union {t} /\ expires' = now + Window + 1
           /\ granted' = granted \union {new}
  <2>2. ASSUME NEW h \in granted PROVE h[1] + Window <= t
    <3>1. PICK g \in granted : /\ \A k \in granted : k[1] <= g[1]
                               /\ g[1] \in entries /\ g[1] + Window < expires
      BY <1>d, <2>2
    <3>2. g[1] \notin Limiter!Kept(t) /\ g[1] \in Nat /\ h[1] \in Nat /\ h[1] <= g[1]
      BY <1>b, <1>4, <3>1
    <3>3. now >= expires \/ ~(g[1] > t - Window)
      BY <3>1, <3>2 DEF Limiter!Kept
    <3>4. g[1] + Window <= t
      BY <1>a, <3>1, <3>2, <3>3
    <3> QED
      BY <1>a, <3>2, <3>4
  <2>3. new \in granted' /\ t \in entries'
    BY <1>4
  <2>4. ASSUME NEW g \in granted'
        PROVE  g = new \/ (g \in granted /\ g[1] \in Nat /\ g[1] + Window <= t)
    BY <1>b, <1>4, <2>2
  <2>5. \A h \in granted' : h[1] <= new[1]
    <3> TAKE h \in granted'
    <3>1. h = new \/ (h[1] \in Nat /\ h[1] + Window <= t)
      BY <2>4
    <3> QED
      BY <1>a, <1>e, <3>1
  <2>6. new[1] + Window < expires'
    BY <1>a, <1>4, <1>e
  <2>7. ASSUME NEW g \in granted', NEW h \in granted', g[1] <= h[1]
        PROVE  g = h \/ g[1] + Window <= h[1]
    <3>1. CASE h = new
      BY <1>e, <2>4, <3>1
    <3>2. CASE g = new /\ h /= new
      <4>1. h[1] \in Nat /\ h[1] + Window <= t /\ t <= h[1]
        BY <1>e, <2>4, <2>7, <3>2
      <4> QED
        BY <1>a, <4>1
    <3>3. CASE g /= new /\ h /= new
      BY <1>d, <2>4, <2>7, <3>3
    <3> QED
      BY <3>1, <3>2, <3>3
  <2>8. new[1] \in entries'
    BY <1>e, <2>3
  <2> QED
    BY <2>3, <2>5, <2>6, <2>7, <2>8 DEF Apart
<1> QED
  BY <1>f, <1>3, <1>4

\* Granted times that lie apart are alone in their window.
LEMMA ApartRespects ==
    ASSUME LimiterAssumption, now \in Limiter!Times, LogTypes, Apart, NEW t \in Limiter!Times
    PROVE  Cardinality(Limiter!Within(Window, t)) <= 1
<1>a. now \in Nat /\ t \in Nat /\ Window \in Nat
  BY DEF Limiter!Times, LimiterAssumption
<1>1. \A g \in granted : g[1] \in Nat
  BY <1>a DEF LogTypes
<1>2. ASSUME NEW g \in Limiter!Within(Window, t), NEW h \in Limiter!Within(Window, t) PROVE g = h
  <2>1. /\ g \in granted /\ t - Window < g[1] /\ g[1] <= t
        /\ h \in granted /\ t - Window < h[1] /\ h[1] <= t
    BY DEF Limiter!Within
  <2>2. /\ g[1] <= h[1] => g = h \/ g[1] + Window <= h[1]
        /\ h[1] <= g[1] => g = h \/ h[1] + Window <= g[1]
    BY <2>1 DEF Apart
  <2>3. g[1] \in Nat /\ h[1] \in Nat
    BY <1>1, <2>1
  <2> QED
    BY <1>a, <2>1, <2>2, <2>3
<1>3. CASE Limiter!Within(Window, t) = {}
  BY <1>3, FS_EmptySet
<1>4. CASE Limiter!Within(Window, t) /= {}
  <2>1. PICK g : Limiter!Within(Window, t) = {g}
    BY <1>2, <1>4
  <2>2. Cardinality({g}) = 1
    BY FS_Singleton
  <2> QED
    BY <2>1, <2>2
<1> QED
  BY <1>3, <1>4

-----------------------------------------------------------------------------
(* The bucket.                                                               *)

\* What the script finds is no more than the bucket holds, and no more than has
\* come since the last script.
LEMMA RefilledIs ==
    ASSUME LimiterAssumption, limit.max \in Nat, BucketInv, NEW x \in Limiter!Times
    PROVE  /\ x \in Int /\ Limiter!Capacity \in Int
           /\ Limiter!Refilled(x) \in Int /\ Limiter!Refilled(x) <= Limiter!Capacity
           /\ refilled /= 0 => Limiter!Refilled(x) <= Level(x)
<1>1. x \in Int /\ refilled \in Int /\ tokens \in Int /\ Window \in Int
  BY DEF LimiterAssumption, BucketInv, Limiter!Times
<1>2. Limiter!Capacity \in Int
  BY <1>1 DEF Limiter!Capacity
<1>3. (x - refilled) * limit.max \in Int
  BY <1>1, Rates
<1>4. Level(x) \in Int
  BY <1>1, <1>3 DEF Level
<1>5. CASE refilled = 0
  BY <1>1, <1>2, <1>5 DEF Limiter!Refilled
<1>6. CASE refilled /= 0
  <2>1. Limiter!Refilled(x) = Limiter!Min({Limiter!Capacity, Level(x)})
    BY <1>6 DEF Limiter!Refilled, Level
  <2> QED
    BY <1>1, <1>2, <1>4, <2>1, LesserOfTwo
<1> QED
  BY <1>5, <1>6

\* A script of the bucket takes a request's tokens and grants it, or refills
\* only.
LEMMA BucketScriptIs ==
    ASSUME NEW x, Limiter!BucketScript(x)
    PROVE  /\ refilled' = x
           /\ \/ /\ Limiter!Refilled(x) >= Window /\ tokens' = Limiter!Refilled(x) - Window
                 /\ granted' = granted \union {<<x, Cardinality(granted)>>}
              \/ tokens' = Limiter!Refilled(x) /\ granted' = granted
BY SameCount DEF Limiter!BucketScript

\* What the requests of some times have taken and what is left at the last of
\* them, after a request of one of these times or of another.
LEMMA BucketStays ==
    ASSUME LimiterAssumption, limit.max \in Nat, BucketInv, NEW x \in Limiter!Times,
           Limiter!BucketScript(x), UNCHANGED limit,
           NEW s \in Int, NEW t \in Int, s <= t, Between(s, t)' /= {}
    PROVE  /\ Cardinality(Between(s, t))' * Window + Level(t)'
                  <= Limiter!Capacity + (t - s) * limit.max
           /\ Cardinality(Between(s, t))' * Window <= Limiter!Capacity + (t - s) * limit.max
<1> DEFINE m == limit.max
           r == Limiter!Refilled(x)
           old == Between(s, t)
           new == Between(s, t)'
           n == Cardinality(old) * Window
           k == Cardinality(new) * Window
           P == (t - x) * m
           Q == (t - s) * m
           L == Level(t)
<1>1. /\ x \in Int /\ Limiter!Capacity \in Int /\ r \in Int /\ r <= Limiter!Capacity
      /\ refilled /= 0 => r <= Level(x)
  BY RefilledIs
<1>2. /\ Window \in Nat /\ refilled \in Int /\ tokens \in Int /\ IsFiniteSet(granted)
      /\ granted \subseteq Limiter!Times \X Nat
  BY DEF LimiterAssumption, BucketInv
<1>3. /\ P \in Int /\ Q \in Int
      /\ x <= t => P >= 0
      /\ s <= x => P <= Q
  <2>1. /\ (t - s) * m = (t - x) * m + (x - s) * m
        /\ (t - x) * m \in Int /\ (x - s) * m \in Int /\ (t - s) * m \in Int
        /\ s <= x => (x - s) * m >= 0
    BY <1>1, Rates
  <2>2. x <= t => (t - x) * m >= 0
    BY <1>1, Rates
  <2> HIDE DEF m
  <2> QED
    BY <2>1, <2>2
<1>4. refilled /= 0 => r + P <= L /\ L \in Int
  <2>1. /\ (t - refilled) * m = (t - x) * m + (x - refilled) * m
        /\ (t - refilled) * m \in Int /\ (t - x) * m \in Int /\ (x - refilled) * m \in Int
    BY <1>1, <1>2, Rates
  <2>2. L = tokens + (t - refilled) * m /\ Level(x) = tokens + (x - refilled) * m
    BY DEF Level
  <2> HIDE DEF m, r, L
  <2> QED
    BY <1>1, <1>2, <2>1, <2>2
<1>5. Level(t)' = tokens' + P
  BY BucketScriptIs DEF Level
<1>6. /\ refilled = 0 => old = {}
      /\ old /= {} => n + L <= Limiter!Capacity + Q /\ n <= Limiter!Capacity + Q
  BY DEF BucketInv, Between
<1>7. IsFiniteSet(old)
  <2>1. old \subseteq granted
    BY DEF Between
  <2> QED
    BY <1>2, <2>1, FS_Subset
<1>8. Cardinality(old) \in Nat /\ n \in Int /\ (old = {} => n = 0)
  <2>1. Cardinality(old) \in Nat /\ (old = {} => Cardinality(old) = 0)
    BY <1>7, FS_CardinalityType, FS_EmptySet
  <2> HIDE DEF old
  <2> QED
    BY <1>2, <2>1
<1>9. CASE new = old /\ tokens' \in Int /\ tokens' <= r
  <2>1. refilled /= 0 /\ n + L <= Limiter!Capacity + Q /\ n <= Limiter!Capacity + Q
    BY <1>6, <1>9
  <2>2. k = n
    BY <1>9
  <2> HIDE DEF m, r, old, new, n, k, P, Q, L
  <2>3. r + P <= L /\ L \in Int /\ tokens' \in Int /\ tokens' <= r /\ n \in Int
    BY <1>4, <1>8, <1>9, <2>1
  <2>4. k + (tokens' + P) <= Limiter!Capacity + Q /\ k <= Limiter!Capacity + Q
    BY <1>1, <1>3, <2>1, <2>2, <2>3, LeftOver
  <2> QED
    BY <1>5, <2>4 DEF k, new, Q, m
<1>10. CASE /\ r >= Window /\ tokens' = r - Window
            /\ granted' = granted \union {<<x, Cardinality(granted)>>}
            /\ s <= x /\ x <= t
  <2>1. new \subseteq old \union {<<x, Cardinality(granted)>>}
    BY <1>10 DEF Between
  <2>2. Cardinality(new) \in Nat /\ Cardinality(new) <= Cardinality(old) + 1
    <3> HIDE DEF new, old
    <3> QED
      BY <1>7, <2>1, OneMore
  <2>3. k \in Int /\ k <= n + Window
    <3> HIDE DEF new, old
    <3> QED
      BY <1>2, <1>8, <2>2, Tokens
  <2>4. old /= {} => refilled /= 0
    BY <1>6
  <2> HIDE DEF m, r, old, new, n, k, P, Q, L
  <2>5. k + (tokens' + P) <= Limiter!Capacity + Q
    <3>1. CASE old = {}
      BY <1>1, <1>2, <1>3, <1>8, <1>10, <2>3, <3>1
    <3>2. CASE old /= {}
      <4>1. n + L <= Limiter!Capacity + Q /\ r + P <= L /\ L \in Int
        BY <1>4, <1>6, <2>4, <3>2
      <4> QED
        BY <1>1, <1>2, <1>3, <1>8, <1>10, <2>3, <4>1
    <3> QED
      BY <3>1, <3>2
  <2>6. tokens' + P >= 0 /\ tokens' + P \in Int
    BY <1>1, <1>2, <1>3, <1>10
  <2>7. k <= Limiter!Capacity + Q
    BY <1>1, <1>3, <2>3, <2>5, <2>6
  <2> QED
    BY <1>5, <2>5, <2>7 DEF k, new, Q, m
<1>11. CASE /\ r >= Window /\ tokens' = r - Window
            /\ granted' = granted \union {<<x, Cardinality(granted)>>}
            /\ ~(s <= x /\ x <= t)
  <2>1. new = old
    BY <1>11 DEF Between
  <2>2. tokens' \in Int /\ tokens' <= r
    <3> HIDE DEF r
    <3> QED
      BY <1>1, <1>2, <1>11
  <2> QED
    BY <1>9, <2>1, <2>2
<1>12. CASE tokens' = r /\ granted' = granted
  <2>1. new = old
    BY <1>12 DEF Between
  <2>2. tokens' \in Int /\ tokens' <= r
    <3> HIDE DEF r
    <3> QED
      BY <1>1, <1>12
  <2> QED
    BY <1>9, <2>1, <2>2
<1> QED
  BY <1>10, <1>11, <1>12, BucketScriptIs

\* The script keeps the account of the bucket.
LEMMA ScriptAccounts ==
    ASSUME LimiterAssumption, limit.max \in Nat, BucketInv, NEW x \in Limiter!Times,
           Limiter!BucketScript(x), UNCHANGED limit
    PROVE  BucketInv'
<1>1. Limiter!Refilled(x) \in Int /\ x \in 1 .. MaxNow /\ Window \in Int
  BY RefilledIs DEF Limiter!Times, LimiterAssumption
<1>2. refilled' \in 0 .. MaxNow /\ refilled' /= 0
  BY <1>1, BucketScriptIs
<1>3. tokens' \in Int
  BY <1>1, BucketScriptIs
<1>4. IsFiniteSet(granted) /\ Cardinality(granted) \in Nat /\ granted \subseteq Limiter!Times \X Nat
  BY FS_CardinalityType DEF BucketInv
<1>5. granted' \subseteq Limiter!Times \X Nat
  BY <1>4, BucketScriptIs
<1>6. IsFiniteSet(granted')
  <2>1. granted' \subseteq granted \union {<<x, Cardinality(granted)>>}
    BY BucketScriptIs
  <2> QED
    BY <1>4, <2>1, OneMore
<1>7. Limiter!Capacity' = Limiter!Capacity
  BY DEF Limiter!Capacity
<1>8. ASSUME NEW s \in Int, NEW t \in Int, s <= t, Between(s, t)' /= {}
      PROVE  /\ Cardinality(Between(s, t)') * Window + Level(t)'
                    <= Limiter!Capacity' + (t - s) * limit'.max
             /\ Cardinality(Between(s, t)') * Window <= Limiter!Capacity' + (t - s) * limit'.max
  BY <1>7, <1>8, BucketStays
<1> QED
  BY <1>2, <1>3, <1>5, <1>6, <1>8 DEF BucketInv

\* No window holds more than twice what the bucket does.
LEMMA BucketRespects ==
    ASSUME LimiterAssumption, limit.max \in Nat, BucketInv, NEW t \in Limiter!Times
    PROVE  Cardinality(Limiter!Within(Window, t)) <= 2 * limit.max
<1> DEFINE s == t - Window + 1
           m == limit.max
           N == Cardinality(Limiter!Within(Window, t))
<1>1. t \in Int /\ Window \in Nat /\ Window > 0 /\ s \in Int /\ s <= t
  BY DEF Limiter!Times, LimiterAssumption
<1>2. Limiter!Within(Window, t) = Between(s, t)
  <2>1. \A g \in granted : g[1] \in Int
    BY DEF BucketInv, Limiter!Times
  <2> QED
    BY <1>1, <2>1 DEF Limiter!Within, Between
<1>3. IsFiniteSet(Limiter!Within(Window, t))
  <2>1. Limiter!Within(Window, t) \subseteq granted /\ IsFiniteSet(granted)
    BY DEF Limiter!Within, BucketInv
  <2> QED
    BY <2>1, FS_Subset
<1>4. N \in Nat /\ (Limiter!Within(Window, t) = {} => N = 0)
  BY <1>3, FS_CardinalityType, FS_EmptySet
<1>5. CASE Limiter!Within(Window, t) = {}
  BY <1>4, <1>5
<1>6. CASE Limiter!Within(Window, t) /= {}
  <2>1. N * Window <= Limiter!Capacity + (t - s) * m
    BY <1>1, <1>2, <1>6 DEF BucketInv
  <2>2. Limiter!Capacity = m * Window /\ t - s = Window - 1
    BY <1>1 DEF Limiter!Capacity
  <2> HIDE DEF N, m
  <2>3. m \in Nat
    BY DEF m
  <2>4. N * Window <= m * Window + (Window - 1) * m
    BY <2>1, <2>2
  <2>5. (Window - 1) * m = Window * m - m /\ Window * m = m * Window /\ m * Window \in Int
    BY <1>1, <2>3
  <2>6. N * Window < (2 * m + 1) * Window
    <3>1. (2 * m + 1) * Window = m * Window + m * Window + Window
      BY <1>1, <2>3
    <3>2. N * Window \in Int
      BY <1>1, <1>4
    <3> QED
      BY <1>1, <2>3, <2>4, <2>5, <3>1, <3>2
  <2>7. N <= 2 * m
    <3>1. ASSUME N >= 2 * m + 1 PROVE FALSE
      <4>1. N * Window >= (2 * m + 1) * Window
        BY <1>1, <1>4, <2>3, <3>1
      <4>2. N * Window \in Int /\ (2 * m + 1) * Window \in Int
        BY <1>1, <1>4, <2>3
      <4> QED
        BY <2>6, <4>1, <4>2
    <3> QED
      BY <1>4, <2>3, <3>1
  <2> QED
    BY <2>7 DEF N, m
<1> QED
  BY <1>5, <1>6
-----------------------------------------------------------------------------
(* Every step keeps the invariant.                                           *)

\* The limit in force and the time are numbers.
LEMMA LimitIs ==
    ASSUME LimiterAssumption, SharedTypes
    PROVE  limit.max \in Nat /\ limit.lag \in Nat /\ now \in Nat /\ MaxNow \in Nat
BY DEF LimiterAssumption, SharedTypes, Limiter!Times

\* Time stands still while a script that must not be later is under way.
LEMMA TickKeeps ==
    ASSUME LimiterAssumption, IInv, Limiter!Tick
    PROVE  IInv'
<1>1. /\ limit.max \in Nat /\ limit.lag \in Nat /\ now \in Nat /\ MaxNow \in Nat
      /\ now' = now + 1 /\ now' \in Limiter!Times
      /\ UNCHANGED <<algorithm, limit, entries, expires, tokens, refilled, pc, stamp, granted>>
  BY LimitIs DEF IInv, Limiter!Tick, Limiter!store, Limiter!Times
<1>2. SharedTypes'
  <2>1. ASSUME NEW c \in Callers, pc[c] = "sent"
        PROVE  stamp[c] \in 1 .. now' /\ now' <= stamp[c] + limit.lag
    <3>1. stamp[c] \in 1 .. now /\ now < stamp[c] + limit.lag
      BY <2>1 DEF IInv, SharedTypes, Limiter!Tick
    <3> QED
      BY <1>1, <3>1
  <2> QED
    BY <1>1, <2>1 DEF IInv, SharedTypes
<1>3. 1 .. now \subseteq 1 .. now'
  BY <1>1
<1>5. CASE algorithm = "sliding_window_log"
  <2>1. LogInv
    BY <1>5 DEF IInv
  <2>2. LogTypes'
    <3>1. (1 .. now) \X Nat \subseteq (1 .. now') \X Nat
      BY <1>3
    <3> QED
      BY <1>1, <1>3, <2>1, <3>1 DEF LogInv, LogTypes
  <2>3. Remembered'
    <3>1. \A g \in granted : g[1] \in Nat
      BY <1>1, <2>1 DEF LogInv, LogTypes
    <3>2. Window \in Nat
      BY DEF LimiterAssumption
    <3>3. \A g \in granted : now' - Window < g[1] => g[1] \in entries
      BY <1>1, <2>1, <3>1, <3>2 DEF LogInv, Remembered
    <3>4. \A t : TimesIn(t)' = TimesIn(t)
      BY <1>1 DEF TimesIn, Limiter!Within
    <3>5. Limiter!Times' = Limiter!Times
      BY DEF Limiter!Times
    <3> QED
      BY <1>1, <2>1, <3>3, <3>4, <3>5 DEF LogInv, Remembered
  <2>4. (Single => Apart)'
    BY <1>1, <2>1 DEF LogInv, Apart, Single
  <2>5. LogInv'
    BY <2>2, <2>3, <2>4 DEF LogInv
  <2> QED
    BY <1>1, <1>2, <1>5, <2>5 DEF IInv
<1>6. CASE algorithm /= "sliding_window_log"
  <2>1. BucketInv
    BY <1>6 DEF IInv
  <2>2. BucketInv'
    BY <1>1, <2>1 DEF BucketInv, Between, Level, Limiter!Capacity
  <2> QED
    BY <1>1, <1>2, <1>6, <2>2 DEF IInv
<1> QED
  BY <1>5, <1>6

\* What leaves the store alone keeps the invariant.
LEMMA StoreStays ==
    ASSUME IInv, SharedTypes', UNCHANGED <<algorithm, limit, now, Limiter!store, granted>>
    PROVE  IInv'
<1>1. /\ UNCHANGED <<algorithm, limit, now, entries, expires, tokens, refilled, granted>>
      /\ \A t : TimesIn(t)' = TimesIn(t)
      /\ Limiter!Times' = Limiter!Times
  BY DEF Limiter!store, TimesIn, Limiter!Within, Limiter!Times
<1>2. LogInv => LogInv'
  BY <1>1 DEF LogInv, LogTypes, Remembered, Single, Apart
<1>3. BucketInv => BucketInv'
  BY <1>1 DEF BucketInv, Between, Level, Limiter!Capacity
<1> QED
  BY <1>1, <1>2, <1>3 DEF IInv

\* Who stops waiting for an answer holds no time.
LEMMA ReturnTypes ==
    ASSUME LimiterAssumption, SharedTypes, NEW c \in Callers,
           NEW answer \in {"idle", "refused"}, Limiter!Returns(c, answer)
    PROVE  SharedTypes'
<1>1. /\ pc' \in [Callers -> {"idle", "sent", "refused"}]
      /\ \A d \in Callers : pc'[d] = "sent" => pc[d] = "sent" /\ stamp'[d] = stamp[d]
  BY DEF Limiter!Returns, SharedTypes
<1>2. stamp' \in [Callers -> 0 .. MaxNow]
  <2>1. 0 \in 0 .. MaxNow
    BY LimitIs
  <2> QED
    BY <2>1 DEF Limiter!Returns, SharedTypes
<1> QED
  BY <1>1, <1>2 DEF Limiter!Returns, SharedTypes

\* What a caller does without its script changes nothing in Redis.
LEMMA CallerKeeps ==
    ASSUME LimiterAssumption, IInv, NEW c \in Callers,
           Limiter!Acquire(c) \/ Limiter!RunFails(c) \/ Limiter!Denied(c)
    PROVE  IInv'
<1>1. SharedTypes
  BY DEF IInv
<1>2. UNCHANGED <<algorithm, limit, now, Limiter!store, granted>>
  BY DEF Limiter!Acquire, Limiter!RunFails, Limiter!Denied, Limiter!Returns
<1>3. CASE Limiter!Acquire(c)
  <2>1. now \in 1 .. now /\ now \in 0 .. MaxNow /\ now <= now + limit.lag
    BY <1>1, LimitIs DEF SharedTypes, Limiter!Times
  <2>2. /\ pc' \in [Callers -> {"idle", "sent", "refused"}]
        /\ stamp' \in [Callers -> 0 .. MaxNow]
        /\ stamp'[c] = now
        /\ \A d \in Callers \ {c} : pc'[d] = pc[d] /\ stamp'[d] = stamp[d]
    BY <1>1, <1>3, <2>1 DEF Limiter!Acquire, SharedTypes
  <2>3. SharedTypes'
    BY <1>1, <1>2, <2>1, <2>2 DEF SharedTypes
  <2> QED
    BY <1>2, <2>3, StoreStays
<1>4. CASE Limiter!RunFails(c) \/ Limiter!Denied(c)
  <2>1. SharedTypes'
    BY <1>1, <1>4, ReturnTypes DEF Limiter!RunFails, Limiter!Denied
  <2> QED
    BY <1>2, <2>1, StoreStays
<1> QED
  BY <1>3, <1>4

\* A script keeps the invariant of its algorithm.
LEMMA RunKeeps ==
    ASSUME LimiterAssumption, IInv, NEW c \in Callers, Limiter!Run(c)
    PROVE  IInv'
<1>1. /\ SharedTypes /\ limit.max \in Nat /\ now \in Limiter!Times /\ now \in Nat
      /\ UNCHANGED <<algorithm, limit, now>>
  BY LimitIs DEF IInv, SharedTypes, Limiter!Run, Limiter!Returns
<1>2. SharedTypes'
  <2>1. PICK answer \in {"idle", "refused"} : Limiter!Returns(c, answer)
    BY DEF Limiter!Run
  <2> QED
    BY <1>1, <2>1, ReturnTypes
<1> DEFINE x == stamp[c]
<1>3. /\ x \in 1 .. now /\ now <= x + limit.lag /\ Limiter!Script(x)
      /\ x \in Limiter!Times
  BY <1>1 DEF SharedTypes, Limiter!Run, Limiter!Times
<1> HIDE DEF x
<1>4. CASE algorithm = "sliding_window_log"
  <2>1. LogInv /\ IsFiniteSet(granted) /\ Limiter!WindowScript(x)
    BY <1>3, <1>4 DEF IInv, Limiter!Script
  <2>2. LogTypes' /\ IsFiniteSet(granted')
    BY <1>1, <1>3, <2>1, ScriptTypes DEF LogInv
  <2>3. Remembered'
    BY <1>1, <1>3, <2>1, ScriptRemembers, LimitIs DEF LogInv
  <2>4. (Single => Apart)'
    <3>1. ASSUME Single PROVE Apart'
      <4>1. limit.max = 1 /\ limit.lag \in Nat /\ limit.lag <= 1 /\ x \in Nat
        BY <1>1, <1>3, <3>1, LimitIs DEF Single
      <4>2. now <= x + 1
        BY <1>1, <1>3, <4>1
      <4> QED
        BY <1>1, <1>3, <2>1, <3>1, <4>1, <4>2, ScriptApart DEF LogInv
    <3>2. Single' = Single
      BY <1>1 DEF Single
    <3> QED
      BY <3>1, <3>2
  <2> QED
    BY <1>1, <1>2, <1>4, <2>2, <2>3, <2>4 DEF IInv, LogInv
<1>5. CASE algorithm /= "sliding_window_log"
  <2>1. BucketInv /\ Limiter!BucketScript(x)
    BY <1>3, <1>5 DEF IInv, Limiter!Script
  <2>2. BucketInv'
    BY <1>1, <1>3, <2>1, ScriptAccounts
  <2> QED
    BY <1>1, <1>2, <1>5, <2>2 DEF IInv, BucketInv
<1> QED
  BY <1>4, <1>5

\* Every step keeps the invariant of the algorithm in use.
LEMMA LimiterNext ==
    ASSUME LimiterAssumption, IInv, [Limiter!Next]_(Limiter!vars)
    PROVE  IInv'
<1>1. CASE UNCHANGED Limiter!vars
  <2>1. SharedTypes'
    BY <1>1 DEF Limiter!vars, IInv, SharedTypes
  <2> QED
    BY <1>1, <2>1, StoreStays DEF Limiter!vars, Limiter!store
<1> QED
  BY <1>1, TickKeeps, CallerKeeps, RunKeeps DEF Limiter!Next

\* At first nothing is granted and the bucket is full.
LEMMA LimiterInit ==
    ASSUME LimiterAssumption, Limiter!Init
    PROVE  IInv
<1>1. now = 1 /\ 1 \in Limiter!Times /\ 0 \in 0 .. MaxNow
  BY DEF Limiter!Init, LimiterAssumption, Limiter!Times
<1>2. SharedTypes
  BY <1>1 DEF Limiter!Init, SharedTypes
<1>3. granted = {} /\ entries = {} /\ IsFiniteSet({}) /\ Cardinality({}) = 0
  BY FS_EmptySet DEF Limiter!Init
<1>4. LogInv
  <2>1. LogTypes /\ Apart
    BY <1>3 DEF Limiter!Init, LogTypes, Apart
  <2>2. \A t : TimesIn(t) = {}
    BY <1>3 DEF TimesIn, Limiter!Within
  <2>3. Remembered
    <3>1. 0 <= limit.max
      BY <1>2, LimitIs
    <3> QED
      BY <1>3, <2>2, <3>1 DEF Remembered
  <2> QED
    BY <2>1, <2>3 DEF LogInv
<1>5. BucketInv
  <2>1. \A s, t \in Int : Between(s, t) = {}
    BY <1>3 DEF Between
  <2>2. tokens \in Int
    <3>1. limit.max \in Nat /\ Window \in Nat
      BY <1>2, LimitIs DEF LimiterAssumption
    <3> QED
      BY <3>1 DEF Limiter!Init, Limiter!Capacity
  <2> QED
    BY <1>1, <1>3, <2>1, <2>2 DEF Limiter!Init, BucketInv
<1> QED
  BY <1>2, <1>3, <1>4, <1>5 DEF IInv

\* What the invariant says of the limit.
LEMMA IInvRespects ==
    ASSUME LimiterAssumption, IInv
    PROVE  Limiter!WindowRespected
<1>1. limit.max \in Nat /\ now \in Limiter!Times
  BY LimitIs DEF IInv, SharedTypes
<1>2. CASE algorithm = "sliding_window_log"
  <2>1. LogTypes /\ Remembered /\ (Single => Apart)
    BY <1>2 DEF IInv, LogInv
  <2>2. \A t \in Limiter!Times : Cardinality(TimesIn(t)) <= limit.max
    BY <2>1 DEF Remembered
  <2>3. \A t \in Limiter!Times : Single => Cardinality(Limiter!Within(Window, t)) <= 1
    BY <1>1, <2>1, ApartRespects
  <2> QED
    BY <1>2, <2>2, <2>3, SameCount DEF Limiter!WindowRespected, TimesIn, Single
<1>3. CASE algorithm /= "sliding_window_log"
  <2>1. BucketInv
    BY <1>3 DEF IInv
  <2>2. \A t \in Limiter!Times : Cardinality(Limiter!Within(Window, t)) <= 2 * limit.max
    BY <1>1, <2>1, BucketRespects
  <2> QED
    BY <1>3, <2>2, SameCount DEF Limiter!WindowRespected
<1> QED
  BY <1>2, <1>3

\* However late scripts run, how many answers are lost and which processes ask,
\* the window log grants no more times than the limit in a window less the lag,
\* for a limit of one no more than one request, in the whole window if no script is
\* later than a second; and the bucket no more requests than twice what it holds.
THEOREM LimitIsGlobal ==
    ASSUME LimiterAssumption
    PROVE  Limiter!Spec => []Limiter!WindowRespected
<1>1. Limiter!Init => IInv
  BY LimiterInit
<1>2. IInv /\ [Limiter!Next]_(Limiter!vars) => IInv'
  BY LimiterNext
<1>3. IInv => Limiter!WindowRespected
  BY IInvRespects
<1> QED
  BY <1>1, <1>2, <1>3, PTL DEF Limiter!Spec
=============================================================================
