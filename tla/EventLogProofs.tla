---------------------------- MODULE EventLogProofs ----------------------------
(* The event log says what the handlers were told, for any types of events   *)
(* and any number of events, publications, failures and restarts.            *)
EXTENDS EventLog, WellFoundedInduction, TLAPS

\* No event has the name that stands for subscribe_all, and the bounds are numbers.
LogAssumption ==
    /\ All \notin Published
    /\ MaxEvents \in Nat /\ MaxPublications \in Nat
    /\ MaxFailures \in Nat /\ MaxRestarts \in Nat

-----------------------------------------------------------------------------
(* Positions and sequences.                                                  *)

\* A set of numbers has a least one.
LEMMA LeastOf ==
    ASSUME NEW S, S \subseteq Nat, S /= {}
    PROVE  \E m \in S : \A k \in S : m <= k
<1> DEFINE R == OpToRel(<, Nat)
<1>1. IsWellFoundedOn(R, Nat)
  BY NatLessThanWellFounded
<1>2. \A x, y \in Nat : x < y => <<x, y>> \in R
  BY DEF OpToRel
<1> HIDE DEF R
<1>3. PICK m \in S : \A k \in S : ~(<<k, m>> \in R)
  BY <1>1, WFMin, Zenon
<1>4. ASSUME NEW k \in S PROVE m <= k
  <2>1. k \in Nat /\ m \in Nat
    OBVIOUS
  <2>2. ~(k < m)
    BY <1>2, <1>3, <2>1
  <2> QED
    BY <2>1, <2>2
<1> QED
  BY <1>4

\* A set of positions has a last one.
LEMMA LastOf ==
    ASSUME NEW n \in Nat, NEW S, S \subseteq 1 .. n, S /= {}
    PROVE  \E m \in S : \A k \in S : k <= m
<1> DEFINE T == {n - i : i \in S}
<1>a. \A i \in S : i \in Int /\ 1 <= i /\ i <= n
  OBVIOUS
<1>1. T \subseteq Nat /\ T /= {}
  <2>1. \A i \in S : n - i \in Nat
    BY <1>a
  <2> QED
    BY <2>1
<1>2. PICK d \in T : \A e \in T : d <= e
  BY <1>1, LeastOf
<1>3. PICK m \in S : d = n - m
  OBVIOUS
<1>4. ASSUME NEW k \in S PROVE k <= m
  <2>1. d <= n - k
    BY <1>2
  <2>2. k \in Int /\ m \in Int /\ n \in Int
    BY <1>a
  <2> QED
    BY <1>3, <2>1, <2>2
<1> QED
  BY <1>4

\* What a sequence is without its first element.
LEMMA TailOf ==
    ASSUME NEW S, NEW q \in Seq(S), q /= <<>>
    PROVE  /\ Head(q) = q[1] /\ 1 \in DOMAIN q /\ Head(q) \in S
           /\ Tail(q) \in Seq(S) /\ Len(Tail(q)) = Len(q) - 1 /\ Len(q) \in Nat
           /\ \A i \in DOMAIN Tail(q) : i + 1 \in DOMAIN q /\ Tail(q)[i] = q[i + 1]
OBVIOUS

\* What a sequence is with one more element.
LEMMA AppendOf ==
    ASSUME NEW S, NEW q \in Seq(S), NEW x \in S
    PROVE  /\ Append(q, x) \in Seq(S) /\ Len(Append(q, x)) = Len(q) + 1 /\ Len(q) \in Nat
           /\ \A i \in DOMAIN q : i \in DOMAIN Append(q, x) /\ Append(q, x)[i] = q[i]
           /\ Append(q, x)[Len(q) + 1] = x
OBVIOUS

\* A sequence over a set is one over a larger set.
LEMMA SeqWiden ==
    ASSUME NEW S, NEW T, S \subseteq T, NEW q \in Seq(S)
    PROVE  q \in Seq(T)
OBVIOUS

-----------------------------------------------------------------------------

\* The rows that were inserted but whose commit has not run: the commits that
\* wait are theirs, in their order.
Uncommitted == Len(rows) - base - Len(handled)

CommitsOf(f) ==
    /\ \A i, j \in 1 .. Uncommitted : i < j => f[i] < f[j]
    /\ \A k \in DOMAIN requests :
           requests[k].op = "commit" <=> \E i \in 1 .. Uncommitted : f[i] = k
    /\ \A i \in 1 .. Uncommitted : rows[base + Len(handled) + i] = requests[f[i]].event

\* While nothing went wrong the recorder has heard the rows of this run one
\* after the other, all of them committed.
InStep ==
    /\ subscribed = {All}
    /\ base + Len(handled) <= committed
    /\ \A i \in DOMAIN handled : rows[base + i] = handled[i]
    /\ \E f \in [1 .. Uncommitted -> DOMAIN requests] : CommitsOf(f)

ReplayInv == TypeOK /\ (regular => InStep)

-----------------------------------------------------------------------------
(* Types.                                                                    *)

\* A new event has an id that no event had.
LEMMA CreateTypes ==
    ASSUME LogAssumption, TypeOK, NEW type \in Published, Create(type)
    PROVE  TypeOK'
<1> DEFINE ids == {e.id : e \in made \union ToSet(rows)}
           S == {0} \union ids
           id == 1 + Max(S)
<1>a. /\ made \subseteq Events /\ rows \in Seq(Events) /\ MaxEvents \in Nat
      /\ requests \in Seq([op : {"insert", "commit"}, event : made])
  BY DEF TypeOK, LogAssumption
<1>b. /\ id <= MaxEvents /\ made' = made \union {[id |-> id, type |-> type]}
      /\ UNCHANGED <<requests, rows, committed, subscribed, handled, base, regular, spent>>
  BY DEF Create
<1>1. \A e \in made \union ToSet(rows) : e \in Events
  BY <1>a DEF ToSet
<1>2. ids \subseteq 1 .. MaxEvents
  BY <1>1 DEF Events
<1>3. Max(S) \in S /\ \A x \in S : Max(S) >= x
  <2> HIDE DEF ids
  <2>1. PICK m \in S : \A x \in S : m >= x
    <3>1. CASE ids = {}
      BY <3>1
    <3>2. CASE ids /= {}
      <4>1. PICK m \in ids : \A x \in ids : x <= m
        BY <1>a, <1>2, <3>2, LastOf
      <4>2. m \in Nat /\ \A x \in ids : x \in Nat
        BY <1>2, <4>1
      <4> QED
        BY <4>1, <4>2
    <3> QED
      BY <3>1, <3>2
  <2> HIDE DEF S
  <2> QED
    BY <2>1 DEF Max
<1>4. Max(S) \in Nat
  BY <1>2, <1>3
<1> HIDE DEF id, S
<1>5. [id |-> id, type |-> type] \in Events
  <2>1. id \in 1 .. MaxEvents
    BY <1>a, <1>b, <1>4 DEF id
  <2> QED
    BY <2>1 DEF Events
<1>6. made' \subseteq Events
  BY <1>a, <1>b, <1>5
<1>7. requests' \in Seq([op : {"insert", "commit"}, event : made'])
  <2> DEFINE R == [op : {"insert", "commit"}, event : made]
             T == [op : {"insert", "commit"}, event : made']
  <2>1. R \subseteq T
    BY <1>b
  <2>2. requests' \in Seq(R)
    BY <1>a, <1>b
  <2> HIDE DEF R, T
  <2>3. requests' \in Seq(T)
    BY <2>1, <2>2, SeqWiden
  <2> QED
    BY <2>3 DEF T
<1> QED
  BY <1>b, <1>6, <1>7 DEF TypeOK

Requests == [op : {"insert", "commit"}, event : made]

Spending == [publications : 0 .. MaxPublications, failures : 0 .. MaxFailures,
             restarts : 0 .. MaxRestarts]

\* What is below its bound may be spent.
LEMMA SpentType ==
    ASSUME LogAssumption, TypeOK
    PROVE  /\ spent.publications < MaxPublications
                  => [spent EXCEPT !.publications = @ + 1] \in Spending
           /\ spent.failures < MaxFailures => [spent EXCEPT !.failures = @ + 1] \in Spending
           /\ spent.restarts < MaxRestarts => [spent EXCEPT !.restarts = @ + 1] \in Spending
<1>1. spent \in Spending
  BY DEF TypeOK, Spending
<1>2. /\ MaxPublications \in Nat /\ MaxFailures \in Nat /\ MaxRestarts \in Nat
  BY DEF LogAssumption
<1>3. /\ spent.publications < MaxPublications => spent.publications + 1 \in 0 .. MaxPublications
      /\ spent.failures < MaxFailures => spent.failures + 1 \in 0 .. MaxFailures
      /\ spent.restarts < MaxRestarts => spent.restarts + 1 \in 0 .. MaxRestarts
  BY <1>1, <1>2 DEF Spending
<1> QED
  BY <1>1, <1>3 DEF Spending

\* A publication that queues its insert keeps the types.
LEMMA PublishTypes ==
    ASSUME LogAssumption, TypeOK, NEW e \in made, Publish(e)
    PROVE  TypeOK'
<1>1. requests' \in Seq(Requests)
  BY DEF Publish, TypeOK, Requests
<1>2. spent' \in Spending
  BY SpentType DEF Publish
<1> QED
  BY <1>1, <1>2 DEF Publish, TypeOK, Requests, Spending

\* What the handlers are called with.
LEMMA CallTypes ==
    ASSUME TypeOK, NEW e \in Events, Call(e)
    PROVE  handled' \in Seq(Events)
<1> DEFINE a == IF e.type \in subscribed THEN <<e>> ELSE <<>>
           b == IF All \in subscribed THEN <<e>> ELSE <<>>
<1>1. a \in Seq(Events) /\ b \in Seq(Events)
  OBVIOUS
<1>2. handled' = (handled \o a) \o b
  BY DEF Call
<1> HIDE DEF a, b
<1> QED
  BY <1>1, <1>2 DEF TypeOK

\* The first request is one, of an event of this run.
LEMMA HeadIs ==
    ASSUME TypeOK, requests /= <<>>
    PROVE  /\ Head(requests) \in Requests
           /\ Head(requests).event \in made /\ Head(requests).event \in Events
           /\ Tail(requests) \in Seq(Requests)
<1>1. requests \in Seq(Requests) /\ made \subseteq Events
  BY DEF TypeOK, Requests
<1>2. Head(requests) \in Requests /\ Tail(requests) \in Seq(Requests)
  BY <1>1
<1> QED
  BY <1>1, <1>2 DEF Requests

\* A publication that is refused keeps the types, and the run is not regular
\* any more.
LEMMA RefusedTypes ==
    ASSUME TypeOK, requests /= <<>>, Refused(Head(requests).event),
           UNCHANGED <<made, subscribed, base>>,
           spent' \in Spending
    PROVE  TypeOK' /\ regular' = FALSE
<1>1. handled' \in Seq(Events)
  BY HeadIs, CallTypes DEF Refused
<1>2. requests' \in Seq(Requests)
  BY HeadIs DEF Refused
<1> QED
  BY <1>1, <1>2 DEF Refused, TypeOK, Requests, Spending

\* An insert appends a row of the right type.
LEMMA InsertTypes ==
    ASSUME TypeOK, requests /= <<>>, Insert(Head(requests).event),
           UNCHANGED <<made, subscribed, base, regular, spent>>
    PROVE  TypeOK'
<1> DEFINE e == Head(requests).event
<1>a. e \in made /\ e \in Events /\ Tail(requests) \in Seq(Requests)
  BY HeadIs
<1>b. /\ rows' = Append(rows, e)
      /\ requests' = Append(Tail(requests), [op |-> "commit", event |-> e])
      /\ UNCHANGED <<committed, handled>>
  BY DEF Insert
<1> HIDE DEF e
<1>1. requests' \in Seq(Requests)
  <2>1. [op |-> "commit", event |-> e] \in Requests
    BY <1>a DEF Requests
  <2> QED
    BY <1>a, <1>b, <2>1, AppendOf
<1>2. rows' \in Seq(Events) /\ Len(rows') = Len(rows) + 1 /\ Len(rows) \in Nat
  BY <1>a, <1>b, AppendOf DEF TypeOK
<1>3. committed' \in 0 .. Len(rows')
  BY <1>b, <1>2 DEF TypeOK
<1> QED
  BY <1>b, <1>1, <1>2, <1>3 DEF TypeOK, Requests

\* A commit commits rows there are.
LEMMA CommitTypes ==
    ASSUME TypeOK, requests /= <<>>, Commit(Head(requests).event),
           UNCHANGED <<made, subscribed, base, regular, spent>>
    PROVE  TypeOK'
<1>1. handled' \in Seq(Events)
  BY HeadIs, CallTypes DEF Commit
<1>2. requests' \in Seq(Requests)
  BY HeadIs DEF Commit
<1>3. committed' \in 0 .. Len(rows') /\ base' \in 0 .. committed'
  BY DEF Commit, TypeOK
<1> QED
  BY <1>1, <1>2, <1>3 DEF Commit, TypeOK, Requests

\* What a new run finds are rows.
LEMMA RestartTypes ==
    ASSUME LogAssumption, TypeOK, Restart
    PROVE  /\ TypeOK'
           /\ Len(rows') = committed
<1>1. rows \in Seq(Events) /\ committed \in 0 .. Len(rows) /\ Len(rows) \in Nat
  BY DEF TypeOK
<1>2. rows' \in Seq(Events) /\ Len(rows') = committed
  <2>1. rows' = SubSeq(rows, 1, committed)
    BY DEF Restart
  <2> QED
    BY <1>1, <2>1
<1>3. spent' \in Spending
  BY SpentType DEF Restart
<1>4. committed' \in 0 .. Len(rows') /\ base' \in 0 .. committed'
  BY <1>1, <1>2 DEF Restart
<1>5. requests' \in Seq([op : {"insert", "commit"}, event : made'])
  BY DEF Restart
<1> QED
  BY <1>2, <1>3, <1>4, <1>5 DEF Restart, TypeOK, Spending

-----------------------------------------------------------------------------
(* The recorder and the log.                                                 *)

\* What is known of the commits that wait.
LEMMA CommitsAre ==
    ASSUME TypeOK, InStep,
           NEW f \in [1 .. Uncommitted -> DOMAIN requests], CommitsOf(f)
    PROVE  /\ Uncommitted \in Nat /\ Len(rows) \in Nat /\ base \in Nat /\ Len(handled) \in Nat
           /\ Len(requests) \in Nat /\ DOMAIN requests = 1 .. Len(requests)
           /\ Len(rows) = base + Len(handled) + Uncommitted
           /\ DOMAIN handled = 1 .. Len(handled) /\ DOMAIN rows = 1 .. Len(rows)
           /\ \A i \in 1 .. Uncommitted : f[i] \in 1 .. Len(requests)
<1>1. /\ Len(rows) \in Nat /\ base \in Nat /\ Len(handled) \in Nat /\ Len(requests) \in Nat
      /\ committed \in Nat /\ committed <= Len(rows) /\ base + Len(handled) <= committed
  BY DEF TypeOK, InStep
<1>2. /\ DOMAIN requests = 1 .. Len(requests)
      /\ DOMAIN handled = 1 .. Len(handled) /\ DOMAIN rows = 1 .. Len(rows)
  BY DEF TypeOK
<1>3. Uncommitted \in Nat /\ Len(rows) = base + Len(handled) + Uncommitted
  BY <1>1 DEF Uncommitted
<1> QED
  BY <1>1, <1>2, <1>3

\* A request to insert joins: the commits stay where they are.
LEMMA PublishInStep ==
    ASSUME TypeOK, InStep, NEW e \in made, Publish(e)
    PROVE  InStep'
<1>a. PICK f \in [1 .. Uncommitted -> DOMAIN requests] : CommitsOf(f)
  BY DEF InStep
<1>b. /\ requests' = Append(requests, [op |-> "insert", event |-> e])
      /\ UNCHANGED <<made, rows, committed, subscribed, handled, base>>
  BY DEF Publish
<1>1. /\ requests \in Seq(Requests) /\ Len(requests) \in Nat
      /\ DOMAIN requests = 1 .. Len(requests)
      /\ Len(requests') = Len(requests) + 1 /\ DOMAIN requests' = 1 .. Len(requests) + 1
      /\ \A k \in DOMAIN requests : requests'[k] = requests[k]
      /\ requests'[Len(requests) + 1].op = "insert"
  <2>1. requests \in Seq(Requests) /\ [op |-> "insert", event |-> e] \in Requests
    BY DEF TypeOK, Requests
  <2> QED
    BY <1>b, <2>1
<1>2. Uncommitted' = Uncommitted
  BY <1>b DEF Uncommitted
<1>3. f \in [1 .. Uncommitted -> DOMAIN requests']
  BY <1>1
<1>4. \A k \in DOMAIN requests' :
          requests'[k].op = "commit" <=> \E i \in 1 .. Uncommitted : f[i] = k
  <2> SUFFICES ASSUME NEW k \in DOMAIN requests'
               PROVE  requests'[k].op = "commit" <=> \E i \in 1 .. Uncommitted : f[i] = k
    OBVIOUS
  <2>1. CASE k \in DOMAIN requests
    BY <1>a, <1>1, <2>1 DEF CommitsOf
  <2>2. CASE k = Len(requests) + 1
    <3>1. k \notin DOMAIN requests
      BY <1>1, <2>2
    <3> QED
      BY <1>1, <2>2, <3>1
  <2> QED
    BY <1>1, <2>1, <2>2
<1>5. \A i \in 1 .. Uncommitted : rows[base + Len(handled) + i] = requests'[f[i]].event
  BY <1>a, <1>1 DEF CommitsOf
<1>6. \A i, j \in 1 .. Uncommitted : i < j => f[i] < f[j]
  BY <1>a DEF CommitsOf
<1>7. CommitsOf(f)'
  BY <1>b, <1>2, <1>4, <1>5, <1>6 DEF CommitsOf
<1> QED
  BY <1>b, <1>2, <1>3, <1>7 DEF InStep

\* An insert is done and its commit waits behind the others.
LEMMA InsertInStep ==
    ASSUME TypeOK, InStep, requests /= <<>>, Head(requests).op = "insert",
           Insert(Head(requests).event), UNCHANGED <<made, subscribed, base>>
    PROVE  InStep'
<1> DEFINE e == Head(requests).event
           n == Uncommitted
           l == Len(requests)
<1>a. PICK f \in [1 .. n -> DOMAIN requests] : CommitsOf(f)
  BY DEF InStep
<1>b. /\ rows' = Append(rows, e)
      /\ requests' = Append(Tail(requests), [op |-> "commit", event |-> e])
      /\ UNCHANGED <<committed, handled, subscribed, base>>
  BY DEF Insert
<1>c. /\ n \in Nat /\ Len(rows) \in Nat /\ base \in Nat /\ Len(handled) \in Nat
      /\ l \in Nat /\ DOMAIN requests = 1 .. l
      /\ Len(rows) = base + Len(handled) + n
      /\ DOMAIN handled = 1 .. Len(handled) /\ DOMAIN rows = 1 .. Len(rows)
      /\ \A i \in 1 .. n : f[i] \in 1 .. l
  BY <1>a, CommitsAre
<1>d. e \in made /\ e \in Events /\ Tail(requests) \in Seq(Requests) /\ requests \in Seq(Requests)
  BY HeadIs DEF TypeOK, Requests
<1>e. /\ \A i, j \in 1 .. n : i < j => f[i] < f[j]
      /\ \A k \in 1 .. l : requests[k].op = "commit" <=> \E i \in 1 .. n : f[i] = k
      /\ \A i \in 1 .. n : rows[base + Len(handled) + i] = requests[f[i]].event
  BY <1>a, <1>c DEF CommitsOf
<1>1. /\ 1 <= l /\ requests[1].op = "insert"
      /\ Len(Tail(requests)) = l - 1
      /\ \A k \in 1 .. l - 1 : Tail(requests)[k] = requests[k + 1]
  BY <1>c, <1>d, TailOf
<1>2. /\ Len(requests') = l /\ DOMAIN requests' = 1 .. l
      /\ \A k \in 1 .. l - 1 : requests'[k] = requests[k + 1]
      /\ requests'[l].op = "commit" /\ requests'[l].event = e
  <2>1. [op |-> "commit", event |-> e] \in Requests
    BY <1>d DEF Requests
  <2>2. (l - 1) + 1 = l
    BY <1>c
  <2>3. /\ requests' \in Seq(Requests) /\ Len(requests') = l
        /\ \A k \in DOMAIN Tail(requests) : requests'[k] = Tail(requests)[k]
        /\ requests'[l] = [op |-> "commit", event |-> e]
    BY <1>b, <1>d, <1>1, <2>1, <2>2, AppendOf
  <2>4. DOMAIN Tail(requests) = 1 .. l - 1
    BY <1>d, <1>1
  <2> QED
    BY <1>1, <2>3, <2>4
<1>3. /\ Len(rows') = Len(rows) + 1
      /\ \A i \in 1 .. Len(rows) : rows'[i] = rows[i]
      /\ rows'[Len(rows) + 1] = e
  <2>1. rows \in Seq(Events)
    BY DEF TypeOK
  <2> QED
    BY <1>b, <1>c, <1>d, <2>1, AppendOf
<1>4. Uncommitted' = n + 1
  BY <1>b, <1>c, <1>3 DEF Uncommitted
<1> HIDE DEF e, n, l
\* No commit is the first request.
<1>5. \A i \in 1 .. n : f[i] \in 2 .. l
  <2> SUFFICES ASSUME NEW i \in 1 .. n PROVE f[i] \in 2 .. l
    OBVIOUS
  <2>1. f[i] \in 1 .. l
    BY <1>c
  <2>2. requests[f[i]].op = "commit"
    BY <1>e, <2>1
  <2>3. f[i] /= 1
    BY <1>1, <2>2
  <2> QED
    BY <1>c, <2>1, <2>3
<1>6. PICK g : g = [i \in 1 .. n + 1 |-> IF i = n + 1 THEN l ELSE f[i] - 1]
  OBVIOUS
<1>7. /\ \A i \in 1 .. n : i \in 1 .. n + 1 /\ i /= n + 1 /\ g[i] = f[i] - 1 /\ g[i] \in 1 .. l - 1
      /\ n + 1 \in 1 .. n + 1 /\ g[n + 1] = l
      /\ \A i \in 1 .. n + 1 : i \in 1 .. n \/ i = n + 1
  BY <1>c, <1>5, <1>6
<1>8. g \in [1 .. n + 1 -> 1 .. l]
  <2>1. \A i \in 1 .. n + 1 : g[i] \in 1 .. l
    BY <1>c, <1>1, <1>7
  <2> QED
    BY <1>6, <2>1
<1>9. \A i, j \in 1 .. n + 1 : i < j => g[i] < g[j]
  <2> SUFFICES ASSUME NEW i \in 1 .. n + 1, NEW j \in 1 .. n + 1, i < j PROVE g[i] < g[j]
    OBVIOUS
  <2>n. n \in Nat
    BY <1>c
  <2>1. i \in 1 .. n
    BY <2>n
  <2>2. CASE j = n + 1
    BY <1>c, <1>7, <2>1, <2>2
  <2>3. CASE j \in 1 .. n
    <3>1. f[i] < f[j] /\ f[i] \in Int /\ f[j] \in Int
      BY <1>c, <1>e, <2>1, <2>3
    <3> QED
      BY <1>7, <2>1, <2>3, <3>1
  <2> QED
    BY <1>7, <2>2, <2>3
<1>10. \A k \in 1 .. l : requests'[k].op = "commit" <=> \E i \in 1 .. n + 1 : g[i] = k
  <2> SUFFICES ASSUME NEW k \in 1 .. l
               PROVE  requests'[k].op = "commit" <=> \E i \in 1 .. n + 1 : g[i] = k
    OBVIOUS
  <2>1. CASE k = l
    BY <1>2, <1>7, <2>1
  <2>2. CASE k /= l
    <3>1. k \in 1 .. l - 1 /\ k + 1 \in 1 .. l /\ k \in Int
      BY <1>c, <2>2
    <3>2. requests'[k].op = "commit" <=> \E i \in 1 .. n : f[i] = k + 1
      BY <1>2, <1>e, <3>1
    <3>3. \A i \in 1 .. n : g[i] = k <=> f[i] = k + 1
      BY <1>5, <1>7, <3>1
    <3>4. g[n + 1] /= k
      BY <1>7, <2>2
    <3> QED
      BY <1>7, <3>2, <3>3, <3>4
  <2> QED
    BY <2>1, <2>2
<1>11. \A i \in 1 .. n + 1 : rows'[base + Len(handled) + i] = requests'[g[i]].event
  <2> SUFFICES ASSUME NEW i \in 1 .. n + 1
               PROVE  rows'[base + Len(handled) + i] = requests'[g[i]].event
    OBVIOUS
  <2>1. CASE i = n + 1
    <3>1. base + Len(handled) + i = Len(rows) + 1
      BY <1>c, <2>1
    <3> QED
      BY <1>2, <1>3, <1>7, <2>1, <3>1
  <2>2. CASE i \in 1 .. n
    <3>1. base + Len(handled) + i \in 1 .. Len(rows)
      BY <1>c, <2>2
    <3>2. rows'[base + Len(handled) + i] = requests[f[i]].event
      BY <1>3, <1>e, <2>2, <3>1
    <3>3. requests'[g[i]] = requests[g[i] + 1] /\ g[i] + 1 = f[i]
      BY <1>2, <1>5, <1>7, <2>2
    <3> QED
      BY <3>2, <3>3
  <2> QED
    BY <1>7, <2>1, <2>2
<1>12. CommitsOf(g)'
  <2>1. \A i, j \in 1 .. Uncommitted' : i < j => g[i] < g[j]
    BY <1>4, <1>9
  <2>2. \A k \in DOMAIN requests' :
            requests'[k].op = "commit" <=> \E i \in 1 .. Uncommitted' : g[i] = k
    BY <1>2, <1>4, <1>10
  <2>3. \A i \in 1 .. Uncommitted' : rows'[base' + Len(handled') + i] = requests'[g[i]].event
    BY <1>b, <1>4, <1>11
  <2> QED
    BY <2>1, <2>2, <2>3 DEF CommitsOf
<1>13. \A i \in DOMAIN handled : rows'[base + i] = handled[i]
  <2> SUFFICES ASSUME NEW i \in DOMAIN handled PROVE rows'[base + i] = handled[i]
    OBVIOUS
  <2>1. i \in 1 .. Len(handled)
    BY <1>c
  <2>2. base + i \in 1 .. Len(rows)
    BY <1>c, <2>1
  <2>3. rows[base + i] = handled[i]
    BY DEF InStep
  <2> QED
    BY <1>3, <2>2, <2>3
<1> QED
  BY <1>b, <1>2, <1>4, <1>8, <1>12, <1>13 DEF InStep

\* A commit is the commit of the oldest row nobody was told of, and now the
\* recorder is told, once.
LEMMA CommitInStep ==
    ASSUME LogAssumption, TypeOK, InStep, requests /= <<>>, Head(requests).op = "commit",
           Commit(Head(requests).event), UNCHANGED <<made, subscribed, base>>
    PROVE  InStep'
<1> DEFINE e == Head(requests).event
           n == Uncommitted
           l == Len(requests)
           h == Len(handled)
<1>a. PICK f \in [1 .. n -> DOMAIN requests] : CommitsOf(f)
  BY DEF InStep
<1>b. /\ committed' = Len(rows) /\ requests' = Tail(requests)
      /\ UNCHANGED <<rows, subscribed, base>>
  BY DEF Commit
<1>c. /\ n \in Nat /\ Len(rows) \in Nat /\ base \in Nat /\ h \in Nat
      /\ l \in Nat /\ DOMAIN requests = 1 .. l
      /\ Len(rows) = base + h + n
      /\ DOMAIN handled = 1 .. h /\ DOMAIN rows = 1 .. Len(rows)
      /\ \A i \in 1 .. n : f[i] \in 1 .. l
  BY <1>a, CommitsAre
<1>d. e \in made /\ e \in Events /\ Tail(requests) \in Seq(Requests) /\ requests \in Seq(Requests)
  BY HeadIs DEF TypeOK, Requests
<1>e. /\ \A i, j \in 1 .. n : i < j => f[i] < f[j]
      /\ \A k \in 1 .. l : requests[k].op = "commit" <=> \E i \in 1 .. n : f[i] = k
      /\ \A i \in 1 .. n : rows[base + h + i] = requests[f[i]].event
  BY <1>a, <1>c DEF CommitsOf
<1>1. /\ 1 <= l /\ requests[1].op = "commit" /\ requests[1].event = e
      /\ Len(requests') = l - 1 /\ DOMAIN requests' = 1 .. l - 1
      /\ \A k \in 1 .. l - 1 : requests'[k] = requests[k + 1]
  BY <1>b, <1>c, <1>d, TailOf
<1>2. /\ handled' = Append(handled, e) /\ Len(handled') = h + 1
      /\ DOMAIN handled' = 1 .. h + 1
      /\ \A i \in 1 .. h : handled'[i] = handled[i]
      /\ handled'[h + 1] = e
  <2>1. e.type /= All /\ subscribed = {All}
    BY <1>d DEF LogAssumption, Events, InStep
  <2>2. handled' = (handled \o <<>>) \o <<e>>
    BY <2>1 DEF Commit, Call
  <2>3. handled \in Seq(Events)
    BY DEF TypeOK
  <2>4. handled' = Append(handled, e)
    BY <1>d, <2>2, <2>3
  <2> QED
    BY <1>c, <1>d, <2>3, <2>4, AppendOf
<1> HIDE DEF e, n, l, h
\* The first request is the first of the commits.
<1>3. 1 \in 1 .. n /\ f[1] = 1
  <2>1. PICK i \in 1 .. n : f[i] = 1
    BY <1>c, <1>e, <1>1
  <2>2. i = 1
    <3> SUFFICES ASSUME i /= 1 PROVE FALSE
      OBVIOUS
    <3>1. 1 \in 1 .. n /\ 1 < i
      BY <1>c
    <3>2. f[1] < 1 /\ f[1] \in 1 .. l
      BY <1>c, <1>e, <2>1, <3>1
    <3> QED
      BY <1>c, <3>2
  <2> QED
    BY <2>1, <2>2
<1>4. rows[base + (h + 1)] = e
  <2>1. base + h + 1 = base + (h + 1)
    BY <1>c
  <2> QED
    BY <1>1, <1>3, <1>e, <2>1
<1>5. n - 1 \in Nat /\ Uncommitted' = n - 1
  <2>1. n >= 1
    BY <1>3, <1>c
  <2>2. Uncommitted' = Len(rows) - base - (h + 1)
    BY <1>b, <1>2 DEF Uncommitted
  <2> QED
    BY <1>c, <2>1, <2>2
<1>6. PICK g : g = [i \in 1 .. n - 1 |-> f[i + 1] - 1]
  OBVIOUS
<1>7. \A i \in 1 .. n - 1 : /\ i + 1 \in 1 .. n /\ i \in Int /\ 1 < i + 1
                            /\ f[i + 1] \in 2 .. l /\ g[i] = f[i + 1] - 1
  <2> SUFFICES ASSUME NEW i \in 1 .. n - 1
               PROVE  /\ i + 1 \in 1 .. n /\ i \in Int /\ 1 < i + 1
                      /\ f[i + 1] \in 2 .. l /\ g[i] = f[i + 1] - 1
    OBVIOUS
  <2>1. i + 1 \in 1 .. n /\ i \in Int /\ 1 < i + 1
    BY <1>c
  <2>2. f[1] < f[i + 1] /\ f[i + 1] \in 1 .. l
    BY <1>c, <1>e, <1>3, <2>1
  <2>3. f[i + 1] \in 2 .. l
    BY <1>c, <1>3, <2>2
  <2> QED
    BY <1>6, <2>1, <2>3
<1>8. g \in [1 .. n - 1 -> 1 .. l - 1]
  <2>1. \A i \in 1 .. n - 1 : g[i] \in 1 .. l - 1
    BY <1>c, <1>7
  <2> QED
    BY <1>6, <2>1
<1>9. ASSUME NEW i \in 1 .. n - 1, NEW j \in 1 .. n - 1, i < j PROVE g[i] < g[j]
  <2>1. i + 1 < j + 1
    BY <1>7, <1>9
  <2>2. f[i + 1] < f[j + 1]
    BY <1>e, <1>7, <2>1
  <2>3. f[i + 1] \in Int /\ f[j + 1] \in Int
    BY <1>c, <1>7
  <2> QED
    BY <1>7, <2>2, <2>3
<1>10. ASSUME NEW k \in 1 .. l - 1
       PROVE  requests'[k].op = "commit" <=> \E i \in 1 .. n - 1 : g[i] = k
  <2>1. k + 1 \in 1 .. l /\ k \in Int /\ k + 1 /= 1
    BY <1>c
  <2>2. requests'[k].op = "commit" <=> \E i \in 1 .. n : f[i] = k + 1
    BY <1>1, <1>e, <2>1
  <2>3. ASSUME NEW i \in 1 .. n, f[i] = k + 1 PROVE \E j \in 1 .. n - 1 : g[j] = k
    <3>1. i /= 1
      BY <1>3, <2>1, <2>3
    <3>2. i - 1 \in 1 .. n - 1 /\ (i - 1) + 1 = i
      BY <1>c, <3>1
    <3>3. g[i - 1] = k
      BY <1>7, <2>1, <2>3, <3>2
    <3> QED
      BY <3>2, <3>3
  <2>4. ASSUME NEW i \in 1 .. n - 1, g[i] = k PROVE \E j \in 1 .. n : f[j] = k + 1
    <3>1. i + 1 \in 1 .. n /\ f[i + 1] \in 2 .. l /\ g[i] = f[i + 1] - 1
      BY <1>7
    <3>2. f[i + 1] \in Int
      BY <1>c, <3>1
    <3>3. f[i + 1] = k + 1
      BY <2>1, <2>4, <3>1, <3>2
    <3> QED
      BY <3>1, <3>3
  <2> QED
    BY <2>2, <2>3, <2>4
<1>11. ASSUME NEW i \in 1 .. n - 1
       PROVE  rows[base + (h + 1) + i] = requests'[g[i]].event
  <2>1. base + (h + 1) + i = base + h + (i + 1)
    BY <1>c, <1>7
  <2>2. rows[base + h + (i + 1)] = requests[f[i + 1]].event
    BY <1>e, <1>7
  <2>3. g[i] \in 1 .. l - 1 /\ g[i] + 1 = f[i + 1]
    <3>1. f[i + 1] \in 2 .. l /\ g[i] = f[i + 1] - 1
      BY <1>7
    <3>2. f[i + 1] \in Int
      BY <1>c, <3>1
    <3>3. g[i] + 1 = f[i + 1]
      BY <3>1, <3>2
    <3> QED
      BY <1>8, <3>3
  <2> QED
    BY <1>1, <2>1, <2>2, <2>3
<1>12. CommitsOf(g)'
  BY <1>b, <1>1, <1>2, <1>5, <1>9, <1>10, <1>11 DEF CommitsOf
<1>13. base + (h + 1) <= Len(rows)
  BY <1>c, <1>5
<1>14. ASSUME NEW i \in 1 .. h + 1 PROVE rows[base + i] = handled'[i]
  <2>1. CASE i = h + 1
    BY <1>2, <1>4, <2>1
  <2>2. CASE i \in 1 .. h
    BY <1>2, <1>c, <2>2 DEF InStep
  <2> QED
    BY <1>c, <2>1, <2>2
<1> QED
  BY <1>b, <1>1, <1>2, <1>5, <1>8, <1>12, <1>13, <1>14 DEF InStep

\* A new start begins with what was committed.
LEMMA RestartInStep ==
    ASSUME LogAssumption, TypeOK, Restart
    PROVE  InStep'
<1>1. /\ subscribed' = {All} /\ handled' = <<>> /\ requests' = <<>>
      /\ base' = committed /\ committed' = committed /\ committed \in Nat
  BY DEF Restart, TypeOK
<1>2. Len(rows') = committed
  BY RestartTypes
<1>3. Uncommitted' = 0 /\ Len(handled') = 0 /\ DOMAIN handled' = {}
  <2>1. Len(handled') = 0 /\ DOMAIN handled' = {}
    BY <1>1
  <2>2. Uncommitted' = committed - committed - 0
    BY <1>1, <1>2, <2>1 DEF Uncommitted
  <2> QED
    BY <1>1, <2>1, <2>2
<1>4. PICK f : f = [i \in 1 .. 0 |-> 0]
  OBVIOUS
<1>5. f \in [1 .. 0 -> DOMAIN requests']
  BY <1>4
<1>6. CommitsOf(f)'
  BY <1>1, <1>3 DEF CommitsOf
<1>7. base' + Len(handled') <= committed'
  BY <1>1, <1>3
<1>8. (\E g \in [1 .. Uncommitted -> DOMAIN requests] : CommitsOf(g))'
  BY <1>3, <1>5, <1>6
<1> QED
  BY <1>1, <1>3, <1>7, <1>8 DEF InStep

-----------------------------------------------------------------------------

\* At first the log is empty and nothing was heard.
LEMMA ReplayInit ==
    ASSUME LogAssumption, Init
    PROVE  ReplayInv
<1>1. TypeOK
  BY DEF LogAssumption, Init, TypeOK
<1>2. Uncommitted = 0 /\ Len(handled) = 0 /\ DOMAIN handled = {}
  BY DEF Init, Uncommitted
<1>3. PICK f : f = [i \in 1 .. 0 |-> 0]
  OBVIOUS
<1>4. f \in [1 .. 0 -> DOMAIN requests] /\ CommitsOf(f)
  BY <1>2, <1>3 DEF CommitsOf, Init
<1>5. InStep
  <2>1. base + Len(handled) <= committed /\ subscribed = {All}
    BY <1>2 DEF Init
  <2>2. \E g \in [1 .. Uncommitted -> DOMAIN requests] : CommitsOf(g)
    BY <1>2, <1>4
  <2> QED
    BY <1>2, <2>1, <2>2 DEF InStep
<1> QED
  BY <1>1, <1>5 DEF ReplayInv

\* The connection takes its requests in order: the recorder stays in step.
LEMMA ServeStep ==
    ASSUME LogAssumption, ReplayInv, Serve
    PROVE  ReplayInv'
<1> DEFINE r == Head(requests)
<1>a. TypeOK /\ requests /= <<>> /\ UNCHANGED <<made, subscribed, base, spent>>
  BY DEF ReplayInv, Serve
<1>b. spent' \in Spending
  BY <1>a DEF TypeOK, Spending
<1>1. CASE r.op = "insert" /\ Insert(r.event) /\ UNCHANGED regular
  BY <1>a, <1>1, InsertTypes, InsertInStep DEF ReplayInv
<1>2. CASE Refused(r.event)
  BY <1>a, <1>b, <1>2, RefusedTypes DEF ReplayInv
<1>3. CASE r.op = "commit" /\ Commit(r.event) /\ UNCHANGED regular
  BY <1>a, <1>3, CommitTypes, CommitInStep DEF ReplayInv
<1> QED
  BY <1>1, <1>2, <1>3 DEF Serve

\* Every step keeps the recorder in step with the log.
LEMMA ReplayNext ==
    ASSUME LogAssumption, ReplayInv, [Next]_vars
    PROVE  ReplayInv'
<1>a. TypeOK
  BY DEF ReplayInv
<1>1. ASSUME NEW type \in Published, Create(type) PROVE ReplayInv'
  <2>1. UNCHANGED <<requests, rows, committed, subscribed, handled, base, regular>>
    BY <1>1 DEF Create
  <2>2. TypeOK'
    BY <1>a, <1>1, CreateTypes
  <2> QED
    BY <2>1, <2>2 DEF ReplayInv, InStep, CommitsOf, Uncommitted
<1>2. ASSUME NEW e \in made, Publish(e) PROVE ReplayInv'
  BY <1>a, <1>2, PublishTypes, PublishInStep DEF ReplayInv, Publish
<1>3. CASE Serve
  BY <1>3, ServeStep
<1>4. CASE Fail
  <2>1. spent' \in Spending
    BY <1>a, <1>4, SpentType DEF Fail
  <2> QED
    BY <1>a, <1>4, <2>1, RefusedTypes DEF Fail, ReplayInv
<1>5. ASSUME NEW what \in Subscribable, Subscribe(what) \/ Unsubscribe(what) PROVE ReplayInv'
  BY <1>a, <1>5 DEF Subscribe, Unsubscribe, TypeOK, ReplayInv
<1>6. CASE Restart
  BY <1>a, <1>6, RestartTypes, RestartInStep DEF ReplayInv
<1>7. CASE UNCHANGED vars
  <2>1. UNCHANGED <<requests, rows, committed, subscribed, handled, base, regular>>
    BY <1>7 DEF vars
  <2>2. TypeOK'
    BY <1>a, <1>7 DEF vars, TypeOK
  <2> QED
    BY <2>1, <2>2 DEF ReplayInv, InStep, CommitsOf, Uncommitted
<1> QED
  BY <1>1, <1>2, <1>3, <1>4, <1>5, <1>6, <1>7 DEF Next

\* The invariant holds of every reachable state.
LEMMA ReplayInvariant ==
    ASSUME LogAssumption
    PROVE  Spec => []ReplayInv
<1>1. Init => ReplayInv
  BY ReplayInit
<1>2. ReplayInv /\ [Next]_vars => ReplayInv'
  BY ReplayNext
<1> QED
  BY <1>1, <1>2, PTL DEF Spec

\* What stands where when one sequence follows another.
LEMMA OneBehindOther ==
    ASSUME NEW S, NEW s \in Seq(S), NEW t \in Seq(S)
    PROVE  /\ s \o t \in Seq(S) /\ Len(s \o t) = Len(s) + Len(t)
           /\ \A i \in 1 .. Len(s) : (s \o t)[i] = s[i]
           /\ \A i \in 1 .. Len(t) : (s \o t)[Len(s) + i] = t[i]
OBVIOUS

\* When nothing waits, the rows are those of the start and what the
\* recorder was told.
LEMMA StepAgrees ==
    ASSUME ReplayInv
    PROVE  ReplayAgrees
<1> SUFFICES ASSUME regular PROVE ReplayAgrees
  BY DEF ReplayAgrees
<1>a. TypeOK /\ InStep
  BY DEF ReplayInv
<1>b. PICK f \in [1 .. Uncommitted -> DOMAIN requests] : CommitsOf(f)
  BY <1>a DEF InStep
<1>c. /\ Uncommitted \in Nat /\ Len(rows) \in Nat /\ base \in Nat /\ Len(handled) \in Nat
      /\ Len(rows) = base + Len(handled) + Uncommitted
      /\ DOMAIN handled = 1 .. Len(handled) /\ DOMAIN rows = 1 .. Len(rows)
  BY <1>a, <1>b, CommitsAre
<1>d. /\ base + Len(handled) <= committed /\ committed \in Nat
      /\ \A i \in DOMAIN handled : rows[base + i] = handled[i]
  BY <1>a DEF InStep, TypeOK
<1>1. ASSUME NEW i \in DOMAIN handled PROVE \E k \in base + 1 .. committed : rows[k] = handled[i]
  <2>1. base + i \in base + 1 .. committed
    BY <1>c, <1>d
  <2> QED
    BY <1>d, <2>1
<1>2. ASSUME requests = <<>> PROVE GetEvents(0) = SubSeq(rows, 1, base) \o handled
  <2>1. Uncommitted = 0
    <3> SUFFICES ASSUME Uncommitted /= 0 PROVE FALSE
      OBVIOUS
    <3>1. 1 \in 1 .. Uncommitted
      BY <1>c
    <3>2. f[1] \in DOMAIN requests
      BY <1>b, <3>1
    <3> QED
      BY <1>2, <3>2
  <2>2. Len(rows) = base + Len(handled) /\ rows \in Seq(Events) /\ handled \in Seq(Events)
    BY <1>a, <1>c, <2>1 DEF TypeOK
  <2> DEFINE q == SubSeq(rows, 1, Len(rows))
             found == SubSeq(rows, 1, base)
             told == found \o handled
  <2>3. q \in Seq(Events) /\ Len(q) = Len(rows) /\ \A i \in 1 .. Len(rows) : q[i] = rows[i]
    BY <1>c, <2>2
  <2>4. found \in Seq(Events) /\ Len(found) = base /\ \A i \in 1 .. base : found[i] = rows[i]
    BY <1>c, <2>2
  <2> HIDE DEF q, found
  <2>5. /\ told \in Seq(Events) /\ Len(told) = base + Len(handled)
        /\ \A i \in 1 .. base : told[i] = found[i]
        /\ \A i \in 1 .. Len(handled) : told[base + i] = handled[i]
    <3>1. /\ told \in Seq(Events) /\ Len(told) = Len(found) + Len(handled)
          /\ \A i \in 1 .. Len(found) : told[i] = found[i]
          /\ \A i \in 1 .. Len(handled) : told[Len(found) + i] = handled[i]
      BY <2>2, <2>4, OneBehindOther
    <3> HIDE DEF told
    <3> QED
      BY <2>4, <3>1
  <2> HIDE DEF told
  <2>6. ASSUME NEW i \in 1 .. Len(rows) PROVE q[i] = told[i]
    <3>1. CASE i <= base
      BY <1>c, <2>3, <2>4, <2>5, <3>1
    <3>2. CASE i > base
      <4>1. i - base \in 1 .. Len(handled) /\ base + (i - base) = i
        BY <1>c, <2>2, <3>2
      <4> QED
        BY <1>c, <1>d, <2>3, <2>5, <4>1
    <3> QED
      BY <1>c, <3>1, <3>2
  <2>7. q = told
    BY <2>2, <2>3, <2>5, <2>6
  <2>8. GetEvents(0) = q
    <3>1. 0 + 1 = 1
      OBVIOUS
    <3> QED
      BY <3>1 DEF GetEvents, q
  <2> QED
    BY <2>7, <2>8, Zenon DEF told, found
<1> QED
  BY <1>1, <1>2 DEF ReplayAgrees

\* The log and its connection have their types: what is committed are rows, and
\* what a run found at its start is committed.
THEOREM EventLogTypeCorrect ==
    ASSUME LogAssumption
    PROVE  Spec => []TypeOK
<1>1. ReplayInv => TypeOK
  BY DEF ReplayInv
<1> QED
  BY <1>1, ReplayInvariant, PTL

\* While no append failed and the recorder was subscribed to everything once, what
\* it acted on is committed, and the analyses of the whole log say what it held at
\* the start of this run and the recorder was told since, although inserts and
\* commits of publications overlap.
THEOREM LogSaysWhatHandlersHeard ==
    ASSUME LogAssumption
    PROVE  Spec => []ReplayAgrees
<1>1. ReplayInv => ReplayAgrees
  BY StepAgrees
<1> QED
  BY <1>1, ReplayInvariant, PTL

=============================================================================
