------------------------- MODULE KiwoomSimulatorProofs -------------------------
(* Trading at a standing price never pays, for any stocks, prices and orders *)
(* of the simulator.                                                         *)
EXTENDS KiwoomSimulator, FiniteSetTheorems, WellFoundedInduction, TLAPS

-----------------------------------------------------------------------------
(* Sums over a finite set. MapThenSumSet adds the values up one by one, each *)
(* time the one it chooses.                                                  *)

Pick(T) == CHOOSE x \in T : TRUE

\* F[T] is the sum of v over T, for every T in D.
Adds(F, v, D) ==
    F = [T \in D |-> IF T = {} THEN 0 ELSE v[Pick(T)] + F[T \ {Pick(T)}]]

UpTo(S, n) == {T \in SUBSET S : Cardinality(T) <= n}

\* A set of numbers has a least one.
LEMMA LeastOf ==
    ASSUME NEW S, S \subseteq Nat, S /= {}
    PROVE  \E m \in S : \A k \in S : m <= k
<1> DEFINE R == OpToRel(<, Nat)
<1>1. IsWellFoundedOn(R, Nat)
  BY NatLessThanWellFounded
<1>2. \A x, y \in Nat : x < y => <<x, y>> \in R
  BY DEF OpToRel
<1> HIDE DEF R
<1>3. PICK m \in S : \A k \in S : ~(<<k, m>> \in R)
  BY <1>1, WFMin, Zenon
<1>4. ASSUME NEW k \in S PROVE m <= k
  <2>1. k \in Nat /\ m \in Nat
    OBVIOUS
  <2>2. ~(k < m)
    BY <1>2, <1>3, <2>1
  <2> QED
    BY <2>1, <2>2
<1> QED
  BY <1>4

\* What is left of a set when its choice is taken away.
LEMMA PickIs ==
    ASSUME NEW S, IsFiniteSet(S), NEW T \in SUBSET S
    PROVE  /\ IsFiniteSet(T) /\ Cardinality(T) \in Nat /\ Cardinality(T) <= Cardinality(S)
           /\ (Cardinality(T) = 0 <=> T = {})
           /\ T /= {} => /\ Pick(T) \in T /\ T \ {Pick(T)} \in SUBSET S
                         /\ Cardinality(T \ {Pick(T)}) = Cardinality(T) - 1
<1>1. IsFiniteSet(T) /\ Cardinality(T) <= Cardinality(S)
  BY FS_Subset
<1>2. Cardinality(T) \in Nat
  BY <1>1, FS_CardinalityType
<1>3. Cardinality(T) = 0 <=> T = {}
  BY <1>1, FS_EmptySet
<1>4. ASSUME T /= {} PROVE Pick(T) \in T
  BY <1>4 DEF Pick
<1>5. ASSUME T /= {} PROVE Cardinality(T \ {Pick(T)}) = Cardinality(T) - 1
  BY <1>1, <1>4, <1>5, FS_RemoveElement
<1> QED
  BY <1>1, <1>2, <1>3, <1>4, <1>5

\* The sums over the smaller sets give those over the larger ones.
LEMMA AddsMore ==
    ASSUME NEW S, IsFiniteSet(S), NEW v \in [S -> Int], NEW n \in Nat,
           NEW F \in [UpTo(S, n) -> Int], Adds(F, v, UpTo(S, n))
    PROVE  \E G \in [UpTo(S, n + 1) -> Int] : Adds(G, v, UpTo(S, n + 1))
<1> DEFINE D == UpTo(S, n)
           E == UpTo(S, n + 1)
           G == [T \in E |-> IF T = {} THEN 0 ELSE v[Pick(T)] + F[T \ {Pick(T)}]]
<1>1. ASSUME NEW T \in E, T /= {} PROVE T \ {Pick(T)} \in D /\ T \ {Pick(T)} \in E /\ Pick(T) \in S
  <2>1. T \in SUBSET S /\ Cardinality(T) <= n + 1
    BY DEF UpTo
  <2>2. /\ Cardinality(T) \in Nat /\ Pick(T) \in T /\ T \ {Pick(T)} \in SUBSET S
        /\ Cardinality(T \ {Pick(T)}) = Cardinality(T) - 1
    BY <1>1, <2>1, PickIs
  <2>3. Cardinality(T \ {Pick(T)}) <= n /\ Cardinality(T \ {Pick(T)}) <= n + 1
    BY <2>1, <2>2
  <2> QED
    BY <2>1, <2>2, <2>3 DEF UpTo
<1>2. \A T \in D : F[T] = IF T = {} THEN 0 ELSE v[Pick(T)] + F[T \ {Pick(T)}]
  BY DEF Adds
<1>3. D \subseteq E
  <2>1. \A T \in SUBSET S : Cardinality(T) \in Nat
    BY PickIs
  <2> QED
    BY <2>1 DEF UpTo
<1> HIDE DEF D, E
<1>4. \A T \in D : G[T] = F[T]
  BY <1>2, <1>3
<1>5. G \in [E -> Int]
  <2>1. ASSUME NEW T \in E PROVE G[T] \in Int
    <3>1. CASE T = {}
      BY <3>1
    <3>2. CASE T /= {}
      <4>1. v[Pick(T)] \in Int /\ F[T \ {Pick(T)}] \in Int
        BY <1>1, <3>2 DEF D
      <4> QED
        BY <3>2, <4>1
    <3> QED
      BY <3>1, <3>2
  <2> QED
    BY <2>1
<1>6. G = [T \in E |-> IF T = {} THEN 0 ELSE v[Pick(T)] + G[T \ {Pick(T)}]]
  <2>1. ASSUME NEW T \in E, T /= {} PROVE G[T \ {Pick(T)}] = F[T \ {Pick(T)}]
    BY <1>1, <1>4, <2>1
  <2> QED
    BY <2>1
<1> HIDE DEF G
<1> QED
  BY <1>5, <1>6 DEF Adds, E

\* So there are sums over all subsets of a finite set.
LEMMA SumsExist ==
    ASSUME NEW S, IsFiniteSet(S), NEW v \in [S -> Int]
    PROVE  \E F \in [SUBSET S -> Int] : Adds(F, v, SUBSET S)
<1> DEFINE Good(n) == \E F \in [UpTo(S, n) -> Int] : Adds(F, v, UpTo(S, n))
           Bad == {n \in Nat : ~Good(n)}
<1>1. Good(0)
  <2>1. \A T \in UpTo(S, 0) : T = {}
    <3>1. \A T \in SUBSET S : Cardinality(T) \in Nat /\ (Cardinality(T) = 0 <=> T = {})
      BY PickIs
    <3> QED
      BY <3>1 DEF UpTo
  <2>2. PICK F : F = [T \in UpTo(S, 0) |-> 0]
    OBVIOUS
  <2>3. F \in [UpTo(S, 0) -> Int]
    BY <2>2
  <2>4. Adds(F, v, UpTo(S, 0))
    BY <2>1, <2>2 DEF Adds
  <2> QED
    BY <2>3, <2>4
<1>2. ASSUME NEW n \in Nat, Good(n) PROVE Good(n + 1)
  BY <1>2, AddsMore
<1>3. Bad = {}
  <2> SUFFICES ASSUME Bad /= {} PROVE FALSE
    OBVIOUS
  <2>1. Bad \subseteq Nat
    OBVIOUS
  <2>2. PICK m \in Bad : \A k \in Bad : m <= k
    <3> HIDE DEF Bad
    <3> QED
      BY <2>1, LeastOf
  <2>3. m \in Nat /\ ~Good(m)
    OBVIOUS
  <2>4. m /= 0
    BY <1>1, <2>3
  <2>5. m - 1 \in Nat /\ (m - 1) + 1 = m /\ ~(m <= m - 1)
    BY <2>3, <2>4
  <2>6. Good(m - 1)
    BY <2>2, <2>5
  <2> HIDE DEF Good
  <2> QED
    BY <1>2, <2>3, <2>5, <2>6
<1>4. Cardinality(S) \in Nat /\ UpTo(S, Cardinality(S)) = SUBSET S
  <2>1. Cardinality(S) \in Nat
    BY FS_CardinalityType
  <2>2. \A T \in SUBSET S : Cardinality(T) <= Cardinality(S)
    BY PickIs
  <2> QED
    BY <2>1, <2>2 DEF UpTo
<1>5. Good(Cardinality(S))
  BY <1>3, <1>4
<1> QED
  BY <1>4, <1>5

\* Whatever adds up numbers is a number.
LEMMA SumsAreNumbers ==
    ASSUME NEW S, IsFiniteSet(S), NEW v \in [S -> Int], NEW F, Adds(F, v, SUBSET S)
    PROVE  F \in [SUBSET S -> Int]
<1> DEFINE Bad == {Cardinality(T) : T \in {U \in SUBSET S : F[U] \notin Int}}
<1>1. /\ F = [T \in SUBSET S |-> F[T]]
      /\ \A T \in SUBSET S : F[T] = IF T = {} THEN 0 ELSE v[Pick(T)] + F[T \ {Pick(T)}]
  BY DEF Adds
<1>2. Bad = {}
  <2> SUFFICES ASSUME Bad /= {} PROVE FALSE
    OBVIOUS
  <2>1. Bad \subseteq Nat
    <3>1. \A T \in SUBSET S : Cardinality(T) \in Nat
      BY PickIs
    <3> QED
      BY <3>1
  <2>2. PICK m \in Bad : \A k \in Bad : m <= k
    <3> HIDE DEF Bad
    <3> QED
      BY <2>1, LeastOf
  <2>3. PICK T \in SUBSET S : F[T] \notin Int /\ m = Cardinality(T)
    OBVIOUS
  <2>4. T /= {}
    <3>1. T = {} => F[T] = 0
      BY <1>1
    <3> QED
      BY <2>3, <3>1
  <2>5. /\ Pick(T) \in S /\ T \ {Pick(T)} \in SUBSET S /\ Cardinality(T) \in Nat
        /\ Cardinality(T \ {Pick(T)}) = Cardinality(T) - 1
    BY <2>4, PickIs
  <2>6. F[T] = v[Pick(T)] + F[T \ {Pick(T)}]
    BY <1>1, <2>4
  <2>7. F[T \ {Pick(T)}] \notin Int
    BY <2>3, <2>5, <2>6
  <2>8. Cardinality(T \ {Pick(T)}) \in Bad
    BY <2>5, <2>7
  <2>9. ~(m <= m - 1) /\ m \in Nat
    BY <2>3, <2>5
  <2> QED
    BY <2>2, <2>3, <2>5, <2>8, <2>9
<1>3. \A T \in SUBSET S : F[T] \in Int
  BY <1>2
<1> QED
  BY <1>1, <1>3

Elsewhere(v, w, S, x) == \A y \in S \ {x} : w[y] = v[y]
Changed(F, G, v, w, S, x) == G[S] = F[S] + (w[x] - v[x])

\* The sums change by what one value does.
LEMMA SumsDiffer ==
    ASSUME NEW S, IsFiniteSet(S), NEW v \in [S -> Int], NEW w \in [S -> Int],
           NEW F \in [SUBSET S -> Int], Adds(F, v, SUBSET S),
           NEW G \in [SUBSET S -> Int], Adds(G, w, SUBSET S),
           NEW x \in S, Elsewhere(v, w, S, x)
    PROVE  Changed(F, G, v, w, S, x)
<1> DEFINE d == w[x] - v[x]
           Right(T) == G[T] = F[T] + (IF x \in T THEN d ELSE 0)
           Bad == {Cardinality(T) : T \in {U \in SUBSET S : ~Right(U)}}
<1>a. d \in Int
  OBVIOUS
<1>b. \A T \in SUBSET S : /\ F[T] \in Int /\ G[T] \in Int
                          /\ F[T] = IF T = {} THEN 0 ELSE v[Pick(T)] + F[T \ {Pick(T)}]
                          /\ G[T] = IF T = {} THEN 0 ELSE w[Pick(T)] + G[T \ {Pick(T)}]
  BY DEF Adds
<1>1. ASSUME NEW T \in SUBSET S, T = {} PROVE Right(T)
  <2>1. F[T] = 0 /\ G[T] = 0
    BY <1>1, <1>b
  <2>2. x \notin T
    BY <1>1
  <2> HIDE DEF d
  <2>3. G[T] = F[T] + (IF x \in T THEN d ELSE 0)
    BY <2>1, <2>2
  <2> QED
    BY <2>3
<1>2. ASSUME NEW T \in SUBSET S, T /= {}, Right(T \ {Pick(T)}) PROVE Right(T)
  <2> DEFINE p == Pick(T)
             r == T \ {p}
  <2>1. p \in T /\ p \in S /\ r \in SUBSET S
    BY <1>2, PickIs
  <2>2. F[T] = v[p] + F[r] /\ G[T] = w[p] + G[r]
    BY <1>2, <1>b
  <2>3. G[r] = F[r] + (IF x \in r THEN d ELSE 0)
    BY <1>2
  <2>4. /\ F[r] \in Int /\ G[r] \in Int /\ v[p] \in Int /\ w[p] \in Int
    BY <1>b, <2>1
  <2> HIDE DEF p
  <2>5. CASE p = x
    <3>1. x \notin r /\ x \in T /\ w[p] = v[p] + d
      BY <2>1, <2>4, <2>5
    <3>2. G[r] = F[r]
      BY <2>3, <2>4, <3>1
    <3> HIDE DEF d, r
    <3> QED
      BY <1>a, <2>2, <2>4, <3>1, <3>2
  <2>6. CASE p /= x
    <3>1. w[p] = v[p] /\ (x \in r <=> x \in T)
      BY <2>1, <2>6 DEF Elsewhere
    <3> HIDE DEF d, r
    <3>2. G[T] = F[T] + (IF x \in T THEN d ELSE 0)
      BY <1>a, <2>2, <2>3, <2>4, <3>1
    <3> QED
      BY <3>2
  <2> QED
    BY <2>5, <2>6
<1>3. Bad = {}
  <2> SUFFICES ASSUME Bad /= {} PROVE FALSE
    OBVIOUS
  <2>1. Bad \subseteq Nat
    <3>1. \A T \in SUBSET S : Cardinality(T) \in Nat
      BY PickIs
    <3> HIDE DEF Right
    <3> QED
      BY <3>1
  <2>2. PICK m \in Bad : \A k \in Bad : m <= k
    <3> HIDE DEF Bad
    <3> QED
      BY <2>1, LeastOf
  <2>3. PICK T \in SUBSET S : ~Right(T) /\ m = Cardinality(T)
    OBVIOUS
  <2>4. T /= {}
    BY <1>1, <2>3
  <2>5. /\ T \ {Pick(T)} \in SUBSET S /\ Cardinality(T) \in Nat
        /\ Cardinality(T \ {Pick(T)}) = Cardinality(T) - 1
    BY <2>4, PickIs
  <2>6. ~Right(T \ {Pick(T)})
    BY <1>2, <2>3, <2>4
  <2>7. Cardinality(T \ {Pick(T)}) \in Bad
    BY <2>5, <2>6
  <2>8. ~(m <= m - 1) /\ m \in Nat
    BY <2>3, <2>5
  <2> QED
    BY <2>2, <2>3, <2>5, <2>7, <2>8
<1>4. Right(S)
  BY <1>3
<1> QED
  BY <1>4 DEF Changed

-----------------------------------------------------------------------------

\* The value of the shares is such a sum.
LEMMA ValueIs ==
    ASSUME IsFiniteSet(Stocks), NEW h \in [Stocks -> Int], NEW p \in [Stocks -> Int]
    PROVE  \E F \in [SUBSET Stocks -> Int] :
               /\ Adds(F, [s \in Stocks |-> h[s] * p[s]], SUBSET Stocks)
               /\ Value(h, p) = F[Stocks]
<1> DEFINE v == [s \in Stocks |-> h[s] * p[s]]
           D == SUBSET Stocks
           Sum(F) == F = [T \in D |-> IF T = {} THEN 0 ELSE h[Pick(T)] * p[Pick(T)] + F[T \ {Pick(T)}]]
           C == CHOOSE F : Sum(F)
<1>1. v \in [Stocks -> Int]
  OBVIOUS
<1>2. PICK F \in [SUBSET Stocks -> Int] : Adds(F, v, SUBSET Stocks)
  <2> HIDE DEF v
  <2> QED
    BY <1>1, SumsExist
<1>3. \A G : Adds(G, v, SUBSET Stocks) <=> Sum(G)
  <2> SUFFICES ASSUME NEW G PROVE Adds(G, v, SUBSET Stocks) <=> Sum(G)
    OBVIOUS
  <2>1. \A T \in D : T /= {} => Pick(T) \in Stocks
    BY DEF Pick
  <2>2. \A T \in D : T /= {} => v[Pick(T)] = h[Pick(T)] * p[Pick(T)]
    BY <2>1
  <2>3. [T \in D |-> IF T = {} THEN 0 ELSE v[Pick(T)] + G[T \ {Pick(T)}]]
        = [T \in D |-> IF T = {} THEN 0 ELSE h[Pick(T)] * p[Pick(T)] + G[T \ {Pick(T)}]]
    <3> HIDE DEF v
    <3> QED
      BY <2>2
  <2> QED
    BY <2>3 DEF Adds
<1>4. Value(h, p) = C[Stocks]
  BY DEF Value, MapThenSumSet, MapThenFoldSet, Pick
<1>5. Sum(C)
  <2>1. \E F1 : Sum(F1)
    BY <1>2, <1>3
  <2> HIDE DEF Sum
  <2> QED
    BY <2>1
<1>6. Adds(C, v, D)
  BY <1>3, <1>5
<1>7. C \in [SUBSET Stocks -> Int]
  <2> HIDE DEF v, C
  <2> QED
    BY <1>1, <1>6, SumsAreNumbers
<1> HIDE DEF C, Sum
<1> QED
  BY <1>4, <1>6, <1>7

\* Shares of a stock at its price are worth their number times the price, and
\* the other shares keep their value.
LEMMA ValueChanges ==
    ASSUME IsFiniteSet(Stocks), NEW p \in [Stocks -> Int],
           NEW h \in [Stocks -> Int], NEW s \in Stocks, NEW q \in Int
    PROVE  Value([h EXCEPT ![s] = @ + q], p) = Value(h, p) + q * p[s]
<1> DEFINE g == [h EXCEPT ![s] = @ + q]
           v == [t \in Stocks |-> h[t] * p[t]]
           w == [t \in Stocks |-> g[t] * p[t]]
<1>1. g \in [Stocks -> Int]
  OBVIOUS
<1>2. v \in [Stocks -> Int] /\ w \in [Stocks -> Int]
  <2>1. \A t \in Stocks : h[t] \in Int /\ p[t] \in Int /\ g[t] \in Int
    OBVIOUS
  <2> HIDE DEF g
  <2> QED
    BY <2>1
<1>3. Elsewhere(v, w, Stocks, s)
  BY DEF Elsewhere
<1>4. w[s] - v[s] = q * p[s]
  <2>1. w[s] = (h[s] + q) * p[s] /\ v[s] = h[s] * p[s]
    OBVIOUS
  <2>2. h[s] \in Int /\ p[s] \in Int
    OBVIOUS
  <2>3. (h[s] + q) * p[s] = h[s] * p[s] + q * p[s]
    BY <2>2
  <2>4. h[s] * p[s] \in Int /\ q * p[s] \in Int
    BY <2>2
  <2> QED
    BY <2>1, <2>3, <2>4
<1> HIDE DEF g
<1>5. PICK F \in [SUBSET Stocks -> Int] :
          Adds(F, v, SUBSET Stocks) /\ Value(h, p) = F[Stocks]
  BY ValueIs
<1>6. PICK G \in [SUBSET Stocks -> Int] :
          Adds(G, w, SUBSET Stocks) /\ Value(g, p) = G[Stocks]
  BY <1>1, ValueIs
<1> HIDE DEF v, w
<1>7. G[Stocks] = F[Stocks] + (w[s] - v[s])
  <2>1. /\ Adds(F, v, SUBSET Stocks) /\ Adds(G, w, SUBSET Stocks)
        /\ v \in [Stocks -> Int] /\ w \in [Stocks -> Int]
    BY <1>2, <1>5, <1>6
  <2>2. Changed(F, G, v, w, Stocks, s)
    BY <1>3, <2>1, SumsDiffer
  <2> QED
    BY <2>2 DEF Changed
<1> QED
  BY <1>4, <1>5, <1>6, <1>7 DEF g

-----------------------------------------------------------------------------
(* The types.                                                                *)

\* Orders are bought and sold in whole shares of the stocks there are, whose
\* prices are whole.
SimulatorAssumption ==
    /\ IsFiniteSet(Stocks)
    /\ Prices \subseteq Nat
    /\ \A o \in Orders : o.stock \in Stocks /\ o.quantity \in Nat
    /\ InitialBalance \in Int

\* The value of the shares is a number.
LEMMA ValueType ==
    ASSUME IsFiniteSet(Stocks), NEW h \in [Stocks -> Int], NEW p \in [Stocks -> Int]
    PROVE  Value(h, p) \in Int
<1>1. PICK F \in [SUBSET Stocks -> Int] : Value(h, p) = F[Stocks]
  BY ValueIs
<1>2. F[Stocks] \in Int
  OBVIOUS
<1> QED
  BY <1>1, <1>2

\* The shares and the prices are numbers.
LEMMA BookTyped ==
    ASSUME SimulatorAssumption, TypeOK
    PROVE  /\ IsFiniteSet(Stocks)
           /\ held \in [Stocks -> Int] /\ \A s \in Stocks : held[s] \in Nat
           /\ price \in [Stocks -> Int] /\ \A s \in Stocks : price[s] \in Nat
           /\ marked \in [Stocks -> Int]
<1>1. {0} \union Prices \subseteq Nat
  BY DEF SimulatorAssumption
<1>2. \A f \in [Stocks -> {0} \union Prices] : \A s \in Stocks : f[s] \in Nat
  BY <1>1
<1>3. \A f : (f \in [Stocks -> {0} \union Prices]) => f \in [Stocks -> Int]
  BY <1>1
<1>4. price \in [Stocks -> {0} \union Prices] /\ marked \in [Stocks -> {0} \union Prices]
  BY DEF TypeOK
<1>5. held \in [Stocks -> Int] /\ \A s \in Stocks : held[s] \in Nat
  BY DEF TypeOK
<1>6. price \in [Stocks -> Int] /\ marked \in [Stocks -> Int]
  BY <1>3, <1>4
<1>7. \A s \in Stocks : price[s] \in Nat
  BY <1>2, <1>4
<1> QED
  BY <1>5, <1>6, <1>7 DEF SimulatorAssumption

\* The quotes are numbers, and the price is between them.
LEMMA Quotes ==
    ASSUME NEW s, price[s] \in Nat
    PROVE  /\ Ask(s) \in Int /\ Bid(s) \in Int
           /\ Bid(s) <= price[s] /\ price[s] <= Ask(s)
<1>1. price[s] \div 1000 \in Int /\ price[s] \div 1000 >= 0
  OBVIOUS
<1> QED
  BY <1>1 DEF Ask, Bid

\* The account opens with its balance and no shares.
LEMMA InitTyped == ASSUME SimulatorAssumption, Init PROVE TypeOK
BY DEF SimulatorAssumption, Init, TypeOK, Errors

\* Quotes are numbers, and a buyer pays no less and a seller gets no more than
\* the price.
LEMMA OrderTyped ==
    ASSUME SimulatorAssumption, TypeOK, NEW o \in Orders
    PROVE  /\ o.stock \in Stocks /\ o.quantity \in Nat
           /\ price[o.stock] \in Nat /\ held[o.stock] \in Nat
           /\ FillPrice(o) \in Int /\ Balance \in Int
           /\ o.side = "BUY" => price[o.stock] <= FillPrice(o)
           /\ o.side = "SELL" => FillPrice(o) <= price[o.stock]
<1>1. o.stock \in Stocks /\ o.quantity \in Nat
  BY DEF SimulatorAssumption
<1>2. price[o.stock] \in Nat /\ held[o.stock] \in Nat /\ cash \in Int
  BY <1>1, BookTyped DEF TypeOK
<1>3. /\ Ask(o.stock) \in Int /\ Bid(o.stock) \in Int
      /\ Bid(o.stock) <= price[o.stock] /\ price[o.stock] <= Ask(o.stock)
  BY <1>2, Quotes
<1> QED
  BY <1>1, <1>2, <1>3 DEF FillPrice, Balance

\* The step of each operation keeps the types.
LEMMA NextTyped ==
    ASSUME SimulatorAssumption, TypeOK, [Next]_vars PROVE TypeOK'
<1> USE DEF TypeOK
<1>1. ASSUME NEW s \in Stocks, NEW p \in Prices, SetPrice(s, p) PROVE TypeOK'
  BY <1>1 DEF SetPrice
<1>2. ASSUME NEW e \in Errors, InjectError(e) PROVE TypeOK'
  BY <1>2 DEF InjectError
<1>3. ASSUME NEW o \in Orders, SubmitRaises(o) PROVE TypeOK'
  BY <1>3 DEF SubmitRaises, vars
<1>4. ASSUME NEW o \in Orders, Reject(o) PROVE TypeOK'
  <2>1. Balance \in Int
    BY OrderTyped
  <2> QED
    BY <1>4, <2>1 DEF Reject, Submittable, Errors
<1>5. ASSUME NEW o \in Orders, Rest(o) PROVE TypeOK'
  <2>1. Balance \in Int
    BY OrderTyped
  <2> QED
    BY <1>5, <2>1 DEF Rest, Submittable, Errors
<1>6. ASSUME NEW o \in Orders, Buy(o) PROVE TypeOK'
  <2>1. /\ Balance \in Int /\ FillPrice(o) \in Int /\ o.stock \in Stocks
        /\ o.quantity \in Nat /\ held[o.stock] \in Nat
    BY OrderTyped
  <2>2. Balance - FillPrice(o) * o.quantity \in Int
    BY <2>1
  <2>3. cash' \in Int
    BY <1>6, <2>2 DEF Buy
  <2>4. held' \in [Stocks -> Nat]
    BY <1>6, <2>1 DEF Buy
  <2>5. marked' \in [Stocks -> {0} \union Prices]
    BY <1>6, <2>1 DEF Buy
  <2> QED
    BY <1>6, <2>3, <2>4, <2>5 DEF Buy, Submittable, Errors
<1>7. ASSUME NEW o \in Orders, Sell(o) PROVE TypeOK'
  <2>1. /\ Balance \in Int /\ FillPrice(o) \in Int /\ o.stock \in Stocks
        /\ o.quantity \in Nat /\ held[o.stock] \in Nat
    BY OrderTyped
  <2>2. Balance + FillPrice(o) * o.quantity \in Int
    BY <2>1
  <2>3. cash' \in Int
    BY <1>7, <2>2 DEF Sell
  <2>4. held' \in [Stocks -> Nat]
    <3>1. held[o.stock] - o.quantity \in Nat
      BY <1>7, <2>1 DEF Sell, Covered
    <3> QED
      BY <1>7, <2>1, <3>1 DEF Sell
  <2>5. marked' \in [Stocks -> {0} \union Prices]
    BY <1>7, <2>1 DEF Sell
  <2> QED
    BY <1>7, <2>3, <2>4, <2>5 DEF Sell, Submittable, Errors
<1>8. ASSUME GetPositions PROVE TypeOK'
  BY <1>8 DEF GetPositions
<1>9. ASSUME GetAccount PROVE TypeOK'
  <2>1. IsFiniteSet(Stocks) /\ held \in [Stocks -> Int] /\ marked \in [Stocks -> Int]
    BY BookTyped
  <2>2. Value(held, marked) \in Int
    BY <2>1, ValueType
  <2> QED
    BY <1>9, <2>2 DEF GetAccount
<1>10. ASSUME GetStockPrice PROVE TypeOK'
  <2>1. Balance \in Int
    BY DEF Balance
  <2> QED
    BY <1>10, <2>1 DEF GetStockPrice, Errors
<1>11. ASSUME UNCHANGED vars PROVE TypeOK'
  BY <1>11 DEF vars
<1> QED
  BY <1>1, <1>2, <1>3, <1>4, <1>5, <1>6, <1>7, <1>8, <1>9, <1>10, <1>11 DEF Next

\* The account holds whole shares, never less than none, and its balance is a
\* whole number, whatever is ordered, priced and injected.
THEOREM SimulatorTypeCorrect == ASSUME SimulatorAssumption PROVE Spec => []TypeOK
<1>1. Init => TypeOK
  BY InitTyped
<1>2. TypeOK /\ [Next]_vars => TypeOK'
  BY NextTyped
<1> QED
  BY <1>1, <1>2, PTL DEF Spec

-----------------------------------------------------------------------------
(* Trades at a standing price.                                               *)

\* What is paid is at least what is got.
LEMMA Costs ==
    ASSUME NEW q \in Nat, NEW a \in Int, NEW b \in Int, a <= b
    PROVE  /\ a * q \in Int /\ b * q \in Int /\ q * a \in Int /\ q * b \in Int
           /\ q * a <= b * q /\ a * q <= q * b
OBVIOUS

\* No order pays at a standing price.
LEMMA BuyNeverPays ==
    ASSUME SimulatorAssumption, TypeOK, NEW o \in Orders, Buy(o), injected = "none"
    PROVE  Worth' <= Worth
<1> DEFINE s == o.stock
           f == FillPrice(o)
           old == Value(held, price)
<1>1. /\ s \in Stocks /\ o.quantity \in Nat /\ f \in Int
      /\ price[s] \in Nat /\ cash \in Int /\ price[s] <= f
  <2>1. o.side = "BUY"
    BY DEF Buy
  <2> QED
    BY <2>1, OrderTyped DEF TypeOK
<1>2. /\ cash' = cash - f * o.quantity
      /\ held' = [held EXCEPT ![s] = @ + o.quantity]
      /\ price' = price
  BY DEF Buy, Balance
<1>3. IsFiniteSet(Stocks) /\ held \in [Stocks -> Int] /\ price \in [Stocks -> Int]
  BY BookTyped
<1>4. old \in Int
  BY <1>3, ValueType
<1>5. Value([held EXCEPT ![s] = @ + o.quantity], price) = old + o.quantity * price[s]
  <2>1. o.quantity \in Int
    BY <1>1
  <2> HIDE DEF s
  <2> QED
    BY <1>1, <1>3, <2>1, ValueChanges
<1>6. Value(held', price') = old + o.quantity * price[s]
  BY <1>2, <1>5
<1>7. /\ o.quantity * price[s] <= f * o.quantity
      /\ o.quantity * price[s] \in Int /\ f * o.quantity \in Int
  <2>1. price[s] \in Int
    BY <1>1
  <2> HIDE DEF s, f
  <2> QED
    BY <1>1, <2>1, Costs
<1>8. Worth = cash + old /\ Worth' = cash' + Value(held', price')
  BY DEF Worth
<1> HIDE DEF s, f, old
<1> QED
  BY <1>1, <1>2, <1>4, <1>6, <1>7, <1>8

\* The same for a sale: the shares go at the price or below it.
LEMMA SellNeverPays ==
    ASSUME SimulatorAssumption, TypeOK, NEW o \in Orders, Sell(o), injected = "none"
    PROVE  Worth' <= Worth
<1> DEFINE s == o.stock
           f == FillPrice(o)
           old == Value(held, price)
<1>1. /\ s \in Stocks /\ o.quantity \in Nat /\ f \in Int
      /\ price[s] \in Nat /\ cash \in Int /\ f <= price[s]
  <2>1. o.side = "SELL"
    BY DEF Sell
  <2> QED
    BY <2>1, OrderTyped DEF TypeOK
<1>2. cash' = cash + f * o.quantity /\ price' = price
  BY DEF Sell, Balance
<1>3. IsFiniteSet(Stocks) /\ held \in [Stocks -> Int] /\ price \in [Stocks -> Int]
  BY BookTyped
<1>4. old \in Int
  BY <1>3, ValueType
<1>5. held' = [held EXCEPT ![s] = @ + (-o.quantity)]
  <2>1. held[s] \in Int /\ held[s] - o.quantity = held[s] + (-o.quantity)
    BY <1>1, <1>3
  <2>2. held' = [held EXCEPT ![s] = held[s] - o.quantity]
    BY DEF Sell
  <2> QED
    BY <2>1, <2>2
<1>6. Value([held EXCEPT ![s] = @ + (-o.quantity)], price) = old + (-o.quantity) * price[s]
  <2>1. -o.quantity \in Int
    BY <1>1
  <2> HIDE DEF s
  <2> QED
    BY <1>1, <1>3, <2>1, ValueChanges
<1>7. Value(held', price') = old + (-o.quantity) * price[s]
  BY <1>2, <1>5, <1>6
<1>8. (-o.quantity) * price[s] = -(o.quantity * price[s])
  BY <1>1
<1>9. /\ f * o.quantity <= o.quantity * price[s]
      /\ o.quantity * price[s] \in Int /\ f * o.quantity \in Int
  <2>1. price[s] \in Int
    BY <1>1
  <2> HIDE DEF s, f
  <2> QED
    BY <1>1, <2>1, Costs
<1>10. Worth = cash + old /\ Worth' = cash' + Value(held', price')
  BY DEF Worth
<1> HIDE DEF s, f, old
<1> QED
  BY <1>1, <1>2, <1>4, <1>7, <1>8, <1>9, <1>10

\* No sequence of orders makes the account richer while the prices stand
\* still: every step that leaves them alone, but the one that an injected
\* error lifts the balance in, leaves the account's worth or lowers it.
THEOREM TradingNeverPays == ASSUME SimulatorAssumption PROVE Spec => TradesNeverPay
<1>1. ASSUME TypeOK, [Next]_vars PROVE NeverRicher
  <2> SUFFICES ASSUME price' = price, injected = "none" PROVE Worth' <= Worth
    BY DEF NeverRicher
  <2>1. Worth \in Int
    <3>1. IsFiniteSet(Stocks) /\ held \in [Stocks -> Int] /\ price \in [Stocks -> Int]
      BY <1>1, BookTyped
    <3>2. Value(held, price) \in Int
      BY <3>1, ValueType
    <3> QED
      BY <1>1, <3>2 DEF Worth, TypeOK
  <2>2. ASSUME cash' = cash, held' = held PROVE Worth' <= Worth
    <3>1. Worth' = Worth
      BY <2>2 DEF Worth
    <3> QED
      BY <2>1, <3>1
  <2>3. CASE \E o \in Orders : Buy(o)
    BY <1>1, <2>3, BuyNeverPays
  <2>4. CASE \E o \in Orders : Sell(o)
    BY <1>1, <2>4, SellNeverPays
  <2>5. CASE \E o \in Orders : Reject(o) \/ Rest(o)
    BY <2>2, <2>5 DEF Reject, Rest, Balance
  <2>6. CASE \E o \in Orders : SubmitRaises(o)
    BY <2>2, <2>6 DEF SubmitRaises, vars
  <2>7. CASE \E s \in Stocks, p \in Prices : SetPrice(s, p)
    BY <2>2, <2>7 DEF SetPrice
  <2>8. CASE \E e \in Errors : InjectError(e)
    BY <2>2, <2>8 DEF InjectError
  <2>9. CASE GetPositions \/ GetAccount
    BY <2>2, <2>9 DEF GetPositions, GetAccount
  <2>10. CASE GetStockPrice
    BY <2>2, <2>10 DEF GetStockPrice, Balance
  <2>11. CASE UNCHANGED vars
    BY <2>2, <2>11 DEF vars
  <2> QED
    BY <1>1, <2>3, <2>4, <2>5, <2>6, <2>7, <2>8, <2>9, <2>10, <2>11 DEF Next
<1>2. TypeOK /\ [Next]_vars => [NeverRicher]_vars
  BY <1>1
<1> QED
  BY <1>2, SimulatorTypeCorrect, PTL DEF Spec, TradesNeverPay

=============================================================================
