------------------------ MODULE OrderExecutorProofs -------------------------
(* What holds of the order executor for any number of orders, stocks and     *)
(* calling tasks: types, the tracking of orders during their calls, duplicate *)
(* suppression among the orders of one task, the positions it publishes and  *)
(* how its slots implement OrderSlots.                                       *)
EXTENDS OrderExecutorSlots, SequenceTheorems, TLAPS

-----------------------------------------------------------------------------
(* Events and the queue.                                                     *)

\* The events of the broker are well formed when the fill is within the order.
LEMMA OrderEventType ==
    ASSUME NEW k \in Keys, NEW n \in Nat, n <= Qty[k[1]],
           NEW s \in {"accepted", "confirmed", "executed", "cancelled", "refused"}
    PROVE  OrderEvent(k, s, n) \in Event
<1>1. k[1] \in Orders
  BY DEF Keys
<1>2. Qty[k[1]] \in Nat /\ Qty[k[1]] - n \in Nat
  BY <1>1, TypeAssumption
<1> QED
  BY <1>2 DEF OrderEvent, Event, OrderEvents

\* Putting an event into the queue keeps it a queue of events.
LEMMA PutType ==
    ASSUME NEW q \in Seq(Event), NEW e \in Event
    PROVE  Put(q, e) \in Seq(Event)
BY DEF Put

\* An event taken from the queue is an event, and so are those that remain.
LEMMA HeadType ==
    ASSUME NEW q \in Seq(Event), q /= <<>>
    PROVE  /\ Head(q) \in Event /\ Tail(q) \in Seq(Event)
           /\ Head(q).kind = "order" => Head(q) \in OrderEvents
           /\ Head(q).kind /= "order" => Head(q) \in BalanceEvents
<1>1. Head(q) \in Event /\ Tail(q) \in Seq(Event)
  BY HeadTailProperties
<1>2. \A b \in BalanceEvents : b.kind /= "order"
  BY DEF BalanceEvents
<1>3. \A e \in OrderEvents : e.kind = "order"
  BY DEF OrderEvents
<1> QED
  BY <1>1, <1>2, <1>3 DEF Event

-----------------------------------------------------------------------------
(* Type correctness.                                                         *)

\* The program starts with every variable of its type and an empty book.
LEMMA TypeInit == Init => TypeInv
<1> SUFFICES ASSUME Init PROVE TypeInv
  OBVIOUS
<1>1. \A k \in Keys : k[1] \in Orders
  BY DEF Keys
<1>2. TypeOK
  <2>1. /\ 0 \in 0 .. MaxTries - 1 /\ 0 \in 0 .. MaxTries
        /\ "new" \in Steps /\ "PENDING" \in Statuses
    BY TypeAssumption DEF Steps, Statuses
  <2>2. /\ client \in Clients
        /\ pc \in [Orders -> Steps]
        /\ tries \in [Orders -> 0 .. MaxTries - 1]
        /\ status \in [Orders -> Statuses]
        /\ filled \in [Orders -> Nat]
        /\ orderNo \in [Orders -> 0 .. MaxTries]
        /\ sent \in [Orders -> 0 .. MaxTries]
    BY <2>1 DEF Init
  <2>3. /\ pending \subseteq Keys
        /\ creating \subseteq Creations
        /\ consumer \in {"idle", "create", "refresh"}
        /\ events \in Seq(Event)
        /\ lost \in BOOLEAN
    BY EmptySeq DEF Init
  <2>4. /\ positions \in [Stocks -> Nat]
        /\ holdings \in [Stocks -> Nat]
    BY TypeAssumption DEF Init
  <2>5. book \in [Keys -> [state : {"none", "open", "amended", "closed"}, filled : Nat]]
    BY DEF Init
  <2> QED
    BY <2>2, <2>3, <2>4, <2>5 DEF TypeOK
<1>3. BookBounded
  BY <1>1, TypeAssumption DEF Init, BookBounded
<1> QED
  BY <1>2, <1>3 DEF TypeInv

\* A partial fill leaves positions and position creations well typed: a sale
\* is never taken from a position that is too small for it.
LEMMA PartialFillType ==
    ASSUME TypeOK, NEW o \in Orders, NEW q \in Nat, NEW by \in {"call", "event"},
           PartialFill(o, q, by)
    PROVE  positions' \in [Stocks -> Nat] /\ creating' \subseteq Creations
<1>1. StockOf[o] \in Stocks
  BY TypeAssumption
<1>2. CASE NeedsPrice(o)
  BY <1>2 DEF PartialFill, TypeOK, Creations
<1>3. CASE ~NeedsPrice(o)
  <2> DEFINE old == positions[StockOf[o]]
             new == IF TypeOf[o] = "BUY" THEN old + q
                    ELSE IF q <= old THEN old - q ELSE old
  <2>1. positions \in [Stocks -> Nat] /\ creating \subseteq Creations
    BY DEF TypeOK
  <2>2. new \in Nat
    BY <1>1, <2>1
  <2>3. positions' = [positions EXCEPT ![StockOf[o]] = new] /\ creating' = creating
    BY <1>3 DEF PartialFill
  <2> HIDE DEF new
  <2> QED
    BY <2>1, <2>2, <2>3
<1> QED
  BY <1>2, <1>3

\* Every step keeps the types; the queue and the broker's book only change
\* in the steps of the broker and of the event consumer.
LEMMA TypeStep == TypeInv /\ [Next]_vars => TypeInv'
<1> SUFFICES ASSUME TypeInv, [Next]_vars PROVE TypeInv'
  OBVIOUS
<1> USE TypeAssumption DEF TypeInv
<1> DEFINE Calls == /\ pc' \in [Orders -> Steps]
                    /\ tries' \in [Orders -> 0 .. MaxTries - 1]
                    /\ status' \in [Orders -> Statuses]
                    /\ filled' \in [Orders -> Nat]
                    /\ orderNo' \in [Orders -> 0 .. MaxTries]
                    /\ pending' \subseteq Keys
                    /\ positions' \in [Stocks -> Nat]
                    /\ creating' \subseteq Creations
                    /\ consumer' \in {"idle", "create", "refresh"}
                    /\ sent' \in [Orders -> 0 .. MaxTries]
<1>keys. \A o \in Orders : Key(o) \in Keys
  BY DEF Key, Keys, TypeOK
<1>call. ASSUME Calls, UNCHANGED <<events, brokerVars>> PROVE TypeInv'
  BY <1>call DEF TypeOK, BookBounded, brokerVars
\* A call that fails, with its attempts counted or not.
<1>fail. ASSUME NEW o \in Orders, Fail(o), tries' \in [Orders -> 0 .. MaxTries - 1]
         PROVE  TypeInv'
  <2>1. pc' \in [Orders -> Steps]
    BY <1>fail DEF Fail, Go, TypeOK, Steps
  <2>2. status' \in [Orders -> Statuses]
    BY <1>fail DEF Fail, SetStatus, TypeOK, Statuses
  <2>3. /\ pending' \subseteq pending
        /\ UNCHANGED <<filled, orderNo, positions, creating, consumer, events, sent, brokerVars>>
    BY <1>fail DEF Fail
  <2>4. Calls
    BY <1>fail, <2>1, <2>2, <2>3 DEF TypeOK
  <2> QED
    BY <2>3, <2>4, <1>call
<1>zero. tries \in [Orders -> 0 .. MaxTries - 1]
         /\ \A o \in Orders : [tries EXCEPT ![o] = 0] \in [Orders -> 0 .. MaxTries - 1]
  BY DEF TypeOK
<1>1. ASSUME NEW o \in Orders, ExecuteOrder(o) PROVE TypeInv'
  <2>1. Calls /\ UNCHANGED <<events, brokerVars>>
    BY <1>1 DEF ExecuteOrder, Go, TypeOK, Steps, orderVars
  <2> QED
    BY <2>1, <1>call
<1>2. ASSUME NEW o \in Orders, AccountRateLimited(o) PROVE TypeInv'
  <2>1. CASE tries[o] + 1 < MaxTries
    <3>1. tries[o] + 1 \in 0 .. MaxTries - 1
      BY <2>1 DEF TypeOK
    <3>2. /\ tries' = [tries EXCEPT ![o] = tries[o] + 1]
          /\ UNCHANGED <<pc, orderVars, pending, positions, creating, consumer,
                         events, sent, brokerVars>>
      BY <1>2, <2>1 DEF AccountRateLimited
    <3>3. Calls
      BY <3>1, <3>2 DEF TypeOK, orderVars
    <3> QED
      BY <3>2, <3>3, <1>call
  <2>2. CASE ~(tries[o] + 1 < MaxTries)
    <3>1. tries' = [tries EXCEPT ![o] = 0] /\ Fail(o)
      BY <1>2, <2>2 DEF AccountRateLimited
    <3> QED
      BY <3>1, <1>fail, <1>zero
  <2> QED
    BY <2>1, <2>2
<1>3. ASSUME NEW o \in Orders, ReadFails(o) PROVE TypeInv'
  BY <1>3, <1>fail, <1>zero DEF ReadFails
<1>4. ASSUME NEW o \in Orders, GetAccount(o) PROVE TypeInv'
  <2>1. /\ tries' = [tries EXCEPT ![o] = 0]
        /\ UNCHANGED <<filled, orderNo, positions, creating, consumer, events,
                       brokerVars>>
    BY <1>4 DEF GetAccount
  <2>2. /\ pc' \in [Orders -> Steps]
        /\ status' \in [Orders -> Statuses]
        /\ UNCHANGED <<pending, sent>>
    <3>1. CASE Reject(o)
      BY <3>1 DEF Reject, Go, SetStatus, TypeOK, Steps, Statuses
    <3>2. CASE Go(o, "price") /\ UNCHANGED <<status, pending, sent>>
      BY <3>2 DEF Go, TypeOK, Steps
    <3> QED
      BY <1>4, <3>1, <3>2 DEF GetAccount
  <2>3. tries' \in [Orders -> 0 .. MaxTries - 1]
    <3>1. 0 \in 0 .. MaxTries - 1
      OBVIOUS
    <3> QED
      BY <2>1, <3>1 DEF TypeOK
  <2>4. Calls
    BY <2>1, <2>2, <2>3 DEF TypeOK
  <2> QED
    BY <2>1, <2>4, <1>call
<1>5. ASSUME NEW o \in Orders, GetPrice(o) PROVE TypeInv'
  <2>1. UNCHANGED <<tries, filled, orderNo, positions, creating, consumer, events,
                     brokerVars>>
    BY <1>5 DEF GetPrice
  <2>2. /\ pc' \in [Orders -> Steps]
        /\ status' \in [Orders -> Statuses]
        /\ pending' \subseteq Keys
        /\ sent' \in [Orders -> 0 .. MaxTries]
    <3>1. CASE Reject(o)
      BY <3>1 DEF Reject, Go, SetStatus, TypeOK, Steps, Statuses
    <3>2. CASE /\ Go(o, "send") /\ SetStatus(o, "SUBMITTED") /\ Track(o)
               /\ sent' = [sent EXCEPT ![o] = 1]
      <4>1. pc' \in [Orders -> Steps] /\ status' \in [Orders -> Statuses]
        BY <3>2 DEF Go, SetStatus, TypeOK, Steps, Statuses
      <4>2. pending' \subseteq Keys
        BY <3>2, <1>keys DEF Track, TypeOK
      <4>3. sent' \in [Orders -> 0 .. MaxTries]
        BY <3>2 DEF TypeOK
      <4> QED
        BY <4>1, <4>2, <4>3
    <3> QED
      BY <1>5, <3>1, <3>2 DEF GetPrice
  <2>3. Calls
    BY <2>1, <2>2 DEF TypeOK
  <2> QED
    BY <2>1, <2>3, <1>call
<1>6. ASSUME NEW o \in Orders, Resend(o) PROVE TypeInv'
  <2>1. sent' \in [Orders -> 0 .. MaxTries]
    <3>1. sent[o] + 1 \in 0 .. MaxTries /\ sent' = [sent EXCEPT ![o] = sent[o] + 1]
      BY <1>6 DEF Resend, TypeOK
    <3> QED
      BY <3>1 DEF TypeOK
  <2>2. UNCHANGED <<callVars, orderVars, pending, positions, creating, consumer, events,
                    brokerVars>>
    BY <1>6 DEF Resend
  <2>3. Calls
    BY <2>1, <2>2 DEF callVars, orderVars, TypeOK
  <2> QED
    BY <2>2, <2>3, <1>call
<1>7. ASSUME NEW o \in Orders, SubmitFails(o) PROVE TypeInv'
  BY <1>7, <1>fail, <1>zero DEF SubmitFails
<1>8. ASSUME NEW o \in Orders, LiveAnswer(o) PROVE TypeInv'
  <2>1. pc' \in [Orders -> Steps] /\ status' \in [Orders -> Statuses]
    BY <1>8 DEF LiveAnswer, Go, SetStatus, TypeOK, Steps, Statuses
  <2>2. orderNo' \in [Orders -> 0 .. MaxTries]
    BY <1>8 DEF LiveAnswer, TypeOK
  <2>3. UNCHANGED <<tries, filled, pending, positions, creating, consumer, events, sent,
                    brokerVars>>
    BY <1>8 DEF LiveAnswer
  <2>4. Calls
    BY <2>1, <2>2, <2>3 DEF TypeOK
  <2> QED
    BY <2>3, <2>4, <1>call
<1>9. ASSUME NEW o \in Orders, NEW r \in Results, ProtocolAnswer(o, r) PROVE TypeInv'
  <2> DEFINE q == book[<<o, 0>>].filled
  <2>1. q \in Nat
    BY DEF TypeOK, Keys
  <2>2. /\ UNCHANGED <<tries, orderNo, consumer, events, sent, brokerVars>>
        /\ status' \in [Orders -> Statuses]
        /\ filled' \in [Orders -> Nat]
    BY <1>9, <2>1 DEF ProtocolAnswer, SetStatus, TypeOK
  <2>3. /\ pc' \in [Orders -> Steps] /\ pending' \subseteq Keys
        /\ positions' \in [Stocks -> Nat] /\ creating' \subseteq Creations
    <3>1. CASE r = "FILLED"
      BY <1>9, <3>1 DEF ProtocolAnswer, Go, TypeOK, Steps
    <3>2. CASE r \in {"REJECTED", "FAILED"}
      BY <1>9, <3>2 DEF ProtocolAnswer, Go, TypeOK, Steps
    <3>3. CASE r = "PARTIALLY_FILLED"
      <4>1. PartialFill(o, q, "call") => positions' \in [Stocks -> Nat] /\ creating' \subseteq Creations
        BY <2>1, PartialFillType
      <4>2. \/ Go(o, "accepted") /\ Track(o)
            \/ (\E step \in {"create", "refresh"} : Go(o, step)) /\ UNCHANGED pending
        BY <1>9, <3>3 DEF ProtocolAnswer
      <4>3. pc' \in [Orders -> Steps]
        BY <4>2 DEF Go, TypeOK, Steps
      <4>4. pending' \subseteq Keys
        BY <4>2, <1>keys DEF Track, TypeOK
      <4> QED
        BY <1>9, <3>3, <4>1, <4>3, <4>4 DEF ProtocolAnswer
    <3>4. CASE r \notin {"FILLED", "REJECTED", "FAILED", "PARTIALLY_FILLED"}
      BY <1>9, <3>4 DEF ProtocolAnswer, Go, TypeOK, Steps
    <3> QED
      BY <3>1, <3>2, <3>3, <3>4
  <2> QED
    BY <2>2, <2>3, <1>call DEF TypeOK
<1>10. ASSUME NEW o \in Orders, Settle(o) PROVE TypeInv'
  <2>1. Calls /\ UNCHANGED <<events, brokerVars>>
    BY <1>10 DEF Settle, Go, TypeOK, Steps, orderVars
  <2> QED
    BY <2>1, <1>call
<1>11. ASSUME NEW o \in Orders, RefreshAfterPartial(o) PROVE TypeInv'
  <2>1. Calls /\ UNCHANGED <<events, brokerVars>>
    BY <1>11, <1>keys DEF RefreshAfterPartial, Track, Go, TypeOK, Steps, orderVars
  <2> QED
    BY <2>1, <1>call
<1>12. ASSUME NEW c \in creating, CreatePosition(c) PROVE TypeInv'
  <2>1. c \in Creations
    BY DEF TypeOK
  <2>2. Calls /\ UNCHANGED <<events, brokerVars>>
    BY <1>12, <2>1 DEF CreatePosition, Creations, Go, TypeOK, Steps, orderVars
  <2> QED
    BY <2>2, <1>call
<1>13. ASSUME NEW c \in creating, CreateFails(c) PROVE TypeInv'
  <2>1. c \in Creations
    BY DEF TypeOK
  <2>2. /\ creating' = creating \ {c}
        /\ UNCHANGED <<tries, status, filled, orderNo, positions, events, sent, brokerVars>>
    BY <1>13 DEF CreateFails, orderVars
  <2>3. pc' \in [Orders -> Steps] /\ consumer' \in {"idle", "create", "refresh"}
    BY <1>13, <2>1 DEF CreateFails, Go, TypeOK, Steps
  <2>4. pending' \subseteq Keys
    <3>1. c.order \in Orders
      BY <2>1 DEF Creations
    <3> QED
      BY <1>13, <3>1, <1>keys DEF CreateFails, Track, TypeOK
  <2>5. Calls
    BY <2>2, <2>3, <2>4 DEF TypeOK
  <2> QED
    BY <2>2, <2>5, <1>call
<1>14. ASSUME NEW k \in pending, CancelOrder(k) PROVE TypeInv'
  <2>1. Calls /\ UNCHANGED <<events, brokerVars>>
    BY <1>14 DEF CancelOrder, SetStatus, TypeOK, Statuses, callVars
  <2> QED
    BY <2>1, <1>call
<1>15. ASSUME ConsumeEvent PROVE TypeInv'
  <2> DEFINE e == Head(events)
  <2>1. /\ e \in Event /\ events' \in Seq(Event)
        /\ e.kind = "order" => e \in OrderEvents
        /\ e.kind /= "order" => e \in BalanceEvents
    BY <1>15, HeadType DEF ConsumeEvent, TypeOK
  <2>2. UNCHANGED <<callVars, orderNo, sent, brokerVars>>
    BY <1>15 DEF ConsumeEvent
  <2>3. CASE e.kind = "order"
    <3>1. e \in OrderEvents /\ HandleOrderEvent(e)
      BY <1>15, <2>1, <2>3 DEF ConsumeEvent
    <3> DEFINE o == e.key[1]
    <3>2. e.key \in Keys /\ o \in Orders /\ e.filled \in Nat
      BY <3>1 DEF OrderEvents, Keys
    <3>3. StatusOf(e.status) \in Statuses
      BY DEF StatusOf, Statuses
    <3>4. status' \in [Orders -> Statuses]
      BY <3>1, <3>2, <3>3 DEF HandleOrderEvent, SetStatus, TypeOK, Statuses
    <3>5. /\ filled' \in [Orders -> Nat] /\ pending' \subseteq Keys
          /\ consumer' \in {"idle", "create", "refresh"}
      BY <3>1, <3>2 DEF HandleOrderEvent, TypeOK
    <3>6. PartialFill(o, e.filled, "event")
          => positions' \in [Stocks -> Nat] /\ creating' \subseteq Creations
      BY <3>2, PartialFillType
    <3>7. positions' \in [Stocks -> Nat] /\ creating' \subseteq Creations
      BY <3>1, <3>6 DEF HandleOrderEvent, TypeOK
    <3> QED
      BY <2>1, <2>2, <3>4, <3>5, <3>7 DEF TypeOK, BookBounded, callVars, brokerVars
  <2>4. CASE e.kind /= "order"
    <3>1. e.stock \in Stocks /\ e.holding \in Nat
      BY <2>1, <2>4 DEF BalanceEvents
    <3>2. HandleBalanceEvent(e)
      BY <1>15, <2>4 DEF ConsumeEvent
    <3> QED
      BY <2>1, <2>2, <3>1, <3>2 DEF HandleBalanceEvent, TypeOK, BookBounded, callVars, brokerVars
  <2> QED
    BY <2>3, <2>4
<1>16. ASSUME ConsumerRefreshed PROVE TypeInv'
  <2>1. Calls /\ UNCHANGED <<events, brokerVars>>
    BY <1>16 DEF ConsumerRefreshed, TypeOK, callVars, orderVars
  <2> QED
    BY <2>1, <1>call
<1>broker. ASSUME BrokerUnchanged, events' \in Seq(Event), lost' \in BOOLEAN,
                  book' \in [Keys -> [state : {"none", "open", "amended", "closed"},
                                      filled : Nat]],
                  holdings' \in [Stocks -> Nat], BookBounded'
           PROVE  TypeInv'
  BY <1>broker DEF BrokerUnchanged, TypeOK, callVars, orderVars
<1>17. ASSUME NEW k \in Keys, BrokerAccepts(k) PROVE TypeInv'
  <2>1. k[1] \in Orders /\ Qty[k[1]] \in Nat
    BY DEF Keys
  <2>2. events' \in Seq(Event)
    BY <1>17, <2>1, OrderEventType, PutType DEF BrokerAccepts, Publish, TypeOK
  <2>3. book' \in [Keys -> [state : {"none", "open", "amended", "closed"}, filled : Nat]]
    BY <1>17 DEF BrokerAccepts, TypeOK
  <2>4. BookBounded'
    BY <1>17 DEF BrokerAccepts, TypeOK, BookBounded
  <2> QED
    BY <1>17, <2>2, <2>3, <2>4, <1>broker DEF BrokerAccepts, Publish, TypeOK
<1>18. ASSUME NEW k \in Keys, NEW n \in 1 .. Qty[k[1]], BrokerFills(k, n) PROVE TypeInv'
  <2> DEFINE s == StockOf[k[1]]
             total == book[k].filled + n
             held == IF TypeOf[k[1]] = "BUY" THEN holdings[s] + n ELSE holdings[s] - n
             b == [kind |-> "balance", stock |-> s, holding |-> held]
  <2>1. k[1] \in Orders /\ Qty[k[1]] \in Nat /\ s \in Stocks /\ n \in Nat
    BY DEF Keys
  <2>2. total \in Nat /\ total <= Qty[k[1]] /\ held \in Nat
    <3>1. book[k].filled \in Nat /\ holdings[s] \in Nat /\ TypeOf[k[1]] \in {"BUY", "SELL"}
      BY <2>1 DEF TypeOK
    <3>2. total <= Qty[k[1]] /\ (TypeOf[k[1]] = "SELL" => n <= holdings[s])
      BY <1>18 DEF BrokerFills
    <3> QED
      BY <2>1, <3>1, <3>2
  <2>3. b \in Event
    BY <2>1, <2>2 DEF Event, BalanceEvents
  <2>4. OrderEvent(k, "executed", total) \in Event
    BY <2>2, OrderEventType
  <2>5. Publish2(OrderEvent(k, "executed", total), b)
    BY <1>18 DEF BrokerFills
  <2>6. events' \in Seq(Event) /\ lost' \in BOOLEAN
    BY <2>3, <2>4, <2>5, PutType DEF Publish2, TypeOK
  <2>7. holdings' \in [Stocks -> Nat]
    BY <1>18, <2>1, <2>2 DEF BrokerFills, TypeOK
  <2>8. book' \in [Keys -> [state : {"none", "open", "amended", "closed"}, filled : Nat]]
    BY <1>18, <2>2 DEF BrokerFills, TypeOK
  <2>9. BookBounded'
    BY <1>18, <2>2 DEF BrokerFills, TypeOK, BookBounded
  <2> QED
    BY <1>18, <2>6, <2>7, <2>8, <2>9, <1>broker DEF BrokerFills
<1>19. ASSUME NEW k \in Keys, BrokerConfirms(k) PROVE TypeInv'
  <2>1. book[k].filled \in Nat /\ book[k].filled <= Qty[k[1]]
    BY DEF TypeOK, BookBounded
  <2>2. events' \in Seq(Event)
    BY <1>19, <2>1, OrderEventType, PutType DEF BrokerConfirms, Publish, TypeOK
  <2>3. book' \in [Keys -> [state : {"none", "open", "amended", "closed"}, filled : Nat]]
    BY <1>19 DEF BrokerConfirms, TypeOK
  <2>4. BookBounded'
    BY <1>19 DEF BrokerConfirms, TypeOK, BookBounded
  <2> QED
    BY <1>19, <2>2, <2>3, <2>4, <1>broker DEF BrokerConfirms, Publish, TypeOK
<1>20. ASSUME NEW k \in Keys, NEW s \in {"cancelled", "refused"}, BrokerCloses(k, s)
       PROVE  TypeInv'
  <2>1. book[k].filled \in Nat /\ book[k].filled <= Qty[k[1]]
    BY DEF TypeOK, BookBounded
  <2>2. events' \in Seq(Event)
    BY <1>20, <2>1, OrderEventType, PutType DEF BrokerCloses, Publish, TypeOK
  <2>3. book' \in [Keys -> [state : {"none", "open", "amended", "closed"}, filled : Nat]]
    BY <1>20 DEF BrokerCloses, TypeOK
  <2>4. BookBounded'
    BY <1>20 DEF BrokerCloses, TypeOK, BookBounded
  <2> QED
    BY <1>20, <2>2, <2>3, <2>4, <1>broker DEF BrokerCloses, Publish, TypeOK
<1>21. CASE UNCHANGED vars
  BY <1>21 DEF vars, callVars, orderVars, brokerVars, TypeOK, BookBounded
<1> QED
  BY <1>1, <1>2, <1>3, <1>4, <1>5, <1>6, <1>7, <1>8, <1>9, <1>10, <1>11, <1>12,
     <1>13, <1>14, <1>15, <1>16, <1>17, <1>18, <1>19, <1>20, <1>21
  DEF Next, CallStep, Creation, Broker

\* Every variable keeps its type, whatever the orders, clients and bounds: in
\* particular an event never reports more shares than its order asks for, and
\* a position is never negative.
THEOREM TypeCorrect == Spec => []TypeOK
<1>1. TypeInv => TypeOK
  BY DEF TypeInv
<1> QED
  BY TypeInit, TypeStep, <1>1, PTL DEF Spec

-----------------------------------------------------------------------------
(* The tracking of an order during its call.                                 *)

\* While all keys are local, an order is tracked under the number 0 or not at all.
LEMMA TrackedLocally ==
    ASSUME TypeOK, LocalKeys, NEW o \in Orders
    PROVE  Tracked(o) <=> <<o, 0>> \in pending
<1>1. ASSUME NEW n \in 0 .. MaxTries, <<o, n>> \in pending PROVE n = 0
  BY <1>1 DEF LocalKeys
<1>2. 0 \in 0 .. MaxTries
  BY TypeAssumption
<1> QED
  BY <1>1, <1>2 DEF Tracked

\* The same in the next state.
LEMMA TrackedLocallyNext ==
    ASSUME TypeOK', LocalKeys', NEW o \in Orders
    PROVE  Tracked(o)' <=> <<o, 0>> \in pending'
<1>1. ASSUME NEW n \in 0 .. MaxTries, <<o, n>> \in pending' PROVE n = 0
  BY <1>1 DEF LocalKeys
<1>2. 0 \in 0 .. MaxTries
  BY TypeAssumption
<1> QED
  BY <1>1, <1>2 DEF Tracked

\* Nothing is tracked and no call is under way at the start.
LEMMA CallInit == Init => CallInv
BY DEF Init, CallInv, LocalKeys, IdUntilAnswer, NotTrackedUnsent, CallCreation,
       OneCreation, Tracked

\* Every step keeps the tracking of a call in order: one proof step per action.
LEMMA CallStepInv == TypeInv /\ CallInv /\ [Next]_vars => CallInv'
<1> SUFFICES ASSUME TypeInv, CallInv, [Next]_vars PROVE CallInv'
  OBVIOUS
<1>types. TypeOK /\ TypeOK'
  BY TypeStep DEF TypeInv
\* What the invariant says of an order in the middle of its call.
<1>mid. \A o \in Orders : pc[o] /= "accepted" => Key(o) = <<o, 0>>
  BY DEF CallInv, IdUntilAnswer, Key
<1>unsent. \A o \in Orders : pc[o] \in {"new", "account", "price", "failed"}
                             => <<o, 0>> \notin pending
  BY <1>types, TrackedLocally DEF CallInv, NotTrackedUnsent
\* Tracking an order in the middle of its call, and moving the call on.
<1>goOn. ASSUME NEW o \in Orders, NEW step \in Steps, Go(o, step),
               pc[o] /= "accepted", UNCHANGED <<orderNo, creating>>,
               pc[o] /= "create",
               pending' \subseteq pending \union {Key(o)},
               step \in {"new", "account", "price", "failed"} => <<o, 0>> \notin pending'
         PROVE  CallInv'
  <2>1. orderNo[o] = 0 /\ Key(o) = <<o, 0>>
    BY <1>goOn DEF CallInv, IdUntilAnswer, Key
  <2>2. LocalKeys'
    BY <1>goOn, <2>1 DEF CallInv, LocalKeys
  <2>3. IdUntilAnswer'
    BY <1>goOn, <1>types, <2>1 DEF CallInv, IdUntilAnswer, Go, TypeOK
  <2>4. NotTrackedUnsent'
    <3> SUFFICES ASSUME NEW p \in Orders,
                        pc'[p] \in {"new", "account", "price", "failed"}
                 PROVE  <<p, 0>> \notin pending'
      BY <1>types, <2>2, TrackedLocallyNext DEF NotTrackedUnsent
    <3>1. CASE p = o
      BY <1>goOn, <1>types, <3>1 DEF Go, TypeOK
    <3>2. CASE p /= o
      <4>1. pc'[p] = pc[p]
        BY <1>goOn, <1>types, <3>2 DEF Go, TypeOK
      <4>2. <<p, 0>> \notin pending
        BY <4>1, <1>unsent
      <4> QED
        BY <1>goOn, <2>1, <3>2, <4>2
    <3> QED
      BY <3>1, <3>2
  <2>5. CallCreation' /\ OneCreation'
    BY <1>goOn, <1>types DEF CallInv, CallCreation, OneCreation, Go, TypeOK, Creations
  <2> QED
    BY <2>2, <2>3, <2>4, <2>5 DEF CallInv
\* A step outside the calls: it may forget orders, and create no position for a call.
<1>apart. ASSUME UNCHANGED <<pc, orderNo>>, pending' \subseteq pending,
                 \A c \in creating' : c \in creating \/ c.by = "event"
          PROVE  CallInv'
  <2>1. \A o \in Orders : Tracked(o)' => Tracked(o)
    BY <1>apart DEF Tracked
  <2> QED
    BY <1>apart, <2>1
    DEF CallInv, LocalKeys, IdUntilAnswer, NotTrackedUnsent, CallCreation, OneCreation
<1>fail. ASSUME NEW o \in Orders, Fail(o), pc[o] \in {"account", "price", "send"}
         PROVE  CallInv'
  <2>1. pending' = pending \ {<<o, 0>>}
    BY <1>fail, <1>mid DEF Fail
  <2> QED
    BY <1>fail, <2>1, <1>goOn DEF Fail, Steps
<1>1. ASSUME NEW o \in Orders, ExecuteOrder(o) PROVE CallInv'
  BY <1>1, <1>goOn, <1>unsent DEF ExecuteOrder, orderVars, Steps
<1>2. ASSUME NEW o \in Orders, AccountRateLimited(o) PROVE CallInv'
  <2>1. CASE Fail(o)
    BY <1>2, <2>1, <1>fail DEF AccountRateLimited
  <2>2. CASE ~Fail(o)
    BY <1>2, <2>2, <1>apart DEF AccountRateLimited, orderVars
  <2> QED
    BY <2>1, <2>2
<1>3. ASSUME NEW o \in Orders, ReadFails(o) PROVE CallInv'
  BY <1>3, <1>fail DEF ReadFails
<1>4. ASSUME NEW o \in Orders, GetAccount(o) PROVE CallInv'
  <2>1. \E step \in {"failed", "price"} : Go(o, step)
    BY <1>4 DEF GetAccount, Reject
  <2>2. pc[o] = "account" /\ UNCHANGED <<orderNo, creating, pending>>
    BY <1>4 DEF GetAccount, Reject
  <2> QED
    BY <2>1, <2>2, <1>unsent, <1>goOn DEF Steps
<1>5. ASSUME NEW o \in Orders, GetPrice(o) PROVE CallInv'
  <2>1. pc[o] = "price" /\ UNCHANGED <<orderNo, creating>>
    BY <1>5 DEF GetPrice
  <2>2. CASE Reject(o)
    BY <2>1, <2>2, <1>unsent, <1>goOn DEF Reject, Steps
  <2>3. CASE Go(o, "send") /\ Track(o)
    BY <2>1, <2>3, <1>goOn DEF Track, Steps
  <2> QED
    BY <1>5, <2>2, <2>3 DEF GetPrice
<1>6. ASSUME NEW o \in Orders, Resend(o) PROVE CallInv'
  BY <1>6, <1>apart DEF Resend, callVars, orderVars
<1>7. ASSUME NEW o \in Orders, SubmitFails(o) PROVE CallInv'
  BY <1>7, <1>fail DEF SubmitFails
<1>8. ASSUME NEW o \in Orders, LiveAnswer(o) PROVE CallInv'
  <2>1. /\ pc' = [pc EXCEPT ![o] = "accepted"]
        /\ UNCHANGED <<pending, creating>>
        /\ pc[o] = "send"
        /\ \E no \in {sent[o], orderNo[o]} : orderNo' = [orderNo EXCEPT ![o] = no]
    BY <1>8 DEF LiveAnswer, Go
  <2>2. LocalKeys' /\ IdUntilAnswer'
    BY <2>1, <1>types DEF CallInv, LocalKeys, IdUntilAnswer, TypeOK
  <2>3. NotTrackedUnsent'
    BY <2>1, <1>types DEF CallInv, NotTrackedUnsent, Tracked, TypeOK
  <2>4. CallCreation' /\ OneCreation'
    BY <2>1, <1>types DEF CallInv, CallCreation, OneCreation, TypeOK, Creations
  <2> QED
    BY <2>2, <2>3, <2>4 DEF CallInv
<1>9. ASSUME NEW o \in Orders, NEW r \in Results, ProtocolAnswer(o, r) PROVE CallInv'
  <2> DEFINE q == book[<<o, 0>>].filled
  <2>1. pc[o] = "send" /\ UNCHANGED orderNo
    BY <1>9 DEF ProtocolAnswer
  <2>2. CASE r = "FILLED"
    BY <1>9, <2>1, <2>2, <1>goOn DEF ProtocolAnswer, Steps
  <2>3. CASE r \in {"REJECTED", "FAILED"}
    <3>1. Go(o, "failed") /\ pending' = pending \ {<<o, 0>>} /\ UNCHANGED creating
      BY <1>9, <2>1, <2>3, <1>mid DEF ProtocolAnswer
    <3> QED
      BY <2>1, <3>1, <1>goOn DEF Steps
  <2>4. CASE r = "PARTIALLY_FILLED"
    <3>1. /\ PartialFill(o, q, "call")
          /\ IF Oversold(o, q)
             THEN Go(o, "accepted") /\ Track(o)
             ELSE /\ Go(o, IF NeedsPrice(o) THEN "create" ELSE "refresh")
                  /\ UNCHANGED pending
      BY <1>9, <2>4 DEF ProtocolAnswer
    <3>2. CASE NeedsPrice(o)
      <4> DEFINE c == [by |-> "call", order |-> o, qty |-> q]
      <4>1. /\ creating' = creating \union {c}
            /\ pc' = [pc EXCEPT ![o] = "create"]
            /\ UNCHANGED pending
        BY <3>1, <3>2, TypeAssumption DEF PartialFill, NeedsPrice, Oversold, Go
      <4>2. \A d \in creating : d.by = "call" => d.order /= o
        BY <2>1 DEF CallInv, CallCreation
      <4>3. c.by = "call" /\ c.order = o
        OBVIOUS
      <4> HIDE DEF c
      <4>4. LocalKeys' /\ IdUntilAnswer'
        BY <2>1, <4>1, <1>types DEF CallInv, LocalKeys, IdUntilAnswer, TypeOK
      <4>5. NotTrackedUnsent'
        BY <4>1, <1>types DEF CallInv, NotTrackedUnsent, Tracked, TypeOK
      <4>6. CallCreation'
        BY <4>1, <4>2, <4>3, <1>types DEF CallInv, CallCreation, TypeOK, Creations
      <4>7. OneCreation'
        BY <4>1, <4>2, <4>3 DEF CallInv, OneCreation
      <4> QED
        BY <4>4, <4>5, <4>6, <4>7 DEF CallInv
    <3>3. CASE ~NeedsPrice(o)
      <4>1. UNCHANGED creating
        BY <3>1, <3>3 DEF PartialFill
      <4>2. pending' \subseteq pending \union {Key(o)}
        BY <3>1 DEF Track
      <4>3. \E step \in {"accepted", "refresh"} : Go(o, step)
        BY <3>1, <3>3
      <4> QED
        BY <2>1, <4>1, <4>2, <4>3, <1>goOn DEF Steps
    <3> QED
      BY <3>2, <3>3
  <2>5. CASE r \notin {"FILLED", "REJECTED", "FAILED", "PARTIALLY_FILLED"}
    BY <1>9, <2>1, <2>5, <1>goOn DEF ProtocolAnswer, Steps
  <2> QED
    BY <2>2, <2>3, <2>4, <2>5
<1>10. ASSUME NEW o \in Orders, Settle(o) PROVE CallInv'
  BY <1>10, <1>goOn DEF Settle, orderVars, Steps
<1>11. ASSUME NEW o \in Orders, RefreshAfterPartial(o) PROVE CallInv'
  BY <1>11, <1>goOn DEF RefreshAfterPartial, Track, orderVars, Steps
\* A created position frees its call: no other position waits for the call.
<1>created. ASSUME NEW c \in creating, NEW step \in {"refresh", "accepted"},
                   c.by = "call", Go(c.order, step), UNCHANGED orderNo,
                   creating' = creating \ {c},
                   pending' \subseteq pending \union {Key(c.order)}
            PROVE  CallInv'
  <2>1. c.order \in Orders /\ pc[c.order] = "create"
    BY <1>created, <1>types DEF CallInv, CallCreation, TypeOK, Creations
  <2>2. Key(c.order) = <<c.order, 0>>
    BY <2>1, <1>mid
  <2>3. pc' = [pc EXCEPT ![c.order] = step]
    BY <1>created DEF Go
  <2>4. LocalKeys' /\ IdUntilAnswer'
    BY <1>created, <2>1, <2>2, <2>3, <1>types DEF CallInv, LocalKeys, IdUntilAnswer, TypeOK
  <2>5. NotTrackedUnsent'
    <3>1. \A p \in Orders : p /= c.order => pc'[p] = pc[p] /\ (<<p, 0>> \in pending' => <<p, 0>> \in pending)
      BY <1>created, <2>1, <2>2, <2>3, <1>types DEF TypeOK
    <3>2. pc'[c.order] = step
      BY <2>1, <2>3, <1>types DEF TypeOK
    <3>3. \A p \in Orders : Tracked(p)' <=> <<p, 0>> \in pending'
      BY <1>types, <2>4, TrackedLocallyNext
    <3> QED
      BY <1>unsent, <3>1, <3>2, <3>3 DEF NotTrackedUnsent
  <2>6. CallCreation'
    BY <1>created, <2>1, <2>3, <1>types DEF CallInv, CallCreation, OneCreation, TypeOK, Creations
  <2>7. OneCreation'
    BY <1>created DEF CallInv, OneCreation
  <2> QED
    BY <2>4, <2>5, <2>6, <2>7 DEF CallInv
<1>12. ASSUME NEW c \in creating, CreatePosition(c) PROVE CallInv'
  <2>1. CASE c.by = "call"
    BY <1>12, <2>1, <1>created DEF CreatePosition, orderVars
  <2>2. CASE c.by /= "call"
    BY <1>12, <2>2, <1>apart DEF CreatePosition, orderVars
  <2> QED
    BY <2>1, <2>2
<1>13. ASSUME NEW c \in creating, CreateFails(c) PROVE CallInv'
  <2>1. CASE c.by = "call"
    BY <1>13, <2>1, <1>created DEF CreateFails, Track, orderVars
  <2>2. CASE c.by /= "call"
    BY <1>13, <2>2, <1>apart DEF CreateFails, orderVars
  <2> QED
    BY <2>1, <2>2
<1>14. ASSUME NEW k \in pending, CancelOrder(k) PROVE CallInv'
  BY <1>14, <1>apart DEF CancelOrder, callVars
<1>15. ASSUME ConsumeEvent PROVE CallInv'
  <2> DEFINE e == Head(events)
             c(o) == [by |-> "event", order |-> o, qty |-> e.filled]
  <2>1. UNCHANGED <<pc, orderNo>>
    BY <1>15 DEF ConsumeEvent, callVars
  <2>2. pending' \subseteq pending
    BY <1>15 DEF ConsumeEvent, HandleOrderEvent, HandleBalanceEvent
  <2>3. creating' \subseteq creating \union {c(e.key[1])}
    BY <1>15 DEF ConsumeEvent, HandleOrderEvent, HandleBalanceEvent, PartialFill
  <2>4. c(e.key[1]).by = "event"
    OBVIOUS
  <2> HIDE DEF c
  <2> QED
    BY <2>1, <2>2, <2>3, <2>4, <1>apart
<1>16. ASSUME ConsumerRefreshed PROVE CallInv'
  BY <1>16, <1>apart DEF ConsumerRefreshed, callVars, orderVars
<1>17. ASSUME Broker PROVE CallInv'
  <2>1. BrokerUnchanged
    BY <1>17 DEF Broker, BrokerAccepts, BrokerFills, BrokerConfirms, BrokerCloses
  <2> QED
    BY <2>1, <1>apart DEF BrokerUnchanged, callVars, orderVars
<1>18. CASE UNCHANGED vars
  BY <1>18, <1>apart DEF vars, callVars, orderVars
<1> QED
  BY <1>1, <1>2, <1>3, <1>4, <1>5, <1>6, <1>7, <1>8, <1>9, <1>10, <1>11, <1>12,
     <1>13, <1>14, <1>15, <1>16, <1>17, <1>18
  DEF Next, CallStep, Creation

\* A call that reported failure leaves nothing in pending_orders: neither the
\* exception handlers nor the refusals forget an order that was tracked, and
\* nothing tracks it afterwards.
THEOREM FailureForgets == Spec => []FailureNotTracked
<1>1. CallInv => FailureNotTracked
  BY DEF CallInv, NotTrackedUnsent, FailureNotTracked
<1> QED
  BY TypeInit, TypeStep, CallInit, CallStepInv, <1>1, PTL DEF Spec

-----------------------------------------------------------------------------
(* Duplicate suppression, when clients do not answer PARTIALLY_FILLED.       *)

\* All slots are free at the start.
LEMMA SlotInit == Init => SlotInv
BY DEF Init, SlotInv, NoPartialAnswer, TerminalNotTracked, OneCall, AloneInFlight,
       SlotExclusive, InFlight, Returned, OpenTracked, Tracked

\* Every step keeps the slots exclusive, if no client answers PARTIALLY_FILLED
\* (which alone reaches RefreshAfterPartial).
LEMMA SlotStepInv ==
    ASSUME "PARTIALLY_FILLED" \notin Results,
           TypeInv, CallInv, SlotInv, [Next]_vars
    PROVE  SlotInv'
<1>types. TypeOK /\ TypeOK' /\ LocalKeys /\ LocalKeys'
  BY TypeStep, CallStepInv DEF TypeInv, CallInv
<1>steps. \A o \in Orders : pc[o] \in Steps
  BY <1>types DEF TypeOK
<1>mid. \A o \in Orders : pc[o] /= "accepted" => Key(o) = <<o, 0>>
  BY DEF CallInv, IdUntilAnswer, Key
<1>track. \A o \in Orders : /\ Tracked(o) <=> <<o, 0>> \in pending
                            /\ Tracked(o)' <=> <<o, 0>> \in pending'
  BY <1>types, TrackedLocally, TrackedLocallyNext
<1>unsent. \A o \in Orders : pc[o] \in {"new", "account", "price", "failed"} => ~Tracked(o)
  BY DEF CallInv, NotTrackedUnsent
<1>noCall. \A c \in creating : c.by /= "call"
  BY <1>types DEF CallInv, CallCreation, SlotInv, NoPartialAnswer, TypeOK, Creations
\* A tracked order is unfinished, or its call has yet to return.
<1>open. \A o \in Orders : Tracked(o) => OpenTracked(o) \/ InFlight(o)
  BY <1>unsent DEF SlotInv, TerminalNotTracked, OpenTracked, InFlight, Returned
\* What every step does to calls and slots.
<1> DEFINE Starts == \A o \in Orders : InFlight(o)' => InFlight(o) \/ ExecuteOrder(o)
           Opens == \A o \in Orders : OpenTracked(o)' => OpenTracked(o) \/ InFlight(o)
           Move == NoPartialAnswer' /\ TerminalNotTracked' /\ Starts /\ Opens
<1>move. ASSUME NEW o \in Orders, InFlight(o),
                NEW step \in Steps \ {"new", "create", "refresh"},
                pc' = [pc EXCEPT ![o] = step],
                \A p \in Orders : p /= o => status'[p] = status[p],
                pending' \subseteq pending \union {<<o, 0>>},
                step \in {"accepted", "failed"} /\ status'[o] \in Terminal
                => <<o, 0>> \notin pending'
         PROVE  Move
  <2>1. pc'[o] = step /\ \A p \in Orders : p /= o => pc'[p] = pc[p]
    BY <1>move, <1>types DEF TypeOK
  <2>2. \A p \in Orders : p /= o => (Tracked(p)' => Tracked(p))
    BY <1>move, <1>track
  <2>3. NoPartialAnswer' /\ Starts
    BY <1>move, <2>1 DEF SlotInv, NoPartialAnswer, InFlight
  <2>4. Opens
    BY <1>move, <2>2 DEF OpenTracked
  <2>5. TerminalNotTracked'
    BY <1>move, <1>track, <2>1, <2>2 DEF SlotInv, TerminalNotTracked, Returned
  <2> QED
    BY <2>3, <2>4, <2>5
\* A step outside the calls may finish an order it forgets, and reopen one
\* that is tracked.
<1>apart. ASSUME UNCHANGED pc, pending' \subseteq pending,
                 \A o \in Orders :
                     \/ status'[o] = status[o]
                     \/ <<o, 0>> \notin pending'
                     \/ Tracked(o) /\ status'[o] \notin Terminal
          PROVE  Move
  <2>1. \A o \in Orders : Tracked(o)' => Tracked(o)
    BY <1>apart DEF Tracked
  <2>2. NoPartialAnswer' /\ Starts
    BY <1>apart DEF SlotInv, NoPartialAnswer, InFlight
  <2>3. Opens
    BY <1>apart, <1>track, <1>open, <2>1 DEF OpenTracked
  <2>4. TerminalNotTracked'
    BY <1>apart, <1>track, <2>1 DEF SlotInv, TerminalNotTracked, Returned
  <2> QED
    BY <2>2, <2>3, <2>4
<1>fail. ASSUME NEW o \in Orders, Fail(o), pc[o] \in {"account", "price", "send"}
         PROVE  Move
  <2>1. /\ pending' = pending \ {<<o, 0>>}
        /\ pc' = [pc EXCEPT ![o] = "failed"]
        /\ \A p \in Orders : p /= o => status'[p] = status[p]
    BY <1>fail, <1>mid, <1>types DEF Fail, Go, SetStatus, TypeOK
  <2> QED
    BY <1>fail, <2>1, <1>move DEF InFlight, Steps
<1>1. ASSUME NEW o \in Orders, ExecuteOrder(o) PROVE Move
  <2>1. /\ pc[o] = "new"
        /\ \E step \in {"failed", "account"} : pc' = [pc EXCEPT ![o] = step]
        /\ UNCHANGED <<status, pending>>
    BY <1>1 DEF ExecuteOrder, Go, orderVars
  <2>2. /\ pc'[o] \in {"failed", "account"}
        /\ \A p \in Orders : p /= o => pc'[p] = pc[p]
    BY <2>1, <1>types DEF TypeOK
  <2>3. \A p \in Orders : (Tracked(p)' <=> Tracked(p)) /\ (OpenTracked(p)' <=> OpenTracked(p))
    BY <2>1 DEF Tracked, OpenTracked
  <2>4. NoPartialAnswer' /\ Starts
    BY <1>1, <2>1, <2>2 DEF SlotInv, NoPartialAnswer, InFlight
  <2>5. TerminalNotTracked'
    BY <1>unsent, <2>1, <2>2, <2>3 DEF SlotInv, TerminalNotTracked, Returned
  <2> QED
    BY <2>3, <2>4, <2>5
<1>2. ASSUME NEW o \in Orders, AccountRateLimited(o) PROVE Move
  <2>1. CASE Fail(o)
    BY <1>2, <2>1, <1>fail DEF AccountRateLimited
  <2>2. CASE ~Fail(o)
    BY <1>2, <2>2, <1>apart DEF AccountRateLimited, orderVars
  <2> QED
    BY <2>1, <2>2
<1>3. ASSUME NEW o \in Orders, ReadFails(o) PROVE Move
  BY <1>3, <1>fail DEF ReadFails
<1>reject. ASSUME NEW o \in Orders, Reject(o), pc[o] \in {"account", "price"} PROVE Move
  <2>1. /\ pc' = [pc EXCEPT ![o] = "failed"] /\ pending' = pending
        /\ \A p \in Orders : p /= o => status'[p] = status[p]
    BY <1>reject, <1>types DEF Reject, Go, SetStatus, TypeOK
  <2>2. <<o, 0>> \notin pending
    BY <1>reject, <1>unsent, <1>track
  <2> QED
    BY <1>reject, <2>1, <2>2, <1>move DEF InFlight, Steps
<1>4. ASSUME NEW o \in Orders, GetAccount(o) PROVE Move
  <2>1. pc[o] = "account"
    BY <1>4 DEF GetAccount
  <2>2. CASE Go(o, "price") /\ UNCHANGED <<status, pending>>
    BY <2>1, <2>2, <1>move DEF Go, InFlight, Steps
  <2> QED
    BY <1>4, <2>1, <2>2, <1>reject DEF GetAccount
<1>5. ASSUME NEW o \in Orders, GetPrice(o) PROVE Move
  <2>1. pc[o] = "price"
    BY <1>5 DEF GetPrice
  <2>2. ASSUME Go(o, "send"), SetStatus(o, "SUBMITTED"), Track(o) PROVE Move
    <3>1. /\ pc' = [pc EXCEPT ![o] = "send"] /\ pending' = pending \union {<<o, 0>>}
          /\ \A p \in Orders : p /= o => status'[p] = status[p]
      BY <2>1, <2>2, <1>mid, <1>types DEF Go, SetStatus, Track, TypeOK
    <3> QED
      BY <2>1, <3>1, <1>move DEF InFlight, Steps
  <2> QED
    BY <1>5, <2>1, <2>2, <1>reject DEF GetPrice
<1>6. ASSUME NEW o \in Orders, Resend(o) PROVE Move
  BY <1>6, <1>apart DEF Resend, callVars, orderVars
<1>7. ASSUME NEW o \in Orders, SubmitFails(o) PROVE Move
  BY <1>7, <1>fail DEF SubmitFails
<1>8. ASSUME NEW o \in Orders, LiveAnswer(o) PROVE Move
  <2>1. /\ pc[o] = "send" /\ pc' = [pc EXCEPT ![o] = "accepted"]
        /\ status' = [status EXCEPT ![o] = "PENDING"]
        /\ UNCHANGED pending
    BY <1>8 DEF LiveAnswer, Go, SetStatus
  <2>2. status'[o] \notin Terminal /\ \A p \in Orders : p /= o => status'[p] = status[p]
    BY <2>1, <1>types DEF TypeOK, Terminal
  <2> QED
    BY <2>1, <2>2, <1>move DEF InFlight, Steps
<1>9. ASSUME NEW o \in Orders, NEW r \in Results, ProtocolAnswer(o, r) PROVE Move
  <2>1. /\ pc[o] = "send" /\ InFlight(o)
        /\ status'[o] = r
        /\ \A p \in Orders : p /= o => status'[p] = status[p]
    BY <1>9, <1>types DEF ProtocolAnswer, SetStatus, InFlight, TypeOK
  <2>2. r \in {"FILLED", "REJECTED", "FAILED", "SUBMITTED"}
    BY <1>9 DEF ProtocolAnswer, Answers
  <2>3. CASE r = "FILLED"
    <3>1. pc' = [pc EXCEPT ![o] = "settle"] /\ UNCHANGED pending
      BY <1>9, <2>3 DEF ProtocolAnswer, Go
    <3> QED
      BY <2>1, <3>1, <1>move DEF Steps
  <2>4. CASE r \in {"REJECTED", "FAILED"}
    <3>1. pc' = [pc EXCEPT ![o] = "failed"] /\ pending' = pending \ {<<o, 0>>}
      BY <1>9, <2>1, <2>4, <1>mid DEF ProtocolAnswer, Go
    <3> QED
      BY <2>1, <3>1, <1>move DEF Steps
  <2>5. CASE r = "SUBMITTED"
    <3>1. pc' = [pc EXCEPT ![o] = "accepted"] /\ UNCHANGED pending /\ status'[o] \notin Terminal
      BY <1>9, <2>1, <2>5 DEF ProtocolAnswer, Go, Terminal
    <3> QED
      BY <2>1, <3>1, <1>move DEF Steps
  <2> QED
    BY <2>2, <2>3, <2>4, <2>5
<1>10. ASSUME NEW o \in Orders, Settle(o) PROVE Move
  <2>1. /\ pc[o] = "settle" /\ pc' = [pc EXCEPT ![o] = "accepted"]
        /\ UNCHANGED status
    BY <1>10 DEF Settle, Go, orderVars
  <2>2. pending' = pending \ {<<o, 0>>}
    BY <1>10, <2>1, <1>mid DEF Settle
  <2> QED
    BY <2>1, <2>2, <1>move DEF InFlight, Steps
<1>11. ASSUME NEW o \in Orders PROVE ~RefreshAfterPartial(o)
  BY DEF RefreshAfterPartial, SlotInv, NoPartialAnswer
<1>12. ASSUME NEW c \in creating, CreatePosition(c) \/ CreateFails(c) PROVE Move
  BY <1>12, <1>noCall, <1>apart DEF CreatePosition, CreateFails, orderVars
<1>13. ASSUME NEW k \in pending, CancelOrder(k) PROVE Move
  <2>1. k = <<k[1], 0>> /\ k[1] \in Orders
    BY <1>types DEF LocalKeys, TypeOK, Keys
  <2>2. /\ UNCHANGED pc /\ pending' = pending \ {k}
        /\ \A p \in Orders : p /= k[1] => status'[p] = status[p]
    BY <1>13, <1>types DEF CancelOrder, SetStatus, callVars, TypeOK
  <2> QED
    BY <2>1, <2>2, <1>apart
<1>14. ASSUME ConsumeEvent PROVE Move
  <2> DEFINE e == Head(events)
             o == e.key[1]
  <2>1. UNCHANGED pc
    BY <1>14 DEF ConsumeEvent, callVars
  <2>2. CASE UNCHANGED <<status, pending>>
    BY <2>1, <2>2, <1>apart
  <2>3. CASE ~UNCHANGED <<status, pending>>
    <3>1. e.key \in pending /\ HandleOrderEvent(e)
      BY <1>14, <2>3 DEF ConsumeEvent, HandleOrderEvent, HandleBalanceEvent
    <3>2. e.key = <<o, 0>> /\ o \in Orders /\ Tracked(o)
      <4>1. e.key = <<o, 0>> /\ o \in Orders
        BY <3>1, <1>types DEF LocalKeys, TypeOK, Keys
      <4> QED
        BY <3>1, <4>1, <1>track
    <3>3. \/ pending' = pending \ {e.key}
          \/ UNCHANGED pending /\ status'[o] \notin Terminal
      <4>1. \/ pending' = pending \ {e.key}
            \/ /\ UNCHANGED pending /\ StatusOf(e.status) \notin Terminal
               /\ SetStatus(o, "PARTIALLY_FILLED") \/ SetStatus(o, StatusOf(e.status))
        BY <3>1 DEF HandleOrderEvent
      <4>2. \A s : SetStatus(o, s) => status'[o] = s
        BY <3>2, <1>types DEF SetStatus, TypeOK
      <4>3. "PARTIALLY_FILLED" \notin Terminal
        BY DEF Terminal
      <4> QED
        BY <4>1, <4>2, <4>3
    <3>4. \A p \in Orders : p /= o => status'[p] = status[p]
      BY <3>1, <1>types DEF HandleOrderEvent, SetStatus, TypeOK
    <3> QED
      BY <2>1, <3>2, <3>3, <3>4, <1>apart
  <2> QED
    BY <2>2, <2>3
<1>15. ASSUME ConsumerRefreshed PROVE Move
  BY <1>15, <1>apart DEF ConsumerRefreshed, callVars, orderVars
<1>16. ASSUME Broker PROVE Move
  <2>1. BrokerUnchanged
    BY <1>16 DEF Broker, BrokerAccepts, BrokerFills, BrokerConfirms, BrokerCloses
  <2> QED
    BY <2>1, <1>apart DEF BrokerUnchanged, callVars, orderVars
<1>17. ASSUME UNCHANGED vars PROVE Move
  BY <1>17, <1>apart DEF vars, callVars, orderVars
<1>18. Move
  BY <1>1, <1>2, <1>3, <1>4, <1>5, <1>6, <1>7, <1>8, <1>9, <1>10, <1>11, <1>12,
     <1>13, <1>14, <1>15, <1>16, <1>17
  DEF Next, CallStep, Creation
\* An order starts its call alone, and only in a free slot.
<1>start. ASSUME NEW o \in Orders, ExecuteOrder(o), InFlight(o)',
                 NEW p \in Orders, p /= o, CallerOf[o] = CallerOf[p]
          PROVE  ~InFlight(p)' /\ (SameSlot(o, p) => ~OpenTracked(p)')
  <2>1. ~InFlight(p) /\ UNCHANGED <<status, pending>>
    BY <1>start DEF ExecuteOrder, orderVars
  <2>2. pc'[p] = pc[p]
    BY <1>start, <1>types DEF ExecuteOrder, Go, TypeOK
  <2>3. ~Duplicate(o)
    <3>1. pc'[o] \in {"account", "failed"} /\ (Duplicate(o) => pc'[o] = "failed")
      BY <1>start, <1>types DEF ExecuteOrder, Go, TypeOK
    <3> QED
      BY <1>start, <3>1 DEF InFlight
  <2>4. SameSlot(o, p) => ~OpenTracked(p)
    <3> SUFFICES ASSUME SameSlot(o, p), OpenTracked(p) PROVE FALSE
      OBVIOUS
    <3>1. <<p, 0>> \in pending /\ status[p] \notin Terminal
      BY <1>track DEF OpenTracked
    <3>2. SameSlot(<<p, 0>>[1], o)
      BY DEF SameSlot
    <3> QED
      BY <2>3, <3>1, <3>2 DEF Duplicate
  <2>5. OpenTracked(p)' <=> OpenTracked(p)
    BY <2>1 DEF OpenTracked, Tracked
  <2> QED
    BY <2>1, <2>2, <2>4, <2>5 DEF InFlight
<1>19. OneCall'
  BY <1>18, <1>start DEF SlotInv, OneCall
<1>20. AloneInFlight'
  BY <1>18, <1>start DEF SlotInv, OneCall, AloneInFlight, SameSlot
<1>21. SlotExclusive'
  BY <1>18 DEF SlotInv, OneCall, AloneInFlight, SlotExclusive, SameSlot
<1> QED
  BY <1>18, <1>19, <1>20, <1>21 DEF SlotInv

\* Of the orders one task places in one slot, at most one is ever tracked and
\* unfinished: although two awaits separate the duplicate check from the
\* insertion, another order of the task can neither start nor reopen between.
THEOREM SlotsAreExclusive ==
    ASSUME "PARTIALLY_FILLED" \notin Results
    PROVE  Spec => []SlotExclusive
<1>1. SlotInv => SlotExclusive
  BY DEF SlotInv
<1>2. TypeInv /\ CallInv /\ SlotInv /\ [Next]_vars => SlotInv'
  BY SlotStepInv
<1> QED
  BY TypeInit, TypeStep, CallInit, CallStepInv, SlotInit, <1>1, <1>2, PTL DEF Spec

\* Once its call has returned, an order in a final status is not tracked: the
\* call, the consumer and cancel_order may finish it in any order.
THEOREM FinishedOrdersForgotten ==
    ASSUME "PARTIALLY_FILLED" \notin Results
    PROVE  Spec => []TerminalNotTracked
<1>1. SlotInv => TerminalNotTracked
  BY DEF SlotInv
<1>2. TypeInv /\ CallInv /\ SlotInv /\ [Next]_vars => SlotInv'
  BY SlotStepInv
<1> QED
  BY TypeInit, TypeStep, CallInit, CallStepInv, SlotInit, <1>1, <1>2, PTL DEF Spec

\* What is known of every call in flight - its order, the id it is tracked
\* under and the client's answer - holds between any two awaits, whatever the
\* other calls, the consumer and cancel_order do meanwhile.
THEOREM CallsStayConsistent == Spec => []CallInv
<1> QED
  BY TypeInit, TypeStep, CallInit, CallStepInv, PTL DEF Spec

\* The inductive reason of the two theorems above, which the runs check too: a
\* task makes one call at a time, and while it does no other order of the task
\* in that slot is tracked and unfinished.
THEOREM CallsHoldTheirSlot ==
    ASSUME "PARTIALLY_FILLED" \notin Results
    PROVE  Spec => []SlotInv
<1>1. TypeInv /\ CallInv /\ SlotInv /\ [Next]_vars => SlotInv'
  BY SlotStepInv
<1> QED
  BY TypeInit, TypeStep, CallInit, CallStepInv, SlotInit, <1>1, PTL DEF Spec

-----------------------------------------------------------------------------
(* Positions of the live client follow the broker.                           *)

IsBalance(e, s) == e.kind = "balance" /\ e.stock = s

\* Once the queue q is handled, the position p of stock s will be h: no event
\* of q is about it and it is h already, or the last one that is reports h.
UpToDate(s, q, p, h) ==
    \/ p = h /\ \A i \in 1 .. Len(q) : ~IsBalance(q[i], s)
    \/ \E i \in 1 .. Len(q) :
           /\ IsBalance(q[i], s)
           /\ q[i].holding = h
           /\ \A j \in i + 1 .. Len(q) : ~IsBalance(q[j], s)

\* An event about something else changes nothing.
LEMMA OtherEvent ==
    ASSUME NEW q \in Seq(Event), NEW e \in Event, NEW s, NEW p, NEW h,
           ~IsBalance(e, s), UpToDate(s, q, p, h)
    PROVE  UpToDate(s, Append(q, e), p, h)
<1> DEFINE n == Len(q)
           r == Append(q, e)
<1>1. n \in Nat /\ Len(r) = n + 1
  OBVIOUS
<1>2. (\A i \in 1 .. n : r[i] = q[i]) /\ r[n + 1] = e
  OBVIOUS
<1> HIDE DEF n, r
<1>3. CASE p = h /\ \A i \in 1 .. n : ~IsBalance(q[i], s)
  BY <1>1, <1>2, <1>3 DEF UpToDate, r
<1>4. ASSUME NEW i \in 1 .. n, IsBalance(q[i], s), q[i].holding = h,
             \A j \in i + 1 .. n : ~IsBalance(q[j], s)
      PROVE  UpToDate(s, r, p, h)
  <2>1. i \in 1 .. Len(r) /\ r[i] = q[i]
    BY <1>1, <1>2
  <2>2. \A j \in i + 1 .. Len(r) : ~IsBalance(r[j], s)
    <3> TAKE j \in i + 1 .. Len(r)
    <3>1. j = n + 1 \/ (j \in i + 1 .. n /\ j \in 1 .. n)
      BY <1>1
    <3> QED
      BY <3>1, <1>2, <1>4
  <2> QED
    BY <2>1, <2>2, <1>4 DEF UpToDate
<1> QED
  BY <1>3, <1>4 DEF UpToDate, n, r

\* The newest report of a stock decides.
LEMMA NewestEvent ==
    ASSUME NEW q \in Seq(Event), NEW e \in Event, NEW s, NEW p, IsBalance(e, s)
    PROVE  UpToDate(s, Append(q, e), p, e.holding)
<1>1. Len(Append(q, e)) = Len(q) + 1 /\ Len(q) \in Nat
      /\ Append(q, e)[Len(q) + 1] = e
  OBVIOUS
<1>2. Len(q) + 1 \in 1 .. Len(q) + 1 /\ (Len(q) + 1) + 1 .. Len(q) + 1 = {}
  BY <1>1
<1> QED
  BY <1>1, <1>2 DEF UpToDate

\* Handling the oldest event keeps it.
LEMMA OldestEvent ==
    ASSUME NEW q \in Seq(Event), q /= <<>>, NEW s, NEW p, NEW h,
           UpToDate(s, q, p, h)
    PROVE  UpToDate(s, Tail(q), IF IsBalance(Head(q), s) THEN Head(q).holding ELSE p, h)
<1> DEFINE n == Len(q)
           t == Tail(q)
<1>1. n \in Nat /\ n >= 1 /\ Len(t) = n - 1 /\ Head(q) = q[1]
  OBVIOUS
<1>2. \A i \in 1 .. n - 1 : t[i] = q[i + 1]
  OBVIOUS
<1> HIDE DEF n, t
<1>3. ASSUME p = h, \A i \in 1 .. n : ~IsBalance(q[i], s)
      PROVE  ~IsBalance(q[1], s) /\ UpToDate(s, t, p, h)
  <2>1. 1 \in 1 .. n /\ \A i \in 1 .. n - 1 : i + 1 \in 1 .. n
    BY <1>1
  <2> QED
    BY <2>1, <1>1, <1>2, <1>3 DEF UpToDate
<1>4. ASSUME NEW i \in 1 .. n, IsBalance(q[i], s), q[i].holding = h,
             \A j \in i + 1 .. n : ~IsBalance(q[j], s), i > 1, NEW r
      PROVE  UpToDate(s, t, r, h)
  <2>1. i - 1 \in 1 .. Len(t) /\ t[i - 1] = q[i]
    BY <1>1, <1>2, <1>4
  <2>2. \A j \in (i - 1) + 1 .. Len(t) : ~IsBalance(t[j], s)
    <3> TAKE j \in (i - 1) + 1 .. Len(t)
    <3>1. j + 1 \in i + 1 .. n /\ t[j] = q[j + 1]
      BY <1>1, <1>2, <1>4
    <3> QED
      BY <3>1, <1>4
  <2> QED
    BY <2>1, <2>2, <1>4 DEF UpToDate
<1>5. ASSUME IsBalance(q[1], s), q[1].holding = h,
             \A j \in 1 + 1 .. n : ~IsBalance(q[j], s)
      PROVE  UpToDate(s, t, h, h)
  <2>1. \A i \in 1 .. n - 1 : i + 1 \in 1 + 1 .. n
    BY <1>1
  <2> QED
    BY <2>1, <1>1, <1>2, <1>5 DEF UpToDate
<1>6. CASE p = h /\ \A i \in 1 .. n : ~IsBalance(q[i], s)
  BY <1>1, <1>3, <1>6 DEF t
<1>7. ASSUME NEW i \in 1 .. n, IsBalance(q[i], s), q[i].holding = h,
             \A j \in i + 1 .. n : ~IsBalance(q[j], s)
      PROVE  UpToDate(s, t, IF IsBalance(Head(q), s) THEN Head(q).holding ELSE p, h)
  <2>1. CASE i = 1
    BY <2>1, <1>1, <1>5, <1>7
  <2>2. CASE i > 1
    BY <2>2, <1>4, <1>7
  <2> QED
    BY <2>1, <2>2, <1>1
<1> QED
  BY <1>6, <1>7 DEF UpToDate, n, t

\* The position stock s has once every event is handled.
Known(s) == IF Traded(s) THEN holdings[s] ELSE 0

\* The live client's orders are known to the broker by its own numbers only,
\* while pending_orders keeps the local ids: its order events match nothing, so
\* that positions are changed by the broker's reports alone.
LiveInv ==
    client = "live" =>
        /\ creating = {}
        /\ \A k \in Keys : book[k].state /= "none" => k[2] /= 0
        /\ \A i \in 1 .. Len(events) : events[i].kind = "order" => events[i].key[2] /= 0
        /\ lost \/ \A s \in Stocks : UpToDate(s, events, positions[s], Known(s))

\* It depends on the broker's book and holdings only, and an order event about
\* a fill that is there already does not change it.
LEMMA KnownSame ==
    ASSUME NEW s \in Stocks, UNCHANGED holdings,
           \A k \in Keys : book'[k].filled = book[k].filled
    PROVE  Known(s)' = Known(s)
<1>1. Traded(s)' <=> Traded(s)
  BY DEF Traded
<1> QED
  BY <1>1 DEF Known

\* The program starts with no position and no events, nothing traded.
LEMMA LiveInit == Init => LiveInv
<1> SUFFICES ASSUME Init PROVE LiveInv
  OBVIOUS
<1>1. Len(events) = 0 /\ 1 .. Len(events) = {}
  BY DEF Init
<1>2. \A k \in Keys : book[k].state = "none"
  BY DEF Init
<1>3. creating = {} /\ \A s \in Stocks : positions[s] = 0
  BY DEF Init
<1>4. \A s \in Stocks : Known(s) = 0
  <2>1. \A k \in Keys : book[k].filled = 0
    BY DEF Init
  <2> QED
    BY <2>1 DEF Known, Traded
<1> QED
  BY <1>1, <1>2, <1>3, <1>4 DEF LiveInv, UpToDate

\* No event of the queue matches a tracked order, also after one more.
Unmatched(q) == \A i \in 1 .. Len(q) : q[i].kind = "order" => q[i].key[2] /= 0

\* An event that is matched by no order is put into a queue of such events.
LEMMA PutUnmatched ==
    ASSUME NEW q \in Seq(Event), NEW e \in Event, Unmatched(q),
           e.kind = "order" => e.key[2] /= 0
    PROVE  Unmatched(Put(q, e))
<1>1. CASE Len(q) < QueueMax
  <2>1. Put(q, e) = Append(q, e)
    BY <1>1 DEF Put
  <2>2. ASSUME NEW i \in 1 .. Len(Append(q, e)), Append(q, e)[i].kind = "order"
        PROVE  Append(q, e)[i].key[2] /= 0
    <3>1. CASE i \in 1 .. Len(q)
      BY <2>2, <3>1 DEF Unmatched
    <3>2. CASE i = Len(q) + 1
      BY <2>2, <3>2
    <3> QED
      BY <3>1, <3>2
  <2> QED
    BY <2>1, <2>2 DEF Unmatched
<1>2. CASE ~(Len(q) < QueueMax)
  BY <1>2 DEF Put
<1> QED
  BY <1>1, <1>2

\* Unless the queue is full and the loss on record, a published event is put
\* behind the others, and so are two.
LEMMA PublishAppends ==
    ASSUME NEW e, TypeInv, Publish(e), ~lost'
    PROVE  ~lost /\ events' = Append(events, e)
<1>1. ~lost /\ ~(Len(events) >= QueueMax)
  BY Zenon DEF Publish
<1>2. Len(events) \in Nat /\ QueueMax \in Nat
  BY TypeAssumption DEF TypeInv, TypeOK
<1>3. Len(events) < QueueMax
  BY <1>1, <1>2
<1> QED
  BY <1>1, <1>3 DEF Publish, Put

\* Two messages that both find room are appended, one after the other.
LEMMA Publish2Appends ==
    ASSUME NEW e \in Event, NEW f \in Event, TypeInv, Publish2(e, f), ~lost'
    PROVE  ~lost /\ events' = Append(Append(events, e), f)
<1>1. ~lost /\ ~(Len(events) + 1 >= QueueMax)
  BY Zenon DEF Publish2
<1>2. Len(events) \in Nat /\ QueueMax \in Nat /\ events \in Seq(Event)
  BY TypeAssumption DEF TypeInv, TypeOK
<1>3. Len(events) < QueueMax /\ Len(events) + 1 < QueueMax
  BY <1>1, <1>2
<1>4. Put(events, e) = Append(events, e)
  BY <1>3 DEF Put
<1>5. Len(Append(events, e)) = Len(events) + 1
  BY <1>2
<1>6. Put(Append(events, e), f) = Append(Append(events, e), f)
  BY <1>3, <1>5 DEF Put
<1> QED
  BY <1>1, <1>4, <1>6 DEF Publish2

\* Every step keeps it: the broker appends what is newest, the consumer takes
\* what is oldest, and nobody else changes a position.
LEMMA LiveStep == TypeInv /\ CallInv /\ LiveInv /\ [Next]_vars => LiveInv'
<1> SUFFICES ASSUME TypeInv, CallInv, LiveInv, [Next]_vars PROVE LiveInv'
  OBVIOUS
<1>c. client' = client
  BY DEF Next, CallStep, Creation, Broker, vars, brokerVars, ExecuteOrder,
     AccountRateLimited, ReadFails, Fail, GetAccount, GetPrice, Resend,
     SubmitFails, LiveAnswer, ProtocolAnswer, Settle, RefreshAfterPartial,
     CreatePosition, CreateFails, CancelOrder, ConsumeEvent, ConsumerRefreshed,
     BrokerAccepts, BrokerFills, BrokerConfirms, BrokerCloses, BrokerUnchanged
<1> SUFFICES ASSUME client = "live" PROVE LiveInv'
  BY <1>c DEF LiveInv
<1>a. creating = {} /\ Unmatched(events)
      /\ (\A k \in Keys : book[k].state /= "none" => k[2] /= 0)
      /\ (lost \/ \A s \in Stocks : UpToDate(s, events, positions[s], Known(s)))
  BY DEF LiveInv, Unmatched
<1>t. /\ events \in Seq(Event) /\ positions \in [Stocks -> Nat]
      /\ holdings \in [Stocks -> Nat] /\ pending \subseteq Keys
      /\ book \in [Keys -> [state : {"none", "open", "amended", "closed"}, filled : Nat]]
  BY DEF TypeInv, TypeOK
<1>b. \A k \in Keys : book[k].filled \in Nat /\ book[k].filled <= Qty[k[1]]
  BY <1>t DEF TypeInv, BookBounded
<1>q. \A k \in Keys : k[1] \in Orders /\ StockOf[k[1]] \in Stocks /\ Qty[k[1]] \in Nat
  BY TypeAssumption DEF Keys
<1>u. ASSUME UNCHANGED <<creating, book, events, lost, positions, holdings>>
      PROVE  LiveInv'
  BY <1>u, <1>c, <1>a, KnownSame DEF LiveInv, Unmatched
<1>1. ASSUME NEW o \in Orders, ExecuteOrder(o) \/ CallStep(o) PROVE LiveInv'
  BY <1>1, <1>u
     DEF ExecuteOrder, CallStep, AccountRateLimited, ReadFails, Fail, GetAccount,
         GetPrice, Resend, SubmitFails, LiveAnswer, ProtocolAnswer, Settle,
         RefreshAfterPartial, brokerVars
<1>2. CASE (\E k \in pending : CancelOrder(k)) \/ ConsumerRefreshed \/ UNCHANGED vars
  BY <1>2, <1>u DEF CancelOrder, ConsumerRefreshed, vars, brokerVars
<1>3. CASE Creation
  BY <1>3, <1>a DEF Creation
<1>4. CASE ConsumeEvent
  <2> DEFINE e == Head(events)
  <2>1. events /= <<>> /\ events' = Tail(events)
        /\ UNCHANGED <<book, holdings, lost>>
    BY <1>4 DEF ConsumeEvent, brokerVars
  <2>2. e = events[1] /\ 1 \in 1 .. Len(events)
    BY <2>1, <1>t
  <2>3. Unmatched(events')
    <3>1. \A i \in 1 .. Len(Tail(events)) :
              i + 1 \in 1 .. Len(events) /\ Tail(events)[i] = events[i + 1]
      BY <2>1, <1>t
    <3> QED
      BY <3>1, <2>1, <1>a DEF Unmatched
  <2>4. CASE e.kind = "order"
    <3>1. e.key[2] /= 0
      BY <2>2, <2>4, <1>a DEF Unmatched
    <3>2. e.key \notin pending
      BY <3>1 DEF CallInv, LocalKeys
    <3>3. UNCHANGED <<positions, creating>>
      BY <1>4, <2>4, <3>2 DEF ConsumeEvent, HandleOrderEvent
    <3>4. ASSUME NEW s \in Stocks, ~lost
          PROVE  UpToDate(s, events', positions'[s], Known(s)')
      <4>1. ~IsBalance(e, s)
        BY <2>4 DEF IsBalance
      <4> QED
        BY <4>1, <2>1, <3>3, <3>4, <1>a, <1>t, OldestEvent, KnownSame
    <3> QED
      BY <2>1, <2>3, <3>3, <3>4, <1>a DEF LiveInv, Unmatched
  <2>5. CASE e.kind /= "order"
    <3>1. e \in BalanceEvents
      BY <2>1, <2>5, <1>t, HeadType
    <3>2. positions' = [positions EXCEPT ![e.stock] = e.holding]
          /\ UNCHANGED creating
      BY <1>4, <2>5 DEF ConsumeEvent, HandleBalanceEvent
    <3>3. e.stock \in Stocks /\ e.kind = "balance"
      BY <3>1 DEF BalanceEvents
    <3>4. ASSUME NEW s \in Stocks, ~lost
          PROVE  UpToDate(s, events', positions'[s], Known(s)')
      <4>1. positions'[s] = IF IsBalance(e, s) THEN e.holding ELSE positions[s]
        BY <3>2, <3>3, <1>t DEF IsBalance
      <4> QED
        BY <4>1, <2>1, <3>4, <1>a, <1>t, OldestEvent, KnownSame
    <3> QED
      BY <2>1, <2>3, <3>2, <3>4, <1>a DEF LiveInv, Unmatched
  <2> QED
    BY <2>4, <2>5
<1>5. ASSUME NEW k \in Keys, NEW n \in Nat, n <= Qty[k[1]], k[2] /= 0,
             NEW a \in {"accepted", "confirmed", "cancelled", "refused"},
             Publish(OrderEvent(k, a, n)), BrokerUnchanged, UNCHANGED holdings,
             \A l \in Keys : book'[l].state /= "none" => l[2] /= 0,
             \A l \in Keys : book'[l].filled = book[l].filled
      PROVE  LiveInv'
  <2> DEFINE e == OrderEvent(k, a, n)
  <2>1. e \in Event /\ e.kind = "order" /\ e.key = k
    BY <1>5, OrderEventType DEF OrderEvent
  <2> HIDE DEF e
  <2>2. Unmatched(events')
    <3>1. events' = Put(events, e)
      BY <1>5 DEF Publish, e
    <3> QED
      BY <3>1, <2>1, <1>5, <1>a, <1>t, PutUnmatched
  <2>3. ASSUME NEW s \in Stocks, ~lost'
        PROVE  UpToDate(s, events', positions'[s], Known(s)')
    <3>1. ~lost /\ events' = Append(events, e)
      BY <1>5, <2>3, PublishAppends DEF e
    <3>2. ~IsBalance(e, s) /\ UNCHANGED positions /\ Known(s)' = Known(s)
      BY <2>1, <1>5, KnownSame DEF IsBalance, BrokerUnchanged
    <3> QED
      BY <3>1, <3>2, <2>1, <1>a, <1>t, OtherEvent
  <2> QED
    BY <2>2, <2>3, <1>5, <1>a, <1>c DEF LiveInv, Unmatched, BrokerUnchanged
<1>6. ASSUME NEW k \in Keys,
             \/ BrokerAccepts(k)
             \/ BrokerConfirms(k)
             \/ \E s \in {"cancelled", "refused"} : BrokerCloses(k, s)
      PROVE  LiveInv'
  <2>1. CASE BrokerAccepts(k)
    <3>1. k[2] /= 0
      BY <2>1 DEF BrokerAccepts
    <3>2. \A l \in Keys : book'[l].state /= "none" => l[2] /= 0
      BY <2>1, <3>1, <1>a, <1>t DEF BrokerAccepts
    <3>3. 0 \in Nat /\ 0 <= Qty[k[1]]
      BY <1>q
    <3>4. \A l \in Keys : book'[l].filled = book[l].filled
      BY <2>1, <1>t DEF BrokerAccepts
    <3> QED
      BY <2>1, <3>1, <3>2, <3>3, <3>4, <1>5 DEF BrokerAccepts
  <2>2. CASE BrokerConfirms(k)
    <3>1. k[2] /= 0
      BY <2>2, <1>a DEF BrokerConfirms
    <3>2. \A l \in Keys : book'[l].state /= "none" => l[2] /= 0
      BY <2>2, <3>1, <1>a, <1>t DEF BrokerConfirms
    <3>3. \A l \in Keys : book'[l].filled = book[l].filled
      BY <2>2, <1>t DEF BrokerConfirms
    <3> QED
      BY <2>2, <3>1, <3>2, <3>3, <1>b, <1>5 DEF BrokerConfirms
  <2>3. ASSUME NEW s \in {"cancelled", "refused"}, BrokerCloses(k, s)
        PROVE  LiveInv'
    <3>1. k[2] /= 0
      BY <2>3, <1>a DEF BrokerCloses, Working
    <3>2. \A l \in Keys : book'[l].state /= "none" => l[2] /= 0
      BY <2>3, <3>1, <1>a, <1>t DEF BrokerCloses
    <3>3. \A l \in Keys : book'[l].filled = book[l].filled
      BY <2>3, <1>t DEF BrokerCloses
    <3> QED
      BY <2>3, <3>1, <3>2, <3>3, <1>b, <1>5 DEF BrokerCloses
  <2> QED
    BY <1>6, <2>1, <2>2, <2>3
<1>7. ASSUME NEW k \in Keys, NEW n \in 1 .. Qty[k[1]], BrokerFills(k, n)
      PROVE  LiveInv'
  <2> DEFINE t == StockOf[k[1]]
             total == book[k].filled + n
             held == IF TypeOf[k[1]] = "BUY" THEN holdings[t] + n ELSE holdings[t] - n
             e == OrderEvent(k, "executed", total)
             f == [kind |-> "balance", stock |-> t, holding |-> held]
  <2>1. /\ Publish2(e, f)
        /\ holdings' = [holdings EXCEPT ![t] = held]
        /\ Working(book[k]) /\ total <= Qty[k[1]]
        /\ TypeOf[k[1]] = "SELL" => n <= holdings[t]
        /\ BrokerUnchanged
    BY <1>7 DEF BrokerFills
  <2>2. n \in Nat /\ total \in Nat /\ t \in Stocks /\ held \in Nat
    <3>1. n \in Nat /\ t \in Stocks
      BY <1>q
    <3>2. holdings[t] \in Nat /\ TypeOf[k[1]] \in {"BUY", "SELL"}
      BY <3>1, <1>t, <1>q, TypeAssumption
    <3> QED
      BY <3>1, <3>2, <2>1, <1>b
  <2>3. e \in Event /\ e.kind = "order" /\ e.key = k
    BY <2>1, <2>2, OrderEventType DEF OrderEvent
  <2>4. f \in Event /\ f.kind = "balance" /\ f.stock = t /\ f.holding = held
    BY <2>2 DEF Event, BalanceEvents
  <2>5. k[2] /= 0
    BY <2>1, <1>a DEF Working
  <2>6. \A l \in Keys : book'[l].state /= "none" => l[2] /= 0
    BY <1>7, <2>5, <1>a, <1>t DEF BrokerFills
  <2>9. book' = [book EXCEPT ![k] =
                     [state |-> IF total = Qty[k[1]] THEN "closed" ELSE @.state,
                      filled |-> total]]
    BY <1>7 DEF BrokerFills
  <2>10. total > 0 /\ t = StockOf[k[1]]
    BY <1>q, <1>b
  <2> HIDE DEF e, f, held, total, t
  <2>7. Unmatched(events')
    <3>1. events' = Put(Put(events, e), f)
      BY <2>1 DEF Publish2
    <3>2. Unmatched(Put(events, e)) /\ Put(events, e) \in Seq(Event)
      BY <2>3, <2>5, <1>a, <1>t, PutUnmatched, PutType
    <3> QED
      BY <3>1, <3>2, <2>4, PutUnmatched
  <2>8. ASSUME NEW s \in Stocks, ~lost'
        PROVE  UpToDate(s, events', positions'[s], Known(s)')
    <3>1. ~lost /\ events' = Append(Append(events, e), f)
      BY <2>1, <2>3, <2>4, <2>8, Publish2Appends
    <3>2. Append(events, e) \in Seq(Event) /\ positions' = positions
      BY <2>1, <2>3, <1>t DEF BrokerUnchanged
    <3>3. CASE s = t
      <4>1. IsBalance(f, s) /\ holdings'[s] = f.holding
        BY <3>3, <2>1, <2>2, <2>4, <1>t DEF IsBalance
      <4>2. book'[k].filled > 0
        BY <2>9, <2>10, <1>t
      <4>3. Traded(s)'
        BY <4>2, <2>10, <3>3 DEF Traded
      <4> QED
        BY <4>1, <4>3, <3>1, <3>2, <2>4, NewestEvent DEF Known
    <3>4. CASE s /= t
      <4>1. ~IsBalance(f, s) /\ ~IsBalance(e, s) /\ holdings'[s] = holdings[s]
        BY <3>4, <2>1, <2>3, <2>4, <1>t DEF IsBalance
      <4>2. UpToDate(s, Append(events, e), positions[s], Known(s))
        BY <4>1, <3>1, <2>3, <1>a, <1>t, OtherEvent
      <4>3. \A l \in Keys : StockOf[l[1]] = s => book'[l] = book[l]
        BY <3>4, <2>9, <2>10, <1>t
      <4>4. Traded(s)' <=> Traded(s)
        BY <4>3 DEF Traded
      <4>5. Known(s)' = Known(s)
        BY <4>1, <4>4 DEF Known
      <4> QED
        BY <4>1, <4>2, <4>5, <3>1, <3>2, <2>4, OtherEvent
    <3> QED
      BY <3>3, <3>4
  <2> QED
    BY <2>1, <2>6, <2>7, <2>8, <1>a, <1>c DEF LiveInv, Unmatched, BrokerUnchanged
<1>8. CASE Broker
  BY <1>8, <1>6, <1>7 DEF Broker
<1> QED
  BY <1>1, <1>2, <1>3, <1>4, <1>8 DEF Next

\* With the live client the position of a stock traded in this run is the
\* broker's whenever every event has been handled and none was dropped, and of
\* any other stock there is none: whatever orders, cancellations, fills and
\* repeated submissions there were, in any order, and whatever was held before.
THEOREM PositionsFollowBroker == Spec => []QuiescentPositions
<1>1. TypeInv /\ LiveInv => QuiescentPositions
  <2> SUFFICES ASSUME TypeInv, LiveInv, client = "live", events = <<>>, ~lost
               PROVE  \A s \in Stocks : positions[s] = Known(s)
    BY DEF QuiescentPositions, Known
  <2>1. 1 .. Len(events) = {}
    OBVIOUS
  <2> QED
    BY <2>1 DEF LiveInv, UpToDate
<1> QED
  BY TypeInit, TypeStep, CallInit, CallStepInv, LiveInit, LiveStep, <1>1, PTL DEF Spec

-----------------------------------------------------------------------------
(* Partial fills.                                                            *)

\* Nothing is partially filled at the start, and the book is empty.
LEMMA PartialInit == Init => PartialInv
<1> SUFFICES ASSUME Init PROVE PartialInv
  OBVIOUS
<1>1. \A k \in Keys : book[k] = [state |-> "none", filled |-> 0] /\ ~Working(book[k])
  BY DEF Init, Working
<1>2. \A o \in Orders : pc[o] = "new"
  BY DEF Init
<1> QED
  BY <1>1, <1>2
  DEF PartialInv, PartialStaysTracked, SettledIsClosed, FilledIsClosed

\* Every step keeps a partially filled order that the broker works on tracked.
\* Of the steps that stop tracking an order, each leaves it in another status or
\* its call unanswered, but for Settle, whose order the broker has finished.
LEMMA PartialStep == TypeInv /\ CallInv /\ PartialInv /\ [Next]_vars => PartialInv'
<1> SUFFICES ASSUME TypeInv, CallInv, PartialInv, [Next]_vars PROVE PartialInv'
  OBVIOUS
<1>types. TypeOK /\ TypeOK' /\ LocalKeys /\ LocalKeys'
  BY TypeStep, CallStepInv DEF TypeInv, CallInv
<1>mid. \A o \in Orders : pc[o] /= "accepted" => Key(o) = <<o, 0>>
  BY DEF CallInv, IdUntilAnswer, Key
<1>track. \A o \in Orders : /\ Tracked(o) <=> <<o, 0>> \in pending
                            /\ Tracked(o)' <=> <<o, 0>> \in pending'
  BY <1>types, TrackedLocally, TrackedLocallyNext
<1>key. \A o \in Orders : <<o, 0>> \in Keys
  BY TypeAssumption DEF Keys
\* What a step must do to the tracking of an order to keep it.
<1> DEFINE Safe(o) == \/ <<o, 0>> \in pending'
                      \/ status'[o] /= "PARTIALLY_FILLED"
                      \/ ~Working(book[<<o, 0>>])
           Kept(o) == /\ status'[o] = status[o]
                      /\ <<o, 0>> \in pending => <<o, 0>> \in pending'
<1>move. ASSUME NEW o \in Orders, NEW step \in Steps,
                pc' = [pc EXCEPT ![o] = step], UNCHANGED book,
                \A p \in Orders : p /= o => Kept(p),
                step = "accepted" => Safe(o),
                step = "settle" => ~Working(book[<<o, 0>>])
         PROVE  PartialInv'
  <2>1. pc'[o] = step /\ \A p \in Orders : p /= o => pc'[p] = pc[p]
    BY <1>move, <1>types DEF TypeOK
  <2>2. PartialStaysTracked'
    BY <1>move, <1>track, <2>1 DEF PartialInv, PartialStaysTracked
  <2>3. SettledIsClosed'
    BY <1>move, <2>1 DEF PartialInv, SettledIsClosed
  <2> QED
    BY <1>move, <2>2, <2>3 DEF PartialInv, FilledIsClosed
<1>apart. ASSUME UNCHANGED <<pc, book>>, \A o \in Orders : Kept(o) \/ Safe(o)
          PROVE  PartialInv'
  <2>1. PartialStaysTracked'
    BY <1>apart, <1>track DEF PartialInv, PartialStaysTracked
  <2> QED
    BY <1>apart, <2>1 DEF PartialInv, SettledIsClosed, FilledIsClosed
<1>fail. ASSUME NEW o \in Orders, Fail(o), pc[o] /= "accepted" PROVE PartialInv'
  <2>1. /\ pc' = [pc EXCEPT ![o] = "failed"]
        /\ UNCHANGED book
        /\ \A p \in Orders : p /= o => Kept(p)
    BY <1>fail, <1>mid, <1>types DEF Fail, Go, SetStatus, TypeOK, brokerVars
  <2> QED
    BY <2>1, <1>move DEF Steps
<1>1. ASSUME NEW o \in Orders, ExecuteOrder(o) PROVE PartialInv'
  <2>1. PICK step \in {"failed", "account"} : pc' = [pc EXCEPT ![o] = step]
    BY <1>1 DEF ExecuteOrder, Go
  <2>2. step \in Steps /\ UNCHANGED <<book, status, pending>>
    BY <1>1 DEF ExecuteOrder, Steps, orderVars, brokerVars
  <2> QED
    BY <2>1, <2>2, <1>move
<1>2. ASSUME NEW o \in Orders, AccountRateLimited(o) PROVE PartialInv'
  <2>1. CASE Fail(o)
    BY <1>2, <2>1, <1>fail DEF AccountRateLimited
  <2>2. CASE ~Fail(o)
    BY <1>2, <2>2, <1>apart DEF AccountRateLimited, orderVars, brokerVars
  <2> QED
    BY <2>1, <2>2
<1>3. ASSUME NEW o \in Orders, ReadFails(o) \/ SubmitFails(o) PROVE PartialInv'
  BY <1>3, <1>fail DEF ReadFails, SubmitFails
<1>reject. ASSUME NEW o \in Orders, Reject(o), UNCHANGED book PROVE PartialInv'
  <2>1. /\ pc' = [pc EXCEPT ![o] = "failed"]
        /\ \A p \in Orders : p /= o => Kept(p)
    BY <1>reject, <1>types DEF Reject, Go, SetStatus, TypeOK
  <2> QED
    BY <1>reject, <2>1, <1>move DEF Steps
<1>4. ASSUME NEW o \in Orders, GetAccount(o) PROVE PartialInv'
  <2>1. CASE Reject(o)
    BY <1>4, <2>1, <1>reject DEF GetAccount, brokerVars
  <2>2. CASE ~Reject(o)
    <3>1. pc' = [pc EXCEPT ![o] = "price"] /\ UNCHANGED <<book, status, pending>>
      BY <1>4, <2>2 DEF GetAccount, Go, brokerVars
    <3> QED
      BY <3>1, <1>move DEF Steps
  <2> QED
    BY <2>1, <2>2
<1>5. ASSUME NEW o \in Orders, GetPrice(o) PROVE PartialInv'
  <2>1. CASE Reject(o)
    BY <1>5, <2>1, <1>reject DEF GetPrice, brokerVars
  <2>2. CASE ~Reject(o)
    <3>1. /\ pc' = [pc EXCEPT ![o] = "send"] /\ UNCHANGED book
          /\ pending \subseteq pending'
          /\ \A p \in Orders : p /= o => status'[p] = status[p]
      BY <1>5, <2>2, <1>types DEF GetPrice, Go, SetStatus, Track, TypeOK, brokerVars
    <3> QED
      BY <3>1, <1>move DEF Steps
  <2> QED
    BY <2>1, <2>2
<1>6. ASSUME NEW o \in Orders, Resend(o) PROVE PartialInv'
  BY <1>6, <1>apart DEF Resend, callVars, orderVars, brokerVars
<1>7. ASSUME NEW o \in Orders, LiveAnswer(o) PROVE PartialInv'
  <2>1. /\ pc' = [pc EXCEPT ![o] = "accepted"] /\ UNCHANGED <<book, pending>>
        /\ status' = [status EXCEPT ![o] = "PENDING"]
    BY <1>7 DEF LiveAnswer, Go, SetStatus, brokerVars
  <2>2. status'[o] = "PENDING" /\ \A p \in Orders : p /= o => status'[p] = status[p]
    BY <2>1, <1>types DEF TypeOK
  <2> QED
    BY <2>1, <2>2, <1>move DEF Steps
<1>8. ASSUME NEW o \in Orders, NEW r \in Results, ProtocolAnswer(o, r)
      PROVE  PartialInv'
  <2> DEFINE b == book[<<o, 0>>]
  <2>1. /\ pc[o] = "send" /\ r \in Answers(o) /\ UNCHANGED book
        /\ status'[o] = r
        /\ \A p \in Orders : p /= o => status'[p] = status[p]
    BY <1>8, <1>types DEF ProtocolAnswer, SetStatus, TypeOK, brokerVars
  <2>2. CASE r = "FILLED"
    <3>1. pc' = [pc EXCEPT ![o] = "settle"] /\ UNCHANGED pending
      BY <1>8, <2>2 DEF ProtocolAnswer, Go
    <3>2. b.filled = Qty[o]
      BY <2>1, <2>2 DEF Answers
    <3>3. ~Working(b)
      <4>1. <<o, 0>>[1] = o
        OBVIOUS
      <4> QED
        BY <3>2, <4>1, <1>key DEF PartialInv, FilledIsClosed
    <3> QED
      BY <2>1, <3>1, <3>3, <1>move DEF Steps
  <2>3. CASE r \in {"REJECTED", "FAILED"}
    <3>1. pc' = [pc EXCEPT ![o] = "failed"] /\ pending' = pending \ {Key(o)}
      BY <1>8, <2>3 DEF ProtocolAnswer, Go
    <3>2. pending' = pending \ {<<o, 0>>}
      BY <2>1, <3>1, <1>mid
    <3>3. \A p \in Orders : p /= o => Kept(p)
      BY <2>1, <3>2
    <3> QED
      BY <2>1, <3>1, <3>3, <1>move DEF Steps
  <2>4. CASE r = "PARTIALLY_FILLED"
    <3>1. CASE Oversold(o, b.filled)
      <4>1. pc' = [pc EXCEPT ![o] = "accepted"] /\ pending' = pending \union {Key(o)}
        BY <1>8, <2>4, <3>1 DEF ProtocolAnswer, Go, Track
      <4>2. Key(o) = <<o, 0>>
        BY <2>1, <1>mid
      <4> QED
        BY <2>1, <4>1, <4>2, <1>move DEF Steps
    <3>2. CASE ~Oversold(o, b.filled)
      <4>1. PICK step \in {"create", "refresh"} : pc' = [pc EXCEPT ![o] = step]
        BY <1>8, <2>4, <3>2 DEF ProtocolAnswer, Go
      <4>2. UNCHANGED pending
        BY <1>8, <2>4, <3>2 DEF ProtocolAnswer
      <4> QED
        BY <2>1, <4>1, <4>2, <1>move DEF Steps
    <3> QED
      BY <3>1, <3>2
  <2>5. CASE r \notin {"FILLED", "REJECTED", "FAILED", "PARTIALLY_FILLED"}
    <3>1. pc' = [pc EXCEPT ![o] = "accepted"] /\ UNCHANGED pending
      BY <1>8, <2>5 DEF ProtocolAnswer, Go
    <3> QED
      BY <2>1, <2>5, <3>1, <1>move DEF Steps
  <2> QED
    BY <2>2, <2>3, <2>4, <2>5
<1>9. ASSUME NEW o \in Orders, Settle(o) PROVE PartialInv'
  <2>1. /\ pc[o] = "settle" /\ pc' = [pc EXCEPT ![o] = "accepted"]
        /\ pending' = pending \ {<<o, 0>>} /\ UNCHANGED <<book, status>>
    BY <1>9, <1>mid DEF Settle, Go, orderVars, brokerVars
  <2>2. ~Working(book[<<o, 0>>])
    BY <2>1 DEF PartialInv, SettledIsClosed
  <2> QED
    BY <2>1, <2>2, <1>move DEF Steps
<1>10. ASSUME NEW o \in Orders, RefreshAfterPartial(o) PROVE PartialInv'
  <2>1. /\ pc' = [pc EXCEPT ![o] = "accepted"]
        /\ pending' = pending \union {<<o, 0>>} /\ UNCHANGED <<book, status>>
    BY <1>10, <1>mid DEF RefreshAfterPartial, Go, Track, orderVars, brokerVars
  <2> QED
    BY <2>1, <1>move DEF Steps
<1>11. ASSUME NEW c \in creating, CreatePosition(c) PROVE PartialInv'
  <2>1. CASE c.by = "call"
    <3>1. c.order \in Orders
      BY <1>types DEF TypeOK, Creations
    <3>2. pc' = [pc EXCEPT ![c.order] = "refresh"] /\ UNCHANGED <<book, status, pending>>
      BY <1>11, <2>1 DEF CreatePosition, Go, orderVars, brokerVars
    <3> QED
      BY <3>1, <3>2, <1>move DEF Steps
  <2>2. CASE c.by /= "call"
    BY <1>11, <2>2, <1>apart DEF CreatePosition, orderVars, brokerVars
  <2> QED
    BY <2>1, <2>2
<1>12. ASSUME NEW c \in creating, CreateFails(c) PROVE PartialInv'
  <2>1. CASE c.by = "call"
    <3>1. c.order \in Orders /\ pc[c.order] = "create"
      BY <1>types, <2>1 DEF TypeOK, Creations, CallInv, CallCreation
    <3>2. /\ pc' = [pc EXCEPT ![c.order] = "accepted"]
          /\ pending' = pending \union {<<c.order, 0>>} /\ UNCHANGED <<book, status>>
      BY <1>12, <2>1, <3>1, <1>mid DEF CreateFails, Go, Track, orderVars, brokerVars
    <3> QED
      BY <3>1, <3>2, <1>move DEF Steps
  <2>2. CASE c.by /= "call"
    BY <1>12, <2>2, <1>apart DEF CreateFails, orderVars, brokerVars
  <2> QED
    BY <2>1, <2>2
<1>13. ASSUME NEW k \in pending, CancelOrder(k) PROVE PartialInv'
  <2>1. /\ UNCHANGED <<pc, book>> /\ pending' = pending \ {k}
        /\ status' = [status EXCEPT ![k[1]] = "CANCELLED"]
    BY <1>13 DEF CancelOrder, SetStatus, callVars, brokerVars
  <2>2. \A o \in Orders : status'[o] = IF o = k[1] THEN "CANCELLED" ELSE status[o]
    BY <2>1, <1>types DEF TypeOK
  <2>3. \A o \in Orders : o /= k[1] => Kept(o)
    BY <2>1, <2>2
  <2> QED
    BY <2>1, <2>2, <2>3, <1>apart
<1>14. ASSUME ConsumeEvent PROVE PartialInv'
  <2> DEFINE e == Head(events)
  <2>1. UNCHANGED <<pc, book>>
    BY <1>14 DEF ConsumeEvent, callVars, brokerVars
  <2>2. CASE UNCHANGED <<status, pending>>
    BY <2>1, <2>2, <1>apart
  <2>3. CASE ~UNCHANGED <<status, pending>>
    <3>1. HandleOrderEvent(e) /\ e.key \in pending
      BY <1>14, <2>3 DEF ConsumeEvent, HandleOrderEvent, HandleBalanceEvent
    <3>2. e.key[1] \in Orders /\ e.key = <<e.key[1], 0>>
      BY <3>1, <1>types DEF TypeOK, Keys, LocalKeys
    <3>3. ASSUME NEW o \in Orders, o /= e.key[1] PROVE Kept(o)
      <4>1. pending' = pending \/ pending' = pending \ {e.key}
        BY <3>1 DEF HandleOrderEvent
      <4>2. \E s : status' = [status EXCEPT ![e.key[1]] = s]
        BY <3>1 DEF HandleOrderEvent, SetStatus
      <4>3. status'[o] = status[o]
        BY <3>3, <4>2, <1>types DEF TypeOK
      <4> QED
        BY <3>2, <3>3, <4>1, <4>3
    <3>4. Safe(e.key[1])
      <4>1. CASE StatusOf(e.status) \in Terminal
        <5>1. status'[e.key[1]] = StatusOf(e.status)
          BY <3>1, <3>2, <4>1, <1>types DEF HandleOrderEvent, SetStatus, TypeOK
        <5> QED
          BY <5>1, <4>1 DEF Terminal
      <4>2. CASE StatusOf(e.status) \notin Terminal
        BY <3>1, <3>2, <4>2 DEF HandleOrderEvent
      <4> QED
        BY <4>1, <4>2
    <3> QED
      BY <2>1, <3>3, <3>4, <1>apart
  <2> QED
    BY <2>2, <2>3
<1>15. ASSUME ConsumerRefreshed PROVE PartialInv'
  BY <1>15, <1>apart DEF ConsumerRefreshed, callVars, orderVars, brokerVars
\* The broker starts to work on an order only while its call waits for the
\* answer, and never again on one it has ended.
<1>broker. ASSUME NEW k \in Keys, BrokerUnchanged,
                  \A l \in Keys : l /= k => book'[l] = book[l],
                  book'[k].filled = Qty[k[1]] => ~Working(book'[k]),
                  book'[k].state /= "none",
                  Working(book'[k]) => \/ Working(book[k])
                                       \/ k[2] /= 0
                                       \/ pc[k[1]] = "send"
           PROVE  PartialInv'
  <2>1. UNCHANGED <<pc, status, pending>>
    BY <1>broker DEF BrokerUnchanged, callVars, orderVars
  <2>2. \A o \in Orders : Tracked(o)' <=> Tracked(o)
    BY <2>1 DEF Tracked
  <2>3. \A o \in Orders : Working(book'[<<o, 0>>]) =>
                              Working(book[<<o, 0>>]) \/ pc[o] = "send"
    BY <1>broker, <1>key
  <2>4. PartialStaysTracked' /\ SettledIsClosed'
    BY <2>1, <2>2, <2>3 DEF PartialInv, PartialStaysTracked, SettledIsClosed
  <2> QED
    BY <2>4, <1>broker DEF PartialInv, FilledIsClosed
<1>book. book \in [Keys -> [state : {"none", "open", "amended", "closed"}, filled : Nat]]
  BY <1>types DEF TypeOK
\* A step that only changes how the order stands in the book.
<1>stands. ASSUME NEW k \in Keys, NEW s, book' = [book EXCEPT ![k].state = s]
           PROVE  /\ \A l \in Keys : l /= k => book'[l] = book[l]
                  /\ book'[k].state = s /\ book'[k].filled = book[k].filled
  BY <1>stands, <1>book
<1>18. ASSUME NEW k \in Keys, BrokerAccepts(k) PROVE PartialInv'
  <2>1. book[k].filled = 0 /\ Qty[k[1]] /= 0
    BY <1>18, TypeAssumption DEF BrokerAccepts, PartialInv, FilledIsClosed, Keys
  <2>2. BrokerUnchanged /\ book' = [book EXCEPT ![k].state = "open"]
    BY <1>18 DEF BrokerAccepts
  <2>3. k[2] /= 0 \/ pc[k[1]] = "send"
    BY <1>18 DEF BrokerAccepts
  <2>4. book'[k].state = "open" /\ book'[k].filled = 0
    BY <2>1, <2>2, <1>stands
  <2> QED
    BY <2>1, <2>2, <2>3, <2>4, <1>stands, <1>broker
<1>19. ASSUME NEW k \in Keys, NEW n \in 1 .. Qty[k[1]], BrokerFills(k, n)
       PROVE  PartialInv'
  <2> DEFINE total == book[k].filled + n
  <2>1. Working(book[k]) /\ BrokerUnchanged
    BY <1>19 DEF BrokerFills
  <2>2. /\ \A l \in Keys : l /= k => book'[l] = book[l]
        /\ book'[k].state = IF total = Qty[k[1]] THEN "closed" ELSE book[k].state
        /\ book'[k].filled = total
    BY <1>19, <1>book DEF BrokerFills
  <2>3. book'[k].filled = Qty[k[1]] => ~Working(book'[k])
    BY <2>2 DEF Working
  <2>4. book'[k].state /= "none"
    BY <2>1, <2>2 DEF Working
  <2> QED
    BY <2>1, <2>2, <2>3, <2>4, <1>broker
<1>20. ASSUME NEW k \in Keys, BrokerConfirms(k) PROVE PartialInv'
  <2>1. Working(book[k]) /\ BrokerUnchanged /\ book' = [book EXCEPT ![k].state = "amended"]
    BY <1>20 DEF BrokerConfirms, Working
  <2>2. book[k].filled /= Qty[k[1]]
    BY <2>1 DEF PartialInv, FilledIsClosed
  <2>3. book'[k].state = "amended" /\ book'[k].filled /= Qty[k[1]]
    BY <2>1, <2>2, <1>stands
  <2> QED
    BY <2>1, <2>3, <1>stands, <1>broker
<1>21. ASSUME NEW k \in Keys, NEW s, BrokerCloses(k, s) PROVE PartialInv'
  <2>1. BrokerUnchanged /\ book' = [book EXCEPT ![k].state = "closed"]
    BY <1>21 DEF BrokerCloses
  <2>2. book'[k].state = "closed"
    BY <2>1, <1>stands
  <2>3. ~Working(book'[k])
    BY <2>2 DEF Working
  <2> QED
    BY <2>1, <2>2, <2>3, <1>stands, <1>broker
<1>22. CASE UNCHANGED vars
  BY <1>22, <1>apart DEF vars, callVars, orderVars, brokerVars
<1> QED
  BY <1>1, <1>2, <1>3, <1>4, <1>5, <1>6, <1>7, <1>8, <1>9, <1>10, <1>11, <1>12,
     <1>13, <1>14, <1>15, <1>18, <1>19, <1>20, <1>21, <1>22
  DEF Next, CallStep, Creation, Broker

\* A partially filled order that the broker still works on is not forgotten,
\* whatever the answer of the call, the events and cancel_order do to it in the
\* meantime: its next fill finds it in pending_orders.
THEOREM PartialOrdersTracked == Spec => []PartialStaysTracked
<1>1. PartialInv => PartialStaysTracked
  BY DEF PartialInv
<1> QED
  BY TypeInit, TypeStep, CallInit, CallStepInv, PartialInit, PartialStep, <1>1,
     PTL DEF Spec

-----------------------------------------------------------------------------
(* The executor implements OrderSlots when each slot is used by one task and *)
(* clients do not answer PARTIALLY_FILLED.                                   *)

\* Every side of every stock is traded by one task.
OneTaskPerSlot == \A o, p \in Orders : SameSlot(o, p) => CallerOf[o] = CallerOf[p]

\* Every order needs a slot.
LEMMA SlotOfType == \A o \in Orders : SlotOf[o] \in Slots
BY TypeAssumption DEF SlotOf, Slots

\* Two orders need the same slot when check_duplicate compares them as equal.
LEMMA SlotOfSame == \A o, p \in Orders : SlotOf[o] = SlotOf[p] <=> SameSlot(o, p)
BY DEF SlotOf, SameSlot

\* A slot is owned by its unfinished order, and by nobody when it has none.
LEMMA OwnerIs ==
    ASSUME OneTaskPerSlot, SlotExclusive, NEW s \in Slots
    PROVE  /\ \A o \in Orders : OpenTracked(o) /\ SlotOf[o] = s => Owner(s) = o
           /\ (\A o \in Orders : SlotOf[o] = s => ~OpenTracked(o)) => Owner(s) = Nobody
<1>1. ASSUME NEW o \in Orders, OpenTracked(o), SlotOf[o] = s PROVE Owner(s) = o
  <2>1. \A p \in Orders : SlotOf[p] = s /\ OpenTracked(p) => p = o
    BY <1>1, SlotOfSame DEF OneTaskPerSlot, SlotExclusive
  <2> QED
    BY <1>1, <2>1 DEF Owner
<1> QED
  BY <1>1 DEF Owner

\* The same in the next state.
LEMMA OwnerIsNext ==
    ASSUME OneTaskPerSlot, SlotExclusive', NEW s \in Slots
    PROVE  /\ \A o \in Orders : OpenTracked(o)' /\ SlotOf[o] = s => Owner(s)' = o
           /\ (\A o \in Orders : SlotOf[o] = s => ~OpenTracked(o)') => Owner(s)' = Nobody
<1>1. ASSUME NEW o \in Orders, OpenTracked(o)', SlotOf[o] = s PROVE Owner(s)' = o
  <2>1. \A p \in Orders : SlotOf[p] = s /\ OpenTracked(p)' => p = o
    BY <1>1, SlotOfSame DEF OneTaskPerSlot, SlotExclusive, SameSlot
  <2> QED
    BY <1>1, <2>1 DEF Owner
<1> QED
  BY <1>1 DEF Owner

\* No step touches the status and the tracking of two orders.
LEMMA OneOrderChanges ==
    ASSUME TypeOK, [Next]_vars
    PROVE  \E o \in Orders \union {Nobody} :
               \A p \in Orders : p /= o => (OpenTracked(p)' <=> OpenTracked(p))
<1> DEFINE Only(o) == \A p \in Orders : p /= o => (OpenTracked(p)' <=> OpenTracked(p))
<1>only. ASSUME NEW o \in Orders,
                \A p \in Orders : p /= o => status'[p] = status[p],
                \/ pending' = pending
                \/ \E n \in 0 .. MaxTries : \/ pending' = pending \union {<<o, n>>}
                                            \/ pending' = pending \ {<<o, n>>}
         PROVE  Only(o)
  BY <1>only DEF OpenTracked, Tracked
<1>same. ASSUME UNCHANGED <<status, pending>> PROVE \A p \in Orders : OpenTracked(p)' <=> OpenTracked(p)
  BY <1>same DEF OpenTracked, Tracked
<1>key. \A o \in Orders : \E n \in 0 .. MaxTries : Key(o) = <<o, n>>
  BY DEF Key, TypeOK
<1>set. ASSUME NEW o \in Orders, NEW x, SetStatus(o, x)
        PROVE  \A p \in Orders : p /= o => status'[p] = status[p]
  BY <1>set DEF SetStatus, TypeOK
<1>1. ASSUME NEW o \in Orders, ExecuteOrder(o) PROVE Only(o)
  BY <1>1, <1>same DEF ExecuteOrder, orderVars
<1>fail. ASSUME NEW o \in Orders, Fail(o) PROVE Only(o)
  BY <1>fail, <1>set, <1>key, <1>only DEF Fail
<1>reject. ASSUME NEW o \in Orders, Reject(o) PROVE Only(o)
  BY <1>reject, <1>set, <1>only DEF Reject
<1>2. ASSUME NEW o \in Orders, AccountRateLimited(o) PROVE Only(o)
  BY <1>2, <1>fail, <1>same DEF AccountRateLimited, orderVars
<1>3. ASSUME NEW o \in Orders, ReadFails(o) PROVE Only(o)
  BY <1>3, <1>fail DEF ReadFails
<1>4. ASSUME NEW o \in Orders, GetAccount(o) PROVE Only(o)
  BY <1>4, <1>reject, <1>same DEF GetAccount
<1>5. ASSUME NEW o \in Orders, GetPrice(o) PROVE Only(o)
  <2>1. ASSUME SetStatus(o, "SUBMITTED"), Track(o) PROVE Only(o)
    BY <2>1, <1>set, <1>key, <1>only DEF Track
  <2> QED
    BY <1>5, <2>1, <1>reject DEF GetPrice
<1>6. ASSUME NEW o \in Orders, Resend(o) PROVE Only(o)
  BY <1>6, <1>same DEF Resend, orderVars
<1>7. ASSUME NEW o \in Orders, SubmitFails(o) PROVE Only(o)
  BY <1>7, <1>fail DEF SubmitFails
<1>8. ASSUME NEW o \in Orders, LiveAnswer(o) PROVE Only(o)
  BY <1>8, <1>set, <1>only DEF LiveAnswer
<1>9. ASSUME NEW o \in Orders, NEW r \in Results, ProtocolAnswer(o, r) PROVE Only(o)
  <2>1. \/ UNCHANGED pending \/ Track(o) \/ pending' = pending \ {Key(o)}
    BY <1>9 DEF ProtocolAnswer
  <2>2. SetStatus(o, r)
    BY <1>9 DEF ProtocolAnswer
  <2> QED
    BY <2>1, <2>2, <1>set, <1>key, <1>only DEF Track
<1>10. ASSUME NEW o \in Orders, Settle(o) PROVE Only(o)
  BY <1>10, <1>key, <1>only DEF Settle, orderVars
<1>11. ASSUME NEW o \in Orders, RefreshAfterPartial(o) PROVE Only(o)
  BY <1>11, <1>key, <1>only DEF RefreshAfterPartial, Track, orderVars
<1>12. ASSUME NEW c \in creating, CreatePosition(c) \/ CreateFails(c)
       PROVE  \E o \in Orders : Only(o)
  <2>1. c.order \in Orders
    BY DEF TypeOK, Creations
  <2>2. UNCHANGED status /\ (UNCHANGED pending \/ Track(c.order))
    BY <1>12 DEF CreatePosition, CreateFails, orderVars
  <2> QED
    BY <2>1, <2>2, <1>key, <1>only DEF Track
<1>13. ASSUME NEW k \in pending, CancelOrder(k) PROVE \E o \in Orders : Only(o)
  <2>1. k \in Orders \X (0 .. MaxTries)
    BY DEF TypeOK, Keys
  <2> QED
    BY <1>13, <2>1, <1>set, <1>only DEF CancelOrder
<1>14. ASSUME ConsumeEvent PROVE \E o \in Orders \union {Nobody} : Only(o)
  <2> DEFINE e == Head(events)
  <2>1. CASE UNCHANGED <<status, pending>>
    BY <2>1, <1>same
  <2>2. CASE ~UNCHANGED <<status, pending>>
    <3>1. e.key \in pending /\ HandleOrderEvent(e)
      BY <1>14, <2>2 DEF ConsumeEvent, HandleOrderEvent, HandleBalanceEvent
    <3>2. e.key \in Orders \X (0 .. MaxTries)
      BY <3>1 DEF TypeOK, Keys
    <3>3. /\ pending' = pending \/ pending' = pending \ {e.key}
          /\ \E x \in Statuses : SetStatus(e.key[1], x)
      BY <3>1 DEF HandleOrderEvent, StatusOf, Statuses
    <3> QED
      BY <3>2, <3>3, <1>set, <1>only
  <2> QED
    BY <2>1, <2>2
<1>15. ASSUME ConsumerRefreshed PROVE Only(Nobody)
  BY <1>15, <1>same DEF ConsumerRefreshed, orderVars
<1>16. ASSUME Broker PROVE Only(Nobody)
  <2>1. BrokerUnchanged
    BY <1>16 DEF Broker, BrokerAccepts, BrokerFills, BrokerConfirms, BrokerCloses
  <2> QED
    BY <2>1, <1>same DEF BrokerUnchanged, orderVars
<1>17. ASSUME UNCHANGED vars PROVE Only(Nobody)
  BY <1>17, <1>same DEF vars, orderVars
<1> QED
  BY <1>1, <1>2, <1>3, <1>4, <1>5, <1>6, <1>7, <1>8, <1>9, <1>10, <1>11, <1>12,
     <1>13, <1>14, <1>15, <1>16, <1>17
  DEF Next, CallStep, Creation

\* The executor starts as OrderSlots does, with every slot free.
LEMMA SlotsInit ==
    ASSUME Init PROVE S!Init
<1>1. \A o \in Orders : ~OpenTracked(o)
  BY DEF Init, OpenTracked, Tracked
<1> QED
  BY <1>1 DEF S!Init, Owner

\* Every step of the executor takes or leaves one slot, or changes none.
LEMMA SlotsStep ==
    ASSUME OneTaskPerSlot, TypeOK, SlotExclusive, SlotExclusive', [Next]_vars
    PROVE  [S!Next]_([s \in Slots |-> Owner(s)])
<1> DEFINE owner == [s \in Slots |-> Owner(s)]
<1>1. PICK o \in Orders \union {Nobody} :
          \A p \in Orders : p /= o => (OpenTracked(p)' <=> OpenTracked(p))
  BY OneOrderChanges
\* The owner of a slot changes only with the tracking of order o.
<1>2. \A s \in Slots : (o \in Orders /\ SlotOf[o] = s => (OpenTracked(o)' <=> OpenTracked(o)))
                       => Owner(s)' = Owner(s)
  BY <1>1, OwnerIs, OwnerIsNext
<1>3. CASE o \notin Orders \/ (OpenTracked(o)' <=> OpenTracked(o))
  <2>1. owner' = owner
    BY <1>2, <1>3
  <2> QED
    BY <2>1
<1>4. CASE o \in Orders /\ ~OpenTracked(o) /\ OpenTracked(o)'
  <2>1. \A p \in Orders : SlotOf[p] = SlotOf[o] => ~OpenTracked(p)
    BY <1>1, <1>4, SlotOfSame DEF OneTaskPerSlot, SlotExclusive, SameSlot
  <2>2. owner[SlotOf[o]] = Nobody /\ Owner(SlotOf[o])' = o
    BY <1>4, <2>1, SlotOfType, OwnerIs, OwnerIsNext
  <2>3. owner' = [owner EXCEPT ![SlotOf[o]] = o]
    BY <1>2, <1>4, <2>2, SlotOfType
  <2> QED
    BY <1>4, <2>2, <2>3 DEF S!Next, S!Take
<1>5. CASE o \in Orders /\ OpenTracked(o) /\ ~OpenTracked(o)'
  <2>1. \A p \in Orders : SlotOf[p] = SlotOf[o] => ~OpenTracked(p)'
    BY <1>1, <1>5, SlotOfSame DEF OneTaskPerSlot, SlotExclusive
  <2>2. owner[SlotOf[o]] = o /\ Owner(SlotOf[o])' = Nobody
    BY <1>5, <2>1, SlotOfType, OwnerIs, OwnerIsNext
  <2>3. owner' = [owner EXCEPT ![SlotOf[o]] = Nobody]
    BY <1>2, <1>5, <2>2, SlotOfType
  <2> QED
    BY <1>5, <2>2, <2>3 DEF S!Next, S!Leave
<1> QED
  BY <1>3, <1>4, <1>5

\* Duplicate suppression is mutual exclusion per slot: every step of the
\* executor takes a free slot, leaves one it holds, or changes no slot.
THEOREM ExecutorImplementsSlots ==
    ASSUME OneTaskPerSlot, "PARTIALLY_FILLED" \notin Results
    PROVE  Spec => SlotsImplemented
<1>1. Init => S!Init
  BY SlotsInit
<1>2. TypeInv /\ CallInv /\ SlotInv /\ [Next]_vars => SlotInv'
  BY SlotStepInv
<1>3. TypeInv /\ SlotInv /\ SlotInv' /\ [Next]_vars => [S!Next]_([s \in Slots |-> Owner(s)])
  BY SlotsStep DEF TypeInv, SlotInv
<1> QED
  BY TypeInit, TypeStep, CallInit, CallStepInv, SlotInit, <1>1, <1>2, <1>3, PTL
  DEF Spec, SlotsImplemented, S!Spec
=============================================================================
