-------------------------- MODULE OrderExecutorSlots --------------------------
(* The executor implements OrderSlots when every slot has one calling task:  *)
(* a slot is owned by its tracked, unfinished order.                         *)
EXTENDS OrderExecutor

CONSTANT Nobody

ASSUME NobodyAssumption == Nobody \notin Orders

Slots == Stocks \X {"BUY", "SELL"}
SlotOf == [o \in Orders |-> <<StockOf[o], TypeOf[o]>>]

Owner(s) ==
    IF \E o \in Orders : SlotOf[o] = s /\ OpenTracked(o)
    THEN CHOOSE o \in Orders : SlotOf[o] = s /\ OpenTracked(o)
    ELSE Nobody

S == INSTANCE OrderSlots WITH owner <- [s \in Slots |-> Owner(s)]

\* Every step of the executor takes a free slot, leaves a slot it holds or
\* changes no slot: duplicate suppression is mutual exclusion per slot.
SlotsImplemented == S!Spec
=============================================================================
