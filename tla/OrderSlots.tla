------------------------------ MODULE OrderSlots ------------------------------
(* What duplicate suppression promises: every side of every stock is a slot  *)
(* held by at most one unfinished order, and a slot goes from one order to   *)
(* the next only through being free.                                         *)
CONSTANTS
    Orders,
    Slots,      \* sides of stocks
    SlotOf,     \* the slot an order needs
    Nobody      \* the owner of a free slot, not an order

VARIABLE owner

Init == owner = [s \in Slots |-> Nobody]

Take(o) ==
    /\ owner[SlotOf[o]] = Nobody
    /\ owner' = [owner EXCEPT ![SlotOf[o]] = o]

Leave(o) ==
    /\ owner[SlotOf[o]] = o
    /\ owner' = [owner EXCEPT ![SlotOf[o]] = Nobody]

Next == \E o \in Orders : Take(o) \/ Leave(o)

Spec == Init /\ [][Next]_owner
=============================================================================
