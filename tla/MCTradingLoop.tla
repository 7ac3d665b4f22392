---------------------------- MODULE MCTradingLoop ----------------------------
(* An instance of TradingLoop: the engine is built, as main.py builds it, over *)
(* a positions dictionary that is still empty.                                 *)
EXTENDS TradingLoop

NoPositions == {NoPosition}

FairSpec == Spec /\ Fairness
=============================================================================
