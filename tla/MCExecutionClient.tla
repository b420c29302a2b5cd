------------------------- MODULE MCExecutionClient -------------------------
(***************************************************************************)
(* One order that two trades fill in part, or one trade that fills that    *)
(* order in part and another in full.                                      *)
(***************************************************************************)
EXTENDS ExecutionClient

CONSTANTS o1, o2, t1, t2, t3

MCOrders == {o1, o2}
MCTrades == {t1, t2, t3}
MCTwoTrades == [t \in MCTrades |-> IF t = t3 THEN {} ELSE {o1}]
MCTwoOrders == [t \in MCTrades |-> IF t = t3 THEN {o1, o2} ELSE {}]
MCMatchings == {MCTwoTrades, MCTwoOrders}
MCPartly == {MCTwoTrades}
MCLarger == {o1}
MCRepeated == {t1}
=============================================================================
