-------------------------- MODULE MCLiveExecution --------------------------
(* Small instances of LiveExecution for TLC. *)
EXTENDS LiveExecution, TLC

CONSTANTS o1, o2, o3, t1, t2, m1

(* All orders are of one market; each of one share, or of two.             *)
SameMarket == [c \in ClientIds |-> m1]
TwoShares == [c \in ClientIds |-> 2]
OneShare == [c \in ClientIds |-> 1]
(* The second order exceeds a canary cap of one share.                     *)
OneAndTwoShares == (o1 :> 1) @@ (o2 :> 2)

(* Trade ids, and orders with equal requests, are interchangeable.         *)
SymmetricTrades == Permutations(TradeIds)
Symmetric == Permutations(TradeIds) \cup Permutations(ClientIds)
=============================================================================
