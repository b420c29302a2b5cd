--------------------------- MODULE OrderLifecycle ---------------------------
(***************************************************************************)
(* The two status machines of btc_short_horizon/live/state.py: the order   *)
(* table _ORDER_TRANSITIONS and the trade table _TRADE_TRANSITIONS, the    *)
(* snapshot a LiveOrder is, and record_match.  The tables are relations    *)
(* (sets of pairs); asking for a pair outside a table raises ValueError in *)
(* the code, and asking for the status already held returns the same       *)
(* snapshot.  Sizes are natural numbers of shares.                         *)
(***************************************************************************)
EXTENDS Integers

LiveOrderStatus == {"created", "signed", "submitted", "live", "rejected",
                    "unknown", "cancel_requested", "canceled", "not_canceled"}

LiveTradeStatus == {"matched", "mined", "confirmed", "retrying", "failed"}

OrderTransitions ==
    {"created"} \X {"signed", "rejected"}
      \cup {"signed"} \X {"submitted", "rejected"}
      \cup {"submitted"} \X {"live", "rejected", "unknown"}
      \cup {"live"} \X {"cancel_requested", "canceled", "not_canceled", "unknown"}
      \cup {"cancel_requested"} \X {"canceled", "not_canceled", "unknown"}
      \cup {"not_canceled"} \X {"cancel_requested", "canceled", "unknown"}
      \cup {"unknown"} \X {"live", "canceled", "rejected"}

TradeTransitions ==
    {"matched"} \X {"mined", "retrying", "failed"}
      \cup {"mined"} \X {"confirmed", "retrying", "failed"}
      \cup {"retrying"} \X {"mined", "confirmed", "failed"}

(* trade.transition(status) as _reconcile_trade uses it: the same status is *)
(* accepted and any other must be in the table.                             *)
TradeMayMove(from, to) == from = to \/ <<from, to>> \in TradeTransitions

(* An order snapshot; venue_order_id is None when the venue has not named  *)
(* it.  Absent stands for "no entry in the orders dictionary".             *)
LiveOrder(venueIds, none) ==
    [status : LiveOrderStatus \cup {"absent"},
     venue_order_id : venueIds \cup {none},
     matched_size : Nat]

(* Mutant of MatchFits: the last share of an order is refused.             *)
MatchLeavesRoom(order, size, amount) == order.matched_size + amount < size

(* LiveOrder.record_match: refused above the order size, otherwise added.  *)
MatchFits(order, size, amount) == order.matched_size + amount <= size

RecordMatch(order, amount) == [order EXCEPT !.matched_size = @ + amount]
=============================================================================
