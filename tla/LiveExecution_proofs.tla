------------------------ MODULE LiveExecution_proofs ------------------------
(***************************************************************************)
(* Theorems about LiveExecution, for every set of orders, markets, trades, *)
(* every mode and every bound: the state is well typed, the kill switch    *)
(* holds across crashes and restarts, the log takes nothing back, a        *)
(* timeout that reports a cancellation has sent one, the service keeps the *)
(* promise of OrderPromise, and what a crash and a restart leave:          *)
(* MemoryIsDurable, VenueOrdersAccounted (both outside paper mode, whose   *)
(* venue forgets its orders in a crash and numbers them from 1 again) and  *)
(* DoubtStopsMarketUnlessLifted.  Where no message is lost, nothing        *)
(* crashes and a trade is told before the sizes it leads to, every fill    *)
(* counts once, no size is ahead of the venue's and no handler of an event *)
(* raises.                                                                 *)
(*                                                                         *)
(* The parts: types and the kill switch; what the call in progress has     *)
(* made of its order, and the log; the refinement; restarts; the orders of *)
(* the venue; fills.                                                       *)
(***************************************************************************)
EXTENDS LiveExecution, TLAPS, FiniteSetTheorems

Snapshots == LiveOrder(VenueIds, NoVenueId)

(* What TypeOK lacks to be inductive: the order a cancellation was logged  *)
(* for carries a venue id (request_cancel asserts it before it writes).    *)
CancelHasVenue ==
    task.step = "cancel_logged" => orders[task.client].venue_order_id # NoVenueId

TypeInv == TypeOK /\ CancelHasVenue

(* Nothing runs in a process that is down, and a process that is up knows  *)
(* what the log knows of the kill switch: the strengthening that makes     *)
(* KillSwitchHolds provable.                                               *)
StopIsKnown ==
    /\ task # Idle => up
    /\ up => halted = wal.halted

LEMMA AbsentType == Absent \in Snapshots
  BY DEF Absent, Snapshots, LiveOrder, VenueIds, NoVenueId

LEMMA FreshType == Fresh \in Durable
  BY AbsentType DEF Fresh, Durable, Snapshots, Never, Markets

LEMMA MovedType ==
  ASSUME NEW order \in Snapshots, NEW status \in LiveOrderStatus
  PROVE  /\ Moved(order, status) \in Snapshots
         /\ Moved(order, status).venue_order_id = order.venue_order_id
  BY DEF Moved, Snapshots, LiveOrder

LEMMA RecordMatchType ==
  ASSUME NEW order \in Snapshots
  PROVE  RecordMatch(order, 1) \in Snapshots
  BY DEF RecordMatch, Snapshots, LiveOrder

LEMMA AcceptedType ==
  ASSUME NEW order \in Snapshots, NEW v \in VenueIds \cup {NoVenueId}
  PROVE  [order EXCEPT !.status = "live", !.venue_order_id = v] \in Snapshots
  BY DEF Snapshots, LiveOrder, LiveOrderStatus

(* CanaryProgress only counts upwards.                                     *)
LEMMA ProgressType ==
  ASSUME NEW p \in [submitted_orders : Nat, fills : Nat]
  PROVE  /\ [p EXCEPT !.submitted_orders = @ + 1] \in [submitted_orders : Nat, fills : Nat]
         /\ [p EXCEPT !.fills = @ + 1] \in [submitted_orders : Nat, fills : Nat]
  OBVIOUS

(* A record with an order in it leaves a well-typed log and the kill       *)
(* switch alone.                                                           *)
LEMMA WithOrderType ==
  ASSUME NEW log \in Durable, NEW c \in ClientIds, NEW order \in Snapshots
  PROVE  /\ WithOrder(log, c, order) \in Durable
         /\ WithOrder(log, c, order).halted = log.halted
  BY DEF WithOrder, Durable, Snapshots, Markets

LEMMA StoreAndLogType ==
  ASSUME TypeOK, NEW c \in ClientIds, NEW order \in Snapshots, StoreAndLog(c, order)
  PROVE  /\ orders' \in [ClientIds -> Snapshots]
         /\ orders' = [orders EXCEPT ![c] = order]
         /\ wal' \in Durable
         /\ wal'.halted = wal.halted
  BY WithOrderType DEF StoreAndLog, TypeOK, Snapshots

(* Restoring from a well-typed log gives a well-typed memory.              *)
LEMMA LoadType ==
  ASSUME NEW log \in Durable, Load(log)
  PROVE  /\ orders' \in [ClientIds -> Snapshots]
         /\ trades' \in [TradeIds \X ClientIds -> LiveTradeStatus \cup {"none"}]
         /\ clientOrderByVenue' \in [VenueIds -> ClientIds \cup {NoClient}]
         /\ progress' \in [submitted_orders : Nat, fills : Nat]
         /\ lastHeartbeat' \in Int
         /\ heartbeatCancelRequested' \in BOOLEAN
         /\ ambiguousMarkets' \subseteq Markets
         /\ halted' \in BOOLEAN
         /\ halted' = log.halted
<1>1. Cardinality({c \in ClientIds : log.orders[c].venue_order_id # NoVenueId}) \in Nat
  <2>1. {c \in ClientIds : log.orders[c].venue_order_id # NoVenueId} \in SUBSET ClientIds
    OBVIOUS
  <2> QED  BY <2>1, ConstantsAssumption, FS_Subset, FS_CardinalityType
<1>2. Cardinality({k \in TradeIds \X ClientIds : log.trades[k] # "none"}) \in Nat
  <2>1. IsFiniteSet(TradeIds \X ClientIds)
    BY ConstantsAssumption, FS_Product
  <2>2. {k \in TradeIds \X ClientIds : log.trades[k] # "none"} \in SUBSET (TradeIds \X ClientIds)
    OBVIOUS
  <2> QED  BY <2>1, <2>2, FS_Subset, FS_CardinalityType
<1> QED  BY <1>1, <1>2 DEF Load, Durable, Snapshots

-----------------------------------------------------------------------------
(* Every action keeps the types *)

LEMMA SubmittingType == TypeInv /\ Submitting => TypeInv'
<1> SUFFICES ASSUME TypeInv, NEW c \in ClientIds,
                    \/ SubmitDecision(c) \/ SubmitWithheld(c)
                    \/ SubmitToGateway(c) \/ SubmitAcknowledged(c)
                    \/ SubmitRejected(c) \/ SubmitUnknown(c)
             PROVE  TypeInv'
  BY DEF Submitting
<1> USE DEF memory, wire, venueVars, history
<1>a. orders[c] \in Snapshots
  BY DEF TypeInv, TypeOK, Snapshots
<1>1. CASE SubmitDecision(c)
  <2>1. Moved(Absent, "created") \in Snapshots
    BY AbsentType, MovedType DEF LiveOrderStatus
  <2>2. task' \in Task
    BY <1>1 DEF SubmitDecision, Task
  <2> QED
    BY <1>1, <2>1, <2>2, StoreAndLogType
    DEF SubmitDecision, TypeInv, TypeOK, CancelHasVenue, Snapshots
<1>2. CASE SubmitWithheld(c)
  <2>1. Moved(orders[c], "rejected") \in Snapshots
    BY <1>a, MovedType DEF LiveOrderStatus
  <2>2. PICK order \in Snapshots : StoreAndLog(c, order)
    BY <1>2, <1>a, <2>1 DEF SubmitWithheld
  <2> QED
    BY <1>2, <2>2, StoreAndLogType
    DEF SubmitWithheld, TypeInv, TypeOK, CancelHasVenue, Snapshots, Idle, Task
<1>3. CASE SubmitToGateway(c)
  <2>1. Moved(orders[c], "submitted") \in Snapshots
    BY <1>a, MovedType DEF LiveOrderStatus
  <2>2. task' \in Task
    BY <1>3 DEF SubmitToGateway, Task
  <2> QED
    BY <1>3, <2>1, <2>2
    DEF SubmitToGateway, TypeInv, TypeOK, CancelHasVenue, Snapshots
<1>4. CASE SubmitAcknowledged(c)
  <2>1. task.venue \in VenueIds \cup {NoVenueId}
    BY <1>4 DEF SubmitAcknowledged, Posting, TypeInv, TypeOK, Task, Idle
  <2>2. [orders[c] EXCEPT !.status = "live", !.venue_order_id = task.venue] \in Snapshots
    BY <1>a, <2>1, AcceptedType
  <2>3. clientOrderByVenue' \in [VenueIds -> ClientIds \cup {NoClient}]
    BY <1>4 DEF SubmitAcknowledged, TypeInv, TypeOK
  <2>4. progress' \in [submitted_orders : Nat, fills : Nat]
    BY <1>4, ProgressType DEF SubmitAcknowledged, TypeInv, TypeOK
  <2>5. task' = Idle /\ orders' \in [ClientIds -> Snapshots] /\ wal' \in Durable
    BY <1>4, <2>2, StoreAndLogType DEF SubmitAcknowledged, TypeInv
  <2> QED
    BY <1>4, <2>3, <2>4, <2>5
    DEF SubmitAcknowledged, TypeInv, TypeOK, CancelHasVenue, Snapshots, Idle, Task
<1>5. CASE SubmitRejected(c)
  <2>1. Moved(orders[c], "rejected") \in Snapshots
    BY <1>a, MovedType DEF LiveOrderStatus
  <2> QED
    BY <1>5, <2>1, StoreAndLogType
    DEF SubmitRejected, TypeInv, TypeOK, CancelHasVenue, Snapshots, Idle, Task
<1>6. CASE SubmitUnknown(c)
  <2>1. Moved(orders[c], "unknown") \in Snapshots
    BY <1>a, MovedType DEF LiveOrderStatus
  <2> QED
    BY <1>6, <2>1, StoreAndLogType
    DEF SubmitUnknown, TypeInv, TypeOK, CancelHasVenue, Snapshots, Idle, Task, Markets, Blocks
<1> QED  BY <1>1, <1>2, <1>3, <1>4, <1>5, <1>6

LEMMA CancelingType == TypeInv /\ Canceling => TypeInv'
<1> SUFFICES ASSUME TypeInv, Canceling
             PROVE  TypeInv'
  OBVIOUS
<1> USE DEF memory, wire, venueVars, history
<1>1. ASSUME NEW c \in ClientIds, RequestCancel(c)
      PROVE  TypeInv'
  <2>1. orders[c] \in Snapshots
    BY DEF TypeInv, TypeOK, Snapshots
  <2>2. Moved(orders[c], "cancel_requested") \in Snapshots
    BY <2>1, MovedType DEF LiveOrderStatus
  <2>3. orders'[c].venue_order_id # NoVenueId
    BY <1>1, <2>1, <2>2, MovedType, StoreAndLogType
    DEF RequestCancel, TypeInv, TypeOK, LiveOrderStatus
  <2>4. task' \in Task /\ task'.client = c
    BY <1>1 DEF RequestCancel, Task
  <2> QED
    BY <1>1, <2>2, <2>3, <2>4, StoreAndLogType
    DEF RequestCancel, TypeInv, TypeOK, CancelHasVenue, Snapshots
<1>2. ASSUME NEW c \in ClientIds, SendCancel(c)
      PROVE  TypeInv'
  <2>1. orders[c].venue_order_id \in VenueIds
    BY <1>2 DEF SendCancel, TypeInv, TypeOK, CancelHasVenue, LiveOrder
  <2>2. task' \in Task
    BY <1>2, <2>1 DEF SendCancel, Task
  <2> QED
    BY <1>2, <2>1, <2>2 DEF SendCancel, TypeInv, TypeOK, CancelHasVenue
<1>3. ASSUME NEW c \in ClientIds, CancelReturned(c)
      PROVE  TypeInv'
  BY <1>3 DEF CancelReturned, TypeInv, TypeOK, CancelHasVenue, Idle, Task
<1>4. ASSUME NEW c \in ClientIds, CancelUnknown(c)
      PROVE  TypeInv'
  <2>1. Moved(orders[c], "unknown") \in Snapshots
    BY MovedType DEF LiveOrderStatus, TypeInv, TypeOK, Snapshots
  <2> QED
    BY <1>4, <2>1, StoreAndLogType
    DEF CancelUnknown, TypeInv, TypeOK, CancelHasVenue, Snapshots, Idle, Task, Markets, Blocks
<1>5. CASE CancelAll
  BY <1>5 DEF CancelAll, SendCancelAll, TypeInv, TypeOK, CancelHasVenue
<1> QED  BY <1>1, <1>2, <1>3, <1>4, <1>5 DEF Canceling

LEMMA StoppingType == TypeInv /\ Stopping => TypeInv'
<1> SUFFICES ASSUME TypeInv, Stopping
             PROVE  TypeInv'
  OBVIOUS
<1> USE DEF memory, wire, venueVars, history
<1>1. ASSUME NEW cause \in {"operator", "heartbeat"}, Freeze(cause)
      PROVE  TypeInv'
  <2>1. task' \in Task
    BY <1>1 DEF Freeze, Task
  <2>2. wal' \in Durable
    BY <1>1 DEF Freeze, TypeInv, TypeOK, Durable
  <2> QED
    BY <1>1, <2>1, <2>2 DEF Freeze, TypeInv, TypeOK, CancelHasVenue
<1>2. CASE StopCancelsOrders
  BY <1>2 DEF StopCancelsOrders, SendCancelAll, TypeInv, TypeOK, CancelHasVenue, Idle, Task
<1>3. CASE RecordHeartbeat
  <2>1. now \in Int
    BY DEF TypeInv, TypeOK
  <2>2. wal' \in Durable
    BY <1>3, <2>1 DEF RecordHeartbeat, TypeInv, TypeOK, Durable
  <2> QED
    BY <1>3, <2>1, <2>2 DEF RecordHeartbeat, TypeInv, TypeOK, CancelHasVenue
<1>4. CASE EnforceTimeoutWhenHalted
  BY <1>4 DEF EnforceTimeoutWhenHalted, TypeInv, TypeOK, CancelHasVenue
<1> QED  BY <1>1, <1>2, <1>3, <1>4 DEF Stopping, EmergencyStop, EnforceTimeout

LEMMA ReconciliationType == TypeInv /\ Reconciliation => TypeInv'
<1> SUFFICES ASSUME TypeInv, Reconciliation
             PROVE  TypeInv'
  OBVIOUS
<1> USE DEF memory, wire, venueVars, history
<1>a. channel \in Seq(OrderEvent \cup TradeEvent)
  BY DEF TypeInv, TypeOK
<1>b. channel # <<>> => /\ Head(channel) \in OrderEvent \cup TradeEvent
                        /\ Tail(channel) \in Seq(OrderEvent \cup TradeEvent)
  BY <1>a
<1>c. OrderEventIgnored \/ OrderEventRaises \/ OrderEventApplied \/ TradeEventReceived
        => channel' \in Seq(OrderEvent \cup TradeEvent)
  BY <1>b DEF OrderEventIgnored, OrderEventRaises, OrderEventApplied,
              TradeEventReceived, Receives, Releases
<1>1. CASE OrderEventIgnored
  BY <1>1, <1>c DEF OrderEventIgnored, TypeInv, TypeOK, CancelHasVenue
<1>2. CASE OrderEventRaises
  BY <1>2, <1>c DEF OrderEventRaises, TypeInv, TypeOK, CancelHasVenue
<1>3. CASE OrderEventApplied
  <2> DEFINE event == Head(channel)
             c == ClientOf(event)
             order == [orders[c] EXCEPT !.status = StatusAfter(event, orders[c].status),
                                        !.matched_size = event.size_matched]
  <2>1. event \in OrderEvent
    BY <1>3, <1>b DEF OrderEventApplied, Receives, OrderEvent, TradeEvent, Releases
  <2>2. c \in ClientIds
    BY <1>3, <2>1 DEF OrderEventApplied, ClientOf, OrderEvent, TypeInv, TypeOK, Releases
  <2>3. orders[c] \in Snapshots
    BY <2>2 DEF TypeInv, TypeOK, Snapshots
  <2>4. StatusAfter(event, orders[c].status) \in LiveOrderStatus \cup {"absent"}
    BY <2>3 DEF StatusAfter, Snapshots, LiveOrder, LiveOrderStatus
  <2>5. order \in Snapshots
    BY <2>1, <2>3, <2>4 DEF Snapshots, LiveOrder, OrderEvent
  <2>6. StoreAndLog(c, order)
    BY <1>3 DEF OrderEventApplied, Releases
  <2>7. orders' \in [ClientIds -> Snapshots] /\ wal' \in Durable
    BY <2>2, <2>5, <2>6, StoreAndLogType DEF TypeInv
  <2>8. task = Idle /\ task' = Idle /\ ambiguousMarkets' \subseteq Markets
    BY <1>3 DEF OrderEventApplied, Receives, Ready, TypeInv, TypeOK, Releases
  <2> HIDE DEF event, c, order
  <2> QED
    BY <1>3, <1>c, <2>7, <2>8
    DEF OrderEventApplied, TypeInv, TypeOK, CancelHasVenue, Snapshots, Idle, Releases
<1>4. CASE TradeEventReceived
  <2>1. Head(channel) \in TradeEvent
    BY <1>4, <1>b DEF TradeEventReceived, Receives, OrderEvent, TradeEvent
  <2>2. task' \in Task /\ task'.step = "trade"
    BY <1>4, <2>1 DEF TradeEventReceived, Task, TradeEvent
  <2> QED
    BY <1>4, <1>c, <2>2 DEF TradeEventReceived, TypeInv, TypeOK, CancelHasVenue
<1>5. ASSUME NEW v \in VenueIds,
             \/ MakerUnknown(v) \/ MakerFirstSeen(v) \/ MakerUpdated(v)
             \/ MakerRaises(v) \/ MakerCountedThenRaises(v)
      PROVE  TypeInv'
  <2> DEFINE c == clientOrderByVenue[v]
  <2>1. task.step = "trade" /\ task.event \in TradeEvent /\ task.rest \in SUBSET VenueIds
        /\ task \in [step : {"trade"}, event : TradeEvent, rest : SUBSET VenueIds]
    BY <1>5 DEF MakerUnknown, MakerFirstSeen, MakerUpdated, MakerRaises,
                MakerCountedThenRaises, Reconciling, TypeInv, TypeOK, Task, Idle
  <2>2. LoopPast(v) => task' \in Task /\ task'.step # "cancel_logged"
    BY <2>1 DEF LoopPast, Task, Idle
  <2>3. Idle \in Task /\ Idle.step # "cancel_logged"
    BY DEF Idle, Task
  <2>4. c \in ClientIds \cup {NoClient}
    BY DEF TypeInv, TypeOK
  <2>5. c \in ClientIds => orders[c] \in Snapshots /\ RecordMatch(orders[c], 1) \in Snapshots
    BY RecordMatchType DEF TypeInv, TypeOK, Snapshots
  <2>6. progress \in [submitted_orders : Nat, fills : Nat]
        /\ [progress EXCEPT !.fills = @ + 1] \in [submitted_orders : Nat, fills : Nat]
    BY ProgressType DEF TypeInv, TypeOK
  <2>7. ASSUME NEW order \in Snapshots, c \in ClientIds, StoreTrade(c, order)
        PROVE  /\ orders' \in [ClientIds -> Snapshots]
               /\ trades' \in [TradeIds \X ClientIds -> LiveTradeStatus \cup {"none"}]
               /\ wal' \in Durable
    <3>1. WithOrder(wal, c, order) \in Durable
      BY <2>7, WithOrderType DEF TypeInv, TypeOK
    <3>2. task.event.status \in LiveTradeStatus /\ task.event.id \in TradeIds
      BY <2>1 DEF TradeEvent
    <3>3. orders' = [orders EXCEPT ![c] = order]
          /\ trades' = [trades EXCEPT ![<<task.event.id, c>>] = task.event.status]
          /\ wal' = [WithOrder(wal, c, order)
                        EXCEPT !.trades[<<task.event.id, c>>] = task.event.status]
      BY <2>7 DEF StoreTrade
    <3>4. wal' \in Durable
      BY <3>1, <3>2, <3>3 DEF Durable
    <3> QED
      BY <2>7, <3>2, <3>3, <3>4 DEF TypeInv, TypeOK, Snapshots
  <2>8. CASE MakerUnknown(v)
    BY <2>8, <2>2 DEF MakerUnknown, TypeInv, TypeOK, CancelHasVenue
  <2>9. CASE MakerFirstSeen(v)
    <3>1. c \in ClientIds /\ StoreTrade(c, RecordMatch(orders[c], 1))
      BY <2>9, <2>4 DEF MakerFirstSeen
    <3>2. orders' \in [ClientIds -> Snapshots] /\ wal' \in Durable
          /\ trades' \in [TradeIds \X ClientIds -> LiveTradeStatus \cup {"none"}]
      BY <3>1, <2>5, <2>7
    <3> QED
      BY <2>9, <2>2, <2>6, <3>2
      DEF MakerFirstSeen, TypeInv, TypeOK, CancelHasVenue, Snapshots
  <2>10. CASE MakerUpdated(v)
    <3>1. c \in ClientIds /\ StoreTrade(c, orders[c])
      BY <2>10, <2>4 DEF MakerUpdated
    <3>2. orders' \in [ClientIds -> Snapshots] /\ wal' \in Durable
          /\ trades' \in [TradeIds \X ClientIds -> LiveTradeStatus \cup {"none"}]
      BY <3>1, <2>5, <2>7
    <3> QED
      BY <2>10, <2>2, <3>2
      DEF MakerUpdated, TypeInv, TypeOK, CancelHasVenue, Snapshots
  <2>11. CASE MakerRaises(v)
    BY <2>11, <2>3 DEF MakerRaises, TypeInv, TypeOK, CancelHasVenue
  <2>12. CASE MakerCountedThenRaises(v)
    <3>1. orders' \in [ClientIds -> Snapshots]
      BY <2>12, <2>4, <2>5 DEF MakerCountedThenRaises, TypeInv, TypeOK, Snapshots
    <3> QED
      BY <2>12, <2>3, <2>6, <3>1
      DEF MakerCountedThenRaises, TypeInv, TypeOK, CancelHasVenue, Snapshots
  <2> QED  BY <1>5, <2>8, <2>9, <2>10, <2>11, <2>12
<1>6. ASSUME NEW c \in ClientIds, NEW v \in VenueIds, ResolveFound(c, v)
      PROVE  TypeInv'
  <2>1. [orders[c] EXCEPT !.status = "live", !.venue_order_id = v] \in Snapshots
    BY AcceptedType DEF TypeInv, TypeOK, Snapshots
  <2>2. orders' \in [ClientIds -> Snapshots] /\ wal' \in Durable
    BY <1>6, <2>1, StoreAndLogType DEF ResolveFound, Resolve, TypeInv, Releases
  <2>3. task' = Idle
    BY <1>6 DEF ResolveFound, Resolve, Ready, Releases
  <2> QED
    BY <1>6, <2>2, <2>3
    DEF ResolveFound, Resolve, TypeInv, TypeOK, CancelHasVenue, Snapshots, Idle, Task, Releases
<1>7. ASSUME NEW c \in ClientIds, ResolveAbsent(c)
      PROVE  TypeInv'
  <2>1. Moved(orders[c], "rejected") \in Snapshots
    BY MovedType DEF TypeInv, TypeOK, Snapshots, LiveOrderStatus
  <2>2. orders' \in [ClientIds -> Snapshots] /\ wal' \in Durable
    BY <1>7, <2>1, StoreAndLogType DEF ResolveAbsent, Resolve, TypeInv, Releases
  <2>3. task' = Idle
    BY <1>7 DEF ResolveAbsent, Resolve, Ready, Releases
  <2> QED
    BY <1>7, <2>2, <2>3
    DEF ResolveAbsent, Resolve, TypeInv, TypeOK, CancelHasVenue, Snapshots, Idle, Task, Releases
<1> QED  BY <1>1, <1>2, <1>3, <1>4, <1>5, <1>6, <1>7 DEF Reconciliation

LEMMA ConcatType ==
  ASSUME NEW S, NEW s \in Seq(S), NEW t \in Seq(S)
  PROVE  s \o t \in Seq(S)
  OBVIOUS

(* What the venue reports to the channel are events.                       *)
LEMMA ReportType ==
  ASSUME TypeOK, NEW events \in Seq(OrderEvent \cup TradeEvent), Report(events)
  PROVE  channel' \in Seq(OrderEvent \cup TradeEvent)
<1>1. channel \in Seq(OrderEvent \cup TradeEvent)
  BY DEF TypeOK
<1>2. channel' = channel \/ channel' = channel \o events
  BY DEF Report
<1> QED  BY <1>1, <1>2, ConcatType

LEMMA OneEventType ==
  ASSUME NEW e \in OrderEvent \cup TradeEvent
  PROVE  <<e>> \in Seq(OrderEvent \cup TradeEvent)
  OBVIOUS

LEMMA OrderReportType ==
  ASSUME NEW type \in {"PLACEMENT", "UPDATE", "CANCELLATION"},
         NEW v \in VenueIds, NEW matched \in Nat
  PROVE  OrderReport(type, v, matched) \in OrderEvent
  BY DEF OrderReport, OrderEvent

LEMMA AnswerPostType ==
  ASSUME TypeInv, NEW c \in ClientIds, NEW answer \in {"accepted", "refused"},
         NEW v \in VenueIds \cup {NoVenueId}, AnswerPost(c, answer, v)
  PROVE  task' \in Task /\ (task'.step = "cancel_logged" => task' = task)
<1>1. CASE Posting(c)
  <2>1. task \in [step : {"posting"}, client : ClientIds,
                  answer : {"none", "accepted", "refused"},
                  venue : VenueIds \cup {NoVenueId}]
    BY <1>1 DEF Posting, TypeInv, TypeOK, Task, Idle
  <2>2. task' = [task EXCEPT !.answer = answer, !.venue = v]
    BY <1>1 DEF AnswerPost
  <2>3. task' \in [step : {"posting"}, client : ClientIds,
                   answer : {"none", "accepted", "refused"},
                   venue : VenueIds \cup {NoVenueId}]
    BY <2>1, <2>2
  <2> QED  BY <2>3 DEF Task
<1>2. CASE ~Posting(c)
  BY <1>2 DEF AnswerPost, TypeInv, TypeOK
<1> QED  BY <1>1, <1>2

LEMMA AnswerCancelType ==
  ASSUME TypeInv, NEW v \in VenueIds, AnswerCancel(v)
  PROVE  task' \in Task /\ (task'.step = "cancel_logged" => task' = task)
<1>1. CASE task.step = "canceling" /\ task.venue = v
  <2>1. task \in [step : {"canceling"}, client : ClientIds, venue : VenueIds,
                  answered : BOOLEAN]
    BY <1>1 DEF TypeInv, TypeOK, Task, Idle
  <2>2. task' = [task EXCEPT !.answered = TRUE]
    BY <1>1 DEF AnswerCancel
  <2>3. task' \in [step : {"canceling"}, client : ClientIds, venue : VenueIds,
                   answered : BOOLEAN]
    BY <2>1, <2>2
  <2> QED  BY <2>3 DEF Task
<1>2. CASE ~(task.step = "canceling" /\ task.venue = v)
  BY <1>2 DEF AnswerCancel, TypeInv, TypeOK
<1> QED  BY <1>1, <1>2

VenueOrder == [client : ClientIds \cup {NoClient}, open : BOOLEAN, matched : Nat]

LEMMA FilledType ==
  ASSUME NEW o \in VenueOrder, NEW m \in Nat, NEW b \in BOOLEAN
  PROVE  [o EXCEPT !.matched = m, !.open = b] \in VenueOrder
  BY Zenon DEF VenueOrder

LEMMA CloseType ==
  ASSUME TypeInv, NEW v \in VenueIds, Close(v)
  PROVE  /\ venueOrders' \in [VenueIds -> VenueOrder]
         /\ channel' \in Seq(OrderEvent \cup TradeEvent)
<1>1. venueOrders' = [venueOrders EXCEPT ![v].open = FALSE]
      /\ Report(<<OrderReport("CANCELLATION", v, venueOrders[v].matched)>>)
  BY DEF Close
<1>2. venueOrders \in [VenueIds -> VenueOrder]
  BY DEF TypeInv, TypeOK, VenueOrder
<1>3. venueOrders' \in [VenueIds -> VenueOrder]
  BY <1>1, <1>2 DEF VenueOrder
<1>4. OrderReport("CANCELLATION", v, venueOrders[v].matched) \in OrderEvent
  BY <1>2, OrderReportType DEF VenueOrder
<1>5. <<OrderReport("CANCELLATION", v, venueOrders[v].matched)>>
        \in Seq(OrderEvent \cup TradeEvent)
  BY <1>4, OneEventType
<1> QED  BY <1>1, <1>3, <1>5, ReportType DEF TypeInv

LEMMA VenueMatchesType ==
  ASSUME TypeInv, NEW t \in TradeIds, NEW makers \in SUBSET VenueIds,
         VenueMatches(t, makers)
  PROVE  /\ venueOrders' \in [VenueIds -> VenueOrder]
         /\ venueTrades' \in [TradeIds -> [status : LiveTradeStatus \cup {"none"},
                                          maker_orders : SUBSET VenueIds]]
         /\ channel' \in Seq(OrderEvent \cup TradeEvent)
<1>1. venueOrders \in [VenueIds -> VenueOrder]
  BY DEF TypeInv, TypeOK, VenueOrder
<1>2. venueOrders' \in [VenueIds -> VenueOrder]
  <2>1. venueOrders' = [v \in VenueIds |->
          IF v \notin makers THEN venueOrders[v]
          ELSE [venueOrders[v] EXCEPT
                  !.matched = @ + 1,
                  !.open = venueOrders[v].matched + 1 < SizeOf[venueOrders[v].client]]]
    BY DEF VenueMatches
  <2>2. ASSUME NEW v \in VenueIds, NEW b \in BOOLEAN
        PROVE  [venueOrders[v] EXCEPT !.matched = @ + 1, !.open = b] \in VenueOrder
    <3>1. venueOrders[v] \in VenueOrder /\ venueOrders[v].matched + 1 \in Nat
      BY <1>1 DEF VenueOrder
    <3> QED  BY <3>1, FilledType
  <2>3. \A v \in VenueIds :
          (venueOrders[v].matched + 1 < SizeOf[venueOrders[v].client]) \in BOOLEAN
    OBVIOUS
  <2> QED  BY <1>1, <2>1, <2>2, <2>3
<1>3. venueTrades' = [venueTrades EXCEPT
          ![t] = [status |-> "matched", maker_orders |-> makers]]
  BY DEF VenueMatches
<1>4. venueTrades' \in [TradeIds -> [status : LiveTradeStatus \cup {"none"},
                                    maker_orders : SUBSET VenueIds]]
  BY <1>3 DEF TypeInv, TypeOK, LiveTradeStatus
<1>5. TradeReport(t, "matched", makers) \in TradeEvent
  BY DEF TradeReport, TradeEvent, LiveTradeStatus
<1>6. <<TradeReport(t, "matched", makers)>> \in Seq(OrderEvent \cup TradeEvent)
  BY <1>5, OneEventType
<1>7. Cardinality(makers) \in Nat
  <2>1. IsFiniteSet(VenueIds)
    BY FS_Interval, ConstantsAssumption DEF VenueIds
  <2>2. IsFiniteSet(makers)
    BY <2>1, FS_Subset
  <2> QED  BY <2>2, FS_CardinalityType
<1>8. PICK nth \in [1 .. Cardinality(makers) -> makers] :
        LET trade == <<TradeReport(t, "matched", makers)>>
            updates == [i \in 1 .. Cardinality(makers) |->
                OrderReport("UPDATE", nth[i], venueOrders[nth[i]].matched + 1)]
        IN  Report(IF TradeFirst THEN trade \o updates ELSE updates \o trade)
  BY DEF VenueMatches
<1> DEFINE trade == <<TradeReport(t, "matched", makers)>>
           updates == [i \in 1 .. Cardinality(makers) |->
               OrderReport("UPDATE", nth[i], venueOrders[nth[i]].matched + 1)]
<1>9. \A i \in 1 .. Cardinality(makers) :
        OrderReport("UPDATE", nth[i], venueOrders[nth[i]].matched + 1) \in OrderEvent
  <2> TAKE i \in 1 .. Cardinality(makers)
  <2>1. nth[i] \in VenueIds
    OBVIOUS
  <2>2. venueOrders[nth[i]].matched + 1 \in Nat
    BY <1>1, <2>1 DEF VenueOrder
  <2> QED  BY <2>1, <2>2, OrderReportType
<1>10. updates \in Seq(OrderEvent \cup TradeEvent)
  BY <1>7, <1>9
<1>11. trade \o updates \in Seq(OrderEvent \cup TradeEvent)
       /\ updates \o trade \in Seq(OrderEvent \cup TradeEvent)
  <2> HIDE DEF trade, updates
  <2>1. trade \in Seq(OrderEvent \cup TradeEvent)
    BY <1>6 DEF trade
  <2> QED  BY <1>10, <2>1
<1>12. channel' \in Seq(OrderEvent \cup TradeEvent)
  <2>1. Report(IF TradeFirst THEN trade \o updates ELSE updates \o trade)
    BY <1>8
  <2> HIDE DEF trade, updates
  <2>2. (IF TradeFirst THEN trade \o updates ELSE updates \o trade)
          \in Seq(OrderEvent \cup TradeEvent)
    BY <1>11
  <2> QED  BY <2>1, <2>2, ReportType DEF TypeInv
<1> QED  BY <1>2, <1>4, <1>12

LEMMA EnvironmentType == TypeInv /\ Environment => TypeInv'
<1> SUFFICES ASSUME TypeInv, Environment
             PROVE  TypeInv'
  OBVIOUS
<1> USE DEF memory, wire, venueVars, history
<1>1. ASSUME NEW c \in ClientIds, VenueAccepts(c)
      PROVE  TypeInv'
  <2>1. nextVenueId \in VenueIds /\ nextVenueId \in Nat \ {0}
    BY <1>1 DEF VenueAccepts, TypeInv, TypeOK
  <2>2. task' \in Task /\ (task'.step = "cancel_logged" => task' = task)
    BY <1>1, <2>1, AnswerPostType DEF VenueAccepts
  <2>3. OrderReport("PLACEMENT", nextVenueId, 0) \in OrderEvent
    BY <2>1, OrderReportType
  <2>4. channel' \in Seq(OrderEvent \cup TradeEvent)
    <3>1. <<OrderReport("PLACEMENT", nextVenueId, 0)>> \in Seq(OrderEvent \cup TradeEvent)
      BY <2>3, OneEventType
    <3> QED  BY <1>1, <3>1, ReportType DEF VenueAccepts, TypeInv
  <2>5. venueOrders' \in [VenueIds -> VenueOrder]
    BY <1>1, <2>1 DEF VenueAccepts, TypeInv, TypeOK, VenueOrder
  <2>6. nextVenueId' \in Nat \ {0}
    BY <1>1, <2>1 DEF VenueAccepts
  <2> QED
    BY <1>1, <2>2, <2>4, <2>5, <2>6
    DEF VenueAccepts, TypeInv, TypeOK, CancelHasVenue, VenueOrder
<1>2. ASSUME NEW c \in ClientIds, VenueRefuses(c)
      PROVE  TypeInv'
  <2>1. task' \in Task /\ (task'.step = "cancel_logged" => task' = task)
    BY <1>2, AnswerPostType DEF VenueRefuses
  <2> QED
    BY <1>2, <2>1 DEF VenueRefuses, TypeInv, TypeOK, CancelHasVenue
<1>3. ASSUME NEW v \in VenueIds, VenueCancels(v)
      PROVE  TypeInv'
  <2>1. task' \in Task /\ (task'.step = "cancel_logged" => task' = task)
    BY <1>3, AnswerCancelType DEF VenueCancels
  <2>2. /\ venueOrders' \in [VenueIds -> VenueOrder]
        /\ channel' \in Seq(OrderEvent \cup TradeEvent)
    BY <1>3, CloseType DEF VenueCancels
  <2> QED
    BY <1>3, <2>1, <2>2
    DEF VenueCancels, TypeInv, TypeOK, CancelHasVenue, VenueOrder
<1>4. ASSUME NEW v \in VenueIds, VenueKeeps(v)
      PROVE  TypeInv'
  <2>1. task' \in Task /\ (task'.step = "cancel_logged" => task' = task)
    BY <1>4, AnswerCancelType DEF VenueKeeps
  <2> QED
    BY <1>4, <2>1 DEF VenueKeeps, TypeInv, TypeOK, CancelHasVenue
<1>5. ASSUME NEW v \in VenueIds, VenueSweeps(v)
      PROVE  TypeInv'
  <2>1. /\ venueOrders' \in [VenueIds -> VenueOrder]
        /\ channel' \in Seq(OrderEvent \cup TradeEvent)
    BY <1>5, CloseType DEF VenueSweeps
  <2> QED
    BY <1>5, <2>1 DEF VenueSweeps, TypeInv, TypeOK, CancelHasVenue, VenueOrder
<1>6. CASE VenueSwept
  BY <1>6 DEF VenueSwept, TypeInv, TypeOK, CancelHasVenue
<1>7. ASSUME NEW t \in TradeIds, NEW makers \in SUBSET VenueIds, VenueMatches(t, makers)
      PROVE  TypeInv'
  <2>1. /\ venueOrders' \in [VenueIds -> VenueOrder]
        /\ venueTrades' \in [TradeIds -> [status : LiveTradeStatus \cup {"none"},
                                         maker_orders : SUBSET VenueIds]]
        /\ channel' \in Seq(OrderEvent \cup TradeEvent)
    BY <1>7, VenueMatchesType
  <2>2. UNCHANGED <<up, task, memory, wal, now, wire, nextVenueId, history>>
    BY <1>7 DEF VenueMatches
  <2> QED
    BY <2>1, <2>2 DEF TypeInv, TypeOK, CancelHasVenue, VenueOrder
<1>8. ASSUME NEW t \in TradeIds, NEW status \in LiveTradeStatus, VenueTradeMoves(t, status)
      PROVE  TypeInv'
  <2>1. TradeReport(t, status, venueTrades[t].maker_orders) \in TradeEvent
    BY DEF TradeReport, TradeEvent, TypeInv, TypeOK
  <2>2. channel' \in Seq(OrderEvent \cup TradeEvent)
    <3>1. <<TradeReport(t, status, venueTrades[t].maker_orders)>>
            \in Seq(OrderEvent \cup TradeEvent)
      BY <2>1, OneEventType
    <3> QED  BY <1>8, <3>1, ReportType DEF VenueTradeMoves, TypeInv
  <2>3. venueTrades' \in [TradeIds -> [status : LiveTradeStatus \cup {"none"},
                                      maker_orders : SUBSET VenueIds]]
    <3>1. /\ venueTrades \in [TradeIds -> [status : LiveTradeStatus \cup {"none"},
                                          maker_orders : SUBSET VenueIds]]
          /\ venueTrades' = [venueTrades EXCEPT ![t].status = status]
      BY <1>8 DEF VenueTradeMoves, TypeInv, TypeOK
    <3> QED  BY <3>1
  <2> QED
    BY <1>8, <2>2, <2>3 DEF VenueTradeMoves, TypeInv, TypeOK, CancelHasVenue
<1>9. CASE RequestLost
  BY <1>9 DEF RequestLost, TypeInv, TypeOK, CancelHasVenue
<1>10. CASE EventLost
  <2>1. channel' \in Seq(OrderEvent \cup TradeEvent)
    BY <1>10 DEF EventLost, TypeInv, TypeOK
  <2> QED
    BY <1>10, <2>1 DEF EventLost, TypeInv, TypeOK, CancelHasVenue
<1>11. CASE Tick
  BY <1>11 DEF Tick, TypeInv, TypeOK, CancelHasVenue
<1> QED
  BY <1>1, <1>2, <1>3, <1>4, <1>5, <1>6, <1>7, <1>8, <1>9, <1>10, <1>11 DEF Environment

LEMMA CrashType == TypeInv /\ Crash => TypeInv'
<1> SUFFICES ASSUME TypeInv, Crash
             PROVE  TypeInv'
  OBVIOUS
<1> USE DEF memory, wire, venueVars, history
<1>1. /\ orders' \in [ClientIds -> Snapshots]
      /\ trades' \in [TradeIds \X ClientIds -> LiveTradeStatus \cup {"none"}]
      /\ clientOrderByVenue' \in [VenueIds -> ClientIds \cup {NoClient}]
      /\ progress' \in [submitted_orders : Nat, fills : Nat]
      /\ lastHeartbeat' \in Int
      /\ heartbeatCancelRequested' \in BOOLEAN
      /\ ambiguousMarkets' \subseteq Markets
      /\ halted' \in BOOLEAN
  BY FreshType, LoadType DEF Crash
<1>2. /\ venueOrders' \in [VenueIds -> VenueOrder]
      /\ nextVenueId' \in Nat \ {0}
      /\ posts' \subseteq ClientIds
      /\ cancels' \subseteq VenueIds
      /\ cancelAll' \in BOOLEAN
  <2>1. CASE Mode = "paper"
    <3>1. venueOrders' = [v \in VenueIds |-> NoOrder] /\ NoOrder \in VenueOrder
      BY <2>1 DEF Crash, NoOrder, VenueOrder
    <3>2. nextVenueId' = 1 /\ posts' = {} /\ cancels' = {} /\ cancelAll' = FALSE
      BY <2>1 DEF Crash
    <3>3. venueOrders' \in [VenueIds -> VenueOrder]
      BY <3>1
    <3>4. cancelAll' \in BOOLEAN
      BY <3>2
    <3> QED  BY <3>2, <3>3, <3>4
  <2>2. CASE Mode # "paper"
    BY <2>2 DEF Crash, TypeInv, TypeOK, VenueOrder
  <2> QED  BY <2>1, <2>2
<1>3. channel' \in Seq(OrderEvent \cup TradeEvent)
  BY DEF Crash
<1>4. /\ task' = Idle /\ Idle \in Task /\ crashes' \in Nat /\ up' \in BOOLEAN
      /\ inFlightAtCrash' \subseteq ClientIds /\ lifted' \subseteq ClientIds
  <2>1. up' \in BOOLEAN
    BY DEF Crash
  <2>2. crashes' \in Nat
    BY DEF Crash, TypeInv, TypeOK
  <2>3. inFlightAtCrash' \subseteq ClientIds
    BY DEF Crash, TypeInv, TypeOK
  <2>4. task' = Idle /\ Idle \in Task
    BY DEF Crash, Task
  <2>5. lifted' \subseteq ClientIds
    BY DEF Crash
  <2> QED  BY <2>1, <2>2, <2>3, <2>4, <2>5
<1>5. UNCHANGED <<wal, now, venueTrades, cancelAllSent, raised>>
  BY DEF Crash
<1>6. TypeOK'
  BY <1>1, <1>2, <1>3, <1>4, <1>5 DEF TypeInv, TypeOK, Snapshots, VenueOrder
<1>7. CancelHasVenue'
  BY <1>4 DEF CancelHasVenue, Idle
<1> QED  BY <1>6, <1>7 DEF TypeInv

LEMMA RestartType == TypeInv /\ StopIsKnown /\ Restart => TypeInv'
<1> SUFFICES ASSUME TypeInv, StopIsKnown, Restart
             PROVE  TypeInv'
  OBVIOUS
<1>1. /\ orders' \in [ClientIds -> Snapshots]
      /\ trades' \in [TradeIds \X ClientIds -> LiveTradeStatus \cup {"none"}]
      /\ clientOrderByVenue' \in [VenueIds -> ClientIds \cup {NoClient}]
      /\ progress' \in [submitted_orders : Nat, fills : Nat]
      /\ lastHeartbeat' \in Int
      /\ heartbeatCancelRequested' \in BOOLEAN
      /\ ambiguousMarkets' \subseteq Markets
      /\ halted' \in BOOLEAN
  BY LoadType DEF Restart, TypeInv, TypeOK
<1>2. task' = Idle /\ up' \in BOOLEAN
  BY DEF Restart, StopIsKnown
<1> QED
  BY <1>1, <1>2
  DEF Restart, TypeInv, TypeOK, CancelHasVenue, Snapshots, Idle, wire, venueVars, history
-----------------------------------------------------------------------------
(* The kill switch *)

(* Every step keeps process and log in agreement on the kill switch, and   *)
(* hands an order to the venue only while the log does not hold a stop.    *)
LEMMA StopIsKnownStep ==
  TypeInv /\ StopIsKnown /\ Next =>
    /\ StopIsKnown'
    /\ wal.halted => wal'.halted /\ posts' \subseteq posts
<1> SUFFICES ASSUME TypeInv, StopIsKnown, Next
             PROVE  /\ StopIsKnown'
                    /\ wal.halted => wal'.halted /\ posts' \subseteq posts
  OBVIOUS
<1> DEFINE Goal == /\ StopIsKnown'
                   /\ wal.halted => wal'.halted /\ posts' \subseteq posts
<1> USE DEF memory, wire, venueVars, history
<1>a. ASSUME NEW c \in ClientIds, NEW order, StoreAndLog(c, order)
      PROVE  wal'.halted = wal.halted
  BY <1>a DEF StoreAndLog, WithOrder, TypeInv, TypeOK, Durable
<1>1. CASE Submitting
  <2>1. PICK c \in ClientIds :
          \/ SubmitDecision(c) \/ SubmitWithheld(c)
          \/ SubmitToGateway(c) \/ SubmitAcknowledged(c) \/ SubmitRejected(c)
          \/ SubmitUnknown(c)
    BY <1>1 DEF Submitting
  <2>2. CASE SubmitToGateway(c)
    <3>1. up /\ ~halted
      BY <2>2 DEF SubmitToGateway, Deciding, Frozen, StopIsKnown, Idle
    <3> QED  BY <2>2, <3>1 DEF SubmitToGateway, StopIsKnown
  <2>3. CASE ~SubmitToGateway(c)
    <3>1. /\ up' = up /\ halted' = halted /\ posts' = posts
          /\ wal'.halted = wal.halted
      BY <2>1, <2>3, <1>a
      DEF SubmitDecision, SubmitWithheld, SubmitAcknowledged,
          SubmitRejected, SubmitUnknown, Blocks
    <3>2. up
      BY <2>1, <2>3
      DEF SubmitDecision, SubmitWithheld, SubmitAcknowledged,
          SubmitRejected, SubmitUnknown, Ready, Deciding, Posting, StopIsKnown, Idle, Blocks
    <3> QED  BY <3>1, <3>2 DEF StopIsKnown
  <2> QED  BY <2>2, <2>3
<1>2. CASE Canceling
  <2>1. ASSUME NEW c \in ClientIds, RequestCancel(c) \/ CancelUnknown(c)
        PROVE  Goal
    BY <2>1, <1>a DEF RequestCancel, CancelUnknown, Ready, StopIsKnown, Idle, Blocks
  <2>2. ASSUME NEW c \in ClientIds, SendCancel(c) \/ CancelReturned(c)
        PROVE  Goal
    BY <2>2 DEF SendCancel, CancelReturned, StopIsKnown, Idle
  <2>3. CASE CancelAll
    BY <2>3 DEF CancelAll, StopIsKnown
  <2> QED  BY <1>2, <2>1, <2>2, <2>3 DEF Canceling
<1>3. CASE Stopping
  <2>1. ASSUME NEW cause, Freeze(cause), Ready
        PROVE  Goal
    BY <2>1 DEF Freeze, Ready, StopIsKnown, TypeInv, TypeOK, Durable
  <2>2. CASE StopCancelsOrders
    BY <2>2 DEF StopCancelsOrders, StopIsKnown, Idle
  <2>3. CASE RecordHeartbeat
    BY <2>3 DEF RecordHeartbeat, StopIsKnown, TypeInv, TypeOK, Durable
  <2>4. CASE EnforceTimeoutWhenHalted
    BY <2>4 DEF EnforceTimeoutWhenHalted, StopIsKnown
  <2> QED
    BY <1>3, <2>1, <2>2, <2>3, <2>4 DEF Stopping, EmergencyStop, EnforceTimeout
<1>4. CASE Reconciliation
  <2> DEFINE Unmoved == up /\ up' = up /\ halted' = halted /\ posts' = posts
                          /\ wal'.halted = wal.halted
  <2>1. OrderEventIgnored \/ OrderEventRaises \/ TradeEventReceived => Unmoved
    BY DEF OrderEventIgnored, OrderEventRaises, TradeEventReceived, Receives, Ready
  <2>2. OrderEventApplied => Unmoved
    <3> SUFFICES ASSUME OrderEventApplied
                 PROVE  Unmoved
      OBVIOUS
    <3>1. ClientOf(Head(channel)) \in ClientIds
      <4>1. Head(channel) \in OrderEvent
        BY DEF OrderEventApplied, Receives, OrderEvent, TradeEvent, TypeInv, TypeOK, Releases
      <4> QED  BY <4>1 DEF OrderEventApplied, ClientOf, OrderEvent, TypeInv, TypeOK, Releases
    <3>2. wal'.halted = wal.halted
      BY <3>1, <1>a DEF OrderEventApplied, Releases
    <3> QED  BY <3>2 DEF OrderEventApplied, Receives, Ready, Releases
  <2>3. ASSUME NEW v \in VenueIds,
               MakerUnknown(v) \/ MakerRaises(v) \/ MakerCountedThenRaises(v)
        PROVE  Unmoved
    BY <2>3 DEF MakerUnknown, MakerRaises, MakerCountedThenRaises, Reconciling,
                StopIsKnown, Idle
  <2>4. ASSUME NEW v \in VenueIds, MakerFirstSeen(v) \/ MakerUpdated(v)
        PROVE  Unmoved
    <3>1. PICK order : StoreTrade(clientOrderByVenue[v], order)
      BY <2>4 DEF MakerFirstSeen, MakerUpdated
    <3>2. wal'.halted = wal.halted
      BY <3>1 DEF StoreTrade, WithOrder, TypeInv, TypeOK, Durable
    <3> QED
      BY <2>4, <3>2 DEF MakerFirstSeen, MakerUpdated, Reconciling, StopIsKnown, Idle
  <2>5. ASSUME NEW c \in ClientIds, NEW v \in VenueIds, ResolveFound(c, v)
        PROVE  Unmoved
    BY <2>5, <1>a DEF ResolveFound, Resolve, Ready, Releases
  <2>6. ASSUME NEW c \in ClientIds, ResolveAbsent(c)
        PROVE  Unmoved
    BY <2>6, <1>a DEF ResolveAbsent, Resolve, Ready, Releases
  <2>7. Unmoved
    BY <1>4, <2>1, <2>2, <2>3, <2>4, <2>5, <2>6 DEF Reconciliation
  <2> QED  BY <2>7 DEF StopIsKnown
<1>5. CASE Environment
  <2>1. /\ UNCHANGED <<up, halted, wal>> /\ posts' \subseteq posts
        /\ task = Idle => task' = Idle
    BY <1>5
    DEF Environment, VenueAccepts, VenueRefuses, VenueCancels, VenueKeeps, VenueSweeps,
        VenueSwept, VenueMatches, VenueTradeMoves, RequestLost, EventLost, Tick,
        AnswerPost, AnswerCancel, Posting, Idle
  <2> QED  BY <2>1 DEF StopIsKnown
<1>6. CASE Crash
  BY <1>6 DEF Crash, StopIsKnown
<1>7. CASE Restart
  BY <1>7 DEF Restart, Load, StopIsKnown
<1> QED  BY <1>1, <1>2, <1>3, <1>4, <1>5, <1>6, <1>7 DEF Next
-----------------------------------------------------------------------------
(* Shadow mode *)

(* No request is under way and none was made, and no call that makes one   *)
(* is in progress.                                                         *)
ShadowIsIdle ==
    Mode = "shadow" =>
        /\ posts = {} /\ cancels = {} /\ ~cancelAll /\ ~cancelAllSent
        /\ nextVenueId = 1
        /\ task.step \notin {"posting", "cancel_logged", "canceling"}

LEMMA LoopPastStep ==
    ASSUME TypeInv, NEW v, Reconciling(v), LoopPast(v)
    PROVE  task'.step \in {"idle", "trade"}
<1>1. CASE task.rest = {v}
  BY <1>1 DEF LoopPast, Idle
<1>2. CASE task.rest # {v}
  <2>1. task' = [task EXCEPT !.rest = @ \ {v}] /\ task.step = "trade"
    BY <1>2 DEF LoopPast, Reconciling
  <2>2. task \in [step : {"trade"}, event : TradeEvent, rest : SUBSET VenueIds]
    BY <2>1 DEF TypeInv, TypeOK, Task, Idle
  <2> QED  BY <2>1, <2>2
<1> QED  BY <1>1, <1>2

(* A call of the gateway needs a step that shadow mode never reaches.      *)
LEMMA ShadowStep ==
    ASSUME TypeInv, ShadowIsIdle, Next, Mode = "shadow"
    PROVE  ShadowIsIdle'
<1> USE DEF ShadowIsIdle, memory, wire, venueVars, history
<1> DEFINE Quiet == UNCHANGED <<wire, nextVenueId, cancelAllSent>>
           Harmless == task'.step \notin {"posting", "cancel_logged", "canceling"}
<1>a. ASSUME Quiet, Harmless
      PROVE  ShadowIsIdle'
  BY <1>a
<1>1. CASE Submitting
  <2>1. Quiet /\ Harmless
    BY <1>1
    DEF Submitting, SubmitDecision, SubmitWithheld, SubmitToGateway, SubmitAcknowledged,
        SubmitRejected, SubmitUnknown, Posting, Idle, Blocks
  <2> QED  BY <2>1, <1>a
<1>2. CASE Canceling
  <2>1. CASE CancelAll
    BY <2>1 DEF CancelAll, SendCancelAll
  <2>2. ~\E c \in ClientIds :
            RequestCancel(c) \/ SendCancel(c) \/ CancelReturned(c) \/ CancelUnknown(c)
    BY DEF RequestCancel, SendCancel, CancelReturned, CancelUnknown, Blocks
  <2> QED  BY <1>2, <2>1, <2>2 DEF Canceling
<1>3. CASE Stopping
  <2>1. CASE StopCancelsOrders
    BY <2>1 DEF StopCancelsOrders, SendCancelAll, Idle
  <2>2. CASE ~StopCancelsOrders
    <3>1. Quiet /\ Harmless
      BY <1>3, <2>2
      DEF Stopping, EmergencyStop, EnforceTimeout, Freeze, RecordHeartbeat,
          EnforceTimeoutWhenHalted
    <3> QED  BY <3>1, <1>a
  <2> QED  BY <2>1, <2>2
<1>4. CASE Reconciliation
  <2>1. OrderEventIgnored \/ OrderEventRaises \/ OrderEventApplied \/ TradeEventReceived
          => Quiet /\ Harmless
    BY DEF OrderEventIgnored, OrderEventRaises, OrderEventApplied, TradeEventReceived, Releases
  <2>2. ASSUME NEW v \in VenueIds,
               MakerUnknown(v) \/ MakerFirstSeen(v) \/ MakerUpdated(v)
        PROVE  Quiet /\ Harmless
    <3>1. Reconciling(v) /\ LoopPast(v)
      BY <2>2 DEF MakerUnknown, MakerFirstSeen, MakerUpdated
    <3>2. Harmless
      BY <3>1, LoopPastStep
    <3>3. Quiet
      BY <2>2 DEF MakerUnknown, MakerFirstSeen, MakerUpdated
    <3> QED  BY <3>2, <3>3
  <2>3. ASSUME NEW v \in VenueIds, MakerRaises(v) \/ MakerCountedThenRaises(v)
        PROVE  Quiet /\ Harmless
    BY <2>3 DEF MakerRaises, MakerCountedThenRaises, Idle
  <2>4. ASSUME NEW c \in ClientIds,
               ResolveAbsent(c) \/ \E v \in VenueIds : ResolveFound(c, v)
        PROVE  Quiet /\ Harmless
    <3>1. PICK order : Resolve(c, order)
      BY <2>4, Zenon DEF ResolveFound, ResolveAbsent
    <3> QED  BY <3>1 DEF Resolve, Releases
  <2>5. Quiet /\ Harmless
    BY <1>4, <2>1, <2>2, <2>3, <2>4 DEF Reconciliation
  <2> QED  BY <2>5, <1>a
<1>5. CASE Environment
  <2>1. ~\E c \in ClientIds : VenueAccepts(c) \/ VenueRefuses(c)
    BY DEF VenueAccepts, VenueRefuses
  <2>2. ~\E v \in VenueIds : VenueCancels(v) \/ VenueKeeps(v)
    BY DEF VenueCancels, VenueKeeps
  <2>3. ~VenueSwept /\ ~RequestLost
    BY DEF VenueSwept, RequestLost
  <2>4. ASSUME NEW v \in VenueIds, VenueSweeps(v)
        PROVE  Quiet /\ Harmless
    BY <2>4 DEF VenueSweeps
  <2>5. ASSUME NEW t \in TradeIds, NEW makers, VenueMatches(t, makers)
        PROVE  Quiet /\ Harmless
    <3>1. UNCHANGED <<task, wire, nextVenueId, history>>
      BY <2>5, Zenon DEF VenueMatches
    <3> QED  BY <3>1
  <2>6. ASSUME NEW t \in TradeIds, NEW status, VenueTradeMoves(t, status)
        PROVE  Quiet /\ Harmless
    BY <2>6 DEF VenueTradeMoves
  <2>7. EventLost \/ Tick => Quiet /\ Harmless
    BY DEF EventLost, Tick
  <2>8. Quiet /\ Harmless
    BY <1>5, <2>1, <2>2, <2>3, <2>4, <2>5, <2>6, <2>7 DEF Environment
  <2> QED  BY <2>8, <1>a
<1>6. CASE Crash
  <2>1. Quiet /\ Harmless
    BY <1>6 DEF Crash, Idle
  <2> QED  BY <2>1, <1>a
<1>7. CASE Restart
  BY <1>7, <1>a DEF Restart
<1> QED  BY <1>1, <1>2, <1>3, <1>4, <1>5, <1>6, <1>7 DEF Next
-----------------------------------------------------------------------------
IInv == TypeInv /\ StopIsKnown

LEMMA InitInv == Init => IInv
<1> SUFFICES ASSUME Init
             PROVE  IInv
  OBVIOUS
<1>1. /\ orders \in [ClientIds -> Snapshots] /\ wal \in Durable
      /\ trades \in [TradeIds \X ClientIds -> LiveTradeStatus \cup {"none"}]
      /\ clientOrderByVenue \in [VenueIds -> ClientIds \cup {NoClient}]
  BY FreshType DEF Init, Fresh, Durable, Snapshots
<1>2. progress \in [submitted_orders : Nat, fills : Nat]
  BY DEF Init
<1>3. venueOrders \in [VenueIds -> VenueOrder]
  <2>1. NoOrder \in VenueOrder
    BY DEF NoOrder, VenueOrder
  <2> QED  BY <2>1 DEF Init
<1>4. venueTrades \in [TradeIds -> [status : LiveTradeStatus \cup {"none"},
                                   maker_orders : SUBSET VenueIds]]
  BY DEF Init
<1>5. channel \in Seq(OrderEvent \cup TradeEvent)
  BY DEF Init
<1>6. /\ up \in BOOLEAN /\ heartbeatCancelRequested \in BOOLEAN /\ halted \in BOOLEAN
      /\ cancelAll \in BOOLEAN /\ cancelAllSent \in BOOLEAN /\ raised \in BOOLEAN
  BY DEF Init
<1>7. task = Idle /\ task \in Task
  BY DEF Init, Task
<1>8. TypeOK
  BY <1>1, <1>2, <1>3, <1>4, <1>5, <1>6, <1>7
  DEF Init, TypeOK, Snapshots, VenueOrder, Never
<1>9. CancelHasVenue
  BY <1>7 DEF CancelHasVenue, Idle
<1>10. StopIsKnown
  BY DEF Init, StopIsKnown, Fresh
<1> QED  BY <1>8, <1>9, <1>10 DEF IInv, TypeInv

LEMMA StepInv ==
  ASSUME IInv, [Next]_vars
  PROVE  IInv'
<1>1. CASE Next
  <2>1. TypeInv /\ StopIsKnown
    BY DEF IInv
  <2>2. TypeInv'
    BY <1>1, <2>1, SubmittingType, CancelingType, StoppingType, ReconciliationType,
       EnvironmentType, CrashType, RestartType
    DEF Next
  <2>3. StopIsKnown'
    BY <1>1, <2>1, StopIsKnownStep
  <2> QED  BY <2>2, <2>3 DEF IInv
<1>2. CASE UNCHANGED vars
  BY <1>2 DEF IInv, TypeInv, TypeOK, CancelHasVenue, StopIsKnown, vars, memory, wire,
              venueVars, history
<1> QED  BY <1>1, <1>2

LEMMA StepHolds ==
  ASSUME IInv, [Next]_vars
  PROVE  [wal.halted => wal'.halted /\ posts' \subseteq posts]_vars
<1>1. TypeInv /\ StopIsKnown
  BY DEF IInv
<1> QED  BY <1>1, StopIsKnownStep

(* The memory of the service, its log, the requests on the wire and the    *)
(* records of the venue keep their types, whatever fails and restarts.     *)
THEOREM TypesHold == Spec => []TypeOK
<1>1. IInv => TypeOK
  BY DEF IInv, TypeInv
<1>2. IInv /\ [Next]_vars => IInv'
  BY StepInv
<1> QED  BY InitInv, <1>1, <1>2, PTL DEF Spec

(* A process that is up has halted exactly when its log says so: the       *)
(* reason why emergency_stop and restore_from_wal agree.                   *)
THEOREM MemoryKnowsTheStop == Spec => [](up => halted = wal.halted)
<1>1. IInv => (up => halted = wal.halted)
  BY DEF IInv, StopIsKnown
<1>2. IInv /\ [Next]_vars => IInv'
  BY StepInv
<1> QED  BY InitInv, <1>1, <1>2, PTL DEF Spec

(* The kill switch, once durable, stays on and lets no new order through   *)
(* to the gateway, for any number of orders, crashes and restarts.         *)
THEOREM KillSwitchIsSafe == Spec => KillSwitchHolds
<1>1. IInv /\ [Next]_vars => IInv'
  BY StepInv
<1>2. IInv /\ [Next]_vars => [wal.halted => wal'.halted /\ posts' \subseteq posts]_vars
  BY StepHolds
<1> QED  BY InitInv, <1>1, <1>2, PTL DEF Spec, KillSwitchHolds

(* In shadow mode nothing ever reaches the gateway, whatever is submitted, *)
(* cancelled, stopped, swept or restarted (submit, request_cancel,         *)
(* cancel_all, emergency_stop).                                            *)
THEOREM ShadowStaysSilent == Spec => []ShadowNeverCalls
<1>1. Init => ShadowIsIdle
  BY DEF Init, ShadowIsIdle, Idle
<1>2. IInv /\ ShadowIsIdle /\ [Next]_vars => ShadowIsIdle'
  <2> SUFFICES ASSUME IInv, ShadowIsIdle, [Next]_vars
               PROVE  ShadowIsIdle'
    OBVIOUS
  <2>1. CASE Next /\ Mode = "shadow"
    BY <2>1, ShadowStep DEF IInv
  <2>2. CASE UNCHANGED vars
    BY <2>2 DEF ShadowIsIdle, vars, wire, venueVars, history
  <2>3. CASE Mode # "shadow"
    BY <2>3 DEF ShadowIsIdle
  <2> QED  BY <2>1, <2>2, <2>3
<1>3. IInv /\ [Next]_vars => IInv'
  BY StepInv
<1>4. ShadowIsIdle => ShadowNeverCalls
  BY DEF ShadowIsIdle, ShadowNeverCalls
<1> QED  BY InitInv, <1>1, <1>2, <1>3, <1>4, PTL DEF Spec
-----------------------------------------------------------------------------
Final == {"rejected", "canceled"}

(* What the call in progress has made of its order.                        *)
CallFits ==
    /\ task.step = "decided" => orders[task.client].status = "created"
    /\ task.step = "posting" => orders[task.client].status = "submitted"
    /\ task.step \in {"cancel_logged", "canceling"}
         => orders[task.client].status = "cancel_requested"

(* The memory is never behind the log.                                     *)
Ahead(c) ==
    /\ wal.orders[c].matched_size <= orders[c].matched_size
    /\ wal.orders[c].status \in Final => orders[c].status = wal.orders[c].status

NotBehind == up => trades = wal.trades /\ \A c \in ClientIds : Ahead(c)

LogInv == CallFits /\ NotBehind

(* What LogNeverForgets says of a step.                                    *)
Remembers ==
    /\ \A c \in ClientIds :
         /\ wal'.orders[c].matched_size >= wal.orders[c].matched_size
         /\ wal.orders[c].status \in Final
              => wal'.orders[c].status = wal.orders[c].status
    /\ \A k \in DOMAIN wal.trades : wal.trades[k] \in {"confirmed", "failed"}
         => wal'.trades[k] = wal.trades[k]

LEMMA WalType ==
    ASSUME TypeInv
    PROVE  /\ wal.orders \in [ClientIds -> Snapshots]
           /\ orders \in [ClientIds -> Snapshots]
           /\ wal.trades \in [TradeIds \X ClientIds -> LiveTradeStatus \cup {"none"}]
           /\ \A c \in ClientIds : /\ wal.orders[c].matched_size \in Nat
                                   /\ orders[c].matched_size \in Nat
  BY DEF TypeInv, TypeOK, Durable, Snapshots, LiveOrder

LEMMA WithOrderWrites ==
    ASSUME TypeInv, NEW c \in ClientIds, NEW order
    PROVE  /\ WithOrder(wal, c, order).orders = [wal.orders EXCEPT ![c] = order]
           /\ WithOrder(wal, c, order).trades = wal.trades
  BY DEF WithOrder, TypeInv, TypeOK, Durable

(* A snapshot that takes nothing back keeps memory and log in order.       *)
LEMMA StoreRemembers ==
    ASSUME TypeInv, NotBehind, up, up' = up, NEW c \in ClientIds, NEW order,
           StoreAndLog(c, order), UNCHANGED trades,
           orders[c].matched_size <= order.matched_size,
           order.matched_size \in Nat,
           orders[c].status \in Final => order.status = orders[c].status
    PROVE  NotBehind' /\ Remembers
<1>1. /\ wal'.orders = [wal.orders EXCEPT ![c] = order] /\ wal'.trades = wal.trades
      /\ orders' = [orders EXCEPT ![c] = order]
  BY WithOrderWrites DEF StoreAndLog
<1>2. ASSUME NEW d \in ClientIds
      PROVE  /\ Ahead(d)'
             /\ wal'.orders[d].matched_size >= wal.orders[d].matched_size
             /\ wal.orders[d].status \in Final
                  => wal'.orders[d].status = wal.orders[d].status
  <2>1. Ahead(d) /\ d = d
    BY DEF NotBehind
  <2>2. CASE d = c
    <3>1. wal'.orders[d] = order /\ orders'[d] = order
      BY <1>1, <2>2, WalType
    <3> QED  BY <2>1, <2>2, <3>1, WalType DEF Ahead
  <2>3. CASE d # c
    <3>1. wal'.orders[d] = wal.orders[d] /\ orders'[d] = orders[d]
      BY <1>1, <2>3, WalType
    <3> QED  BY <2>1, <3>1, WalType DEF Ahead
  <2> QED  BY <2>2, <2>3
<1>3. trades' = wal'.trades
  BY <1>1 DEF NotBehind
<1> QED  BY <1>1, <1>2, <1>3 DEF NotBehind, Remembers

(* Nothing the log keeps of orders and trades is touched.                  *)
LEMMA QuietRemembers ==
    ASSUME TypeInv, LogInv, UNCHANGED <<orders, trades>>,
           up' => up, wal'.orders = wal.orders, wal'.trades = wal.trades
    PROVE  NotBehind' /\ Remembers
<1>1. Remembers
  BY WalType DEF Remembers
<1>2. NotBehind'
  BY DEF NotBehind, LogInv, Ahead
<1> QED  BY <1>1, <1>2

LEMMA SubmittingRemembers ==
    ASSUME TypeInv, StopIsKnown, LogInv, Submitting
    PROVE  LogInv' /\ Remembers
<1>1. PICK c \in ClientIds :
        \/ SubmitDecision(c) \/ SubmitWithheld(c)
        \/ SubmitToGateway(c) \/ SubmitAcknowledged(c) \/ SubmitRejected(c)
        \/ SubmitUnknown(c)
  BY DEF Submitting
<1>2. orders[c] \in Snapshots
  BY WalType
<1>3. /\ orders[c].matched_size \in Nat
      /\ \A status : /\ Moved(orders[c], status).matched_size = orders[c].matched_size
                     /\ Moved(orders[c], status).status = status
  BY <1>2 DEF Moved, Snapshots, LiveOrder
<1>4. CASE SubmitDecision(c)
  <2>1. Ready /\ orders[c] = Absent /\ StoreAndLog(c, Moved(Absent, "created"))
        /\ UNCHANGED <<up, trades>>
    BY <1>4 DEF SubmitDecision
  <2>2. orders[c].status \notin Final
    BY <2>1 DEF Absent, Final
  <2>3. NotBehind' /\ Remembers
    BY <2>1, <2>2, <1>3, StoreRemembers DEF Ready, LogInv
  <2>4. orders'[c].status = "created"
    BY <2>1, <1>3, WalType DEF StoreAndLog
  <2>5. task' = [step |-> "decided", client |-> c]
    BY <1>4 DEF SubmitDecision
  <2> QED  BY <2>3, <2>4, <2>5 DEF LogInv, CallFits
<1>5. CASE SubmitWithheld(c)
  <2>1. Deciding(c) /\ UNCHANGED <<up, trades>> /\ task' = Idle
    BY <1>5 DEF SubmitWithheld
  <2>2. PICK order \in {orders[c], Moved(orders[c], "rejected")} : StoreAndLog(c, order)
    BY <1>5 DEF SubmitWithheld
  <2>3. up /\ orders[c].status = "created"
    BY <2>1 DEF Deciding, StopIsKnown, Idle, LogInv, CallFits
  <2>4. NotBehind' /\ Remembers
    BY <2>1, <2>2, <2>3, <1>3, StoreRemembers DEF LogInv, Final
  <2> QED  BY <2>1, <2>4 DEF LogInv, CallFits, Idle
<1>6. CASE SubmitToGateway(c)
  <2>1. /\ Deciding(c) /\ UNCHANGED <<up, trades, wal>>
        /\ orders' = [orders EXCEPT ![c] = Moved(@, "submitted")]
        /\ task' = [step |-> "posting", client |-> c, answer |-> "none",
                    venue |-> NoVenueId]
    BY <1>6 DEF SubmitToGateway
  <2>2. up /\ orders[c].status = "created"
    BY <2>1 DEF Deciding, StopIsKnown, Idle, LogInv, CallFits
  <2>3. Remembers
    BY <2>1, WalType DEF Remembers
  <2>4. ASSUME NEW d \in ClientIds
        PROVE  Ahead(d)'
    <3>1. Ahead(d)
      BY <2>2 DEF LogInv, NotBehind
    <3>2. CASE d = c
      BY <3>1, <3>2, <2>1, <2>2, <1>3, WalType DEF Ahead, Final
    <3>3. CASE d # c
      BY <3>1, <3>3, <2>1, WalType DEF Ahead
    <3> QED  BY <3>2, <3>3
  <2>5. orders'[c].status = "submitted"
    BY <2>1, <1>3, WalType
  <2> QED  BY <2>1, <2>2, <2>3, <2>4, <2>5 DEF LogInv, NotBehind, CallFits
<1>7. CASE SubmitAcknowledged(c) \/ SubmitRejected(c) \/ SubmitUnknown(c)
  <2>1. Posting(c) /\ UNCHANGED <<up, trades>> /\ task' = Idle
    BY <1>7 DEF SubmitAcknowledged, SubmitRejected, SubmitUnknown, Blocks
  <2>2. up /\ orders[c].status = "submitted"
    BY <2>1 DEF Posting, StopIsKnown, Idle, LogInv, CallFits
  <2>3. PICK order : /\ StoreAndLog(c, order)
                     /\ order.matched_size = orders[c].matched_size
    <3>1. CASE SubmitAcknowledged(c)
      <4>1. [orders[c] EXCEPT !.status = "live", !.venue_order_id = task.venue].matched_size
              = orders[c].matched_size
        BY <1>2 DEF Snapshots, LiveOrder
      <4> QED  BY <3>1, <4>1 DEF SubmitAcknowledged
    <3>2. CASE SubmitRejected(c) \/ SubmitUnknown(c)
      BY <3>2, <1>3 DEF SubmitRejected, SubmitUnknown, Blocks
    <3> QED  BY <1>7, <3>1, <3>2
  <2>4. NotBehind' /\ Remembers
    BY <2>1, <2>2, <2>3, <1>3, StoreRemembers DEF LogInv, Final
  <2> QED  BY <2>1, <2>4 DEF LogInv, CallFits, Idle
<1> QED  BY <1>1, <1>4, <1>5, <1>6, <1>7

LEMMA CancelingRemembers ==
    ASSUME TypeInv, StopIsKnown, LogInv, Canceling
    PROVE  LogInv' /\ Remembers
<1>1. CASE CancelAll
  <2>1. UNCHANGED <<up, task, orders, trades, wal>>
    BY <1>1 DEF CancelAll, memory
  <2> QED  BY <2>1, QuietRemembers DEF LogInv, CallFits
<1>2. ASSUME NEW c \in ClientIds,
             RequestCancel(c) \/ SendCancel(c) \/ CancelReturned(c) \/ CancelUnknown(c)
      PROVE  LogInv' /\ Remembers
  <2>1. /\ orders[c] \in Snapshots /\ orders[c].matched_size \in Nat
        /\ \A status : /\ Moved(orders[c], status).matched_size = orders[c].matched_size
                       /\ Moved(orders[c], status).status = status
    BY WalType DEF Moved, Snapshots, LiveOrder
  <2>2. CASE RequestCancel(c)
    <3>1. /\ up /\ StoreAndLog(c, Moved(orders[c], "cancel_requested"))
          /\ orders[c].status \notin Final /\ UNCHANGED <<up, trades>>
          /\ task' = [step |-> "cancel_logged", client |-> c]
      BY <2>2 DEF RequestCancel, Ready, Final
    <3>2. NotBehind' /\ Remembers
      BY <2>1, <3>1, StoreRemembers DEF LogInv
    <3>3. orders'[c].status = "cancel_requested"
      BY <2>1, <3>1, WalType DEF StoreAndLog
    <3> QED  BY <3>1, <3>2, <3>3 DEF LogInv, CallFits
  <2>3. CASE SendCancel(c)
    <3>1. /\ UNCHANGED <<up, orders, trades, wal>>
          /\ task = [step |-> "cancel_logged", client |-> c]
          /\ task'.step = "canceling" /\ task'.client = c
      BY <2>3 DEF SendCancel, memory
    <3> QED  BY <3>1, QuietRemembers DEF LogInv, CallFits
  <2>4. CASE CancelReturned(c)
    <3>1. UNCHANGED <<up, orders, trades, wal>> /\ task' = Idle
      BY <2>4 DEF CancelReturned, memory
    <3> QED  BY <3>1, QuietRemembers DEF LogInv, CallFits, Idle
  <2>5. CASE CancelUnknown(c)
    <3>1. /\ task.step = "canceling" /\ task.client = c /\ UNCHANGED <<up, trades>>
          /\ StoreAndLog(c, Moved(orders[c], "unknown")) /\ task' = Idle
      BY <2>5 DEF CancelUnknown, Blocks
    <3>2. up /\ orders[c].status \notin Final
      BY <3>1 DEF StopIsKnown, Idle, LogInv, CallFits, Final
    <3>3. NotBehind' /\ Remembers
      BY <2>1, <3>1, <3>2, StoreRemembers DEF LogInv
    <3> QED  BY <3>1, <3>3 DEF LogInv, CallFits, Idle
  <2> QED  BY <1>2, <2>2, <2>3, <2>4, <2>5
<1> QED  BY <1>1, <1>2 DEF Canceling

LEMMA StoppingRemembers ==
    ASSUME TypeInv, StopIsKnown, LogInv, Stopping
    PROVE  LogInv' /\ Remembers
<1>1. UNCHANGED <<up, orders, trades>>
  BY DEF Stopping, EmergencyStop, EnforceTimeout, Freeze, StopCancelsOrders,
         RecordHeartbeat, EnforceTimeoutWhenHalted
<1>2. wal'.orders = wal.orders /\ wal'.trades = wal.trades
  BY DEF Stopping, EmergencyStop, EnforceTimeout, Freeze, StopCancelsOrders,
         RecordHeartbeat, EnforceTimeoutWhenHalted, TypeInv, TypeOK, Durable
<1>3. task' = task \/ task'.step \in {"idle", "stopping"}
  BY DEF Stopping, EmergencyStop, EnforceTimeout, Freeze, StopCancelsOrders,
         RecordHeartbeat, EnforceTimeoutWhenHalted, Idle
<1> QED  BY <1>1, <1>2, <1>3, QuietRemembers DEF LogInv, CallFits

(* The snapshots of a maker order and of its trade are stored together.    *)
LEMMA TradeRemembers ==
    ASSUME TypeInv, NotBehind, up, up' = up, NEW c \in ClientIds, NEW order,
           task.step = "trade", StoreTrade(c, order),
           orders[c].matched_size <= order.matched_size,
           order.matched_size \in Nat, order.status = orders[c].status,
           Recorded(c) \in {"confirmed", "failed"} => task.event.status = Recorded(c)
    PROVE  NotBehind' /\ Remembers
<1> DEFINE key == <<task.event.id, c>>
<1>1. WithOrder(wal, c, order) \in [orders : {[wal.orders EXCEPT ![c] = order]},
                                    trades : {wal.trades},
                                    clientOrderByVenue :
                                        {WithOrder(wal, c, order).clientOrderByVenue},
                                    ambiguousMarkets :
                                        {WithOrder(wal, c, order).ambiguousMarkets},
                                    lastHeartbeat : {wal.lastHeartbeat},
                                    halted : {wal.halted}]
  BY DEF WithOrder, TypeInv, TypeOK, Durable
<1>2. wal' = [WithOrder(wal, c, order) EXCEPT !.trades =
                 [WithOrder(wal, c, order).trades EXCEPT ![key] = task.event.status]]
  BY DEF StoreTrade
<1>3. /\ wal'.orders = [wal.orders EXCEPT ![c] = order]
      /\ wal'.trades = [wal.trades EXCEPT ![key] = task.event.status]
  BY <1>1, <1>2
<1>4. /\ orders' = [orders EXCEPT ![c] = order]
      /\ trades' = [trades EXCEPT ![key] = task.event.status]
  BY DEF StoreTrade
<1>5. ASSUME NEW d \in ClientIds
      PROVE  /\ Ahead(d)'
             /\ wal'.orders[d].matched_size >= wal.orders[d].matched_size
             /\ wal.orders[d].status \in Final
                  => wal'.orders[d].status = wal.orders[d].status
  <2>1. Ahead(d)
    BY DEF NotBehind
  <2>2. CASE d = c
    <3>1. wal'.orders[d] = order /\ orders'[d] = order
      BY <1>3, <1>4, <2>2, WalType
    <3> QED  BY <2>1, <2>2, <3>1, WalType DEF Ahead
  <2>3. CASE d # c
    <3>1. wal'.orders[d] = wal.orders[d] /\ orders'[d] = orders[d]
      BY <1>3, <1>4, <2>3, WalType
    <3> QED  BY <2>1, <3>1, WalType DEF Ahead
  <2> QED  BY <2>2, <2>3
<1>6. trades' = wal'.trades
  BY <1>3, <1>4 DEF NotBehind
<1>7. ASSUME NEW k \in DOMAIN wal.trades, wal.trades[k] \in {"confirmed", "failed"}
      PROVE  wal'.trades[k] = wal.trades[k]
  <2>1. CASE k = key
    <3>1. Recorded(c) = wal.trades[k]
      BY <2>1 DEF Recorded, NotBehind
    <3> QED  BY <1>3, <1>7, <2>1, <3>1
  <2>2. CASE k # key
    BY <1>3, <2>2, WalType
  <2> QED  BY <2>1, <2>2
<1> QED  BY <1>5, <1>6, <1>7 DEF NotBehind, Remembers

LEMMA ReconciliationRemembers ==
    ASSUME TypeInv, StopIsKnown, LogInv, Reconciliation
    PROVE  LogInv' /\ Remembers
<1>1. CASE OrderEventIgnored \/ OrderEventRaises \/ TradeEventReceived
  <2>1. UNCHANGED <<up, orders, trades, wal>>
    BY <1>1 DEF OrderEventIgnored, OrderEventRaises, TradeEventReceived, memory
  <2>2. task' = task \/ task'.step = "trade"
    BY <1>1 DEF OrderEventIgnored, OrderEventRaises, TradeEventReceived
  <2> QED  BY <2>1, <2>2, QuietRemembers DEF LogInv, CallFits
<1>2. CASE OrderEventApplied
  <2> DEFINE event == Head(channel)
             c == ClientOf(event)
             status == StatusAfter(event, orders[c].status)
             order == [orders[c] EXCEPT !.status = status,
                                        !.matched_size = event.size_matched]
  <2>1. /\ Receives("order") /\ c # NoClient /\ CumulativeFits(event, c)
        /\ StoreAndLog(c, order) /\ UNCHANGED <<up, task, trades>>
    BY <1>2 DEF OrderEventApplied, Releases
  <2>2. event \in OrderEvent
    BY <2>1 DEF Receives, OrderEvent, TradeEvent, TypeInv, TypeOK
  <2>3. c \in ClientIds /\ up /\ task = Idle /\ event.size_matched \in Nat
    BY <2>1, <2>2 DEF ClientOf, OrderEvent, Receives, Ready, TypeInv, TypeOK
  <2>4. orders[c] \in Snapshots
    BY <2>3, WalType
  <2>5. order.status = status /\ order.matched_size = event.size_matched
    BY <2>4 DEF Snapshots, LiveOrder
  <2>6. orders[c].status \in Final => status = orders[c].status
    BY DEF Final, StatusAfter
  <2>7. orders[c].matched_size <= event.size_matched
    BY <2>1 DEF CumulativeFits
  <2>8. NotBehind' /\ Remembers
    <3> HIDE DEF event, c, status, order
    <3> QED  BY <2>1, <2>3, <2>5, <2>6, <2>7, StoreRemembers DEF LogInv
  <2> QED  BY <2>1, <2>3, <2>8 DEF LogInv, CallFits, Idle
<1>3. ASSUME NEW v \in VenueIds,
             MakerUnknown(v) \/ MakerRaises(v) \/ MakerCountedThenRaises(v)
                \/ MakerFirstSeen(v) \/ MakerUpdated(v)
      PROVE  LogInv' /\ Remembers
  <2> DEFINE c == clientOrderByVenue[v]
  <2>1. Reconciling(v) /\ up /\ up' = up
    BY <1>3 DEF MakerUnknown, MakerRaises, MakerCountedThenRaises, MakerFirstSeen,
                MakerUpdated, Reconciling, StopIsKnown, Idle
  <2>2. task.step = "trade" /\ task'.step \in {"idle", "trade"}
    <3>1. LoopPast(v) \/ task' = Idle
      BY <1>3 DEF MakerUnknown, MakerRaises, MakerCountedThenRaises, MakerFirstSeen,
                  MakerUpdated
    <3> QED  BY <2>1, <3>1, LoopPastStep DEF Reconciling, Idle
  <2>3. CallFits'
    BY <2>2 DEF CallFits
  <2>4. c \in ClientIds \cup {NoClient}
    BY DEF TypeInv, TypeOK
  <2>5. c \in ClientIds => /\ orders[c] \in Snapshots /\ orders[c].matched_size \in Nat
    BY WalType
  <2>6. c \in ClientIds =>
          /\ RecordMatch(orders[c], 1).matched_size = orders[c].matched_size + 1
          /\ RecordMatch(orders[c], 1).status = orders[c].status
    BY <2>5 DEF RecordMatch, Snapshots, LiveOrder
  <2>7. CASE MakerUnknown(v) \/ MakerRaises(v)
    <3>1. UNCHANGED <<orders, trades, wal>>
      BY <2>7 DEF MakerUnknown, MakerRaises, memory
    <3> QED  BY <2>1, <2>3, <3>1, QuietRemembers DEF LogInv
  <2>8. CASE MakerFirstSeen(v)
    <3>1. /\ c # NoClient /\ Recorded(c) = "none"
          /\ StoreTrade(c, RecordMatch(orders[c], 1))
      BY <2>8 DEF MakerFirstSeen
    <3> HIDE DEF c
    <3>2. NotBehind' /\ Remembers
      BY <2>1, <2>2, <2>4, <2>5, <2>6, <3>1, TradeRemembers DEF LogInv
    <3> QED  BY <2>3, <3>2 DEF LogInv
  <2>9. CASE MakerUpdated(v)
    <3>1. /\ c # NoClient /\ TradeMayMove(Recorded(c), task.event.status)
          /\ StoreTrade(c, orders[c])
      BY <2>9 DEF MakerUpdated
    <3>2. Recorded(c) \in {"confirmed", "failed"} => task.event.status = Recorded(c)
      BY <3>1 DEF TradeMayMove, TradeTransitions
    <3> HIDE DEF c
    <3>3. NotBehind' /\ Remembers
      BY <2>1, <2>2, <2>4, <2>5, <3>1, <3>2, TradeRemembers DEF LogInv
    <3> QED  BY <2>3, <3>3 DEF LogInv
  <2>10. CASE MakerCountedThenRaises(v)
    <3>1. /\ c # NoClient /\ UNCHANGED <<trades, wal>>
          /\ orders' = [orders EXCEPT ![c] = RecordMatch(@, 1)]
      BY <2>10 DEF MakerCountedThenRaises
    <3>2. Remembers
      BY <3>1, WalType DEF Remembers
    <3>3. ASSUME NEW d \in ClientIds
          PROVE  Ahead(d)'
      <4>1. Ahead(d)
        BY <2>1 DEF LogInv, NotBehind
      <4>2. CASE d = c
        <5>1. orders'[d] = RecordMatch(orders[c], 1)
          BY <3>1, <4>2, WalType
        <5> QED  BY <2>6, <3>1, <4>1, <4>2, <5>1, WalType DEF Ahead
      <4>3. CASE d # c
        BY <3>1, <4>1, <4>3, WalType DEF Ahead
      <4> QED  BY <4>2, <4>3
    <3> QED  BY <2>1, <2>3, <3>1, <3>2, <3>3 DEF LogInv, NotBehind
  <2> QED  BY <1>3, <2>7, <2>8, <2>9, <2>10
<1>4. ASSUME NEW c \in ClientIds,
             ResolveAbsent(c) \/ \E v \in VenueIds : ResolveFound(c, v)
      PROVE  LogInv' /\ Remembers
  <2>1. orders[c] \in Snapshots /\ orders[c].matched_size \in Nat
    BY WalType
  <2>2. /\ Ready /\ orders[c].status = "unknown"
        /\ \E order : /\ Resolve(c, order)
                      /\ order.matched_size = orders[c].matched_size
    <3>1. CASE ResolveAbsent(c)
      <4>1. Moved(orders[c], "rejected").matched_size = orders[c].matched_size
        BY <2>1 DEF Moved, Snapshots, LiveOrder
      <4> QED  BY <3>1, <4>1 DEF ResolveAbsent
    <3>2. ASSUME NEW v \in VenueIds, ResolveFound(c, v)
          PROVE  /\ Ready /\ orders[c].status = "unknown"
                 /\ \E order : /\ Resolve(c, order)
                               /\ order.matched_size = orders[c].matched_size
      <4>1. [orders[c] EXCEPT !.status = "live", !.venue_order_id = v].matched_size
              = orders[c].matched_size
        BY <2>1 DEF Snapshots, LiveOrder
      <4> QED  BY <3>2, <4>1, Zenon DEF ResolveFound
    <3> QED  BY <1>4, <3>1, <3>2
  <2>3. PICK order : Resolve(c, order) /\ order.matched_size = orders[c].matched_size
    BY <2>2
  <2>4. StoreAndLog(c, order) /\ UNCHANGED <<up, task, trades>>
    BY <2>3 DEF Resolve, Releases
  <2>5. up /\ task = Idle /\ orders[c].status \notin Final
    BY <2>2 DEF Ready, Final
  <2>6. NotBehind' /\ Remembers
    BY <2>1, <2>3, <2>4, <2>5, StoreRemembers DEF LogInv
  <2> QED  BY <2>4, <2>5, <2>6 DEF LogInv, CallFits, Idle
<1> QED  BY <1>1, <1>2, <1>3, <1>4 DEF Reconciliation

LEMMA EnvironmentRemembers ==
    ASSUME TypeInv, StopIsKnown, LogInv, Environment
    PROVE  LogInv' /\ Remembers
<1>1. UNCHANGED <<up, orders, trades, wal>>
  BY DEF Environment, VenueAccepts, VenueRefuses, VenueCancels, VenueKeeps, VenueSweeps,
         VenueSwept, VenueMatches, VenueTradeMoves, RequestLost, EventLost, Tick, memory
<1>2. task'.step = task.step /\ (task.step # "idle" /\ task.step # "stopping"
                                   /\ task.step # "trade" => task'.client = task.client)
  <2>1. ASSUME NEW c, NEW answer, NEW v, AnswerPost(c, answer, v)
        PROVE  task'.step = task.step
                 /\ (task.step # "idle" /\ task.step # "stopping"
                        /\ task.step # "trade" => task'.client = task.client)
    <3>1. CASE Posting(c)
      <4>1. task \in [step : {"posting"}, client : ClientIds,
                      answer : {"none", "accepted", "refused"},
                      venue : VenueIds \cup {NoVenueId}]
        BY <3>1 DEF Posting, TypeInv, TypeOK, Task, Idle
      <4>2. task' = [task EXCEPT !.answer = answer, !.venue = v]
        BY <2>1, <3>1 DEF AnswerPost
      <4> QED  BY <4>1, <4>2
    <3>2. CASE ~Posting(c)
      BY <2>1, <3>2 DEF AnswerPost
    <3> QED  BY <3>1, <3>2
  <2>2. ASSUME NEW v, AnswerCancel(v)
        PROVE  task'.step = task.step
                 /\ (task.step # "idle" /\ task.step # "stopping"
                        /\ task.step # "trade" => task'.client = task.client)
    <3>1. CASE task.step = "canceling" /\ task.venue = v
      <4>1. task \in [step : {"canceling"}, client : ClientIds, venue : VenueIds,
                      answered : BOOLEAN]
        BY <3>1 DEF TypeInv, TypeOK, Task, Idle
      <4>2. task' = [task EXCEPT !.answered = TRUE]
        BY <2>2, <3>1 DEF AnswerCancel
      <4> QED  BY <4>1, <4>2
    <3>2. CASE ~(task.step = "canceling" /\ task.venue = v)
      BY <2>2, <3>2 DEF AnswerCancel
    <3> QED  BY <3>1, <3>2
  <2>3. ASSUME NEW c \in ClientIds, VenueAccepts(c) \/ VenueRefuses(c)
        PROVE  \E answer, v : AnswerPost(c, answer, v)
    BY <2>3 DEF VenueAccepts, VenueRefuses
  <2>4. ASSUME NEW v \in VenueIds, VenueCancels(v) \/ VenueKeeps(v)
        PROVE  AnswerCancel(v)
    BY <2>4 DEF VenueCancels, VenueKeeps
  <2>5. \/ \E c \in ClientIds : VenueAccepts(c) \/ VenueRefuses(c)
        \/ \E v \in VenueIds : VenueCancels(v) \/ VenueKeeps(v)
        \/ task' = task
    BY DEF Environment, VenueSweeps, VenueSwept, VenueMatches, VenueTradeMoves,
           RequestLost, EventLost, Tick
  <2> QED  BY <2>1, <2>2, <2>3, <2>4, <2>5
<1>3. CallFits'
  BY <1>1, <1>2 DEF LogInv, CallFits
<1> QED  BY <1>1, <1>3, QuietRemembers DEF LogInv

LEMMA StepRemembers ==
    ASSUME IInv, LogInv, [Next]_vars
    PROVE  LogInv' /\ [Remembers]_vars
<1>1. TypeInv /\ StopIsKnown
  BY DEF IInv
<1>2. CASE Crash
  <2>1. ~up' /\ task' = Idle /\ wal' = wal
    BY <1>2 DEF Crash
  <2>2. Remembers
    BY <1>1, <2>1, WalType DEF Remembers
  <2> QED  BY <2>1, <2>2 DEF LogInv, CallFits, NotBehind, Idle
<1>3. CASE Restart
  <2>1. /\ task' = task /\ wal' = wal /\ task = Idle
        /\ orders' = wal.orders /\ trades' = wal.trades
    BY <1>1, <1>3 DEF Restart, Load, StopIsKnown
  <2>2. Remembers
    BY <1>1, <2>1, WalType DEF Remembers
  <2>3. \A c \in ClientIds : Ahead(c)'
    BY <1>1, <2>1, WalType DEF Ahead
  <2> QED  BY <2>1, <2>2, <2>3 DEF LogInv, CallFits, NotBehind, Idle
<1>4. CASE UNCHANGED vars
  BY <1>4 DEF LogInv, CallFits, NotBehind, Ahead, vars, memory
<1> QED
  BY <1>1, <1>2, <1>3, <1>4, SubmittingRemembers, CancelingRemembers, StoppingRemembers,
     ReconciliationRemembers, EnvironmentRemembers
  DEF Next

(* The log never takes back a matched size, a final order status or a      *)
(* final trade status, whatever the channel loses and wherever the process *)
(* crashes (_reconcile_order, _reconcile_trade, restore_from_wal).         *)
THEOREM NothingIsTakenBack == Spec => LogNeverForgets
<1>1. Init => LogInv
  BY DEF Init, LogInv, CallFits, NotBehind, Ahead, Fresh, Absent, Idle
<1>2. IInv /\ [Next]_vars => IInv'
  BY StepInv
<1>3. IInv /\ LogInv /\ [Next]_vars => LogInv' /\ [Remembers]_vars
  BY StepRemembers
<1> QED  BY InitInv, <1>1, <1>2, <1>3, PTL DEF Spec, LogNeverForgets, Remembers, Final
-----------------------------------------------------------------------------
(* The heartbeat *)

(* Until a crash a halted service has cancelled everything, or is about    *)
(* to: enforce_heartbeat_timeout may trust a stop that came before it.     *)
StopCancels ==
    Mode # "shadow" /\ crashes = 0 =>
        /\ up
        /\ heartbeatCancelRequested => cancelAllSent
        /\ halted => cancelAllSent \/ task.step = "stopping"

LEMMA StopCancelsStep ==
    ASSUME TypeInv, StopIsKnown, StopCancels, Next, Mode # "shadow", crashes' = 0
    PROVE  StopCancels'
<1> USE DEF memory, wire, venueVars, history
<1>1. CASE Stopping
  <2>1. ASSUME NEW cause, Freeze(cause)
        PROVE  StopCancels'
    BY <2>1 DEF Freeze, StopCancels
  <2>2. CASE StopCancelsOrders
    BY <2>2 DEF StopCancelsOrders, SendCancelAll, StopCancels
  <2>3. CASE RecordHeartbeat
    BY <2>3 DEF RecordHeartbeat, StopCancels
  <2>4. CASE EnforceTimeoutWhenHalted
    BY <2>4 DEF EnforceTimeoutWhenHalted, StopCancels, Ready, Idle
  <2> QED
    BY <1>1, <2>1, <2>2, <2>3, <2>4 DEF Stopping, EmergencyStop, EnforceTimeout
<1>2. CASE Crash
  <2>1. crashes \in Nat /\ crashes' = crashes + 1
    BY <1>2 DEF Crash, TypeInv, TypeOK
  <2> QED  BY <2>1
<1>3. CASE Restart
  BY <1>3 DEF Restart, StopCancels
<1> DEFINE Kept == /\ UNCHANGED <<up, crashes, heartbeatCancelRequested, halted>>
                   /\ cancelAllSent => cancelAllSent'
                   /\ task.step = "stopping" => task' = task
<1>a. ASSUME Kept
      PROVE  StopCancels'
  <2>1. /\ up' = up /\ crashes' = crashes /\ halted' = halted
        /\ heartbeatCancelRequested' = heartbeatCancelRequested
    BY <1>a
  <2>2. cancelAllSent => cancelAllSent'
    BY <1>a
  <2>3. task.step = "stopping" => task'.step = "stopping"
    BY <1>a
  <2> HIDE DEF Kept
  <2> QED  BY <2>1, <2>2, <2>3 DEF StopCancels
<1>4. CASE Submitting
  <2>1. Kept
    BY <1>4
    DEF Submitting, SubmitDecision, SubmitWithheld, SubmitToGateway, SubmitAcknowledged,
        SubmitRejected, SubmitUnknown, Ready, Deciding, Posting, Idle, Blocks
  <2> QED  BY <2>1, <1>a
<1>5. CASE Canceling
  <2>1. UNCHANGED <<up, crashes, heartbeatCancelRequested, halted>>
    BY <1>5
    DEF Canceling, RequestCancel, SendCancel, CancelReturned, CancelUnknown, CancelAll, Blocks
  <2>2. cancelAllSent => cancelAllSent'
    BY <1>5
    DEF Canceling, RequestCancel, SendCancel, CancelReturned, CancelUnknown, CancelAll,
        SendCancelAll, Blocks
  <2>3. task.step = "stopping" => task' = task
    BY <1>5
    DEF Canceling, RequestCancel, SendCancel, CancelReturned, CancelUnknown, CancelAll,
        Ready, Idle, Blocks
  <2> QED  BY <2>1, <2>2, <2>3, <1>a
<1>6. CASE Reconciliation
  <2>1. ASSUME NEW c \in ClientIds,
               ResolveAbsent(c) \/ \E v \in VenueIds : ResolveFound(c, v)
        PROVE  Kept
    <3>1. PICK order : Resolve(c, order)
      BY <2>1, Zenon DEF ResolveFound, ResolveAbsent
    <3> QED  BY <3>1 DEF Resolve, Releases
  <2>2. ASSUME OrderEventIgnored \/ OrderEventRaises \/ OrderEventApplied
                 \/ TradeEventReceived
        PROVE  Kept
    BY <2>2
    DEF OrderEventIgnored, OrderEventRaises, OrderEventApplied, TradeEventReceived,
        Receives, Ready, Idle, Releases
  <2>3. ASSUME NEW v \in VenueIds,
               MakerUnknown(v) \/ MakerRaises(v) \/ MakerCountedThenRaises(v)
        PROVE  Kept
    BY <2>3 DEF MakerUnknown, MakerRaises, MakerCountedThenRaises, Reconciling
  <2>4. ASSUME NEW v \in VenueIds, MakerFirstSeen(v) \/ MakerUpdated(v)
        PROVE  Kept
    BY <2>4 DEF MakerFirstSeen, MakerUpdated, Reconciling
  <2> HIDE DEF Kept
  <2>5. Kept
    BY <1>6, <2>1, <2>2, <2>3, <2>4 DEF Reconciliation
  <2> QED  BY <2>5, <1>a
<1>7. CASE Environment
  <2>1. UNCHANGED <<up, memory, history>>
    BY <1>7
    DEF Environment, VenueAccepts, VenueRefuses, VenueCancels, VenueKeeps, VenueSweeps,
        VenueSwept, VenueMatches, VenueTradeMoves, RequestLost, EventLost, Tick
  <2>2. task.step = "stopping" => task' = task
    BY <1>7
    DEF Environment, VenueAccepts, VenueRefuses, VenueCancels, VenueKeeps, VenueSweeps,
        VenueSwept, VenueMatches, VenueTradeMoves, RequestLost, EventLost, Tick,
        AnswerPost, AnswerCancel, Posting
  <2> QED  BY <2>1, <2>2, <1>a
<1> QED  BY <1>1, <1>2, <1>3, <1>4, <1>5, <1>6, <1>7 DEF Next

(* A timeout handler that reports that it requested cancellation has sent  *)
(* a cancel_all, whatever stop came before it, while no crash intervenes   *)
(* (enforce_heartbeat_timeout, emergency_stop, record_heartbeat).          *)
THEOREM TimeoutHasCancelled == Spec => []HeartbeatFlagMeansCancel
<1>1. Init => StopCancels
  BY DEF Init, StopCancels
<1>2. IInv /\ [Next]_vars => IInv'
  BY StepInv
<1>3. IInv /\ StopCancels /\ [Next]_vars => StopCancels'
  <2> SUFFICES ASSUME IInv, StopCancels, [Next]_vars
               PROVE  StopCancels'
    OBVIOUS
  <2>1. CASE Next /\ Mode # "shadow" /\ crashes' = 0
    BY <2>1, StopCancelsStep DEF IInv
  <2>2. CASE UNCHANGED vars
    BY <2>2 DEF StopCancels, vars, memory, history
  <2>3. CASE ~(Mode # "shadow" /\ crashes' = 0)
    BY <2>3 DEF StopCancels
  <2> QED  BY <2>1, <2>2, <2>3
<1>4. StopCancels => HeartbeatFlagMeansCancel
  BY DEF StopCancels, HeartbeatFlagMeansCancel
<1> QED  BY InitInv, <1>1, <1>2, <1>3, <1>4, PTL DEF Spec
-----------------------------------------------------------------------------
(* The durable record of orders implements OrderPromise.  The service      *)
(* decides on the status in memory and the promise is about the log: they  *)
(* are the same, but for an order whose POST waits for its answer.         *)

StatusKnown ==
    /\ up => \A c \in ClientIds :
               wal.orders[c].status = IF Posting(c) THEN "created" ELSE orders[c].status
    /\ \A c \in ClientIds : wal.orders[c].status # "submitted"
    /\ task.step = "posting" => ~wal.halted

PromiseInv == CallFits /\ StatusKnown

(* The moves of a logged status that change the phase of its order.        *)
Moves(from, to) ==
    \/ from = "absent" /\ to = "created"
    \/ from = "created" /\ to \in {"rejected", "live", "unknown"}
    \/ from \in {"live", "cancel_requested", "not_canceled"} /\ to \in {"unknown", "canceled"}
    \/ from = "unknown" /\ to \in {"live", "rejected", "canceled"}

(* The log takes a status of order c from one to another.                  *)
LogMoves(c) ==
    /\ wal'.halted = wal.halted
    /\ \A d \in ClientIds \ {c} : wal'.orders[d] = wal.orders[d]
    /\ \/ PhaseOf(wal'.orders[c].status) = PhaseOf(wal.orders[c].status)
       \/ /\ Moves(wal.orders[c].status, wal'.orders[c].status)
          /\ wal.orders[c].status = "created" /\ wal'.orders[c].status # "rejected"
               => ~wal.halted

LogKeeps ==
    /\ wal'.orders = wal.orders
    /\ \/ wal'.halted = wal.halted
       \/ wal.halted = FALSE /\ wal'.halted = TRUE

LogStep == LogKeeps \/ \E c \in ClientIds : LogMoves(c)

(* Storing and logging a snapshot is a step of the log when its status may *)
(* follow the logged one.                                                  *)
LEMMA StoreMoves ==
    ASSUME TypeInv, StatusKnown, up, up' = up, NEW c \in ClientIds, NEW order,
           orders' = [orders EXCEPT ![c] = order],
           wal'.orders = [wal.orders EXCEPT ![c] = order], wal'.halted = wal.halted,
           \A d \in ClientIds \ {c} : ~Posting(d),
           task'.step # "posting",
           order.status # "submitted",
           \/ order.status = wal.orders[c].status
           \/ PhaseOf(order.status) = PhaseOf(wal.orders[c].status)
           \/ /\ Moves(wal.orders[c].status, order.status)
              /\ wal.orders[c].status = "created" /\ order.status # "rejected"
                   => ~wal.halted
    PROVE  StatusKnown' /\ LogStep
<1>1. /\ wal'.orders[c] = order /\ orders'[c] = order
      /\ \A d \in ClientIds \ {c} : wal'.orders[d] = wal.orders[d] /\ orders'[d] = orders[d]
  BY WalType
<1>2. StatusKnown'
  BY <1>1 DEF StatusKnown, Posting
<1>3. LogMoves(c)
  BY <1>1 DEF LogMoves
<1> QED  BY <1>2, <1>3 DEF LogStep

(* A record with an order in it leaves the kill switch alone.              *)
LEMMA WithOrderKeepsStop ==
    ASSUME TypeInv, NEW c \in ClientIds, NEW order
    PROVE  WithOrder(wal, c, order).halted = wal.halted
  BY DEF WithOrder, TypeInv, TypeOK, Durable

LEMMA StoreTradeKeeps ==
    ASSUME TypeInv, NEW c \in ClientIds, NEW order, StoreTrade(c, order)
    PROVE  /\ wal'.orders = [wal.orders EXCEPT ![c] = order]
           /\ wal'.clientOrderByVenue = WithOrder(wal, c, order).clientOrderByVenue
           /\ wal'.ambiguousMarkets = WithOrder(wal, c, order).ambiguousMarkets
           /\ wal'.halted = WithOrder(wal, c, order).halted
           /\ wal'.trades = [wal.trades EXCEPT ![<<task.event.id, c>>] = task.event.status]
<1> DEFINE key == <<task.event.id, c>>
           log == WithOrder(wal, c, order)
<1>1. log \in [orders : {[wal.orders EXCEPT ![c] = order]}, trades : {wal.trades},
               clientOrderByVenue : {log.clientOrderByVenue},
               ambiguousMarkets : {log.ambiguousMarkets},
               lastHeartbeat : {wal.lastHeartbeat}, halted : {log.halted}]
  BY DEF WithOrder, TypeInv, TypeOK, Durable
<1>2. wal' = [log EXCEPT !.trades = [log.trades EXCEPT ![key] = task.event.status]]
  BY DEF StoreTrade
<1> HIDE DEF log, key
<1>3. /\ wal'.orders = [wal.orders EXCEPT ![c] = order]
      /\ wal'.clientOrderByVenue = log.clientOrderByVenue
      /\ wal'.ambiguousMarkets = log.ambiguousMarkets /\ wal'.halted = log.halted
      /\ wal'.trades = [wal.trades EXCEPT ![key] = task.event.status]
  BY <1>1, <1>2
<1> QED  BY <1>3 DEF log, key

(* Nothing is written, or the kill switch.                                 *)
LEMMA QuietMoves ==
    ASSUME StatusKnown, up' => up,
           \A c \in ClientIds : orders'[c].status = orders[c].status,
           LogKeeps,
           task'.step = "posting" => wal'.halted = wal.halted,
           \A c \in ClientIds : Posting(c)' <=> Posting(c),
           task'.step = "posting" => task.step = "posting"
    PROVE  StatusKnown' /\ LogStep
<1>1. StatusKnown'
  BY DEF StatusKnown, LogKeeps
<1> QED  BY <1>1 DEF LogStep

LEMMA SubmittingMoves ==
    ASSUME TypeInv, StopIsKnown, PromiseInv, Submitting
    PROVE  StatusKnown' /\ LogStep
<1>1. PICK c \in ClientIds :
        \/ SubmitDecision(c) \/ SubmitWithheld(c)
        \/ SubmitToGateway(c) \/ SubmitAcknowledged(c) \/ SubmitRejected(c)
        \/ SubmitUnknown(c)
  BY DEF Submitting
<1>2. orders[c] \in Snapshots
  BY WalType
<1>3. \A status : Moved(orders[c], status).status = status
  BY <1>2 DEF Moved, Snapshots, LiveOrder
<1>4. ASSUME NEW order, StoreAndLog(c, order)
      PROVE  /\ orders' = [orders EXCEPT ![c] = order]
             /\ wal'.orders = [wal.orders EXCEPT ![c] = order] /\ wal'.halted = wal.halted
  BY <1>4, WithOrderWrites, WithOrderKeepsStop DEF StoreAndLog
<1>5. CASE SubmitDecision(c)
  <2>1. /\ up /\ up' = up /\ task.step = "idle" /\ task'.step = "decided"
        /\ orders[c].status = "absent" /\ StoreAndLog(c, Moved(orders[c], "created"))
    BY <1>5 DEF SubmitDecision, Ready, Idle, Absent
  <2>2. wal.orders[c].status = "absent" /\ \A d \in ClientIds : ~Posting(d)
    BY <2>1 DEF PromiseInv, StatusKnown, Posting
  <2>3. Moves("absent", "created")
    BY DEF Moves
  <2> DEFINE order == Moved(orders[c], "created")
  <2>4. /\ orders' = [orders EXCEPT ![c] = order]
        /\ wal'.orders = [wal.orders EXCEPT ![c] = order] /\ wal'.halted = wal.halted
    BY <2>1, <1>4
  <2>5. order.status = "created"
    BY <1>3
  <2>6. StatusKnown
    BY DEF PromiseInv
  <2>7. Moves(wal.orders[c].status, order.status) /\ wal.orders[c].status # "created"
    BY <2>2, <2>3, <2>5
  <2>8. task'.step # "posting" /\ order.status # "submitted"
    BY <2>1, <2>5
  <2> HIDE DEF order
  <2> QED  BY <2>1, <2>2, <2>4, <2>6, <2>7, <2>8, StoreMoves
<1>6. CASE SubmitWithheld(c)
  <2>1. /\ up /\ up' = up /\ task.step = "decided" /\ task.client = c
        /\ task'.step = "idle"
    BY <1>6 DEF SubmitWithheld, Deciding, StopIsKnown, Idle
  <2>2. PICK order \in {orders[c], Moved(orders[c], "rejected")} : StoreAndLog(c, order)
    BY <1>6 DEF SubmitWithheld
  <2>3. orders[c].status = "created" /\ \A d \in ClientIds : ~Posting(d)
    BY <2>1 DEF PromiseInv, CallFits, Posting
  <2>4. wal.orders[c].status = "created"
    BY <2>1, <2>3 DEF PromiseInv, StatusKnown
  <2>5. order.status \in {"created", "rejected"}
    BY <2>2, <2>3, <1>3
  <2>6. Moves("created", "rejected")
    BY DEF Moves
  <2> QED  BY <2>1, <2>2, <2>3, <2>4, <2>5, <2>6, <1>4, StoreMoves DEF PromiseInv
<1>7. CASE SubmitToGateway(c)
  <2>1. /\ up /\ up' = up /\ task.step = "decided" /\ task.client = c
        /\ task'.step = "posting" /\ task'.client = c
        /\ orders' = [orders EXCEPT ![c] = Moved(@, "submitted")] /\ wal' = wal
        /\ ~halted
    BY <1>7 DEF SubmitToGateway, Deciding, StopIsKnown, Idle, Frozen
  <2>2. orders[c].status = "created" /\ \A d \in ClientIds : ~Posting(d)
    BY <2>1 DEF PromiseInv, CallFits, Posting
  <2>3. wal.orders[c].status = "created" /\ ~wal.halted
    BY <2>1, <2>2 DEF PromiseInv, StatusKnown, StopIsKnown
  <2>4. \A d \in ClientIds : Posting(d)' <=> d = c
    BY <2>1 DEF Posting
  <2>5. \A d \in ClientIds \ {c} : orders'[d] = orders[d]
    BY <2>1, WalType
  <2>6. StatusKnown'
    BY <2>1, <2>2, <2>3, <2>4, <2>5 DEF PromiseInv, StatusKnown
  <2> QED  BY <2>1, <2>6 DEF LogStep, LogKeeps
<1>8. CASE SubmitAcknowledged(c) \/ SubmitRejected(c) \/ SubmitUnknown(c)
  <2>1. /\ up /\ up' = up /\ Posting(c) /\ task'.step = "idle"
    BY <1>8 DEF SubmitAcknowledged, SubmitRejected, SubmitUnknown, Posting, StopIsKnown, Idle, Blocks
  <2>2. PICK order : /\ StoreAndLog(c, order)
                     /\ order.status \in {"live", "rejected", "unknown"}
    <3>1. CASE SubmitAcknowledged(c)
      <4>1. [orders[c] EXCEPT !.status = "live", !.venue_order_id = task.venue].status
              = "live"
        BY <1>2 DEF Snapshots, LiveOrder
      <4> QED  BY <3>1, <4>1 DEF SubmitAcknowledged
    <3>2. CASE SubmitRejected(c) \/ SubmitUnknown(c)
      BY <3>2, <1>3 DEF SubmitRejected, SubmitUnknown, Blocks
    <3> QED  BY <1>8, <3>1, <3>2
  <2>3. wal.orders[c].status = "created" /\ ~wal.halted
    BY <2>1 DEF PromiseInv, StatusKnown, Posting
  <2>4. \A d \in ClientIds \ {c} : ~Posting(d)
    BY <2>1 DEF Posting
  <2>5. Moves("created", order.status)
    BY <2>2 DEF Moves
  <2> QED  BY <2>1, <2>2, <2>3, <2>4, <2>5, <1>4, StoreMoves DEF PromiseInv
<1> QED  BY <1>1, <1>5, <1>6, <1>7, <1>8

LEMMA CancelingMoves ==
    ASSUME TypeInv, StopIsKnown, PromiseInv, Canceling
    PROVE  StatusKnown' /\ LogStep
<1>1. CASE CancelAll
  BY <1>1, QuietMoves DEF CancelAll, memory, PromiseInv, LogKeeps, Posting
<1>2. ASSUME NEW c \in ClientIds, SendCancel(c) \/ CancelReturned(c)
      PROVE  StatusKnown' /\ LogStep
  <2>1. /\ UNCHANGED <<up, orders, wal>>
        /\ task.step \in {"cancel_logged", "canceling"} /\ task'.step \in {"canceling", "idle"}
    BY <1>2 DEF SendCancel, CancelReturned, memory, Idle
  <2> QED  BY <2>1, QuietMoves DEF PromiseInv, LogKeeps, Posting
<1>3. ASSUME NEW c \in ClientIds, RequestCancel(c) \/ CancelUnknown(c)
      PROVE  StatusKnown' /\ LogStep
  <2>1. \A status : Moved(orders[c], status).status = status
    BY WalType DEF Moved, Snapshots, LiveOrder
  <2>2. ASSUME NEW order, StoreAndLog(c, order)
        PROVE  /\ orders' = [orders EXCEPT ![c] = order]
               /\ wal'.orders = [wal.orders EXCEPT ![c] = order]
               /\ wal'.halted = wal.halted
    BY <2>2, WithOrderWrites, WithOrderKeepsStop DEF StoreAndLog
  <2>3. /\ up /\ up' = up /\ task.step \in {"idle", "canceling"}
        /\ task'.step \in {"cancel_logged", "idle"}
    BY <1>3 DEF RequestCancel, CancelUnknown, Ready, Idle, StopIsKnown, Blocks
  <2>4. wal.orders[c].status = orders[c].status /\ \A d \in ClientIds : ~Posting(d)
    BY <2>3 DEF PromiseInv, StatusKnown, Posting
  <2>5. CASE RequestCancel(c)
    <3>1. /\ StoreAndLog(c, Moved(orders[c], "cancel_requested"))
          /\ orders[c].status \in {"live", "not_canceled"}
      BY <2>5 DEF RequestCancel
    <3>2. PhaseOf("cancel_requested") = PhaseOf(orders[c].status)
      BY <3>1 DEF PhaseOf
    <3> DEFINE order == Moved(orders[c], "cancel_requested")
    <3>3. /\ PhaseOf(order.status) = PhaseOf(wal.orders[c].status)
          /\ order.status # "submitted"
      BY <2>1, <2>4, <3>2
    <3> HIDE DEF order
    <3>4. StoreAndLog(c, order)
      BY <3>1 DEF order
    <3>5. /\ orders' = [orders EXCEPT ![c] = order]
          /\ wal'.orders = [wal.orders EXCEPT ![c] = order] /\ wal'.halted = wal.halted
      BY <2>2, <3>4
    <3>6. StatusKnown /\ task'.step # "posting"
      BY <2>3 DEF PromiseInv
    <3> QED  BY <2>3, <2>4, <3>3, <3>5, <3>6, StoreMoves
  <2>6. CASE CancelUnknown(c)
    <3>1. /\ StoreAndLog(c, Moved(orders[c], "unknown"))
          /\ orders[c].status = "cancel_requested"
      BY <2>6 DEF CancelUnknown, PromiseInv, CallFits, Blocks
    <3>2. Moves("cancel_requested", "unknown")
      BY DEF Moves
    <3> DEFINE order == Moved(orders[c], "unknown")
    <3>3. /\ Moves(wal.orders[c].status, order.status)
          /\ wal.orders[c].status # "created" /\ order.status # "submitted"
      BY <2>1, <2>4, <3>1, <3>2
    <3> HIDE DEF order
    <3>4. StoreAndLog(c, order)
      BY <3>1 DEF order
    <3>5. /\ orders' = [orders EXCEPT ![c] = order]
          /\ wal'.orders = [wal.orders EXCEPT ![c] = order] /\ wal'.halted = wal.halted
      BY <2>2, <3>4
    <3>6. StatusKnown /\ task'.step # "posting"
      BY <2>3 DEF PromiseInv
    <3> QED  BY <2>3, <2>4, <3>3, <3>5, <3>6, StoreMoves
  <2> QED  BY <1>3, <2>5, <2>6
<1> QED  BY <1>1, <1>2, <1>3 DEF Canceling

LEMMA StoppingMoves ==
    ASSUME TypeInv, StopIsKnown, PromiseInv, Stopping
    PROVE  StatusKnown' /\ LogStep
<1>1. /\ UNCHANGED <<up, orders>> /\ task.step # "posting" /\ task'.step # "posting"
  BY DEF Stopping, EmergencyStop, EnforceTimeout, Freeze, StopCancelsOrders,
         RecordHeartbeat, EnforceTimeoutWhenHalted, Ready, Idle
<1>2. ASSUME NEW cause, Ready, ~halted, Freeze(cause)
      PROVE  LogKeeps
  <2>1. wal.halted = FALSE
    BY <1>2 DEF Ready, StopIsKnown, TypeInv, TypeOK, Durable
  <2>2. wal'.orders = wal.orders /\ wal'.halted = TRUE
    BY <1>2 DEF Freeze, TypeInv, TypeOK, Durable
  <2> QED  BY <2>1, <2>2 DEF LogKeeps
<1>3. StopCancelsOrders \/ EnforceTimeoutWhenHalted => LogKeeps
  BY DEF StopCancelsOrders, EnforceTimeoutWhenHalted, LogKeeps
<1>4. RecordHeartbeat => LogKeeps
  BY DEF RecordHeartbeat, TypeInv, TypeOK, Durable, LogKeeps
<1>5. LogKeeps
  BY <1>2, <1>3, <1>4 DEF Stopping, EmergencyStop, EnforceTimeout
<1> QED  BY <1>1, <1>5, QuietMoves DEF PromiseInv, Posting

LEMMA ReconciliationMoves ==
    ASSUME TypeInv, StopIsKnown, PromiseInv, Reconciliation
    PROVE  StatusKnown' /\ LogStep
<1>1. CASE OrderEventIgnored \/ OrderEventRaises \/ TradeEventReceived
  <2>1. /\ UNCHANGED <<up, orders, wal>>
        /\ task.step = "idle" /\ task'.step \in {"idle", "trade"}
    BY <1>1 DEF OrderEventIgnored, OrderEventRaises, TradeEventReceived, Receives, Ready,
                Idle, memory
  <2> QED  BY <2>1, QuietMoves DEF PromiseInv, LogKeeps, Posting
<1>a. ASSUME NEW c \in ClientIds, NEW order, StoreAndLog(c, order)
      PROVE  /\ orders' = [orders EXCEPT ![c] = order]
             /\ wal'.orders = [wal.orders EXCEPT ![c] = order]
             /\ wal'.halted = wal.halted
  BY <1>a, WithOrderWrites, WithOrderKeepsStop DEF StoreAndLog
<1>2. CASE OrderEventApplied
  <2> DEFINE event == Head(channel)
             c == ClientOf(event)
             status == StatusAfter(event, orders[c].status)
             order == [orders[c] EXCEPT !.status = status,
                                        !.matched_size = event.size_matched]
  <2>1. /\ Receives("order") /\ c # NoClient
        /\ StoreAndLog(c, order) /\ UNCHANGED <<up, task>>
    BY <1>2 DEF OrderEventApplied, Releases
  <2>2. event \in OrderEvent
    BY <2>1 DEF Receives, OrderEvent, TradeEvent, TypeInv, TypeOK
  <2>3. c \in ClientIds /\ up /\ task.step = "idle"
    BY <2>1, <2>2 DEF ClientOf, OrderEvent, Receives, Ready, Idle, TypeInv, TypeOK
  <2>4. orders[c] \in Snapshots
    BY <2>3, WalType
  <2>5. order.status = status
    BY <2>4 DEF Snapshots, LiveOrder
  <2>6. /\ wal.orders[c].status = orders[c].status /\ orders[c].status # "submitted"
        /\ \A d \in ClientIds : ~Posting(d)
    <3> HIDE DEF c
    <3> QED  BY <2>3 DEF PromiseInv, StatusKnown, Posting
  <2>7. /\ status # "submitted"
        /\ \/ status = orders[c].status
           \/ Moves(orders[c].status, status) /\ orders[c].status # "created"
    <3> HIDE DEF c, event
    <3> QED  BY <2>6 DEF Moves, StatusAfter
  <2> HIDE DEF event, c, status, order
  <2>8. \/ order.status = wal.orders[c].status
        \/ /\ Moves(wal.orders[c].status, order.status)
           /\ wal.orders[c].status = "created" /\ order.status # "rejected" => ~wal.halted
    BY <2>5, <2>6, <2>7
  <2>9. order.status # "submitted" /\ task'.step # "posting" /\ up' = up
    BY <2>1, <2>3, <2>5, <2>7
  <2>10. /\ orders' = [orders EXCEPT ![c] = order]
         /\ wal'.orders = [wal.orders EXCEPT ![c] = order]
         /\ wal'.halted = wal.halted
    BY <1>a, <2>1, <2>3
  <2>11. StatusKnown
    BY DEF PromiseInv
  <2> QED  BY <2>3, <2>6, <2>8, <2>9, <2>10, <2>11, StoreMoves
<1>3. ASSUME NEW v \in VenueIds,
             MakerUnknown(v) \/ MakerRaises(v) \/ MakerCountedThenRaises(v)
                \/ MakerFirstSeen(v) \/ MakerUpdated(v)
      PROVE  StatusKnown' /\ LogStep
  <2> DEFINE c == clientOrderByVenue[v]
  <2>1. Reconciling(v) /\ up /\ up' = up
    BY <1>3 DEF MakerUnknown, MakerRaises, MakerCountedThenRaises, MakerFirstSeen,
                MakerUpdated, Reconciling, StopIsKnown, Idle
  <2>2. task.step = "trade" /\ task'.step \in {"idle", "trade"}
    <3>1. LoopPast(v) \/ task' = Idle
      BY <1>3 DEF MakerUnknown, MakerRaises, MakerCountedThenRaises, MakerFirstSeen,
                  MakerUpdated
    <3> QED  BY <2>1, <3>1, LoopPastStep DEF Reconciling, Idle
  <2>3. \A d \in ClientIds : ~Posting(d)
    BY <2>2 DEF Posting
  <2>4. c \in ClientIds \cup {NoClient}
    BY DEF TypeInv, TypeOK
  <2>5. c \in ClientIds => RecordMatch(orders[c], 1).status = orders[c].status
    BY WalType DEF RecordMatch, Snapshots, LiveOrder
  <2>6. CASE MakerUnknown(v) \/ MakerRaises(v) \/ MakerCountedThenRaises(v)
    <3>1. wal' = wal
      BY <2>6 DEF MakerUnknown, MakerRaises, MakerCountedThenRaises
    <3>2. \/ orders' = orders
          \/ c # NoClient /\ orders' = [orders EXCEPT ![c] = RecordMatch(@, 1)]
      BY <2>6 DEF MakerUnknown, MakerRaises, MakerCountedThenRaises, memory
    <3> HIDE DEF c
    <3>3. \A d \in ClientIds : orders'[d].status = orders[d].status
      BY <2>4, <2>5, <3>2, WalType
    <3> QED  BY <2>1, <2>2, <2>3, <3>1, <3>3, QuietMoves DEF PromiseInv, LogKeeps, Posting
  <2>7. CASE MakerFirstSeen(v) \/ MakerUpdated(v)
    <3>1. c # NoClient /\ \E order \in {orders[c], RecordMatch(orders[c], 1)} :
                              StoreTrade(c, order)
      BY <2>7 DEF MakerFirstSeen, MakerUpdated
    <3> HIDE DEF c
    <3>2. PICK order \in {orders[c], RecordMatch(orders[c], 1)} : StoreTrade(c, order)
      BY <3>1
    <3>3. /\ c \in ClientIds /\ order.status = orders[c].status
          /\ orders' = [orders EXCEPT ![c] = order]
      BY <2>4, <2>5, <3>1, <3>2 DEF StoreTrade
    <3>4. wal'.orders = [wal.orders EXCEPT ![c] = order] /\ wal'.halted = wal.halted
      <4>1. c \in ClientIds /\ StoreTrade(c, order)
        BY <3>2, <3>3
      <4>2. /\ wal'.orders = [wal.orders EXCEPT ![c] = order]
            /\ wal'.halted = WithOrder(wal, c, order).halted
        BY <4>1, StoreTradeKeeps
      <4> QED  BY <4>1, <4>2, WithOrderKeepsStop
    <3>5. wal.orders[c].status = orders[c].status /\ wal.orders[c].status # "submitted"
      BY <2>1, <2>3, <3>3 DEF PromiseInv, StatusKnown
    <3> QED  BY <2>1, <2>2, <2>3, <3>3, <3>4, <3>5, StoreMoves DEF PromiseInv
  <2> QED  BY <1>3, <2>6, <2>7
<1>4. ASSUME NEW c \in ClientIds,
             ResolveAbsent(c) \/ \E v \in VenueIds : ResolveFound(c, v)
      PROVE  StatusKnown' /\ LogStep
  <2>1. orders[c] \in Snapshots
    BY WalType
  <2>2. \E order : /\ Ready /\ orders[c].status = "unknown" /\ Resolve(c, order)
                   /\ order.status \in {"live", "rejected"}
    <3>1. CASE ResolveAbsent(c)
      <4>1. Moved(orders[c], "rejected").status = "rejected"
        BY <2>1 DEF Moved, Snapshots, LiveOrder
      <4> QED  BY <3>1, <4>1 DEF ResolveAbsent
    <3>2. ASSUME NEW v \in VenueIds, ResolveFound(c, v)
          PROVE  \E order : /\ Ready /\ orders[c].status = "unknown" /\ Resolve(c, order)
                            /\ order.status \in {"live", "rejected"}
      <4>1. [orders[c] EXCEPT !.status = "live", !.venue_order_id = v].status = "live"
        BY <2>1 DEF Snapshots, LiveOrder
      <4>2. [orders[c] EXCEPT !.status = "live", !.venue_order_id = v].status
              \in {"live", "rejected"}
        BY <4>1
      <4> QED  BY <3>2, <4>2, Zenon DEF ResolveFound
    <3> QED  BY <1>4, <3>1, <3>2
  <2>3. PICK order : /\ Ready /\ orders[c].status = "unknown" /\ Resolve(c, order)
                     /\ order.status \in {"live", "rejected"}
    BY <2>2
  <2>4. /\ up /\ up' = up /\ task.step = "idle" /\ task'.step = "idle"
        /\ StoreAndLog(c, order)
    BY <2>3 DEF Resolve, Ready, Idle, Releases
  <2>5. wal.orders[c].status = "unknown" /\ \A d \in ClientIds : ~Posting(d)
    BY <2>3, <2>4 DEF PromiseInv, StatusKnown, Posting
  <2>6. /\ Moves(wal.orders[c].status, order.status)
        /\ wal.orders[c].status # "created" /\ order.status # "submitted"
    BY <2>3, <2>5 DEF Moves
  <2>7. /\ orders' = [orders EXCEPT ![c] = order]
        /\ wal'.orders = [wal.orders EXCEPT ![c] = order]
        /\ wal'.halted = wal.halted
    BY <1>a, <2>4
  <2>8. task'.step # "posting" /\ StatusKnown
    BY <2>4 DEF PromiseInv
  <2>9. \A d \in ClientIds \ {c} : ~Posting(d)
    BY <2>5
  <2> QED  BY <2>4, <2>6, <2>7, <2>8, <2>9, StoreMoves
<1> QED  BY <1>1, <1>2, <1>3, <1>4 DEF Reconciliation

LEMMA EnvironmentMoves ==
    ASSUME TypeInv, PromiseInv, Environment
    PROVE  StatusKnown' /\ LogStep
<1>1. UNCHANGED <<up, orders, wal>>
  BY DEF Environment, VenueAccepts, VenueRefuses, VenueCancels, VenueKeeps, VenueSweeps,
         VenueSwept, VenueMatches, VenueTradeMoves, RequestLost, EventLost, Tick, memory
<1>2. /\ task'.step = task.step
      /\ task.step = "posting" => task'.client = task.client
  <2>1. ASSUME NEW c, NEW answer, NEW v, AnswerPost(c, answer, v)
        PROVE  /\ task'.step = task.step
               /\ task.step = "posting" => task'.client = task.client
    <3>1. CASE Posting(c)
      <4>1. task \in [step : {"posting"}, client : ClientIds,
                      answer : {"none", "accepted", "refused"},
                      venue : VenueIds \cup {NoVenueId}]
        BY <3>1 DEF Posting, TypeInv, TypeOK, Task, Idle
      <4>2. task' = [task EXCEPT !.answer = answer, !.venue = v]
        BY <2>1, <3>1 DEF AnswerPost
      <4> QED  BY <4>1, <4>2
    <3>2. CASE ~Posting(c)
      BY <2>1, <3>2 DEF AnswerPost
    <3> QED  BY <3>1, <3>2
  <2>2. ASSUME NEW v, AnswerCancel(v)
        PROVE  /\ task'.step = task.step
               /\ task.step = "posting" => task'.client = task.client
    <3>1. CASE task.step = "canceling" /\ task.venue = v
      <4>1. task \in [step : {"canceling"}, client : ClientIds, venue : VenueIds,
                      answered : BOOLEAN]
        BY <3>1 DEF TypeInv, TypeOK, Task, Idle
      <4>2. task' = [task EXCEPT !.answered = TRUE]
        BY <2>2, <3>1 DEF AnswerCancel
      <4> QED  BY <4>1, <4>2
    <3>2. CASE ~(task.step = "canceling" /\ task.venue = v)
      BY <2>2, <3>2 DEF AnswerCancel
    <3> QED  BY <3>1, <3>2
  <2>3. ASSUME NEW c \in ClientIds, VenueAccepts(c) \/ VenueRefuses(c)
        PROVE  \E answer, v : AnswerPost(c, answer, v)
    BY <2>3 DEF VenueAccepts, VenueRefuses
  <2>4. ASSUME NEW v \in VenueIds, VenueCancels(v) \/ VenueKeeps(v)
        PROVE  AnswerCancel(v)
    BY <2>4 DEF VenueCancels, VenueKeeps
  <2>5. \/ \E c \in ClientIds : VenueAccepts(c) \/ VenueRefuses(c)
        \/ \E v \in VenueIds : VenueCancels(v) \/ VenueKeeps(v)
        \/ task' = task
    BY DEF Environment, VenueSweeps, VenueSwept, VenueMatches, VenueTradeMoves,
           RequestLost, EventLost, Tick
  <2> QED  BY <2>1, <2>2, <2>3, <2>4, <2>5
<1> QED  BY <1>1, <1>2, QuietMoves DEF PromiseInv, LogKeeps, Posting

LEMMA StepMoves ==
    ASSUME IInv, LogInv, StatusKnown, [Next]_vars
    PROVE  StatusKnown' /\ LogStep
<1>1. TypeInv /\ StopIsKnown /\ PromiseInv
  BY DEF IInv, LogInv, PromiseInv
<1>2. CASE Crash
  <2>1. ~up' /\ task'.step = "idle" /\ wal' = wal
    BY <1>2 DEF Crash, Idle
  <2> QED  BY <2>1 DEF StatusKnown, LogStep, LogKeeps
<1>3. CASE Restart
  <2>1. task'.step = "idle" /\ wal' = wal /\ orders' = wal.orders
    BY <1>1, <1>3 DEF Restart, Load, StopIsKnown, Idle
  <2> QED  BY <2>1 DEF StatusKnown, LogStep, LogKeeps, Posting
<1>4. CASE UNCHANGED vars
  BY <1>4 DEF vars, memory, StatusKnown, LogStep, LogKeeps, Posting
<1> QED
  BY <1>1, <1>2, <1>3, <1>4, SubmittingMoves, CancelingMoves, StoppingMoves,
     ReconciliationMoves, EnvironmentMoves
  DEF Next

(* Read through the log, an order moves only as OrderPromise says, over    *)
(* crashes, restarts, lost requests, answers and events, and no decided    *)
(* order reaches the venue after the kill switch (service.py, wal.py).     *)
THEOREM PromiseIsKept == Spec => KeepsPromise
<1> DEFINE phase == [c \in ClientIds |-> PhaseOf(wal.orders[c].status)]
<1>1. Init => Promise!Init
  BY DEF Init, Fresh, Absent, PhaseOf, Promise!Init
<1>2. Init => LogInv /\ StatusKnown
  <2>1. Init => LogInv
    BY DEF Init, LogInv, CallFits, NotBehind, Ahead, Fresh, Absent, Idle
  <2>2. Init => StatusKnown
    BY DEF Init, StatusKnown, Fresh, Absent, Idle, Posting
  <2> QED  BY <2>1, <2>2
<1>3. TypeInv /\ LogStep => [Promise!Next]_<<phase, wal.halted>>
  <2> SUFFICES ASSUME TypeInv, LogStep
               PROVE  Promise!Next \/ UNCHANGED <<phase, wal.halted>>
    OBVIOUS
  <2>1. CASE LogKeeps
    <3>1. phase' = phase
      BY <2>1 DEF LogKeeps
    <3>2. CASE wal'.halted = wal.halted
      BY <3>1, <3>2
    <3>3. CASE wal.halted = FALSE /\ wal'.halted = TRUE
      BY <3>1, <3>3 DEF Promise!Next, Promise!Stop
    <3> QED  BY <2>1, <3>2, <3>3 DEF LogKeeps
  <2>2. ASSUME NEW c \in ClientIds, LogMoves(c)
        PROVE  Promise!Next \/ UNCHANGED <<phase, wal.halted>>
    <3> DEFINE from == wal.orders[c].status
               to == wal'.orders[c].status
    <3>1. phase' = [phase EXCEPT ![c] = PhaseOf(to)] /\ phase[c] = PhaseOf(from)
      BY <2>2 DEF LogMoves
    <3>2. wal'.halted = wal.halted
      BY <2>2 DEF LogMoves
    <3>3. CASE PhaseOf(to) = PhaseOf(from)
      BY <3>1, <3>2, <3>3
    <3>4. CASE Moves(from, to) /\ (from = "created" /\ to # "rejected" => ~wal.halted)
      <4> HIDE DEF from, to, phase
      <4>1. CASE from = "absent" /\ to = "created"
        <5>1. phase[c] = "new" /\ PhaseOf(to) = "decided"
          BY <4>1, <3>1 DEF PhaseOf
        <5>2. Promise!Decide(c)
          BY <3>1, <3>2, <5>1 DEF Promise!Decide, Promise!Move, phase
        <5> QED  BY <5>2 DEF Promise!Next
      <4>2. CASE from = "created" /\ to = "rejected"
        <5>1. phase[c] = "decided" /\ PhaseOf(to) = "refused"
          BY <4>2, <3>1 DEF PhaseOf
        <5>2. Promise!Refuse(c)
          BY <3>1, <3>2, <5>1 DEF Promise!Refuse, Promise!Move, phase
        <5> QED  BY <5>2 DEF Promise!Next
      <4>3. CASE from = "created" /\ to \in {"live", "unknown"}
        <5>1. phase[c] = "decided" /\ PhaseOf(to) \in {"working", "doubtful"}
          BY <4>3, <3>1 DEF PhaseOf
        <5>2. Promise!HandOver(c)
          BY <4>3, <3>1, <3>2, <3>4, <5>1 DEF Promise!HandOver, Promise!Move, phase
        <5> QED  BY <5>2 DEF Promise!Next
      <4>4. CASE from \in {"live", "cancel_requested", "not_canceled"} /\ to = "unknown"
        <5>1. phase[c] = "working" /\ PhaseOf(to) = "doubtful"
          BY <4>4, <3>1 DEF PhaseOf
        <5>2. Promise!Doubt(c)
          BY <3>1, <3>2, <5>1 DEF Promise!Doubt, Promise!Move, phase
        <5> QED  BY <5>2 DEF Promise!Next
      <4>5. CASE from \in {"live", "cancel_requested", "not_canceled"} /\ to = "canceled"
        <5>1. phase[c] = "working" /\ PhaseOf(to) = "closed"
          BY <4>5, <3>1 DEF PhaseOf
        <5>2. Promise!Close(c)
          BY <3>1, <3>2, <5>1 DEF Promise!Close, Promise!Move, phase
        <5> QED  BY <5>2 DEF Promise!Next
      <4>6. CASE from = "unknown" /\ to \in {"live", "rejected", "canceled"}
        <5>1. phase[c] = "doubtful" /\ PhaseOf(to) \in {"working", "refused", "closed"}
          BY <4>6, <3>1 DEF PhaseOf
        <5>2. Promise!Settle(c)
          BY <3>1, <3>2, <5>1 DEF Promise!Settle, Promise!Move, phase
        <5> QED  BY <5>2 DEF Promise!Next
      <4> QED  BY <3>4, <4>1, <4>2, <4>3, <4>4, <4>5, <4>6 DEF Moves
    <3> QED  BY <2>2, <3>3, <3>4 DEF LogMoves
  <2> QED  BY <2>1, <2>2 DEF LogStep
<1>4. IInv /\ [Next]_vars => IInv'
  BY StepInv
<1>5. IInv /\ LogInv /\ [Next]_vars => LogInv'
  BY StepRemembers
<1>6. IInv /\ LogInv /\ StatusKnown /\ [Next]_vars => StatusKnown' /\ LogStep
  BY StepMoves
<1>7. IInv => TypeInv
  BY DEF IInv
<1> QED
  BY InitInv, <1>1, <1>2, <1>3, <1>4, <1>5, <1>6, <1>7, PTL
  DEF Spec, KeepsPromise, Promise!Spec
-----------------------------------------------------------------------------
(* What a crash and a restart leave                                        *)
(*                                                                         *)
(* Memory and log write the index from venue ids to orders at different    *)
(* occasions: they agree because the index never names another order than  *)
(* the venue does.                                                         *)
(*                                                                         *)
(* What is open at the venue is in the log, and what the log has written   *)
(* off is not open, because a client id is handed over once, so that the   *)
(* venue has one order of it at most and none while its request is under   *)
(* way, and because a cancellation is reported of an order that is closed, *)
(* and stays closed.                                                       *)

Known(index) ==
    \A v \in VenueIds : index[v] # NoClient => venueOrders[v].client = index[v]

Indexed(snapshots, index) ==
    \A c \in ClientIds :
        snapshots[c].venue_order_id # NoVenueId => index[snapshots[c].venue_order_id] = c

(* What the service and its log take for the order behind a venue id is    *)
(* what the venue takes for it, and ids not given out name nothing.        *)
IndexFits ==
    /\ Known(clientOrderByVenue) /\ Indexed(orders, clientOrderByVenue)
    /\ Known(wal.clientOrderByVenue) /\ Indexed(wal.orders, wal.clientOrderByVenue)
    /\ task.step = "posting" /\ task.answer = "accepted" =>
         task.venue \in VenueIds /\ venueOrders[task.venue].client = task.client
    /\ \A v \in VenueIds : nextVenueId <= v => venueOrders[v].client = NoClient

RestartInv == IndexFits /\ MemoryIsDurable

LEMMA IndexType ==
    ASSUME TypeInv
    PROVE  /\ clientOrderByVenue \in [VenueIds -> ClientIds \cup {NoClient}]
           /\ wal.clientOrderByVenue \in [VenueIds -> ClientIds \cup {NoClient}]
           /\ \A c \in ClientIds :
                /\ orders[c].venue_order_id \in VenueIds \cup {NoVenueId}
                /\ wal.orders[c].venue_order_id \in VenueIds \cup {NoVenueId}
           /\ NoVenueId \notin VenueIds /\ NoClient \notin ClientIds
           /\ nextVenueId \in Nat /\ \A v \in VenueIds : v \in Nat
  BY WalType, ConstantsAssumption
  DEF TypeInv, TypeOK, Durable, Snapshots, LiveOrder, VenueIds, NoVenueId

(* The order a venue id of ours names is the venue's.                      *)
LEMMA OwnedByVenue ==
    ASSUME TypeInv, NEW snapshots, NEW index, Known(index), Indexed(snapshots, index),
           NEW c \in ClientIds, snapshots[c].venue_order_id \in VenueIds
    PROVE  venueOrders[snapshots[c].venue_order_id].client = c
  BY IndexType DEF Known, Indexed

(* Naming the venue's order keeps an index fitting.                        *)
LEMMA IndexUpdate ==
    ASSUME TypeInv,
           NEW snapshots \in [ClientIds -> Snapshots],
           NEW index \in [VenueIds -> ClientIds \cup {NoClient}],
           Known(index), Indexed(snapshots, index),
           NEW c \in ClientIds, NEW order \in Snapshots,
           order.venue_order_id # NoVenueId
             => venueOrders[order.venue_order_id].client = c,
           NEW index2,
           index2 = IF order.venue_order_id = NoVenueId THEN index
                    ELSE [index EXCEPT ![order.venue_order_id] = c]
    PROVE  /\ Known(index2) /\ Indexed([snapshots EXCEPT ![c] = order], index2)
           /\ index2 \in [VenueIds -> ClientIds \cup {NoClient}]
<1> DEFINE u == order.venue_order_id
<1>1. u \in VenueIds \cup {NoVenueId}
  BY DEF Snapshots, LiveOrder
<1>2. index2 \in [VenueIds -> ClientIds \cup {NoClient}]
  BY <1>1
<1>3. \A v \in VenueIds : index2[v] = IF v = u /\ u # NoVenueId THEN c ELSE index[v]
  BY <1>1, IndexType
<1>4. Known(index2)
  BY <1>3 DEF Known
<1>5. ASSUME NEW d \in ClientIds,
             [snapshots EXCEPT ![c] = order][d].venue_order_id # NoVenueId
      PROVE  index2[[snapshots EXCEPT ![c] = order][d].venue_order_id] = d
  <2>1. CASE d = c
    <3>1. [snapshots EXCEPT ![c] = order][d] = order
      BY <2>1
    <3> QED  BY <1>1, <1>3, <1>5, <2>1, <3>1
  <2>2. CASE d # c
    <3>1. [snapshots EXCEPT ![c] = order][d] = snapshots[d]
      BY <2>2
    <3>2. snapshots[d].venue_order_id \in VenueIds
      BY <1>5, <3>1 DEF Snapshots, LiveOrder
    <3>3. index[snapshots[d].venue_order_id] = d
      BY <1>5, <3>1 DEF Indexed
    <3>4. snapshots[d].venue_order_id # u \/ u = NoVenueId
      BY <2>2, <3>2, OwnedByVenue
    <3> QED  BY <1>3, <3>1, <3>2, <3>3, <3>4
  <2> QED  BY <2>1, <2>2
<1> QED  BY <1>2, <1>4, <1>5 DEF Indexed

LEMMA WithOrderIndexes ==
    ASSUME TypeInv, NEW c \in ClientIds, NEW order
    PROVE  /\ WithOrder(wal, c, order).clientOrderByVenue =
                IF order.venue_order_id = NoVenueId THEN wal.clientOrderByVenue
                ELSE [wal.clientOrderByVenue EXCEPT ![order.venue_order_id] = c]
           /\ WithOrder(wal, c, order).ambiguousMarkets =
                IF order.status = "unknown" THEN wal.ambiguousMarkets \cup {MarketOf[c]}
                ELSE wal.ambiguousMarkets
           /\ WithOrder(wal, c, order).halted = wal.halted
  BY DEF WithOrder, TypeInv, TypeOK, Durable

(* A snapshot stored and logged while no other order is being posted.      *)
LEMMA StoreIsDurable ==
    ASSUME TypeInv, RestartInv, up, up' = up, NEW c \in ClientIds,
           NEW order \in Snapshots, NEW log, log = WithOrder(wal, c, order),
           wal'.orders = log.orders, wal'.clientOrderByVenue = log.clientOrderByVenue,
           wal'.ambiguousMarkets = log.ambiguousMarkets, wal'.halted = log.halted,
           wal'.trades = trades',
           orders' = [orders EXCEPT ![c] = order],
           order.venue_order_id # NoVenueId
             => venueOrders[order.venue_order_id].client = c,
           clientOrderByVenue' =
             IF order.venue_order_id = NoVenueId THEN clientOrderByVenue
             ELSE [clientOrderByVenue EXCEPT ![order.venue_order_id] = c],
           ambiguousMarkets' \subseteq ambiguousMarkets
                \cup (IF order.status = "unknown" THEN {MarketOf[c]} ELSE {}),
           UNCHANGED <<venueOrders, nextVenueId, halted, raised>>,
           \A d \in ClientIds \ {c} : ~Posting(d),
           task'.step # "posting"
    PROVE  RestartInv'
<1> USE DEF RestartInv
<1>1. /\ wal'.orders = [wal.orders EXCEPT ![c] = order]
      /\ wal'.halted = wal.halted
      /\ wal'.clientOrderByVenue =
            IF order.venue_order_id = NoVenueId THEN wal.clientOrderByVenue
            ELSE [wal.clientOrderByVenue EXCEPT ![order.venue_order_id] = c]
      /\ wal'.ambiguousMarkets =
            IF order.status = "unknown" THEN wal.ambiguousMarkets \cup {MarketOf[c]}
            ELSE wal.ambiguousMarkets
  BY WithOrderWrites, WithOrderIndexes
<1>2. Known(clientOrderByVenue') /\ Indexed(orders', clientOrderByVenue')
  BY IndexUpdate, WalType, IndexType DEF IndexFits
<1>3. Known(wal'.clientOrderByVenue) /\ Indexed(wal'.orders, wal'.clientOrderByVenue)
  <2>1. Known(wal.clientOrderByVenue) /\ Indexed(wal.orders, wal.clientOrderByVenue)
    BY DEF IndexFits
  <2>2. /\ wal.orders \in [ClientIds -> Snapshots]
        /\ wal.clientOrderByVenue \in [VenueIds -> ClientIds \cup {NoClient}]
    BY WalType, IndexType
  <2>3. \A index2 :
          index2 = (IF order.venue_order_id = NoVenueId THEN wal.clientOrderByVenue
                    ELSE [wal.clientOrderByVenue EXCEPT ![order.venue_order_id] = c])
            => Known(index2) /\ Indexed([wal.orders EXCEPT ![c] = order], index2)
    BY <2>1, <2>2, IndexUpdate
  <2> QED  BY <1>1, <2>3
<1>4. IndexFits'
  <2>1. \A v \in VenueIds : nextVenueId' <= v => venueOrders'[v].client = NoClient
    BY DEF IndexFits
  <2> QED  BY <1>2, <1>3, <2>1 DEF IndexFits, Known, Indexed
<1>5. ASSUME ~raised', NEW d \in ClientIds
      PROVE  orders'[d] = wal'.orders[d]
  <2>1. CASE d = c
    BY <1>1, <2>1, WalType
  <2>2. CASE d # c
    <3>1. orders[d] = wal.orders[d]
      BY <1>5, <2>2 DEF MemoryIsDurable
    <3> QED  BY <1>1, <2>2, <3>1, WalType
  <2> QED  BY <2>1, <2>2
<1>6. /\ halted' = wal'.halted /\ clientOrderByVenue' = wal'.clientOrderByVenue
      /\ ambiguousMarkets' \subseteq wal'.ambiguousMarkets
  BY <1>1 DEF MemoryIsDurable
<1>7. MemoryIsDurable'
  BY <1>5, <1>6 DEF MemoryIsDurable
<1> QED  BY <1>4, <1>7

(* The same for a snapshot that keeps the order's venue id.                *)
LEMMA KeepsIdDurable ==
    ASSUME TypeInv, RestartInv, up, up' = up, NEW c \in ClientIds,
           NEW order \in Snapshots, NEW log, log = WithOrder(wal, c, order),
           wal'.orders = log.orders, wal'.clientOrderByVenue = log.clientOrderByVenue,
           wal'.ambiguousMarkets = log.ambiguousMarkets, wal'.halted = log.halted,
           wal'.trades = trades',
           orders' = [orders EXCEPT ![c] = order],
           order.venue_order_id = orders[c].venue_order_id,
           clientOrderByVenue' = clientOrderByVenue,
           ambiguousMarkets' \subseteq ambiguousMarkets
                \cup (IF order.status = "unknown" THEN {MarketOf[c]} ELSE {}),
           UNCHANGED <<venueOrders, nextVenueId, halted, raised>>,
           \A d \in ClientIds \ {c} : ~Posting(d),
           task'.step # "posting"
    PROVE  RestartInv'
<1>1. order.venue_order_id # NoVenueId =>
        /\ venueOrders[order.venue_order_id].client = c
        /\ clientOrderByVenue[order.venue_order_id] = c
  BY IndexType, OwnedByVenue DEF RestartInv, IndexFits, Indexed
<1>2. clientOrderByVenue' =
        IF order.venue_order_id = NoVenueId THEN clientOrderByVenue
        ELSE [clientOrderByVenue EXCEPT ![order.venue_order_id] = c]
  BY <1>1, IndexType
<1> QED  BY <1>1, <1>2, StoreIsDurable

(* A step that keeps memory, log and the venue's owners.                   *)
LEMMA QuietIsDurable ==
    ASSUME RestartInv,
           UNCHANGED <<orders, trades, clientOrderByVenue, ambiguousMarkets, halted,
                       nextVenueId>>,
           up' => up,
           wal'.orders = wal.orders, wal'.trades = wal.trades,
           wal'.clientOrderByVenue = wal.clientOrderByVenue,
           wal'.ambiguousMarkets = wal.ambiguousMarkets, wal'.halted = wal.halted,
           \A v \in VenueIds : venueOrders'[v].client = venueOrders[v].client,
           raised => raised',
           task'.step = "posting"
             => /\ task.step = "posting" /\ task'.client = task.client
                /\ task'.answer = "accepted"
                     => task.answer = "accepted" /\ task'.venue = task.venue,
           task.step = "posting" => task'.step = "posting"
    PROVE  RestartInv'
<1>1. IndexFits'
  BY DEF RestartInv, IndexFits, Known, Indexed
<1>2. \A c \in ClientIds : ~Posting(c)' => ~Posting(c)
  BY DEF Posting
<1>3. MemoryIsDurable'
  BY <1>2 DEF RestartInv, MemoryIsDurable
<1> QED  BY <1>1, <1>3 DEF RestartInv

(* One call stores and logs the snapshot of its order and is over or goes  *)
(* on without a POST.                                                      *)
LEMMA StoreAndLogIsDurable ==
    ASSUME TypeInv, RestartInv, up, up' = up, NEW c \in ClientIds,
           NEW order \in Snapshots, StoreAndLog(c, order),
           order.venue_order_id = orders[c].venue_order_id,
           UNCHANGED <<clientOrderByVenue, trades, venueOrders, nextVenueId, halted, raised>>,
           ambiguousMarkets' \subseteq ambiguousMarkets
                \cup (IF order.status = "unknown" THEN {MarketOf[c]} ELSE {}),
           \A d \in ClientIds \ {c} : ~Posting(d),
           task'.step # "posting"
    PROVE  RestartInv'
<1>1. wal' = WithOrder(wal, c, order) /\ orders' = [orders EXCEPT ![c] = order]
  BY DEF StoreAndLog
<1>2. wal'.trades = trades'
  BY <1>1, WithOrderWrites DEF RestartInv, MemoryIsDurable
<1> QED  BY <1>1, <1>2, KeepsIdDurable

LEMMA SubmittingIsDurable ==
    ASSUME TypeInv, StopIsKnown, RestartInv, Submitting
    PROVE  RestartInv'
<1> USE DEF venueVars, history
<1>1. PICK c \in ClientIds :
        \/ SubmitDecision(c) \/ SubmitWithheld(c)
        \/ SubmitToGateway(c) \/ SubmitAcknowledged(c) \/ SubmitRejected(c)
        \/ SubmitUnknown(c)
  BY DEF Submitting
<1>2. orders[c] \in Snapshots
  BY WalType
<1>3. \A status \in LiveOrderStatus :
        /\ Moved(orders[c], status) \in Snapshots
        /\ Moved(orders[c], status).venue_order_id = orders[c].venue_order_id
        /\ Moved(orders[c], status).status = status
  BY <1>2 DEF Moved, Snapshots, LiveOrder
<1>4. CASE SubmitDecision(c)
  <2>1. /\ up /\ up' = up /\ task.step = "idle" /\ task'.step = "decided"
        /\ StoreAndLog(c, Moved(orders[c], "created"))
        /\ UNCHANGED <<clientOrderByVenue, trades, venueOrders, nextVenueId, halted,
                       raised, ambiguousMarkets>>
    BY <1>4 DEF SubmitDecision, Ready, Idle
  <2>2. "created" \in LiveOrderStatus
    BY DEF LiveOrderStatus
  <2> QED  BY <2>1, <2>2, <1>3, StoreAndLogIsDurable DEF Posting
<1>5. CASE SubmitWithheld(c)
  <2>1. /\ up /\ up' = up /\ task.step = "decided" /\ task'.step = "idle"
        /\ UNCHANGED <<clientOrderByVenue, trades, venueOrders, nextVenueId, halted,
                       raised, ambiguousMarkets>>
    BY <1>5 DEF SubmitWithheld, Deciding, StopIsKnown, Idle
  <2>2. PICK order \in {orders[c], Moved(orders[c], "rejected")} : StoreAndLog(c, order)
    BY <1>5 DEF SubmitWithheld
  <2>3. "rejected" \in LiveOrderStatus
    BY DEF LiveOrderStatus
  <2>4. order \in Snapshots /\ order.venue_order_id = orders[c].venue_order_id
    BY <2>2, <2>3, <1>2, <1>3
  <2> QED  BY <2>1, <2>2, <2>4, StoreAndLogIsDurable DEF Posting
<1>6. CASE SubmitToGateway(c)
  <2>1. /\ up /\ up' = up /\ task.step = "decided"
        /\ task' = [step |-> "posting", client |-> c, answer |-> "none",
                    venue |-> NoVenueId]
        /\ orders' = [orders EXCEPT ![c] = Moved(@, "submitted")]
        /\ UNCHANGED <<clientOrderByVenue, trades, venueOrders, nextVenueId, halted,
                       raised, ambiguousMarkets, wal>>
    BY <1>6 DEF SubmitToGateway, Deciding, StopIsKnown, Idle
  <2>2. "submitted" \in LiveOrderStatus
    BY DEF LiveOrderStatus
  <2>3. \A d \in ClientIds :
          /\ orders'[d].venue_order_id = orders[d].venue_order_id
          /\ d # c => orders'[d] = orders[d]
    BY <2>1, <2>2, <1>3, WalType
  <2>4. IndexFits'
    BY <2>1, <2>3 DEF RestartInv, IndexFits, Known, Indexed
  <2>5. MemoryIsDurable'
    BY <2>1, <2>3 DEF RestartInv, MemoryIsDurable, Posting
  <2> QED  BY <2>4, <2>5 DEF RestartInv
<1>7. CASE SubmitRejected(c)
  <2>1. /\ up /\ up' = up /\ Posting(c) /\ task'.step = "idle"
        /\ StoreAndLog(c, Moved(orders[c], "rejected"))
        /\ UNCHANGED <<clientOrderByVenue, trades, venueOrders, nextVenueId, halted,
                       raised, ambiguousMarkets>>
    BY <1>7 DEF SubmitRejected, Posting, StopIsKnown, Idle
  <2>2. "rejected" \in LiveOrderStatus
    BY DEF LiveOrderStatus
  <2> QED  BY <2>1, <2>2, <1>3, StoreAndLogIsDurable DEF Posting
<1>8. CASE SubmitUnknown(c)
  <2>1. /\ up /\ up' = up /\ Posting(c) /\ task'.step = "idle"
        /\ StoreAndLog(c, Moved(orders[c], "unknown"))
        /\ ambiguousMarkets' = ambiguousMarkets \cup {MarketOf[c]}
        /\ UNCHANGED <<clientOrderByVenue, trades, venueOrders, nextVenueId, halted,
                       raised>>
    BY <1>8 DEF SubmitUnknown, Posting, StopIsKnown, Idle, Blocks
  <2>2. "unknown" \in LiveOrderStatus
    BY DEF LiveOrderStatus
  <2> QED  BY <2>1, <2>2, <1>3, StoreAndLogIsDurable DEF Posting
<1>9. CASE SubmitAcknowledged(c)
  <2> DEFINE order == [orders[c] EXCEPT !.status = "live", !.venue_order_id = task.venue]
  <2>1. /\ up /\ up' = up /\ Posting(c) /\ task.answer = "accepted" /\ task'.step = "idle"
        /\ StoreAndLog(c, order)
        /\ clientOrderByVenue' = [clientOrderByVenue EXCEPT ![task.venue] = c]
        /\ UNCHANGED <<trades, venueOrders, nextVenueId, halted, raised,
                       ambiguousMarkets>>
    BY <1>9 DEF SubmitAcknowledged, Posting, StopIsKnown, Idle
  <2>2. task.venue \in VenueIds /\ venueOrders[task.venue].client = c
    BY <2>1 DEF RestartInv, IndexFits, Posting
  <2>3. order \in Snapshots /\ order.venue_order_id = task.venue
    BY <1>2, <2>2 DEF Snapshots, LiveOrder, LiveOrderStatus
  <2>4. task.venue # NoVenueId
    BY <2>2, IndexType
  <2> HIDE DEF order
  <2>5. wal' = WithOrder(wal, c, order) /\ orders' = [orders EXCEPT ![c] = order]
    BY <2>1 DEF StoreAndLog
  <2>6. wal'.trades = trades'
    BY <2>1, <2>5, WithOrderWrites DEF RestartInv, MemoryIsDurable
  <2> QED  BY <2>1, <2>2, <2>3, <2>4, <2>5, <2>6, StoreIsDurable DEF Posting
<1> QED  BY <1>1, <1>4, <1>5, <1>6, <1>7, <1>8, <1>9

LEMMA CancelingIsDurable ==
    ASSUME TypeInv, StopIsKnown, RestartInv, Canceling
    PROVE  RestartInv'
<1> USE DEF memory, venueVars, history
<1>1. CASE CancelAll
  BY <1>1, QuietIsDurable DEF CancelAll
<1>2. ASSUME NEW c \in ClientIds, SendCancel(c) \/ CancelReturned(c)
      PROVE  RestartInv'
  <2>1. task.step \in {"cancel_logged", "canceling"} /\ task'.step \in {"canceling", "idle"}
    BY <1>2 DEF SendCancel, CancelReturned, Idle
  <2>2. UNCHANGED <<up, memory, wal, venueVars, history>>
    BY <1>2 DEF SendCancel, CancelReturned
  <2> QED  BY <2>1, <2>2, QuietIsDurable
<1>3. ASSUME NEW c \in ClientIds, RequestCancel(c) \/ CancelUnknown(c)
      PROVE  RestartInv'
  <2>1. \A status \in LiveOrderStatus :
          /\ Moved(orders[c], status) \in Snapshots
          /\ Moved(orders[c], status).venue_order_id = orders[c].venue_order_id
          /\ Moved(orders[c], status).status = status
    BY WalType DEF Moved, Snapshots, LiveOrder
  <2>2. "cancel_requested" \in LiveOrderStatus /\ "unknown" \in LiveOrderStatus
    BY DEF LiveOrderStatus
  <2>3. /\ task.step \in {"idle", "canceling"} /\ task'.step \in {"cancel_logged", "idle"}
        /\ up /\ UNCHANGED <<up, clientOrderByVenue, trades, venueOrders, nextVenueId,
                              halted, raised>>
    BY <1>3 DEF RequestCancel, CancelUnknown, Ready, Idle, StopIsKnown, Blocks
  <2>4. CASE RequestCancel(c)
    <3>1. /\ StoreAndLog(c, Moved(orders[c], "cancel_requested"))
          /\ ambiguousMarkets' = ambiguousMarkets
      BY <2>4 DEF RequestCancel
    <3> QED  BY <2>1, <2>2, <2>3, <3>1, StoreAndLogIsDurable DEF Posting
  <2>5. CASE CancelUnknown(c)
    <3>1. /\ StoreAndLog(c, Moved(orders[c], "unknown"))
          /\ ambiguousMarkets' = ambiguousMarkets \cup {MarketOf[c]}
      BY <2>5 DEF CancelUnknown, Blocks
    <3> QED  BY <2>1, <2>2, <2>3, <3>1, StoreAndLogIsDurable DEF Posting
  <2> QED  BY <1>3, <2>4, <2>5
<1> QED  BY <1>1, <1>2, <1>3 DEF Canceling

LEMMA StoppingIsDurable ==
    ASSUME TypeInv, StopIsKnown, RestartInv, Stopping
    PROVE  RestartInv'
<1> USE DEF venueVars, history
<1>1. /\ UNCHANGED <<up, orders, trades, clientOrderByVenue, ambiguousMarkets,
                     venueOrders, nextVenueId, raised>>
      /\ task.step # "posting" /\ task'.step # "posting"
  BY DEF Stopping, EmergencyStop, EnforceTimeout, Freeze, StopCancelsOrders,
         RecordHeartbeat, EnforceTimeoutWhenHalted, Ready, Idle
<1>2. /\ wal'.orders = wal.orders /\ wal'.trades = wal.trades
      /\ wal'.clientOrderByVenue = wal.clientOrderByVenue
      /\ wal'.ambiguousMarkets = wal.ambiguousMarkets
      /\ \/ wal'.halted = wal.halted /\ halted' = halted
         \/ wal'.halted = TRUE /\ halted' = TRUE
  BY DEF Stopping, EmergencyStop, EnforceTimeout, Freeze, StopCancelsOrders,
         RecordHeartbeat, EnforceTimeoutWhenHalted, TypeInv, TypeOK, Durable
<1>3. IndexFits'
  BY <1>1, <1>2 DEF RestartInv, IndexFits, Known, Indexed
<1>4. MemoryIsDurable'
  BY <1>1, <1>2 DEF RestartInv, MemoryIsDurable, Posting
<1> QED  BY <1>3, <1>4 DEF RestartInv

(* The snapshots of a maker order and of its trade are stored together.    *)
LEMMA StoreTradeIsDurable ==
    ASSUME TypeInv, RestartInv, up, up' = up, NEW c \in ClientIds,
           NEW order \in Snapshots, StoreTrade(c, order),
           order.venue_order_id = orders[c].venue_order_id,
           UNCHANGED <<clientOrderByVenue, ambiguousMarkets, venueOrders, nextVenueId,
                       halted, raised>>,
           task.step = "trade", task'.step # "posting"
    PROVE  RestartInv'
<1> DEFINE log == WithOrder(wal, c, order)
<1>1. /\ wal'.orders = log.orders /\ wal'.clientOrderByVenue = log.clientOrderByVenue
      /\ wal'.ambiguousMarkets = log.ambiguousMarkets /\ wal'.halted = log.halted
      /\ wal'.trades = [wal.trades EXCEPT ![<<task.event.id, c>>] = task.event.status]
  <2>1. log.orders = [wal.orders EXCEPT ![c] = order]
    BY WithOrderWrites
  <2> QED  BY <2>1, StoreTradeKeeps
<1>2. /\ orders' = [orders EXCEPT ![c] = order]
      /\ trades' = [trades EXCEPT ![<<task.event.id, c>>] = task.event.status]
  BY DEF StoreTrade
<1>3. wal'.trades = trades'
  BY <1>1, <1>2 DEF RestartInv, MemoryIsDurable
<1>4. \A d \in ClientIds : ~Posting(d)
  BY DEF Posting
<1>5. log = WithOrder(wal, c, order)
  OBVIOUS
<1> HIDE DEF log
<1> QED  BY <1>1, <1>2, <1>3, <1>4, <1>5, KeepsIdDurable

LEMMA ReconciliationIsDurable ==
    ASSUME TypeInv, StopIsKnown, RestartInv, Reconciliation
    PROVE  RestartInv'
<1> USE DEF venueVars, history
<1>1. CASE OrderEventIgnored \/ OrderEventRaises \/ TradeEventReceived
  <2>1. /\ UNCHANGED <<up, memory, wal, venueOrders, nextVenueId>>
        /\ task.step = "idle" /\ task'.step \in {"idle", "trade"}
        /\ raised => raised'
    BY <1>1 DEF OrderEventIgnored, OrderEventRaises, TradeEventReceived, Receives, Ready, Idle
  <2> QED  BY <2>1, QuietIsDurable DEF memory
<1>2. CASE OrderEventApplied
  <2> DEFINE event == Head(channel)
             c == ClientOf(event)
             status == StatusAfter(event, orders[c].status)
             order == [orders[c] EXCEPT !.status = status,
                                        !.matched_size = event.size_matched]
  <2>1. /\ Receives("order") /\ c # NoClient /\ StoreAndLog(c, order)
        /\ ambiguousMarkets' = (IF status = "unknown" THEN ambiguousMarkets
                                ELSE ambiguousMarkets \ {MarketOf[c]})
        /\ UNCHANGED <<up, task, trades, clientOrderByVenue, halted, venueOrders,
                       nextVenueId, raised>>
    BY <1>2 DEF OrderEventApplied, Releases
  <2>2. event \in OrderEvent
    BY <2>1 DEF Receives, OrderEvent, TradeEvent, TypeInv, TypeOK
  <2>3. c \in ClientIds /\ up /\ task.step = "idle" /\ event.size_matched \in Nat
    BY <2>1, <2>2 DEF ClientOf, OrderEvent, Receives, Ready, Idle, TypeInv, TypeOK
  <2>4. orders[c] \in Snapshots
    BY <2>3, WalType
  <2>5. status \in LiveOrderStatus \cup {"absent"}
    BY <2>4 DEF StatusAfter, Snapshots, LiveOrder, LiveOrderStatus
  <2>6. order \in Snapshots /\ order.venue_order_id = orders[c].venue_order_id
    <3> HIDE DEF c, event, status
    <3> QED  BY <2>3, <2>4, <2>5 DEF Snapshots, LiveOrder
  <2> HIDE DEF event, c, status, order
  <2>7. ambiguousMarkets' \subseteq ambiguousMarkets
    BY <2>1
  <2> QED  BY <2>1, <2>3, <2>6, <2>7, StoreAndLogIsDurable DEF Posting
<1>3. ASSUME NEW v \in VenueIds,
             MakerUnknown(v) \/ MakerRaises(v) \/ MakerCountedThenRaises(v)
                \/ MakerFirstSeen(v) \/ MakerUpdated(v)
      PROVE  RestartInv'
  <2> DEFINE c == clientOrderByVenue[v]
  <2>1. Reconciling(v) /\ up /\ up' = up
    BY <1>3 DEF MakerUnknown, MakerRaises, MakerCountedThenRaises, MakerFirstSeen,
                MakerUpdated, Reconciling, StopIsKnown, Idle
  <2>2. task.step = "trade" /\ task'.step \in {"idle", "trade"}
    <3>1. LoopPast(v) \/ task' = Idle
      BY <1>3 DEF MakerUnknown, MakerRaises, MakerCountedThenRaises, MakerFirstSeen,
                  MakerUpdated
    <3> QED  BY <2>1, <3>1, LoopPastStep DEF Reconciling, Idle
  <2>3. c \in ClientIds \cup {NoClient}
    BY DEF TypeInv, TypeOK
  <2>4. c \in ClientIds =>
          /\ orders[c] \in Snapshots /\ RecordMatch(orders[c], 1) \in Snapshots
          /\ RecordMatch(orders[c], 1).venue_order_id = orders[c].venue_order_id
    BY WalType, RecordMatchType DEF RecordMatch, Snapshots, LiveOrder
  <2>5. UNCHANGED <<clientOrderByVenue, ambiguousMarkets, halted, venueOrders, nextVenueId>>
    BY <1>3 DEF MakerUnknown, MakerRaises, MakerCountedThenRaises, MakerFirstSeen,
                MakerUpdated, memory
  <2>6. CASE MakerUnknown(v) \/ MakerRaises(v)
    <3>1. UNCHANGED <<orders, trades, wal>> /\ (raised => raised')
      BY <2>6 DEF MakerUnknown, MakerRaises, memory
    <3> QED  BY <2>1, <2>2, <2>5, <3>1, QuietIsDurable
  <2>7. CASE MakerFirstSeen(v)
    <3>1. c # NoClient /\ StoreTrade(c, RecordMatch(orders[c], 1)) /\ raised' = raised
      BY <2>7 DEF MakerFirstSeen
    <3> HIDE DEF c
    <3> QED  BY <2>1, <2>2, <2>3, <2>4, <2>5, <3>1, StoreTradeIsDurable
  <2>8. CASE MakerUpdated(v)
    <3>1. c # NoClient /\ StoreTrade(c, orders[c]) /\ raised' = raised
      BY <2>8 DEF MakerUpdated
    <3> HIDE DEF c
    <3> QED  BY <2>1, <2>2, <2>3, <2>4, <2>5, <3>1, StoreTradeIsDurable
  <2>9. CASE MakerCountedThenRaises(v)
    <3>1. /\ c # NoClient /\ UNCHANGED <<trades, wal>> /\ raised'
          /\ orders' = [orders EXCEPT ![c] = RecordMatch(@, 1)]
      BY <2>9 DEF MakerCountedThenRaises
    <3> HIDE DEF c
    <3>2. \A d \in ClientIds : orders'[d].venue_order_id = orders[d].venue_order_id
      BY <2>3, <2>4, <3>1, WalType
    <3>3. IndexFits'
      BY <2>2, <2>5, <3>1, <3>2 DEF RestartInv, IndexFits, Known, Indexed
    <3>4. MemoryIsDurable'
      BY <2>1, <2>5, <3>1 DEF RestartInv, MemoryIsDurable
    <3> QED  BY <3>3, <3>4 DEF RestartInv
  <2> QED  BY <1>3, <2>6, <2>7, <2>8, <2>9
<1>4. ASSUME NEW c \in ClientIds, ResolveAbsent(c)
      PROVE  RestartInv'
  <2>1. /\ Moved(orders[c], "rejected") \in Snapshots
        /\ Moved(orders[c], "rejected").venue_order_id = orders[c].venue_order_id
    BY WalType DEF Moved, Snapshots, LiveOrder, LiveOrderStatus
  <2>2. /\ up /\ task.step = "idle" /\ task'.step = "idle"
        /\ StoreAndLog(c, Moved(orders[c], "rejected"))
        /\ ambiguousMarkets' = ambiguousMarkets \ {MarketOf[c]}
        /\ UNCHANGED <<up, clientOrderByVenue, trades, venueOrders, nextVenueId, halted, raised>>
    BY <1>4 DEF ResolveAbsent, Resolve, Ready, Idle, Releases
  <2> QED  BY <2>1, <2>2, StoreAndLogIsDurable DEF Posting
<1>5. ASSUME NEW c \in ClientIds, NEW v \in VenueIds, ResolveFound(c, v)
      PROVE  RestartInv'
  <2> DEFINE order == [orders[c] EXCEPT !.status = "live", !.venue_order_id = v]
  <2>1. orders[c] \in Snapshots /\ v # NoVenueId
    BY WalType, IndexType
  <2>2. order \in Snapshots /\ order.venue_order_id = v
    BY <2>1 DEF Snapshots, LiveOrder, LiveOrderStatus
  <2>3. /\ up /\ task.step = "idle" /\ task'.step = "idle"
        /\ venueOrders[v].client = c
        /\ clientOrderByVenue' = [clientOrderByVenue EXCEPT ![v] = c]
        /\ StoreAndLog(c, order)
        /\ ambiguousMarkets' = ambiguousMarkets \ {MarketOf[c]}
        /\ UNCHANGED <<up, trades, venueOrders, nextVenueId, halted, raised>>
    BY <1>5 DEF ResolveFound, Resolve, Ready, Idle, Releases
  <2> HIDE DEF order
  <2>4. wal' = WithOrder(wal, c, order) /\ orders' = [orders EXCEPT ![c] = order]
    BY <2>3 DEF StoreAndLog
  <2>5. wal'.trades = trades'
    BY <2>3, <2>4, WithOrderWrites DEF RestartInv, MemoryIsDurable
  <2> QED  BY <2>1, <2>2, <2>3, <2>4, <2>5, StoreIsDurable DEF Posting
<1> QED  BY <1>1, <1>2, <1>3, <1>4, <1>5 DEF Reconciliation

(* The venue and the network change no owner, except for the id given out. *)
LEMMA EnvironmentIsDurable ==
    ASSUME TypeInv, RestartInv, Environment
    PROVE  RestartInv'
<1> USE DEF venueVars, history
<1>1. UNCHANGED <<up, memory, wal, raised>>
  BY DEF Environment, VenueAccepts, VenueRefuses, VenueCancels, VenueKeeps, VenueSweeps,
         VenueSwept, VenueMatches, VenueTradeMoves, RequestLost, EventLost, Tick
<1>2. venueOrders \in [VenueIds -> [client : ClientIds \cup {NoClient},
                                   open : BOOLEAN, matched : Nat]]
  BY DEF TypeInv, TypeOK
<1> DEFINE SameOwners == \A v \in VenueIds : venueOrders'[v].client = venueOrders[v].client
           SamePost == /\ task'.step = task.step
                       /\ task.step = "posting" => task' = task
<1>3. ASSUME UNCHANGED nextVenueId, SameOwners, SamePost
      PROVE  RestartInv'
  BY <1>1, <1>3, QuietIsDurable DEF memory
<1>4. ASSUME NEW c, NEW answer, NEW v, AnswerPost(c, answer, v), Posting(c)
      PROVE  /\ task'.step = "posting" /\ task'.client = task.client
             /\ task'.answer = answer /\ task'.venue = v
  <2>1. task \in [step : {"posting"}, client : ClientIds,
                  answer : {"none", "accepted", "refused"},
                  venue : VenueIds \cup {NoVenueId}]
    BY <1>4 DEF Posting, TypeInv, TypeOK, Task, Idle
  <2>2. task' = [task EXCEPT !.answer = answer, !.venue = v]
    BY <1>4 DEF AnswerPost
  <2> QED  BY <2>1, <2>2
<1>5. ASSUME NEW v, AnswerCancel(v)
      PROVE  SamePost
  <2>1. CASE task.step = "canceling" /\ task.venue = v
    <3>1. task \in [step : {"canceling"}, client : ClientIds, venue : VenueIds,
                    answered : BOOLEAN]
      BY <2>1 DEF TypeInv, TypeOK, Task, Idle
    <3>2. task' = [task EXCEPT !.answered = TRUE]
      BY <1>5, <2>1 DEF AnswerCancel
    <3> QED  BY <2>1, <3>1, <3>2
  <2>2. CASE ~(task.step = "canceling" /\ task.venue = v)
    BY <1>5, <2>2 DEF AnswerCancel
  <2> QED  BY <2>1, <2>2
<1>6. ASSUME NEW v, Close(v)
      PROVE  SameOwners
  <2>1. venueOrders' = [venueOrders EXCEPT ![v].open = FALSE]
    BY <1>6 DEF Close
  <2> QED  BY <2>1, <1>2
<1>7. ASSUME NEW c \in ClientIds, VenueAccepts(c)
      PROVE  RestartInv'
  <2> DEFINE new == nextVenueId
  <2>1. /\ new \in VenueIds /\ nextVenueId' = nextVenueId + 1
        /\ venueOrders' = [venueOrders EXCEPT
              ![new] = [client |-> c, open |-> TRUE, matched |-> 0]]
        /\ AnswerPost(c, "accepted", new)
    BY <1>7 DEF VenueAccepts
  <2>2. venueOrders[new].client = NoClient /\ new \in Nat
    BY <2>1, IndexType DEF RestartInv, IndexFits
  <2>3. \A v \in VenueIds : venueOrders'[v].client =
          IF v = new THEN c ELSE venueOrders[v].client
    BY <2>1, <1>2
  <2>4. Known(clientOrderByVenue)' /\ Known(wal.clientOrderByVenue)'
    BY <1>1, <2>2, <2>3 DEF RestartInv, IndexFits, Known, memory
  <2>5. Indexed(orders, clientOrderByVenue)' /\ Indexed(wal.orders, wal.clientOrderByVenue)'
    BY <1>1 DEF RestartInv, IndexFits, Indexed, memory
  <2>6. \A v \in VenueIds : nextVenueId' <= v => venueOrders'[v].client = NoClient
    BY <2>1, <2>2, <2>3, IndexType DEF RestartInv, IndexFits
  <2>7. /\ task'.step = task.step
        /\ task.step = "posting" => task'.client = task.client
        /\ task'.step = "posting" /\ task'.answer = "accepted" =>
             task'.venue \in VenueIds /\ venueOrders'[task'.venue].client = task'.client
    <3>1. CASE Posting(c)
      BY <2>1, <2>3, <3>1, <1>4 DEF Posting
    <3>2. CASE ~Posting(c)
      <4>1. task' = task
        BY <2>1, <3>2 DEF AnswerPost
      <4>2. CASE task.step = "posting" /\ task.answer = "accepted"
        <5>1. /\ task.venue \in VenueIds /\ venueOrders[task.venue].client = task.client
              /\ task.client \in ClientIds
          BY <4>2 DEF RestartInv, IndexFits, TypeInv, TypeOK, Task, Idle
        <5>2. task.venue # new
          BY <2>2, <5>1, IndexType
        <5> QED  BY <2>3, <4>1, <5>1, <5>2
      <4> QED  BY <4>1, <4>2
    <3> QED  BY <3>1, <3>2
  <2>8. IndexFits'
    BY <2>4, <2>5, <2>6, <2>7 DEF IndexFits
  <2>9. MemoryIsDurable'
    <3>1. \A d \in ClientIds : ~Posting(d)' => ~Posting(d)
      BY <2>7 DEF Posting
    <3> QED  BY <1>1, <3>1 DEF RestartInv, MemoryIsDurable, memory
  <2> QED  BY <2>8, <2>9 DEF RestartInv
<1>8. ASSUME NEW c \in ClientIds, VenueRefuses(c)
      PROVE  RestartInv'
  <2>1. UNCHANGED <<venueOrders, nextVenueId>> /\ AnswerPost(c, "refused", NoVenueId)
    BY <1>8 DEF VenueRefuses
  <2>2. CASE Posting(c)
    BY <1>1, <1>4, <2>1, <2>2, QuietIsDurable DEF Posting, memory
  <2>3. CASE ~Posting(c)
    BY <1>3, <2>1, <2>3 DEF AnswerPost
  <2> QED  BY <2>2, <2>3
<1>9. ASSUME NEW v \in VenueIds, VenueCancels(v) \/ VenueKeeps(v) \/ VenueSweeps(v)
      PROVE  RestartInv'
  <2>1. SamePost
    BY <1>5, <1>9 DEF VenueCancels, VenueKeeps, VenueSweeps
  <2>2. SameOwners
    <3>1. Close(v) \/ venueOrders' = venueOrders
      BY <1>9 DEF VenueCancels, VenueKeeps, VenueSweeps
    <3> QED  BY <3>1, <1>6
  <2>3. UNCHANGED nextVenueId
    BY <1>9 DEF VenueCancels, VenueKeeps, VenueSweeps
  <2> HIDE DEF SamePost, SameOwners
  <2> QED  BY <2>1, <2>2, <2>3, <1>3
<1>10. ASSUME NEW t \in TradeIds, NEW makers \in SUBSET VenueIds, VenueMatches(t, makers)
       PROVE  RestartInv'
  <2>1. venueOrders' = [v \in VenueIds |->
          IF v \notin makers THEN venueOrders[v]
          ELSE [venueOrders[v] EXCEPT
                  !.matched = @ + 1,
                  !.open = venueOrders[v].matched + 1 < SizeOf[venueOrders[v].client]]]
    BY <1>10, Zenon DEF VenueMatches
  <2>2. UNCHANGED <<task, nextVenueId>>
    BY <1>10, Zenon DEF VenueMatches
  <2>3. SameOwners
    BY <2>1, <1>2
  <2> QED  BY <2>2, <2>3, <1>3
<1>11. CASE VenueSwept \/ RequestLost \/ EventLost \/ Tick
             \/ \E t \in TradeIds : \E status \in LiveTradeStatus : VenueTradeMoves(t, status)
  <2>1. UNCHANGED <<task, venueOrders, nextVenueId>>
    BY <1>11 DEF VenueSwept, RequestLost, EventLost, Tick, VenueTradeMoves
  <2> QED  BY <2>1, <1>3
<1> QED  BY <1>7, <1>8, <1>9, <1>10, <1>11 DEF Environment

LEMMA StepIsDurable ==
    ASSUME IInv, RestartInv, Mode # "paper", [Next]_vars
    PROVE  RestartInv'
<1>1. TypeInv /\ StopIsKnown
  BY DEF IInv
<1>2. CASE Crash
  <2>1. /\ ~up' /\ task'.step = "idle" /\ UNCHANGED <<wal, venueOrders, nextVenueId>>
        /\ orders' = Fresh.orders /\ clientOrderByVenue' = Fresh.clientOrderByVenue
    BY <1>2 DEF Crash, Load, Idle
  <2>2. Known(clientOrderByVenue)' /\ Indexed(orders, clientOrderByVenue)'
    BY <2>1 DEF Known, Indexed, Fresh, Absent
  <2>3. IndexFits'
    BY <2>1, <2>2 DEF RestartInv, IndexFits, Known, Indexed
  <2> QED  BY <2>1, <2>3 DEF RestartInv, MemoryIsDurable
<1>3. CASE Restart
  <2>1. /\ task.step = "idle" /\ UNCHANGED <<task, wal, venueOrders, nextVenueId>>
        /\ orders' = wal.orders /\ clientOrderByVenue' = wal.clientOrderByVenue
        /\ trades' = wal.trades /\ ambiguousMarkets' = wal.ambiguousMarkets
        /\ halted' = wal.halted
    BY <1>1, <1>3 DEF Restart, Load, StopIsKnown, Idle, venueVars
  <2>2. IndexFits'
    BY <2>1 DEF RestartInv, IndexFits, Known, Indexed
  <2>3. MemoryIsDurable'
    BY <2>1 DEF MemoryIsDurable
  <2> QED  BY <2>2, <2>3 DEF RestartInv
<1>4. CASE UNCHANGED vars
  BY <1>4, QuietIsDurable DEF vars, memory, venueVars, history
<1> QED
  BY <1>1, <1>2, <1>3, <1>4, SubmittingIsDurable, CancelingIsDurable, StoppingIsDurable,
     ReconciliationIsDurable, EnvironmentIsDurable
  DEF Next

LEMMA InitRestart == Init => RestartInv
<1> SUFFICES ASSUME Init
             PROVE  RestartInv
  OBVIOUS
<1>1. /\ task.step = "idle" /\ wal = Fresh
      /\ orders = Fresh.orders /\ trades = Fresh.trades
      /\ clientOrderByVenue = Fresh.clientOrderByVenue
      /\ ambiguousMarkets = Fresh.ambiguousMarkets /\ halted = Fresh.halted
  BY DEF Init, Idle, Fresh
<1>2. /\ \A v \in VenueIds : Fresh.clientOrderByVenue[v] = NoClient
      /\ \A c \in ClientIds : Fresh.orders[c].venue_order_id = NoVenueId
  BY DEF Fresh, Absent
<1>3. \A v \in VenueIds : venueOrders[v].client = NoClient
  BY DEF Init, NoOrder
<1>4. IndexFits
  BY <1>1, <1>2, <1>3 DEF IndexFits, Known, Indexed
<1> QED  BY <1>1, <1>4 DEF RestartInv, MemoryIsDurable

(* What the process holds is what a restart would rebuild, over crashes    *)
(* and restarts, lost requests, answers and events (service.py, wal.py).   *)
(* Paper mode is left out: its venue numbers orders from 1 again.          *)
THEOREM RestartRebuildsMemory == ASSUME Mode # "paper" PROVE Spec => []MemoryIsDurable
<1>1. Init => RestartInv
  BY InitRestart
<1>2. IInv /\ [Next]_vars => IInv'
  BY StepInv
<1>3. IInv /\ RestartInv /\ [Next]_vars => RestartInv'
  BY StepIsDurable
<1>4. RestartInv => MemoryIsDurable
  BY DEF RestartInv
<1> QED  BY InitInv, <1>1, <1>2, <1>3, <1>4, PTL DEF Spec
-----------------------------------------------------------------------------
(* Doubt and the block of a market *)

(* Doubt blocks the market, but where the answer about another order has   *)
(* lifted the block; doubt in the log blocks the market of the log, so that*)
(* restoring restores both.                                                *)
BlockInv ==
    /\ \A c \in ClientIds :
         orders[c].status = "unknown" => MarketOf[c] \in ambiguousMarkets \/ c \in lifted
    /\ \A c \in ClientIds :
         wal.orders[c].status = "unknown" => MarketOf[c] \in wal.ambiguousMarkets

(* An order keeps its block, or gets into the history of the lifted ones.  *)
KeepsBlocks(c) ==
    \A d \in ClientIds \ {c} :
        /\ d \in lifted => d \in lifted'
        /\ orders[d].status = "unknown" /\ MarketOf[d] \in ambiguousMarkets =>
              MarketOf[d] \in ambiguousMarkets' \/ d \in lifted'

LEMMA StoreBlocks ==
    ASSUME TypeInv, BlockInv, NEW c \in ClientIds, NEW order,
           orders' = [orders EXCEPT ![c] = order],
           wal'.orders = [wal.orders EXCEPT ![c] = order],
           wal'.ambiguousMarkets = WithOrder(wal, c, order).ambiguousMarkets,
           KeepsBlocks(c),
           order.status = "unknown" =>
               MarketOf[c] \in ambiguousMarkets' \/ c \in lifted'
    PROVE  BlockInv'
<1>1. wal'.ambiguousMarkets =
        IF order.status = "unknown" THEN wal.ambiguousMarkets \cup {MarketOf[c]}
        ELSE wal.ambiguousMarkets
  BY WithOrderIndexes
<1>2. ASSUME NEW d \in ClientIds
      PROVE  /\ orders'[d].status = "unknown" =>
                  MarketOf[d] \in ambiguousMarkets' \/ d \in lifted'
             /\ wal'.orders[d].status = "unknown" => MarketOf[d] \in wal'.ambiguousMarkets
  <2>1. CASE d = c
    <3>1. orders'[d] = order /\ wal'.orders[d] = order
      BY <2>1, WalType
    <3> QED  BY <1>1, <2>1, <3>1
  <2>2. CASE d # c
    <3>1. orders'[d] = orders[d] /\ wal'.orders[d] = wal.orders[d]
      BY <2>2, WalType
    <3> QED  BY <1>1, <2>2, <3>1 DEF BlockInv, KeepsBlocks
  <2> QED  BY <2>1, <2>2
<1> QED  BY <1>2 DEF BlockInv

LEMMA StoreAndLogBlocks ==
    ASSUME TypeInv, BlockInv, NEW c \in ClientIds, NEW order,
           StoreAndLog(c, order),
           KeepsBlocks(c),
           order.status = "unknown" =>
               MarketOf[c] \in ambiguousMarkets' \/ c \in lifted'
    PROVE  BlockInv'
<1>1. /\ orders' = [orders EXCEPT ![c] = order]
      /\ wal'.orders = [wal.orders EXCEPT ![c] = order]
      /\ wal'.ambiguousMarkets = WithOrder(wal, c, order).ambiguousMarkets
  BY WithOrderWrites DEF StoreAndLog
<1> QED  BY <1>1, StoreBlocks

LEMMA QuietBlocks ==
    ASSUME BlockInv, UNCHANGED <<ambiguousMarkets, lifted>>,
           \A c \in ClientIds : orders'[c].status = "unknown" => orders[c].status = "unknown",
           wal'.orders = wal.orders, wal'.ambiguousMarkets = wal.ambiguousMarkets
    PROVE  BlockInv'
  BY DEF BlockInv

LEMMA BlocksKeepsBlocks ==
    ASSUME NEW c \in ClientIds, Blocks(c)
    PROVE  KeepsBlocks(c) /\ MarketOf[c] \in ambiguousMarkets'
  BY DEF Blocks, KeepsBlocks

LEMMA ReleasesKeepsBlocks ==
    ASSUME NEW c \in ClientIds, Releases(c)
    PROVE  KeepsBlocks(c)
  BY DEF Releases, KeepsBlocks

LEMMA SubmittingBlocks ==
    ASSUME TypeInv, BlockInv, Submitting
    PROVE  BlockInv'
<1>1. PICK c \in ClientIds :
        \/ SubmitDecision(c) \/ SubmitWithheld(c)
        \/ SubmitToGateway(c) \/ SubmitAcknowledged(c) \/ SubmitRejected(c)
        \/ SubmitUnknown(c)
  BY DEF Submitting
<1>2. orders[c] \in Snapshots
  BY WalType
<1>3. \A status : Moved(orders[c], status).status = status
  BY <1>2 DEF Moved, Snapshots, LiveOrder
<1>4. CASE SubmitToGateway(c)
  <2>1. /\ UNCHANGED <<ambiguousMarkets, lifted, wal>>
        /\ orders' = [orders EXCEPT ![c] = Moved(@, "submitted")]
    BY <1>4 DEF SubmitToGateway, history
  <2>2. \A d \in ClientIds : orders'[d].status = "unknown" => orders[d].status = "unknown"
    BY <1>3, <2>1, WalType
  <2> QED  BY <2>1, <2>2, QuietBlocks
<1>5. CASE SubmitUnknown(c)
  <2>1. StoreAndLog(c, Moved(orders[c], "unknown")) /\ Blocks(c)
    BY <1>5 DEF SubmitUnknown
  <2> QED  BY <2>1, BlocksKeepsBlocks, StoreAndLogBlocks
<1>6. ASSUME NEW order, StoreAndLog(c, order), UNCHANGED <<ambiguousMarkets, lifted>>,
             order.status = "unknown" => orders[c].status = "unknown"
      PROVE  BlockInv'
  <2>1. order.status = "unknown" => MarketOf[c] \in ambiguousMarkets' \/ c \in lifted'
    BY <1>6 DEF BlockInv
  <2>2. KeepsBlocks(c)
    BY <1>6 DEF KeepsBlocks
  <2> QED  BY <1>6, <2>1, <2>2, StoreAndLogBlocks
<1>7. CASE SubmitDecision(c)
  <2>1. StoreAndLog(c, Moved(orders[c], "created")) /\ UNCHANGED <<ambiguousMarkets, lifted>>
    BY <1>7 DEF SubmitDecision, history
  <2>2. Moved(orders[c], "created").status # "unknown"
    BY <1>3
  <2> QED  BY <2>1, <2>2, <1>6
<1>8. CASE SubmitWithheld(c)
  <2>1. UNCHANGED <<ambiguousMarkets, lifted>>
    BY <1>8 DEF SubmitWithheld, history
  <2>2. PICK order \in {orders[c], Moved(orders[c], "rejected")} : StoreAndLog(c, order)
    BY <1>8 DEF SubmitWithheld
  <2>3. order.status = "unknown" => orders[c].status = "unknown"
    BY <2>2, <1>3
  <2> QED  BY <2>1, <2>2, <2>3, <1>6
<1>9. CASE SubmitRejected(c)
  <2>1. StoreAndLog(c, Moved(orders[c], "rejected")) /\ UNCHANGED <<ambiguousMarkets, lifted>>
    BY <1>9 DEF SubmitRejected, history
  <2>2. Moved(orders[c], "rejected").status # "unknown"
    BY <1>3
  <2> QED  BY <2>1, <2>2, <1>6
<1>10. CASE SubmitAcknowledged(c)
  <2> DEFINE order == [orders[c] EXCEPT !.status = "live", !.venue_order_id = task.venue]
  <2>1. StoreAndLog(c, order) /\ UNCHANGED <<ambiguousMarkets, lifted>>
    BY <1>10 DEF SubmitAcknowledged, history
  <2>2. order.status # "unknown"
    BY <1>2 DEF Snapshots, LiveOrder
  <2> HIDE DEF order
  <2> QED  BY <2>1, <2>2, <1>6
<1> QED  BY <1>1, <1>4, <1>5, <1>7, <1>8, <1>9, <1>10

LEMMA CancelingBlocks ==
    ASSUME TypeInv, BlockInv, Canceling
    PROVE  BlockInv'
<1>1. CASE CancelAll \/ \E c \in ClientIds : SendCancel(c) \/ CancelReturned(c)
  <2>1. UNCHANGED <<orders, ambiguousMarkets, lifted, wal>>
    BY <1>1 DEF CancelAll, SendCancel, CancelReturned, memory, history
  <2> QED  BY <2>1, QuietBlocks
<1>2. ASSUME NEW c \in ClientIds, RequestCancel(c)
      PROVE  BlockInv'
  <2>1. /\ StoreAndLog(c, Moved(orders[c], "cancel_requested"))
        /\ UNCHANGED <<ambiguousMarkets, lifted>>
    BY <1>2 DEF RequestCancel, history
  <2>2. Moved(orders[c], "cancel_requested").status # "unknown"
    BY WalType DEF Moved, Snapshots, LiveOrder
  <2>3. KeepsBlocks(c)
    BY <2>1 DEF KeepsBlocks
  <2> QED  BY <2>1, <2>2, <2>3, StoreAndLogBlocks
<1>3. ASSUME NEW c \in ClientIds, CancelUnknown(c)
      PROVE  BlockInv'
  <2>1. StoreAndLog(c, Moved(orders[c], "unknown")) /\ Blocks(c)
    BY <1>3 DEF CancelUnknown
  <2> QED  BY <2>1, BlocksKeepsBlocks, StoreAndLogBlocks
<1> QED  BY <1>1, <1>2, <1>3 DEF Canceling

LEMMA ReconciliationBlocks ==
    ASSUME TypeInv, BlockInv, Reconciliation
    PROVE  BlockInv'
<1>1. CASE OrderEventIgnored \/ OrderEventRaises \/ TradeEventReceived
  <2>1. UNCHANGED <<orders, ambiguousMarkets, lifted, wal>>
    BY <1>1 DEF OrderEventIgnored, OrderEventRaises, TradeEventReceived, memory, history
  <2> QED  BY <2>1, QuietBlocks
<1>2. CASE OrderEventApplied
  <2> DEFINE event == Head(channel)
             c == ClientOf(event)
             status == StatusAfter(event, orders[c].status)
             order == [orders[c] EXCEPT !.status = status,
                                        !.matched_size = event.size_matched]
  <2>1. /\ Receives("order") /\ c # NoClient /\ StoreAndLog(c, order)
        /\ IF status = "unknown" THEN UNCHANGED <<ambiguousMarkets, lifted>>
           ELSE Releases(c)
    BY <1>2 DEF OrderEventApplied
  <2>2. event \in OrderEvent
    BY <2>1 DEF Receives, OrderEvent, TradeEvent, TypeInv, TypeOK
  <2>3. c \in ClientIds
    BY <2>1, <2>2 DEF ClientOf, OrderEvent, TypeInv, TypeOK
  <2>4. orders[c] \in Snapshots
    BY <2>3, WalType
  <2>5. order.status = status
    BY <2>4 DEF Snapshots, LiveOrder
  <2>6. status = "unknown" => orders[c].status = "unknown"
    <3> HIDE DEF c, event
    <3> QED  BY DEF StatusAfter
  <2> HIDE DEF event, c, status, order
  <2>7. order.status = "unknown" => MarketOf[c] \in ambiguousMarkets' \/ c \in lifted'
    BY <2>1, <2>3, <2>5, <2>6 DEF BlockInv
  <2>8. KeepsBlocks(c)
    <3>1. CASE status = "unknown"
      BY <2>1, <3>1 DEF KeepsBlocks
    <3>2. CASE status # "unknown"
      BY <2>1, <2>3, <3>2, ReleasesKeepsBlocks
    <3> QED  BY <3>1, <3>2
  <2> QED  BY <2>1, <2>3, <2>7, <2>8, StoreAndLogBlocks
<1>3. ASSUME NEW v \in VenueIds,
             MakerUnknown(v) \/ MakerRaises(v) \/ MakerCountedThenRaises(v)
                \/ MakerFirstSeen(v) \/ MakerUpdated(v)
      PROVE  BlockInv'
  <2> DEFINE c == clientOrderByVenue[v]
  <2>1. c \in ClientIds \cup {NoClient}
    BY DEF TypeInv, TypeOK
  <2>2. c \in ClientIds => RecordMatch(orders[c], 1).status = orders[c].status
    BY WalType DEF RecordMatch, Snapshots, LiveOrder
  <2>3. UNCHANGED <<ambiguousMarkets, lifted>>
    BY <1>3 DEF MakerUnknown, MakerRaises, MakerCountedThenRaises, MakerFirstSeen,
                MakerUpdated, memory, history
  <2>4. CASE MakerUnknown(v) \/ MakerRaises(v) \/ MakerCountedThenRaises(v)
    <3>1. wal' = wal
      BY <2>4 DEF MakerUnknown, MakerRaises, MakerCountedThenRaises
    <3>2. \/ orders' = orders
          \/ c # NoClient /\ orders' = [orders EXCEPT ![c] = RecordMatch(@, 1)]
      BY <2>4 DEF MakerUnknown, MakerRaises, MakerCountedThenRaises, memory
    <3> HIDE DEF c
    <3>3. \A d \in ClientIds : orders'[d].status = orders[d].status
      BY <2>1, <2>2, <3>2, WalType
    <3> QED  BY <2>3, <3>1, <3>3, QuietBlocks
  <2>5. CASE MakerFirstSeen(v) \/ MakerUpdated(v)
    <3>1. c # NoClient /\ \E order \in {orders[c], RecordMatch(orders[c], 1)} :
                              StoreTrade(c, order)
      BY <2>5 DEF MakerFirstSeen, MakerUpdated
    <3> HIDE DEF c
    <3>2. PICK order \in {orders[c], RecordMatch(orders[c], 1)} : StoreTrade(c, order)
      BY <3>1
    <3>3. /\ c \in ClientIds /\ order.status = orders[c].status
          /\ orders' = [orders EXCEPT ![c] = order]
      BY <2>1, <2>2, <3>1, <3>2 DEF StoreTrade
    <3>4. /\ wal'.orders = [wal.orders EXCEPT ![c] = order]
          /\ wal'.ambiguousMarkets = WithOrder(wal, c, order).ambiguousMarkets
      BY <3>2, <3>3, StoreTradeKeeps
    <3>5. order.status = "unknown" => MarketOf[c] \in ambiguousMarkets' \/ c \in lifted'
      BY <2>3, <3>3 DEF BlockInv
    <3>6. KeepsBlocks(c)
      BY <2>3 DEF KeepsBlocks
    <3> QED  BY <3>3, <3>4, <3>5, <3>6, StoreBlocks
  <2> QED  BY <1>3, <2>4, <2>5
<1>4. ASSUME NEW c \in ClientIds,
             ResolveAbsent(c) \/ \E v \in VenueIds : ResolveFound(c, v)
      PROVE  BlockInv'
  <2>1. orders[c] \in Snapshots
    BY WalType
  <2>2. \E order : Resolve(c, order) /\ order.status # "unknown"
    <3>1. CASE ResolveAbsent(c)
      <4>1. Moved(orders[c], "rejected").status # "unknown"
        BY <2>1 DEF Moved, Snapshots, LiveOrder
      <4> QED  BY <3>1, <4>1 DEF ResolveAbsent
    <3>2. ASSUME NEW v \in VenueIds, ResolveFound(c, v)
          PROVE  \E order : Resolve(c, order) /\ order.status # "unknown"
      <4>1. [orders[c] EXCEPT !.status = "live", !.venue_order_id = v].status # "unknown"
        BY <2>1 DEF Snapshots, LiveOrder
      <4> QED  BY <3>2, <4>1, Zenon DEF ResolveFound
    <3> QED  BY <1>4, <3>1, <3>2
  <2>3. PICK order : Resolve(c, order) /\ order.status # "unknown"
    BY <2>2
  <2>4. StoreAndLog(c, order) /\ KeepsBlocks(c)
    BY <2>3, ReleasesKeepsBlocks DEF Resolve
  <2> QED  BY <2>3, <2>4, StoreAndLogBlocks
<1> QED  BY <1>1, <1>2, <1>3, <1>4 DEF Reconciliation

LEMMA StepBlocks ==
    ASSUME TypeInv, BlockInv, [Next]_vars
    PROVE  BlockInv'
<1>1. CASE Stopping
  <2>1. UNCHANGED <<orders, ambiguousMarkets, lifted>>
    BY <1>1 DEF Stopping, EmergencyStop, EnforceTimeout, Freeze, StopCancelsOrders,
                RecordHeartbeat, EnforceTimeoutWhenHalted, history
  <2>2. wal'.orders = wal.orders /\ wal'.ambiguousMarkets = wal.ambiguousMarkets
    BY <1>1 DEF Stopping, EmergencyStop, EnforceTimeout, Freeze, StopCancelsOrders,
                RecordHeartbeat, EnforceTimeoutWhenHalted, TypeInv, TypeOK, Durable
  <2> QED  BY <2>1, <2>2, QuietBlocks
<1>2. CASE Environment
  <2>1. UNCHANGED <<memory, wal, lifted>>
    BY <1>2 DEF Environment, VenueAccepts, VenueRefuses, VenueCancels, VenueKeeps,
                VenueSweeps, VenueSwept, VenueMatches, VenueTradeMoves, RequestLost,
                EventLost, Tick, history
  <2> QED  BY <2>1, QuietBlocks DEF memory
<1>3. CASE Crash
  <2>1. orders' = Fresh.orders /\ wal' = wal
    BY <1>3 DEF Crash, Load
  <2>2. \A c \in ClientIds : orders'[c].status = "absent"
    BY <2>1 DEF Fresh, Absent
  <2> QED  BY <2>1, <2>2 DEF BlockInv
<1>4. CASE Restart
  <2>1. orders' = wal.orders /\ ambiguousMarkets' = wal.ambiguousMarkets /\ wal' = wal
    BY <1>4 DEF Restart, Load
  <2> QED  BY <2>1 DEF BlockInv
<1>5. CASE UNCHANGED vars
  BY <1>5, QuietBlocks DEF vars, memory, history
<1> QED
  BY <1>1, <1>2, <1>3, <1>4, <1>5, SubmittingBlocks, CancelingBlocks, ReconciliationBlocks
  DEF Next

(* Only submit hands an order to the gateway, and not while the market of  *)
(* the order is blocked.                                                   *)
LEMMA FrozenHandsNothing ==
    ASSUME TypeInv, [Next]_vars, NEW c \in posts' \ posts
    PROVE  MarketOf[c] \notin ambiguousMarkets
<1>1. CASE Submitting
  <2>1. PICK d \in ClientIds :
          \/ SubmitDecision(d) \/ SubmitWithheld(d)
          \/ SubmitToGateway(d) \/ SubmitAcknowledged(d) \/ SubmitRejected(d)
          \/ SubmitUnknown(d)
    BY <1>1 DEF Submitting
  <2>2. SubmitToGateway(d) /\ c = d
    BY <2>1 DEF SubmitDecision, SubmitWithheld, SubmitToGateway, SubmitAcknowledged,
                SubmitRejected, SubmitUnknown, wire
  <2> QED  BY <2>2 DEF SubmitToGateway, Frozen
<1>2. CASE Canceling
  BY <1>2 DEF Canceling, CancelAll, RequestCancel, SendCancel, CancelReturned,
              CancelUnknown, wire
<1>3. CASE Reconciliation
  BY <1>3 DEF Reconciliation, OrderEventIgnored, OrderEventRaises, OrderEventApplied,
              TradeEventReceived, MakerUnknown, MakerRaises, MakerCountedThenRaises,
              MakerFirstSeen, MakerUpdated, StoreTrade, ResolveFound, ResolveAbsent,
              Resolve, wire
<1>4. CASE Stopping
  BY <1>4 DEF Stopping, EmergencyStop, EnforceTimeout, Freeze, StopCancelsOrders,
              RecordHeartbeat, EnforceTimeoutWhenHalted, wire
<1>5. CASE Environment
  BY <1>5 DEF Environment, VenueAccepts, VenueRefuses, VenueCancels, VenueKeeps,
              VenueSweeps, VenueSwept, VenueMatches, VenueTradeMoves, RequestLost,
              EventLost, Tick, wire
<1>6. CASE Crash \/ Restart \/ UNCHANGED vars
  BY <1>6 DEF Crash, Restart, vars, wire
<1> QED  BY <1>1, <1>2, <1>3, <1>4, <1>5, <1>6 DEF Next

DoubtStops ==
    \A c \in posts' \ posts, d \in ClientIds :
        MarketOf[c] = MarketOf[d] /\ orders[d].status = "unknown" => d \in lifted

(* An order in doubt, by its POST or its cancellation, keeps every order   *)
(* of its market from the gateway, over crashes and restarts, until it is  *)
(* settled or an answer about another order of the market has lifted the   *)
(* block (submit, _reconcile_order, resolve_submission_unknown,            *)
(* restore_from_wal).                                                      *)
THEOREM DoubtStopsItsMarket == Spec => DoubtStopsMarketUnlessLifted
<1>1. Init => BlockInv
  BY DEF Init, BlockInv, Fresh, Absent
<1>2. IInv /\ [Next]_vars => IInv'
  BY StepInv
<1>3. IInv /\ BlockInv /\ [Next]_vars => BlockInv'
  BY StepBlocks DEF IInv
<1>4. IInv /\ BlockInv /\ [Next]_vars => DoubtStops
  BY FrozenHandsNothing DEF IInv, BlockInv, DoubtStops
<1>5. Spec => [][DoubtStops]_vars
  BY InitInv, <1>1, <1>2, <1>3, <1>4, PTL DEF Spec
<1> QED  BY <1>5 DEF DoubtStops, DoubtStopsMarketUnlessLifted
-----------------------------------------------------------------------------
(* The venue has never heard of the order and will not.                    *)
Nothing(c) == c \notin posts /\ \A v \in VenueIds : venueOrders[v].client # c

(* Nothing of the order is working.                                        *)
Gone(c) ==
    c \notin posts /\ \A v \in VenueIds : venueOrders[v].client = c => ~venueOrders[v].open

(* What is open at the venue of the order is open under this venue id.     *)
OpenUnder(c, id) ==
    /\ c \notin posts
    /\ \A v \in VenueIds : venueOrders[v].client = c /\ venueOrders[v].open => id = v

(* Memory and log name an order alike.                                     *)
SameIds ==
    up => \A c \in ClientIds : orders[c].venue_order_id = wal.orders[c].venue_order_id

(* An order is handed over once.                                           *)
NewIsUntouched ==
    \A c \in ClientIds : wal.orders[c].status = "absent" \/ Deciding(c) => Nothing(c)

PostsAreNew == \A c \in posts : \A v \in VenueIds : venueOrders[v].client # c

OneOrderEach ==
    \A v, w \in VenueIds :
        venueOrders[v].client \in ClientIds /\ venueOrders[v].client = venueOrders[w].client
            => v = w

(* The answer of a POST comes when the request is no longer under way.     *)
AnswerFits ==
    task.step = "posting" =>
        /\ task.answer # "none" => task.client \notin posts
        /\ task.answer = "refused" => Nothing(task.client)

(* A cancellation is reported when it has happened.                        *)
CancelIsTold ==
    \A i \in 1 .. Len(channel) :
        channel[i].event_type = "order" /\ channel[i].type = "CANCELLATION"
            => /\ ~venueOrders[channel[i].id].open
               /\ venueOrders[channel[i].id].client # NoClient

OpenIsOurs == \A v \in VenueIds : venueOrders[v].open => venueOrders[v].client # NoClient

(* OpenOrdersKnown in any mode, order by order.                            *)
Tracked(c) ==
    \/ Posting(c) \/ c \in inFlightAtCrash
    \/ wal.orders[c].status = "unknown"
    \/ OpenUnder(c, wal.orders[c].venue_order_id)

WrittenOff(c) == wal.orders[c].status \in {"rejected", "canceled"} => Gone(c)

VenueInv ==
    /\ SameIds /\ NewIsUntouched /\ PostsAreNew /\ OneOrderEach
    /\ AnswerFits /\ CancelIsTold /\ OpenIsOurs
    /\ \A c \in ClientIds : Tracked(c) /\ WrittenOff(c)

LEMMA VenueType ==
    ASSUME TypeInv
    PROVE  /\ venueOrders \in [VenueIds -> VenueOrder]
           /\ channel \in Seq(OrderEvent \cup TradeEvent)
           /\ posts \subseteq ClientIds
  BY DEF TypeInv, TypeOK, VenueOrder

(* A step that hands nothing over and writes neither a status nor an id.   *)
LEMMA QuietTracks ==
    ASSUME VenueInv,
           \A c \in ClientIds :
              /\ wal'.orders[c].status = wal.orders[c].status
              /\ wal'.orders[c].venue_order_id = wal.orders[c].venue_order_id
              /\ Deciding(c)' => Deciding(c)
              /\ Posting(c) => Posting(c)' \/ c \in inFlightAtCrash',
           inFlightAtCrash \subseteq inFlightAtCrash',
           posts' \subseteq posts,
           \A v \in VenueIds :
              /\ venueOrders'[v].client = venueOrders[v].client
              /\ venueOrders'[v].open => venueOrders[v].open,
           SameIds', AnswerFits', CancelIsTold'
    PROVE  VenueInv'
<1>1. NewIsUntouched' /\ PostsAreNew' /\ OneOrderEach' /\ OpenIsOurs'
  BY DEF VenueInv, NewIsUntouched, Nothing, PostsAreNew, OneOrderEach, OpenIsOurs
<1>2. ASSUME NEW c \in ClientIds PROVE Tracked(c)' /\ WrittenOff(c)'
  <2>1. Tracked(c) /\ WrittenOff(c)
    BY DEF VenueInv
  <2>2. WrittenOff(c)'
    BY <2>1 DEF WrittenOff, Gone
  <2>3. OpenUnder(c, wal.orders[c].venue_order_id)
          => OpenUnder(c, wal.orders[c].venue_order_id)'
    BY DEF OpenUnder
  <2> QED BY <2>1, <2>2, <2>3 DEF Tracked
<1> QED BY <1>1, <1>2 DEF VenueInv

(* Storing and logging a snapshot of one order.                            *)
LEMMA StoreTracks ==
    ASSUME TypeInv, VenueInv, NEW c \in ClientIds, NEW order,
           orders' = [orders EXCEPT ![c] = order],
           wal'.orders = [wal.orders EXCEPT ![c] = order], up' = up, up,
           UNCHANGED <<posts, venueOrders, inFlightAtCrash>>,
           CancelIsTold', task'.step # "posting",
           \A d \in ClientIds \ {c} : ~Posting(d) /\ ~Deciding(d)',
           Deciding(c)' => Nothing(c),
           order.status = "absent" => wal.orders[c].status = "absent",
           order.status \in {"rejected", "canceled"} => Gone(c),
           \/ order.status = "unknown"
           \/ c \in inFlightAtCrash
           \/ OpenUnder(c, order.venue_order_id)
    PROVE  VenueInv'
<1>1. /\ wal'.orders[c] = order /\ orders'[c] = order
      /\ \A d \in ClientIds \ {c} : wal'.orders[d] = wal.orders[d] /\ orders'[d] = orders[d]
  BY WalType
<1>2. SameIds' /\ AnswerFits' /\ PostsAreNew' /\ OneOrderEach' /\ OpenIsOurs'
  BY <1>1 DEF VenueInv, SameIds, AnswerFits, PostsAreNew, OneOrderEach, OpenIsOurs
<1>3. NewIsUntouched'
  BY <1>1 DEF VenueInv, NewIsUntouched, Nothing
<1>4. ASSUME NEW d \in ClientIds PROVE Tracked(d)' /\ WrittenOff(d)'
  <2>1. Tracked(d) /\ WrittenOff(d)
    BY DEF VenueInv
  <2>2. CASE d = c
    BY <1>1, <2>2 DEF Tracked, WrittenOff, Gone, OpenUnder
  <2>3. CASE d # c
    BY <1>1, <2>1, <2>3 DEF Tracked, WrittenOff, Gone, OpenUnder
  <2> QED BY <2>2, <2>3
<1> QED BY <1>2, <1>3, <1>4 DEF VenueInv

LEMMA SubmittingTracks ==
    ASSUME TypeInv, StopIsKnown, CallFits, StatusKnown, RestartInv, VenueInv, Submitting
    PROVE  VenueInv'
<1> USE DEF venueVars, history
<1>1. PICK c \in ClientIds :
        \/ SubmitDecision(c) \/ SubmitWithheld(c)
        \/ SubmitToGateway(c) \/ SubmitAcknowledged(c) \/ SubmitRejected(c)
        \/ SubmitUnknown(c)
  BY DEF Submitting
<1>2. orders[c] \in Snapshots
  BY WalType
<1>3. \A status \in LiveOrderStatus :
        /\ Moved(orders[c], status) \in Snapshots
        /\ Moved(orders[c], status).venue_order_id = orders[c].venue_order_id
        /\ Moved(orders[c], status).status = status
  BY <1>2 DEF Moved, Snapshots, LiveOrder
<1>4. {"created", "rejected", "submitted", "unknown"} \subseteq LiveOrderStatus
  BY DEF LiveOrderStatus
<1>5. /\ up' = up /\ UNCHANGED <<venueOrders, channel, inFlightAtCrash>>
  BY <1>1 DEF SubmitDecision, SubmitWithheld, SubmitToGateway, SubmitAcknowledged,
              SubmitRejected, SubmitUnknown, Blocks
<1>6. CancelIsTold'
  BY <1>5 DEF VenueInv, CancelIsTold
<1>7. ASSUME NEW order, StoreAndLog(c, order)
      PROVE  /\ orders' = [orders EXCEPT ![c] = order]
             /\ wal'.orders = [wal.orders EXCEPT ![c] = order]
  BY <1>7, WithOrderWrites DEF StoreAndLog
<1>8. Nothing(c) => Gone(c) /\ \A id : OpenUnder(c, id)
  BY DEF Nothing, Gone, OpenUnder
<1>9. CASE SubmitDecision(c)
  <2>1. /\ up /\ task.step = "idle" /\ orders[c] = Absent /\ UNCHANGED posts
        /\ StoreAndLog(c, Moved(orders[c], "created"))
        /\ task' = [step |-> "decided", client |-> c]
    BY <1>9 DEF SubmitDecision, Ready, Idle, wire
  <2>2. wal.orders[c].status = "absent"
    BY <2>1 DEF StatusKnown, Posting, Absent
  <2>3. Nothing(c)
    BY <2>2 DEF VenueInv, NewIsUntouched
  <2>4. task'.step # "posting" /\ \A d \in ClientIds \ {c} : ~Posting(d) /\ ~Deciding(d)'
    BY <2>1 DEF Posting, Deciding
  <2> DEFINE order == Moved(orders[c], "created")
  <2>5. order.status = "created" /\ StoreAndLog(c, order)
    BY <1>3, <1>4, <2>1
  <2> HIDE DEF order
  <2> QED  BY <1>5, <1>6, <1>7, <1>8, <2>1, <2>3, <2>4, <2>5, StoreTracks
<1>10. CASE SubmitWithheld(c)
  <2>1. /\ up /\ task = [step |-> "decided", client |-> c] /\ UNCHANGED posts
        /\ task' = Idle
    BY <1>10 DEF SubmitWithheld, Deciding, StopIsKnown, Idle, wire
  <2>2. Nothing(c) /\ orders[c].status = "created"
    BY <2>1 DEF VenueInv, NewIsUntouched, Deciding, CallFits
  <2>3. PICK order \in {orders[c], Moved(orders[c], "rejected")} : StoreAndLog(c, order)
    BY <1>10 DEF SubmitWithheld
  <2>4. order.status \in {"created", "rejected"}
    BY <2>2, <2>3, <1>3, <1>4
  <2>5. /\ task'.step # "posting"
        /\ \A d \in ClientIds : ~Posting(d) /\ ~Deciding(d)'
    BY <2>1 DEF Posting, Deciding, Idle
  <2> QED  BY <1>5, <1>6, <1>7, <1>8, <2>1, <2>2, <2>3, <2>4, <2>5, StoreTracks
<1>11. ASSUME Posting(c), task' = Idle, UNCHANGED posts, NEW order, StoreAndLog(c, order),
              order.status # "absent",
              order.status \in {"rejected", "canceled"} => Gone(c),
              order.status = "unknown" \/ OpenUnder(c, order.venue_order_id)
       PROVE  VenueInv'
  <2>1. up /\ task'.step # "posting"
    BY <1>11 DEF Posting, StopIsKnown, Idle
  <2>2. \A d \in ClientIds : ~Deciding(d)' /\ (d # c => ~Posting(d))
    BY <1>11 DEF Posting, Deciding, Idle
  <2> QED  BY <1>5, <1>6, <1>7, <1>11, <2>1, <2>2, StoreTracks
<1>12. CASE SubmitRejected(c)
  <2>1. /\ Posting(c) /\ task.answer = "refused" /\ task' = Idle /\ UNCHANGED posts
        /\ StoreAndLog(c, Moved(orders[c], "rejected"))
    BY <1>12 DEF SubmitRejected, wire
  <2>2. Nothing(c)
    BY <2>1 DEF VenueInv, AnswerFits, Posting
  <2> DEFINE order == Moved(orders[c], "rejected")
  <2>3. order.status = "rejected" /\ StoreAndLog(c, order)
    BY <1>3, <1>4, <2>1
  <2> HIDE DEF order
  <2> QED  BY <1>8, <1>11, <2>1, <2>2, <2>3
<1>13. CASE SubmitUnknown(c)
  <2>1. /\ Posting(c) /\ task' = Idle /\ UNCHANGED posts
        /\ StoreAndLog(c, Moved(orders[c], "unknown"))
    BY <1>13 DEF SubmitUnknown, wire, Blocks
  <2> DEFINE order == Moved(orders[c], "unknown")
  <2>2. order.status = "unknown" /\ StoreAndLog(c, order)
    BY <1>3, <1>4, <2>1
  <2> HIDE DEF order
  <2> QED  BY <1>11, <2>1, <2>2
<1>14. CASE SubmitAcknowledged(c)
  <2> DEFINE order == [orders[c] EXCEPT !.status = "live", !.venue_order_id = task.venue]
  <2>1. /\ Posting(c) /\ task.answer = "accepted" /\ task' = Idle /\ UNCHANGED posts
        /\ StoreAndLog(c, order)
    BY <1>14 DEF SubmitAcknowledged, wire
  <2>2. /\ task.venue \in VenueIds /\ venueOrders[task.venue].client = c
        /\ c \notin posts
    BY <2>1 DEF RestartInv, IndexFits, Posting, VenueInv, AnswerFits
  <2>3. OpenUnder(c, task.venue)
    BY <2>2 DEF OpenUnder, VenueInv, OneOrderEach
  <2>4. order.status = "live" /\ order.venue_order_id = task.venue
    BY <1>2 DEF Snapshots, LiveOrder
  <2> HIDE DEF order
  <2> QED  BY <1>11, <2>1, <2>3, <2>4
<1>15. CASE SubmitToGateway(c)
  <2>1. /\ up /\ task = [step |-> "decided", client |-> c] /\ posts' = posts \cup {c}
        /\ orders' = [orders EXCEPT ![c] = Moved(orders[c], "submitted")]
        /\ task' = [step |-> "posting", client |-> c, answer |-> "none",
                    venue |-> NoVenueId]
        /\ wal' = wal
    BY <1>15 DEF SubmitToGateway, Deciding, StopIsKnown, Idle
  <2>2. Nothing(c) /\ wal.orders[c].status = "created"
    BY <2>1 DEF VenueInv, NewIsUntouched, Deciding, CallFits, StatusKnown, Posting
  <2>3. SameIds'
    <3>1. \A d \in ClientIds : orders'[d].venue_order_id = orders[d].venue_order_id
      BY <1>3, <1>4, <2>1, WalType
    <3> QED  BY <2>1, <3>1 DEF VenueInv, SameIds
  <2>4. NewIsUntouched'
    BY <1>5, <2>1, <2>2 DEF VenueInv, NewIsUntouched, Nothing, Deciding
  <2>5. PostsAreNew' /\ OneOrderEach' /\ AnswerFits' /\ OpenIsOurs'
    BY <1>5, <2>1, <2>2
    DEF VenueInv, PostsAreNew, OneOrderEach, AnswerFits, OpenIsOurs, Nothing
  <2>6. ASSUME NEW d \in ClientIds PROVE Tracked(d)' /\ WrittenOff(d)'
    <3>1. CASE d = c
      BY <2>1, <2>2, <3>1 DEF Tracked, WrittenOff, Posting
    <3>2. CASE d # c
      <4>1. ~Posting(d) /\ (d \in posts' <=> d \in posts)
        BY <2>1, <3>2 DEF Posting
      <4> QED  BY <1>5, <2>1, <4>1 DEF VenueInv, Tracked, WrittenOff, OpenUnder, Gone
    <3> QED  BY <3>1, <3>2
  <2> QED  BY <1>6, <2>3, <2>4, <2>5, <2>6 DEF VenueInv
<1> QED  BY <1>1, <1>9, <1>10, <1>12, <1>13, <1>14, <1>15

LEMMA CancelingTracks ==
    ASSUME TypeInv, StopIsKnown, StatusKnown, VenueInv, Canceling \/ Stopping
    PROVE  VenueInv'
<1> USE DEF venueVars, history
<1>1. UNCHANGED <<posts, venueOrders, channel, inFlightAtCrash, up>>
  BY DEF Canceling, Stopping, RequestCancel, SendCancel, CancelReturned, CancelUnknown,
         CancelAll, EmergencyStop, StopCancelsOrders, RecordHeartbeat, EnforceTimeout,
         EnforceTimeoutWhenHalted, Freeze, wire, Blocks
<1>2. CancelIsTold'
  BY <1>1 DEF VenueInv, CancelIsTold
<1>3. ASSUME NEW c \in ClientIds, RequestCancel(c) \/ CancelUnknown(c)
      PROVE  VenueInv'
  <2>1. PICK status \in {"cancel_requested", "unknown"} :
            /\ StoreAndLog(c, Moved(orders[c], status))
            /\ status = "cancel_requested" =>
                 orders[c].status \in {"live", "not_canceled"}
    BY <1>3 DEF RequestCancel, CancelUnknown, Blocks
  <2>2. /\ up /\ task.step \in {"idle", "canceling"}
        /\ task'.step \in {"idle", "cancel_logged"}
    BY <1>3 DEF RequestCancel, CancelUnknown, Ready, Idle, StopIsKnown, Blocks
  <2>3. \A d \in ClientIds : ~Posting(d) /\ ~Deciding(d)'
    BY <2>2 DEF Posting, Deciding
  <2> DEFINE order == Moved(orders[c], status)
  <2>4. order.status = status /\ order.venue_order_id = orders[c].venue_order_id
    BY WalType DEF Moved, Snapshots, LiveOrder
  <2>5. /\ orders' = [orders EXCEPT ![c] = order]
        /\ wal'.orders = [wal.orders EXCEPT ![c] = order]
    BY <2>1, WithOrderWrites DEF StoreAndLog
  <2> HIDE DEF order
  <2>6. \/ status = "unknown" \/ c \in inFlightAtCrash
        \/ OpenUnder(c, order.venue_order_id)
    <3>1. CASE status = "cancel_requested"
      <4>1. wal.orders[c].status = orders[c].status /\ wal.orders[c].status # "unknown"
        BY <2>1, <2>2, <2>3, <3>1 DEF StatusKnown
      <4>2. Tracked(c) /\ wal.orders[c].venue_order_id = orders[c].venue_order_id
        BY <2>2 DEF VenueInv, SameIds
      <4> QED  BY <2>3, <2>4, <4>1, <4>2 DEF Tracked
    <3> QED  BY <2>1, <3>1
  <2> QED  BY <1>1, <1>2, <2>1, <2>2, <2>3, <2>4, <2>5, <2>6, StoreTracks
<1>4. CASE Stopping \/ CancelAll
           \/ \E c \in ClientIds : SendCancel(c) \/ CancelReturned(c)
  <2>1. orders' = orders /\ wal'.orders = wal.orders
    BY <1>4 DEF Stopping, CancelAll, SendCancel, CancelReturned, EmergencyStop,
                StopCancelsOrders, RecordHeartbeat, EnforceTimeout,
                EnforceTimeoutWhenHalted, Freeze, memory, TypeInv, TypeOK, Durable
  <2>2. \/ task' = task
        \/ /\ task.step \in {"idle", "cancel_logged", "canceling", "stopping"}
           /\ task'.step \in {"idle", "canceling", "stopping"}
    BY <1>4 DEF Stopping, CancelAll, SendCancel, CancelReturned, EmergencyStop,
                StopCancelsOrders, RecordHeartbeat, EnforceTimeout,
                EnforceTimeoutWhenHalted, Freeze, Ready, Idle
  <2>3. \A c \in ClientIds : (Deciding(c)' => Deciding(c)) /\ (Posting(c) => Posting(c)')
    BY <2>2 DEF Deciding, Posting
  <2>4. SameIds' /\ AnswerFits'
    BY <1>1, <2>1, <2>2 DEF VenueInv, SameIds, AnswerFits, Nothing
  <2> QED  BY <1>1, <1>2, <2>1, <2>3, <2>4, QuietTracks
<1> QED  BY <1>3, <1>4 DEF Canceling

(* Taking an event off the channel.                                        *)
LEMMA TailTold ==
    ASSUME TypeInv, CancelIsTold, channel # <<>>, channel' = Tail(channel),
           UNCHANGED venueOrders
    PROVE  CancelIsTold'
<1>1. /\ channel \in Seq(OrderEvent \cup TradeEvent)
      /\ \A i \in 1 .. Len(Tail(channel)) :
            i + 1 \in 1 .. Len(channel) /\ Tail(channel)[i] = channel[i + 1]
  BY VenueType
<1> QED  BY <1>1 DEF CancelIsTold

LEMMA ReconciliationTracks ==
    ASSUME TypeInv, StopIsKnown, StatusKnown, RestartInv, VenueInv, Reconciliation
    PROVE  VenueInv'
<1> USE DEF venueVars, history, wire
<1>1. /\ UNCHANGED <<posts, venueOrders, inFlightAtCrash>> /\ up /\ up' = up
      /\ task.step \in {"idle", "trade"} /\ task'.step \in {"idle", "trade"}
  <2>1. CASE OrderEventIgnored \/ OrderEventRaises \/ OrderEventApplied
    BY <2>1 DEF OrderEventIgnored, OrderEventRaises, OrderEventApplied, Receives, Ready, Idle, Releases
  <2>4. CASE \E c \in ClientIds : ResolveAbsent(c) \/ \E v \in VenueIds : ResolveFound(c, v)
    <3>1. Ready /\ UNCHANGED <<posts, venueOrders, inFlightAtCrash, up, task>>
      BY <2>4, Zenon DEF ResolveAbsent, ResolveFound, Resolve, Releases
    <3> QED  BY <3>1 DEF Ready, Idle
  <2>3. CASE TradeEventReceived
    BY <2>3 DEF TradeEventReceived, Receives, Ready, Idle
  <2>2. ASSUME NEW v \in VenueIds,
               MakerUnknown(v) \/ MakerRaises(v) \/ MakerCountedThenRaises(v)
                  \/ MakerFirstSeen(v) \/ MakerUpdated(v)
        PROVE  /\ UNCHANGED <<posts, venueOrders, inFlightAtCrash>> /\ up /\ up' = up
               /\ task.step \in {"idle", "trade"} /\ task'.step \in {"idle", "trade"}
    <3>1. Reconciling(v) /\ UNCHANGED <<posts, venueOrders, inFlightAtCrash, up>>
      BY <2>2 DEF MakerUnknown, MakerRaises, MakerCountedThenRaises, MakerFirstSeen,
                  MakerUpdated
    <3>2. LoopPast(v) \/ task' = Idle
      BY <2>2 DEF MakerUnknown, MakerRaises, MakerCountedThenRaises, MakerFirstSeen,
                  MakerUpdated
    <3>3. task'.step \in {"idle", "trade"}
      BY <3>1, <3>2, LoopPastStep DEF Idle
    <3> QED  BY <3>1, <3>3 DEF Reconciling, StopIsKnown, Idle
  <2> QED  BY <2>1, <2>2, <2>3, <2>4 DEF Reconciliation
<1>2. \A c \in ClientIds : ~Posting(c) /\ ~Deciding(c)' /\ ~Deciding(c)
  BY <1>1 DEF Posting, Deciding
<1>3. AnswerFits'
  BY <1>1 DEF AnswerFits
<1>4. CASE OrderEventIgnored \/ OrderEventRaises \/ TradeEventReceived
  <2>1. UNCHANGED <<orders, wal>> /\ channel # <<>> /\ channel' = Tail(channel)
    BY <1>4 DEF OrderEventIgnored, OrderEventRaises, TradeEventReceived, Receives, memory
  <2>2. CancelIsTold' /\ SameIds'
    BY <1>1, <2>1, TailTold DEF VenueInv, SameIds
  <2> QED  BY <1>1, <1>2, <1>3, <2>1, <2>2, QuietTracks
<1>5. CASE OrderEventApplied
  <2> DEFINE event == Head(channel)
             c == ClientOf(event)
             status == StatusAfter(event, orders[c].status)
             order == [orders[c] EXCEPT !.status = status,
                                        !.matched_size = event.size_matched]
  <2>1. /\ Receives("order") /\ c # NoClient /\ StoreAndLog(c, order)
        /\ channel # <<>> /\ channel' = Tail(channel)
    BY <1>5 DEF OrderEventApplied, Receives, Releases
  <2>2. event \in OrderEvent /\ event = channel[1] /\ 1 \in 1 .. Len(channel)
    <3>1. channel \in Seq(OrderEvent \cup TradeEvent) /\ event.event_type = "order"
      BY <2>1 DEF Receives, TypeInv, TypeOK
    <3>2. event \in OrderEvent \cup TradeEvent /\ event = channel[1]
          /\ 1 \in 1 .. Len(channel)
      BY <2>1, <3>1
    <3>3. event \notin TradeEvent
      BY <3>1 DEF TradeEvent
    <3> QED  BY <3>2, <3>3
  <2>3. event.id \in VenueIds /\ c \in ClientIds /\ venueOrders[event.id].client = c
    BY <2>1, <2>2 DEF ClientOf, OrderEvent, TypeInv, TypeOK, RestartInv, IndexFits, Known
  <2>4. event.event_type = "order" /\ (event.type = "CANCELLATION" => ~venueOrders[event.id].open)
    BY <2>2 DEF VenueInv, CancelIsTold, OrderEvent
  <2>5. orders[c] \in Snapshots
    BY <2>3, WalType
  <2>6. wal.orders[c].status = orders[c].status /\ orders[c].status # "submitted"
        /\ wal.orders[c].venue_order_id = orders[c].venue_order_id
    BY <1>1, <1>2, <2>3 DEF StatusKnown, VenueInv, SameIds
  <2>7. \/ event.type = "CANCELLATION" /\ status = "canceled"
        \/ status = orders[c].status
    BY <2>6 DEF StatusAfter
  <2>8. order.status = status /\ order.venue_order_id = orders[c].venue_order_id
    <3> HIDE DEF c, event, status
    <3> QED  BY <2>5 DEF Snapshots, LiveOrder
  <2>9. CancelIsTold'
    BY <1>1, <2>1, TailTold DEF VenueInv
  <2> HIDE DEF event, c, status, order
  <2>10. /\ orders' = [orders EXCEPT ![c] = order]
         /\ wal'.orders = [wal.orders EXCEPT ![c] = order]
    BY <2>1, <2>3, WithOrderWrites DEF StoreAndLog
  <2>11. Tracked(c) /\ WrittenOff(c)
    BY <2>3 DEF VenueInv
  <2>12. CASE event.type = "CANCELLATION" /\ status = "canceled"
    <3>1. Gone(c)
      <4>1. \A v \in VenueIds : venueOrders[v].client = c => v = event.id
        BY <2>3 DEF VenueInv, OneOrderEach
      <4>2. c \notin posts
        BY <2>3 DEF VenueInv, PostsAreNew
      <4> QED  BY <2>4, <2>12, <4>1, <4>2 DEF Gone
    <3>2. OpenUnder(c, order.venue_order_id)
      BY <3>1 DEF Gone, OpenUnder
    <3> QED  BY <1>1, <1>2, <2>3, <2>8, <2>9, <2>10, <2>12, <3>1, <3>2, StoreTracks
  <2>13. CASE status = orders[c].status
    <3>1. /\ order.status = wal.orders[c].status
          /\ order.venue_order_id = wal.orders[c].venue_order_id
      BY <2>6, <2>8, <2>13
    <3>2. /\ order.status = "absent" => wal.orders[c].status = "absent"
          /\ order.status \in {"rejected", "canceled"} => Gone(c)
          /\ \/ order.status = "unknown" \/ c \in inFlightAtCrash
             \/ OpenUnder(c, order.venue_order_id)
      BY <1>2, <2>3, <2>11, <3>1 DEF Tracked, WrittenOff
    <3> QED  BY <1>1, <1>2, <2>3, <2>9, <2>10, <3>2, StoreTracks
  <2> QED  BY <2>7, <2>12, <2>13
<1>6. ASSUME NEW v \in VenueIds,
             MakerUnknown(v) \/ MakerRaises(v) \/ MakerCountedThenRaises(v)
                \/ MakerFirstSeen(v) \/ MakerUpdated(v)
      PROVE  VenueInv'
  <2> DEFINE c == clientOrderByVenue[v]
  <2>1. c \in ClientIds \cup {NoClient} /\ UNCHANGED channel
    BY <1>6 DEF TypeInv, TypeOK, MakerUnknown, MakerRaises, MakerCountedThenRaises,
                MakerFirstSeen, MakerUpdated
  <2>2. c \in ClientIds =>
          /\ RecordMatch(orders[c], 1).status = orders[c].status
          /\ RecordMatch(orders[c], 1).venue_order_id = orders[c].venue_order_id
    BY WalType DEF RecordMatch, Snapshots, LiveOrder
  <2>3. /\ \A d \in ClientIds :
             /\ wal'.orders[d].status = wal.orders[d].status
             /\ wal'.orders[d].venue_order_id = wal.orders[d].venue_order_id
             /\ orders'[d].venue_order_id = orders[d].venue_order_id
    <3>1. CASE MakerUnknown(v) \/ MakerRaises(v)
      BY <3>1 DEF MakerUnknown, MakerRaises, memory
    <3>2. CASE MakerCountedThenRaises(v)
      <4>1. /\ c # NoClient /\ wal' = wal
            /\ orders' = [orders EXCEPT ![c] = RecordMatch(@, 1)]
        BY <3>2 DEF MakerCountedThenRaises
      <4> HIDE DEF c
      <4> QED  BY <2>1, <2>2, <4>1, WalType
    <3>3. CASE MakerFirstSeen(v) \/ MakerUpdated(v)
      <4>1. /\ c # NoClient
            /\ \E order \in {orders[c], RecordMatch(orders[c], 1)} : StoreTrade(c, order)
        BY <3>3 DEF MakerFirstSeen, MakerUpdated
      <4> HIDE DEF c
      <4>2. PICK order \in {orders[c], RecordMatch(orders[c], 1)} : StoreTrade(c, order)
        BY <4>1
      <4>3. c \in ClientIds
        BY <2>1, <4>1
      <4>4. /\ wal'.orders = [wal.orders EXCEPT ![c] = order]
            /\ orders' = [orders EXCEPT ![c] = order]
        BY <4>2, <4>3, StoreTradeKeeps DEF StoreTrade
      <4>5. /\ order.status = orders[c].status
            /\ order.venue_order_id = orders[c].venue_order_id
        BY <2>2, <4>2, <4>3
      <4>6. /\ wal.orders[c].status = orders[c].status
            /\ wal.orders[c].venue_order_id = orders[c].venue_order_id
        BY <1>1, <1>2, <4>3 DEF StatusKnown, VenueInv, SameIds
      <4> QED  BY <4>3, <4>4, <4>5, <4>6, WalType
    <3> QED  BY <1>6, <3>1, <3>2, <3>3
  <2>4. SameIds' /\ CancelIsTold'
    BY <1>1, <2>1, <2>3 DEF VenueInv, SameIds, CancelIsTold
  <2> QED  BY <1>1, <1>2, <1>3, <2>3, <2>4, QuietTracks
<1>7. ASSUME NEW c \in ClientIds, NEW order, Ready, Resolve(c, order),
             order.status # "absent",
             order.status \in {"rejected", "canceled"} => Gone(c),
             OpenUnder(c, order.venue_order_id)
      PROVE  VenueInv'
  <2>1. /\ orders' = [orders EXCEPT ![c] = order]
        /\ wal'.orders = [wal.orders EXCEPT ![c] = order]
    BY <1>7, WithOrderWrites DEF Resolve, StoreAndLog, Releases
  <2>2. CancelIsTold'
    BY <1>7 DEF Resolve, VenueInv, CancelIsTold, Releases
  <2> QED  BY <1>1, <1>2, <1>7, <2>1, <2>2, StoreTracks
<1>8. ASSUME NEW c \in ClientIds, ResolveAbsent(c)
      PROVE  VenueInv'
  <2> DEFINE order == Moved(orders[c], "rejected")
  <2>1. Ready /\ Resolve(c, order) /\ Gone(c)
    BY <1>8 DEF ResolveAbsent, Gone
  <2>2. OpenUnder(c, order.venue_order_id)
    BY <2>1 DEF Gone, OpenUnder
  <2>3. order.status = "rejected"
    BY WalType DEF Moved, Snapshots, LiveOrder
  <2> HIDE DEF order
  <2> QED  BY <1>7, <2>1, <2>2, <2>3
<1>9. ASSUME NEW c \in ClientIds, NEW v \in VenueIds, ResolveFound(c, v)
      PROVE  VenueInv'
  <2> DEFINE order == [orders[c] EXCEPT !.status = "live", !.venue_order_id = v]
  <2>1. Ready /\ Resolve(c, order) /\ venueOrders[v].client = c
    BY <1>9 DEF ResolveFound
  <2>2. c \notin posts /\ OpenUnder(c, v)
    BY <2>1 DEF VenueInv, PostsAreNew, OneOrderEach, OpenUnder
  <2>3. order.status = "live" /\ order.venue_order_id = v
    BY WalType DEF Snapshots, LiveOrder
  <2> HIDE DEF order
  <2> QED  BY <1>7, <2>1, <2>2, <2>3
<1> QED  BY <1>4, <1>5, <1>6, <1>8, <1>9 DEF Reconciliation

(* What the venue reports is told, and what was told stays so.             *)
LEMMA ReportTold ==
    ASSUME TypeInv, CancelIsTold, NEW events \in Seq(OrderEvent \cup TradeEvent),
           Report(events),
           \A v \in VenueIds : venueOrders[v].client # NoClient =>
              /\ venueOrders'[v].open => venueOrders[v].open
              /\ venueOrders'[v].client = venueOrders[v].client,
           \A i \in 1 .. Len(events) :
              events[i].event_type = "order" /\ events[i].type = "CANCELLATION"
                => /\ ~venueOrders'[events[i].id].open
                   /\ venueOrders'[events[i].id].client # NoClient
    PROVE  CancelIsTold'
<1>1. channel \in Seq(OrderEvent \cup TradeEvent)
  BY VenueType
<1>2. channel' = channel \/ channel' = channel \o events
  BY DEF Report
<1>3. \A i \in 1 .. Len(channel') :
        \/ i \in 1 .. Len(channel) /\ channel'[i] = channel[i]
        \/ \E j \in 1 .. Len(events) : channel'[i] = events[j]
  <2>1. CASE channel' = channel
    BY <2>1
  <2>2. CASE channel' = channel \o events
    <3> SUFFICES ASSUME NEW i \in 1 .. Len(channel \o events)
                 PROVE  \/ i \in 1 .. Len(channel) /\ (channel \o events)[i] = channel[i]
                        \/ \E j \in 1 .. Len(events) : (channel \o events)[i] = events[j]
      BY <2>2
    <3>1. CASE i <= Len(channel)
      BY <1>1, <3>1
    <3>2. CASE i > Len(channel)
      <4>1. /\ i - Len(channel) \in 1 .. Len(events)
            /\ (channel \o events)[i] = events[i - Len(channel)]
        BY <1>1, <3>2
      <4> QED  BY <4>1
    <3> QED  BY <1>1, <3>1, <3>2
  <2> QED  BY <1>2, <2>1, <2>2
<1>4. ASSUME NEW i \in 1 .. Len(channel'), channel'[i].event_type = "order",
             channel'[i].type = "CANCELLATION"
      PROVE  /\ ~venueOrders'[channel'[i].id].open
             /\ venueOrders'[channel'[i].id].client # NoClient
  <2>1. CASE i \in 1 .. Len(channel) /\ channel'[i] = channel[i]
    <3>1. channel[i] \in OrderEvent
      BY <1>1, <1>4, <2>1 DEF OrderEvent, TradeEvent
    <3>2. /\ channel[i].id \in VenueIds /\ ~venueOrders[channel[i].id].open
          /\ venueOrders[channel[i].id].client # NoClient
      BY <1>4, <2>1, <3>1 DEF OrderEvent, CancelIsTold
    <3> QED  BY <1>4, <2>1, <3>2
  <2>2. CASE \E j \in 1 .. Len(events) : channel'[i] = events[j]
    BY <1>4, <2>2
  <2> QED  BY <1>3, <2>1, <2>2
<1> QED  BY <1>4 DEF CancelIsTold

LEMMA ClosedIsTold ==
    ASSUME TypeInv, CancelIsTold, OpenIsOurs, NEW v \in VenueIds, venueOrders[v].open, Close(v)
    PROVE  /\ CancelIsTold'
           /\ \A w \in VenueIds :
                /\ venueOrders'[w].client = venueOrders[w].client
                /\ venueOrders'[w].open => venueOrders[w].open
<1> DEFINE event == OrderReport("CANCELLATION", v, venueOrders[v].matched)
<1>1. /\ venueOrders' = [venueOrders EXCEPT ![v].open = FALSE]
      /\ Report(<<event>>)
  BY DEF Close
<1>2. event \in OrderEvent /\ event.id = v
  BY VenueType, OrderReportType DEF VenueOrder, OrderReport
<1>3. /\ venueOrders'[v].open = FALSE
      /\ \A w \in VenueIds : /\ venueOrders'[w].client = venueOrders[w].client
                             /\ w # v => venueOrders'[w] = venueOrders[w]
  BY <1>1, VenueType DEF VenueOrder
<1>4. venueOrders[v].client # NoClient
  BY DEF OpenIsOurs
<1> HIDE DEF event
<1>5. /\ <<event>> \in Seq(OrderEvent \cup TradeEvent)
      /\ \A i \in 1 .. Len(<<event>>) : <<event>>[i] = event
  BY <1>2
<1>6. \A i \in 1 .. Len(<<event>>) :
        /\ ~venueOrders'[<<event>>[i].id].open
        /\ venueOrders'[<<event>>[i].id].client # NoClient
  BY <1>2, <1>3, <1>4, <1>5
<1>7. \A w \in VenueIds : venueOrders'[w].open => venueOrders[w].open
  BY <1>3
<1>8. CancelIsTold'
  BY <1>1, <1>3, <1>5, <1>6, <1>7, ReportTold
<1> QED  BY <1>3, <1>7, <1>8

(* A trade tells of no cancellation.                                       *)
LEMMA TradeTold ==
    ASSUME TypeInv, CancelIsTold, NEW events \in Seq(OrderEvent \cup TradeEvent),
           Report(events),
           \A i \in 1 .. Len(events) :
              events[i].event_type = "order" => events[i].type = "UPDATE",
           \A v \in VenueIds :
              /\ venueOrders'[v].open => venueOrders[v].open
              /\ venueOrders'[v].client = venueOrders[v].client
    PROVE  CancelIsTold'
<1>1. \A i \in 1 .. Len(events) :
        ~(events[i].event_type = "order" /\ events[i].type = "CANCELLATION")
  OBVIOUS
<1> QED  BY <1>1, ReportTold

(* The events of a match: its trade, and an update of every order in it.   *)
LEMMA MatchTells ==
    ASSUME TypeInv, NEW t \in TradeIds, NEW makers \in SUBSET VenueIds,
           VenueMatches(t, makers)
    PROVE  \E events \in Seq(OrderEvent \cup TradeEvent) :
              /\ Report(events)
              /\ \A i \in 1 .. Len(events) :
                    events[i].event_type = "order" => events[i].type = "UPDATE"
<1> DEFINE n == Cardinality(makers)
           Told == {e \in OrderEvent \cup TradeEvent :
                      e.event_type = "order" => e.type = "UPDATE"}
<1>1. n \in Nat
  <2>1. IsFiniteSet(VenueIds)
    BY FS_Interval, ConstantsAssumption DEF VenueIds
  <2> QED  BY <2>1, FS_Subset, FS_CardinalityType
<1>2. PICK nth \in [1 .. n -> makers] :
        LET trade == <<TradeReport(t, "matched", makers)>>
            updates == [i \in 1 .. n |->
                OrderReport("UPDATE", nth[i], venueOrders[nth[i]].matched + 1)]
        IN  Report(IF TradeFirst THEN trade \o updates ELSE updates \o trade)
  BY DEF VenueMatches
<1> DEFINE event == TradeReport(t, "matched", makers)
           updates == [i \in 1 .. n |->
               OrderReport("UPDATE", nth[i], venueOrders[nth[i]].matched + 1)]
<1>3. event \in Told
  BY DEF TradeReport, TradeEvent, LiveTradeStatus
<1>4. ASSUME NEW i \in 1 .. n
      PROVE  OrderReport("UPDATE", nth[i], venueOrders[nth[i]].matched + 1) \in Told
  <2>1. nth[i] \in VenueIds
    OBVIOUS
  <2>2. venueOrders[nth[i]].matched + 1 \in Nat
    BY <2>1, VenueType DEF VenueOrder
  <2>3. OrderReport("UPDATE", nth[i], venueOrders[nth[i]].matched + 1) \in OrderEvent
    BY <2>1, <2>2, OrderReportType
  <2> QED  BY <2>3 DEF OrderReport
<1>5. updates \in Seq(Told) /\ <<event>> \in Seq(Told)
  <2> HIDE DEF n, Told, event
  <2> QED  BY <1>1, <1>3, <1>4 DEF n
<1>6. PICK events \in {<<event>> \o updates, updates \o <<event>>} : Report(events)
  BY <1>2
<1>7. events \in Seq(Told)
  <2> HIDE DEF Told, updates, n
  <2>1. <<event>> \in Seq(Told) /\ updates \in Seq(Told)
    BY <1>5
  <2>2. \A p, q \in Seq(Told) : p \o q \in Seq(Told)
    OBVIOUS
  <2> QED  BY <1>6, <2>1, <2>2, Zenon
<1>8. /\ events \in Seq(OrderEvent \cup TradeEvent)
      /\ \A i \in 1 .. Len(events) : events[i] \in Told
  <2>1. Told \subseteq OrderEvent \cup TradeEvent
    OBVIOUS
  <2> HIDE DEF Told, event, updates
  <2> QED  BY <1>7, <2>1
<1> HIDE DEF event, updates
<1> QED  BY <1>6, <1>8

LEMMA EnvironmentTracks ==
    ASSUME TypeInv, RestartInv, VenueInv, Environment
    PROVE  VenueInv'
<1> USE DEF venueVars, history, wire
<1>1. UNCHANGED <<up, memory, wal, inFlightAtCrash>>
  BY DEF Environment, VenueAccepts, VenueRefuses, VenueCancels, VenueKeeps, VenueSweeps,
         VenueSwept, VenueMatches, VenueTradeMoves, RequestLost, EventLost, Tick
<1>2. SameIds'
  BY <1>1 DEF VenueInv, SameIds, memory
<1> DEFINE OwnersStay ==
             \A v \in VenueIds : /\ venueOrders'[v].client = venueOrders[v].client
                                 /\ venueOrders'[v].open => venueOrders[v].open
           SamePost == /\ task'.step = task.step
                       /\ task.step \in {"posting", "decided"} => task' = task
<1>3. ASSUME SamePost, OwnersStay, posts' \subseteq posts, CancelIsTold'
      PROVE  VenueInv'
  <2>1. \A c \in ClientIds : (Deciding(c)' => Deciding(c)) /\ (Posting(c) => Posting(c)')
    BY <1>3 DEF Deciding, Posting
  <2>2. AnswerFits'
    BY <1>3 DEF VenueInv, AnswerFits, Nothing
  <2> HIDE DEF SamePost
  <2> QED  BY <1>1, <1>2, <1>3, <2>1, <2>2, QuietTracks
<1>4. ASSUME NEW c, NEW answer, NEW v, AnswerPost(c, answer, v)
      PROVE  /\ \A d \in ClientIds : (Deciding(d)' => Deciding(d)) /\ (Posting(d) <=> Posting(d)')
             /\ Posting(c) => task'.answer = answer
             /\ task'.step = "posting" => task.step = "posting" /\ task'.client = task.client
             /\ ~Posting(c) => task' = task
  <2>1. CASE Posting(c)
    <3>1. task \in [step : {"posting"}, client : ClientIds,
                    answer : {"none", "accepted", "refused"},
                    venue : VenueIds \cup {NoVenueId}]
      BY <2>1 DEF Posting, TypeInv, TypeOK, Task, Idle
    <3>2. task' = [task EXCEPT !.answer = answer, !.venue = v]
      BY <1>4, <2>1 DEF AnswerPost
    <3>3. /\ task'.step = "posting" /\ task'.client = task.client
          /\ task'.answer = answer
      BY <3>1, <3>2
    <3> QED  BY <2>1, <3>3 DEF Posting, Deciding
  <2>2. CASE ~Posting(c)
    BY <1>4, <2>2 DEF AnswerPost, Posting, Deciding
  <2> QED  BY <2>1, <2>2
<1>5. ASSUME NEW v, AnswerCancel(v)
      PROVE  SamePost
  <2>1. CASE task.step = "canceling" /\ task.venue = v
    <3>1. task \in [step : {"canceling"}, client : ClientIds, venue : VenueIds,
                    answered : BOOLEAN]
      BY <2>1 DEF TypeInv, TypeOK, Task, Idle
    <3>2. task' = [task EXCEPT !.answered = TRUE]
      BY <1>5, <2>1 DEF AnswerCancel
    <3> QED  BY <2>1, <3>1, <3>2
  <2>2. CASE ~(task.step = "canceling" /\ task.venue = v)
    BY <1>5, <2>2 DEF AnswerCancel
  <2> QED  BY <2>1, <2>2
<1>6. ASSUME NEW c \in ClientIds, VenueAccepts(c)
      PROVE  VenueInv'
  <2> DEFINE new == nextVenueId
             placed == OrderReport("PLACEMENT", new, 0)
  <2>1. /\ new \in VenueIds /\ c \in posts /\ posts' = posts \ {c}
        /\ venueOrders' = [venueOrders EXCEPT
              ![new] = [client |-> c, open |-> TRUE, matched |-> 0]]
        /\ AnswerPost(c, "accepted", new) /\ Report(<<placed>>)
    BY <1>6 DEF VenueAccepts
  <2>2. venueOrders[new].client = NoClient /\ NoClient \notin ClientIds
    BY <2>1, IndexType DEF RestartInv, IndexFits
  <2>3. /\ venueOrders'[new].client = c
        /\ \A v \in VenueIds \ {new} : venueOrders'[v] = venueOrders[v]
    BY <2>1, VenueType
  <2>4. \A v \in VenueIds : venueOrders[v].client # c
    BY <2>1 DEF VenueInv, PostsAreNew
  <2>5. CancelIsTold'
    <3>1. placed \in OrderEvent /\ placed.type # "CANCELLATION"
      BY <2>1, OrderReportType DEF OrderReport
    <3> HIDE DEF placed
    <3>2. /\ <<placed>> \in Seq(OrderEvent \cup TradeEvent)
          /\ \A i \in 1 .. Len(<<placed>>) : <<placed>>[i].type # "CANCELLATION"
      BY <3>1
    <3>3. \A v \in VenueIds : venueOrders[v].client # NoClient =>
              /\ venueOrders'[v].open => venueOrders[v].open
              /\ venueOrders'[v].client = venueOrders[v].client
      BY <2>2, <2>3
    <3> QED  BY <2>1, <3>2, <3>3, ReportTold DEF VenueInv
  <2> HIDE DEF placed
  <2>6. /\ \A d \in ClientIds : (Deciding(d)' => Deciding(d)) /\ (Posting(d) <=> Posting(d)')
        /\ Posting(c) => task'.answer = "accepted"
        /\ task'.step = "posting" => task.step = "posting" /\ task'.client = task.client
        /\ ~Posting(c) => task' = task
    BY <2>1, <1>4
  <2>7. \A d \in ClientIds : d # c /\ Nothing(d) => Nothing(d)'
    BY <2>1, <2>2, <2>3 DEF Nothing
  <2>8. NewIsUntouched'
    <3>1. \A d \in ClientIds : wal.orders[d].status = "absent" \/ Deciding(d) => d # c
      BY <2>1 DEF VenueInv, NewIsUntouched, Nothing
    <3> QED  BY <1>1, <2>6, <2>7, <3>1 DEF VenueInv, NewIsUntouched
  <2>9. PostsAreNew' /\ OneOrderEach' /\ OpenIsOurs'
    BY <2>1, <2>2, <2>3, <2>4 DEF VenueInv, PostsAreNew, OneOrderEach, OpenIsOurs
  <2>10. AnswerFits'
    <3>1. CASE Posting(c)
      BY <2>1, <2>6, <3>1 DEF AnswerFits, Posting
    <3>2. CASE ~Posting(c)
      <4>1. task.step = "posting" => task.client # c /\ task.client \in ClientIds
        BY <3>2 DEF Posting, TypeInv, TypeOK, Task, Idle
      <4> QED  BY <2>1, <2>6, <2>7, <3>2, <4>1 DEF VenueInv, AnswerFits
    <3> QED  BY <3>1, <3>2
  <2>11. ASSUME NEW d \in ClientIds PROVE Tracked(d)' /\ WrittenOff(d)'
    <3>1. Tracked(d) /\ WrittenOff(d)
      BY DEF VenueInv
    <3>2. CASE d = c
      BY <1>1, <2>1, <2>6, <3>1, <3>2 DEF Tracked, WrittenOff, OpenUnder, Gone
    <3>3. CASE d # c
      <4>1. \A v \in VenueIds : venueOrders'[v].client = d => venueOrders'[v] = venueOrders[v]
        BY <2>3, <3>3
      <4>2. d \in posts' => d \in posts
        BY <2>1
      <4> QED  BY <1>1, <2>6, <3>1, <4>1, <4>2 DEF Tracked, WrittenOff, OpenUnder, Gone
    <3> QED  BY <3>2, <3>3
  <2> QED  BY <1>2, <2>5, <2>8, <2>9, <2>10, <2>11 DEF VenueInv
<1>7. ASSUME NEW c \in ClientIds, VenueRefuses(c)
      PROVE  VenueInv'
  <2>1. /\ c \in posts /\ posts' = posts \ {c} /\ UNCHANGED <<venueOrders, channel>>
        /\ AnswerPost(c, "refused", NoVenueId)
    BY <1>7 DEF VenueRefuses
  <2>2. Nothing(c)'
    BY <2>1 DEF VenueInv, PostsAreNew, Nothing
  <2>3. /\ \A d \in ClientIds : (Deciding(d)' => Deciding(d)) /\ (Posting(d) <=> Posting(d)')
        /\ task'.step = "posting" => task.step = "posting" /\ task'.client = task.client
        /\ ~Posting(c) => task' = task
    BY <2>1, <1>4
  <2>4. AnswerFits'
    <3>1. CASE Posting(c)
      BY <2>2, <2>3, <3>1 DEF AnswerFits, Posting, Nothing
    <3>2. CASE ~Posting(c)
      BY <2>1, <2>3, <3>2 DEF VenueInv, AnswerFits, Nothing
    <3> QED  BY <3>1, <3>2
  <2>5. CancelIsTold'
    BY <2>1 DEF VenueInv, CancelIsTold
  <2> QED  BY <1>1, <1>2, <2>1, <2>3, <2>4, <2>5, QuietTracks
<1>8. ASSUME NEW v \in VenueIds, VenueCancels(v) \/ VenueSweeps(v)
      PROVE  VenueInv'
  <2>1. /\ venueOrders[v].open /\ Close(v) /\ UNCHANGED posts
        /\ AnswerCancel(v) \/ task' = task
    BY <1>8 DEF VenueCancels, VenueSweeps
  <2>2. CancelIsTold' /\ OwnersStay
    BY <2>1, ClosedIsTold DEF VenueInv
  <2>3. SamePost
    BY <2>1, <1>5
  <2> HIDE DEF SamePost, OwnersStay
  <2> QED  BY <1>3, <2>1, <2>2, <2>3
<1>9. ASSUME NEW v \in VenueIds, VenueKeeps(v)
      PROVE  VenueInv'
  <2>1. UNCHANGED <<posts, venueOrders, channel>> /\ AnswerCancel(v)
    BY <1>9 DEF VenueKeeps
  <2>2. CancelIsTold' /\ OwnersStay
    BY <2>1 DEF VenueInv, CancelIsTold
  <2>3. SamePost
    BY <2>1, <1>5
  <2> HIDE DEF SamePost, OwnersStay
  <2> QED  BY <1>3, <2>1, <2>2, <2>3
<1>10. ASSUME NEW t \in TradeIds, NEW makers \in SUBSET VenueIds, VenueMatches(t, makers)
       PROVE  VenueInv'
  <2>1. UNCHANGED <<task, posts>>
    BY <1>10, Zenon DEF VenueMatches
  <2>2. OwnersStay
    <3>1. /\ \A v \in makers : venueOrders[v].open
          /\ venueOrders' = [v \in VenueIds |->
                IF v \notin makers THEN venueOrders[v]
                ELSE [venueOrders[v] EXCEPT
                        !.matched = @ + 1,
                        !.open = venueOrders[v].matched + 1 < SizeOf[venueOrders[v].client]]]
      BY <1>10, Zenon DEF VenueMatches, Resting
    <3> QED  BY <3>1, VenueType DEF VenueOrder
  <2>3. CancelIsTold'
    <3>1. PICK events \in Seq(OrderEvent \cup TradeEvent) :
            /\ Report(events)
            /\ \A i \in 1 .. Len(events) :
                  events[i].event_type = "order" => events[i].type = "UPDATE"
      BY <1>10, MatchTells
    <3> QED  BY <2>2, <3>1, TradeTold DEF VenueInv
  <2> HIDE DEF OwnersStay
  <2> QED  BY <1>3, <2>1, <2>2, <2>3
<1>11. ASSUME NEW t \in TradeIds, NEW status \in LiveTradeStatus, VenueTradeMoves(t, status)
       PROVE  VenueInv'
  <2> DEFINE event == TradeReport(t, status, venueTrades[t].maker_orders)
  <2>1. UNCHANGED <<task, posts, venueOrders>> /\ Report(<<event>>)
    BY <1>11 DEF VenueTradeMoves
  <2>2. event \in TradeEvent
    BY DEF TradeReport, TradeEvent, TypeInv, TypeOK
  <2> HIDE DEF event
  <2>3. /\ <<event>> \in Seq(OrderEvent \cup TradeEvent)
        /\ \A i \in 1 .. Len(<<event>>) : <<event>>[i].event_type = "trade"
    BY <2>2 DEF TradeEvent
  <2>4. CancelIsTold'
    BY <2>1, <2>3, TradeTold DEF VenueInv
  <2> QED  BY <1>3, <2>1, <2>4
<1>12. CASE VenueSwept \/ RequestLost \/ Tick
  <2>1. UNCHANGED <<task, venueOrders, channel>> /\ posts' \subseteq posts
    BY <1>12 DEF VenueSwept, RequestLost, Tick
  <2>2. CancelIsTold'
    BY <2>1 DEF VenueInv, CancelIsTold
  <2> QED  BY <1>3, <2>1, <2>2
<1>13. CASE EventLost
  <2>1. /\ channel # <<>> /\ channel' = Tail(channel)
        /\ UNCHANGED <<task, venueOrders, posts>>
    BY <1>13 DEF EventLost
  <2>2. CancelIsTold'
    BY <2>1, TailTold DEF VenueInv
  <2> QED  BY <1>3, <2>1, <2>2
<1> QED
  BY <1>6, <1>7, <1>8, <1>9, <1>10, <1>11, <1>12, <1>13 DEF Environment

LEMMA StepTracks ==
    ASSUME IInv, LogInv, StatusKnown, RestartInv, VenueInv, Mode # "paper", [Next]_vars
    PROVE  VenueInv'
<1>1. TypeInv /\ StopIsKnown /\ CallFits
  BY DEF IInv, LogInv
<1>2. CASE Crash
  <2>1. /\ ~up' /\ task' = Idle /\ channel' = <<>>
        /\ UNCHANGED <<wal, posts, venueOrders>>
        /\ inFlightAtCrash' = inFlightAtCrash \cup {c \in ClientIds : Posting(c)}
    BY <1>2 DEF Crash, wire
  <2>2. SameIds' /\ AnswerFits' /\ CancelIsTold'
    BY <2>1 DEF SameIds, AnswerFits, CancelIsTold, Idle
  <2>3. \A c \in ClientIds : ~Deciding(c)'
    BY <2>1 DEF Deciding, Idle
  <2> QED  BY <2>1, <2>2, <2>3, QuietTracks
<1>3. CASE Restart
  <2>1. /\ UNCHANGED <<task, wal, posts, venueOrders, channel, inFlightAtCrash>>
        /\ orders' = wal.orders
    BY <1>3 DEF Restart, Load, wire, venueVars, history
  <2>2. SameIds' /\ AnswerFits' /\ CancelIsTold'
    BY <2>1 DEF VenueInv, SameIds, AnswerFits, Nothing, CancelIsTold
  <2>3. \A c \in ClientIds : (Deciding(c)' => Deciding(c)) /\ (Posting(c) => Posting(c)')
    BY <2>1 DEF Deciding, Posting
  <2> QED  BY <2>1, <2>2, <2>3, QuietTracks
<1>4. CASE UNCHANGED vars
  <2>1. UNCHANGED <<up, task, orders, wal, posts, venueOrders, channel, inFlightAtCrash>>
    BY <1>4 DEF vars, memory, wire, venueVars, history
  <2>2. SameIds' /\ AnswerFits' /\ CancelIsTold'
    BY <2>1 DEF VenueInv, SameIds, AnswerFits, Nothing, CancelIsTold
  <2>3. \A c \in ClientIds : (Deciding(c)' => Deciding(c)) /\ (Posting(c) => Posting(c)')
    BY <2>1 DEF Deciding, Posting
  <2> QED  BY <2>1, <2>2, <2>3, QuietTracks
<1> QED
  BY <1>1, <1>2, <1>3, <1>4, SubmittingTracks, CancelingTracks, ReconciliationTracks,
     EnvironmentTracks
  DEF Next

LEMMA InitLog == Init => LogInv /\ StatusKnown
<1>1. Init => LogInv
  BY DEF Init, LogInv, CallFits, NotBehind, Ahead, Fresh, Absent, Idle
<1>2. Init => StatusKnown
  BY DEF Init, StatusKnown, Fresh, Absent, Idle, Posting
<1> QED  BY <1>1, <1>2

LEMMA InitVenue == Init => VenueInv
<1> SUFFICES ASSUME Init PROVE VenueInv
  OBVIOUS
<1>1. /\ orders = wal.orders /\ posts = {} /\ channel = <<>> /\ task.step = "idle"
      /\ \A v \in VenueIds : venueOrders[v].client = NoClient /\ ~venueOrders[v].open
      /\ \A c \in ClientIds : wal.orders[c].status = "absent"
  BY DEF Init, Fresh, Absent, NoOrder, Idle
<1>2. NoClient \notin ClientIds
  BY ConstantsAssumption
<1>3. SameIds /\ NewIsUntouched /\ PostsAreNew /\ OneOrderEach
  BY <1>1, <1>2 DEF SameIds, NewIsUntouched, Nothing, PostsAreNew, OneOrderEach
<1>4. AnswerFits /\ CancelIsTold /\ OpenIsOurs
  BY <1>1 DEF AnswerFits, CancelIsTold, OpenIsOurs
<1>5. \A c \in ClientIds : Tracked(c) /\ WrittenOff(c)
  BY <1>1 DEF Tracked, WrittenOff, OpenUnder, Gone
<1> QED  BY <1>3, <1>4, <1>5 DEF VenueInv

(* What is open or under way at the venue is in the log by its venue id or *)
(* as UNKNOWN, but for a POST that waits or that a crash cut off, and what *)
(* the log has written off is gone: over lost requests, answers and        *)
(* events, crashes and restarts, fills and the kill switch.                *)
THEOREM VenueIsAccounted == ASSUME Mode # "paper" PROVE Spec => []VenueOrdersAccounted
<1>1. Init => LogInv /\ StatusKnown
  BY InitLog
<1>2. Init => RestartInv
  BY InitRestart
<1>3. Init => VenueInv
  BY InitVenue
<1>4. IInv /\ [Next]_vars => IInv'
  BY StepInv
<1>5. IInv /\ LogInv /\ [Next]_vars => LogInv'
  BY StepRemembers
<1>6. IInv /\ LogInv /\ StatusKnown /\ [Next]_vars => StatusKnown'
  BY StepMoves
<1>7. IInv /\ RestartInv /\ [Next]_vars => RestartInv'
  BY StepIsDurable
<1>8. IInv /\ LogInv /\ StatusKnown /\ RestartInv /\ VenueInv /\ [Next]_vars => VenueInv'
  BY StepTracks
<1>9. VenueInv => VenueOrdersAccounted
  BY DEF VenueInv, VenueOrdersAccounted, OpenOrdersKnown, SettledMeansGone, Tracked,
         WrittenOff, OpenUnder, Gone
<1> QED
  BY InitInv, <1>1, <1>2, <1>3, <1>4, <1>5, <1>6, <1>7, <1>8, <1>9, PTL DEF Spec
-----------------------------------------------------------------------------
(* Fills *)

(* The user channel tells of a match more than once: by the trade, by the  *)
(* trade's later statuses and by the cumulative size of each order in it.  *)
(* A trade the service has not stored adds a share (_reconcile_trade); an  *)
(* order event sets the size and raises when it would shrink               *)
(* (_record_cumulative_match). So a size is right as long as the trade of  *)
(* a share is always taken before the size that includes it. FillsInv says *)
(* so of the channel: the size an order event carries is the number of the *)
(* trades told before it, the trades the service has counted are the ones  *)
(* the channel no longer has to tell, and the statuses of a trade follow   *)
(* one another as the service will accept them.                            *)

(* What the venue knows of one of its orders.                              *)
OwnerOf(v) == venueOrders[v].client
MakersOf(t) == venueTrades[t].maker_orders
MatchedIn(v) == {t \in TradeIds : v \in MakersOf(t)}

(* What the service has counted for one of its orders.                     *)
CountedFor(c) == {t \in TradeIds : trades[<<t, c>>] # "none"}

IsTrade(event, t) == event.event_type = "trade" /\ event.id = t
IsOrder(event, v) == event.event_type = "order" /\ event.id = v

(* The event that first tells of trade t is at position i or later.        *)
MatchToCome(t, i) ==
    \E j \in i .. Len(channel) : IsTrade(channel[j], t) /\ channel[j].status = "matched"

(* The trades of v that precede position i of the channel.                 *)
ToldBefore(v, i) == {t \in MatchedIn(v) : ~MatchToCome(t, i)}

(* The loop over the maker orders of trade t has v before it.              *)
InHand(t, v) == task.step = "trade" /\ task.event.id = t /\ v \in task.rest

(* The status of trade t that the service has received for v.              *)
Received(t, v) ==
    IF InHand(t, v) THEN task.event.status ELSE trades[<<t, OwnerOf(v)>>]

Leads(from, to) ==
    \/ <<from, to>> \in TradeTransitions
    \/ from = "none" /\ to = "matched"

Untroubled == up /\ ~raised /\ \A c \in ClientIds : orders[c].status # "unknown"

(* The service knows every order of the venue, but for the one whose POST  *)
(* has been answered and not acknowledged yet.                             *)
Acknowledged(v) ==
    /\ clientOrderByVenue[v] = OwnerOf(v)
    /\ orders[OwnerOf(v)].venue_order_id = v

Awaited(v) ==
    /\ task.step = "posting" /\ task.answer = "accepted"
    /\ task.client = OwnerOf(v) /\ task.venue = v

OrdersKnown ==
    /\ \A v \in VenueIds : OwnerOf(v) \in ClientIds => Acknowledged(v) \/ Awaited(v)
    /\ \A c \in posts : Posting(c) /\ task.answer = "none"

(* The venue matches what rests, one share for each trade.                 *)
VenueCounts ==
    /\ \A t \in TradeIds : venueTrades[t].status = "none" => MakersOf(t) = {}
    /\ \A t \in TradeIds : \A v \in MakersOf(t) : OwnerOf(v) \in ClientIds
    /\ \A v \in VenueIds : venueOrders[v].matched = Cardinality(MatchedIn(v))
    /\ \A v \in VenueIds : OwnerOf(v) \in ClientIds =>
         /\ venueOrders[v].matched <= SizeOf[OwnerOf(v)]
         /\ venueOrders[v].open => venueOrders[v].matched < SizeOf[OwnerOf(v)]

(* The service counts a trade when it stores it.                           *)
ServiceCounts ==
    /\ \A c \in ClientIds : orders[c].matched_size = Cardinality(CountedFor(c))
    /\ \A c \in ClientIds : \A t \in CountedFor(c) : \E v \in MakersOf(t) : OwnerOf(v) = c
    /\ progress.fills = Cardinality({k \in TradeIds \X ClientIds : trades[k] # "none"})
    /\ progress.submitted_orders < nextVenueId
    /\ task.step = "posting" /\ task.answer = "accepted"
         => progress.submitted_orders + 1 < nextVenueId

(* The channel tells of every trade once, and an order event that follows  *)
(* the trade in its size follows it in the channel too.                    *)
ChannelCounts ==
    /\ \A t \in TradeIds : \A i \in 1 .. Len(channel) : IsTrade(channel[i], t) =>
         channel[i].maker_orders = MakersOf(t) /\ venueTrades[t].status # "none"
    /\ \A t \in TradeIds : \A i, j \in 1 .. Len(channel) :
         i < j /\ IsTrade(channel[i], t) /\ IsTrade(channel[j], t)
           => channel[j].status # "matched"
    /\ \A v \in VenueIds : \A i \in 1 .. Len(channel) : IsOrder(channel[i], v) =>
         channel[i].size_matched = Cardinality(ToldBefore(v, i))
    /\ \A t \in TradeIds : \A v \in MakersOf(t) :
         Received(t, v) = "none" <=> MatchToCome(t, 1)

(* What the loop has before it follows what it has stored.                 *)
HandFits ==
    task.step = "trade" =>
      /\ task.rest \subseteq MakersOf(task.event.id)
      /\ \A v \in task.rest :
           Leads(trades[<<task.event.id, OwnerOf(v)>>], task.event.status)

(* The statuses of a trade reach the service in the order of the table.    *)
NoTradeIn(t, from, to) == \A k \in from .. to : ~IsTrade(channel[k], t)

StatusesLead ==
    /\ \A t \in TradeIds : \A i \in 1 .. Len(channel) :
         IsTrade(channel[i], t) /\ NoTradeIn(t, 1, i - 1)
           => \A v \in MakersOf(t) : Leads(Received(t, v), channel[i].status)
    /\ \A t \in TradeIds : \A i, j \in 1 .. Len(channel) :
         /\ i < j /\ IsTrade(channel[i], t) /\ IsTrade(channel[j], t)
         /\ NoTradeIn(t, i + 1, j - 1)
         => Leads(channel[i].status, channel[j].status)
    /\ \A t \in TradeIds : \A i \in 1 .. Len(channel) :
         IsTrade(channel[i], t) /\ NoTradeIn(t, i + 1, Len(channel))
           => channel[i].status = venueTrades[t].status
    /\ \A t \in TradeIds : NoTradeIn(t, 1, Len(channel))
         => \A v \in MakersOf(t) : Received(t, v) = venueTrades[t].status

FillsInv ==
    /\ Untroubled /\ OrdersKnown /\ VenueCounts /\ ServiceCounts
    /\ HandFits /\ ChannelCounts /\ StatusesLead

(* No request, answer or event is lost, nothing crashes, and a match is    *)
(* reported before the sizes it leads to.                                  *)
Reliable ==
    /\ Mode = "canary"
    /\ ~TransportFaults /\ ~ChannelFaults /\ MaxCrashes = 0 /\ TradeFirst

LEMMA EventShape ==
    ASSUME TypeInv, NEW i \in 1 .. Len(channel)
    PROVE  /\ channel[i] \in OrderEvent \cup TradeEvent
           /\ channel[i].event_type \in {"order", "trade"}
           /\ channel[i].event_type = "order" => channel[i] \in OrderEvent
           /\ channel[i].event_type = "trade" => channel[i] \in TradeEvent
<1>1. channel[i] \in OrderEvent \cup TradeEvent
  BY VenueType
<1> QED  BY <1>1 DEF OrderEvent, TradeEvent

LEMMA LeadsFacts ==
    ASSUME NEW from, NEW to, Leads(from, to)
    PROVE  /\ to \in LiveTradeStatus
           /\ to = "matched" => from = "none"
           /\ from = "none" => to = "matched"
           /\ from # "none" => <<from, to>> \in TradeTransitions
  BY DEF Leads, TradeTransitions, LiveTradeStatus

(* A step that leaves the channel and the venue's trades alone.            *)
LEMMA SameTold ==
    ASSUME ChannelCounts, StatusesLead, UNCHANGED <<channel, venueTrades>>,
           \A t \in TradeIds : \A v \in MakersOf(t) : Received(t, v)' = Received(t, v)
    PROVE  ChannelCounts' /\ StatusesLead'
<1>1. /\ \A t : MakersOf(t)' = MakersOf(t)
      /\ \A t, i : MatchToCome(t, i)' = MatchToCome(t, i)
      /\ \A v : MatchedIn(v)' = MatchedIn(v)
      /\ \A t, i, j : NoTradeIn(t, i, j)' = NoTradeIn(t, i, j)
  BY DEF MakersOf, MatchToCome, MatchedIn, NoTradeIn
<1>2. \A v, i : ToldBefore(v, i)' = ToldBefore(v, i)
  BY <1>1 DEF ToldBefore
<1>3. ChannelCounts'
  BY <1>1, <1>2 DEF ChannelCounts
<1>4. StatusesLead'
  BY <1>1 DEF StatusesLead
<1> QED  BY <1>3, <1>4

(* What the venue reports: at most one trade, ahead of what follows it.    *)
LEMMA ReportKeepsTold ==
    ASSUME TypeInv, VenueCounts, ChannelCounts, StatusesLead,
           NEW events \in Seq(OrderEvent \cup TradeEvent), events # <<>>,
           channel' = channel \o events,
           \A k \in 2 .. Len(events) : events[k].event_type = "order",
           \A v \in VenueIds : \A k \in 1 .. Len(events) : IsOrder(events[k], v) =>
              events[k].size_matched = Cardinality(MatchedIn(v)'),
           \A t \in TradeIds : IsTrade(events[1], t) =>
              /\ events[1].maker_orders = MakersOf(t)'
              /\ Leads(venueTrades[t].status, events[1].status)
              /\ venueTrades'[t].status = events[1].status,
           \A t \in TradeIds :
              \/ venueTrades'[t] = venueTrades[t] /\ ~IsTrade(events[1], t)
              \/ MakersOf(t)' = MakersOf(t) /\ IsTrade(events[1], t)
              \/ /\ venueTrades[t].status = "none" /\ IsTrade(events[1], t)
                 /\ \A v \in MakersOf(t)' : Received(t, v)' = "none",
           \A t \in TradeIds : \A v \in MakersOf(t) : Received(t, v)' = Received(t, v)
    PROVE  ChannelCounts' /\ StatusesLead'
<1>0. PICK n \in Nat : n = Len(channel)
  BY VenueType
<1> DEFINE m == Len(events)
           first == events[1]
           Opens(t) == IsTrade(first, t) /\ first.status = "matched"
<1>1. /\ m \in Nat /\ m > 0 /\ Len(channel') = n + m
      /\ \A i \in 1 .. n : channel'[i] = channel[i]
      /\ \A k \in 1 .. m : channel'[n + k] = events[k]
  BY <1>0, VenueType
<1>2. /\ first \in OrderEvent \cup TradeEvent /\ channel'[n + 1] = first
      /\ first.event_type \in {"order", "trade"}
      /\ first.event_type = "trade" => first \in TradeEvent
      /\ first.event_type = "order" => first \in OrderEvent
  BY <1>1 DEF OrderEvent, TradeEvent
<1>3. \A i \in n + 2 .. n + m : channel'[i].event_type = "order"
  <2> SUFFICES ASSUME NEW i \in n + 2 .. n + m PROVE channel'[i].event_type = "order"
    OBVIOUS
  <2>1. i - n \in 2 .. m /\ n + (i - n) = i
    BY <1>1
  <2> QED  BY <1>1, <2>1
<1> HIDE DEF m, first
<1>4. ASSUME NEW t, NEW i \in 1 .. n + m, IsTrade(channel'[i], t)
      PROVE  \/ i \in 1 .. n /\ IsTrade(channel[i], t)
             \/ i = n + 1 /\ IsTrade(first, t)
  <2>1. i \in 1 .. n \/ i = n + 1 \/ i \in n + 2 .. n + m
    BY <1>1
  <2> QED  BY <1>1, <1>2, <1>3, <1>4, <2>1 DEF IsTrade
<1>5. ASSUME NEW t, NEW i \in 1 .. n, IsTrade(channel[i], t)
      PROVE  /\ t \in TradeIds /\ venueTrades[t].status # "none"
             /\ MakersOf(t)' = MakersOf(t) /\ venueTrades'[t].status # "none"
  <2>1. channel[i] \in TradeEvent /\ channel[i].event_type = "trade" /\ channel[i].id = t
    BY <1>0, <1>5, EventShape DEF IsTrade
  <2>2. t \in TradeIds /\ venueTrades[t].status # "none"
    <3>1. t \in TradeIds
      BY <2>1 DEF TradeEvent
    <3> QED  BY <1>0, <1>5, <3>1 DEF ChannelCounts
  <2>3. MakersOf(t)' = MakersOf(t)
    BY <2>2 DEF MakersOf
  <2>4. venueTrades'[t].status # "none"
    <3>1. CASE venueTrades'[t] = venueTrades[t]
      BY <2>2, <3>1
    <3>2. CASE IsTrade(first, t)
      <4>1. venueTrades'[t].status = first.status /\ first \in TradeEvent
        BY <1>2, <2>2, <3>2 DEF IsTrade, first
      <4> QED  BY <4>1 DEF TradeEvent, LiveTradeStatus
    <3> QED  BY <2>2, <3>1, <3>2 DEF first
  <2> QED  BY <2>2, <2>3, <2>4
<1>6. ASSUME NEW t \in TradeIds, Opens(t)
      PROVE  /\ venueTrades[t].status = "none" /\ MakersOf(t) = {}
             /\ \A i \in 1 .. n : ~IsTrade(channel[i], t)
  <2>1. Leads(venueTrades[t].status, first.status) /\ first.status = "matched"
    BY <1>6 DEF first
  <2>2. venueTrades[t].status = "none"
    BY <2>1, LeadsFacts
  <2>3. MakersOf(t) = {}
    BY <2>2 DEF VenueCounts
  <2> QED  BY <1>5, <2>2, <2>3
<1>7. ASSUME NEW t, NEW i \in 1 .. n + 1
      PROVE  MatchToCome(t, i)' <=> MatchToCome(t, i) \/ Opens(t)
  <2>1. ASSUME MatchToCome(t, i)' PROVE MatchToCome(t, i) \/ Opens(t)
    <3>1. PICK j \in i .. n + m : IsTrade(channel'[j], t) /\ channel'[j].status = "matched"
      BY <1>1, <2>1 DEF MatchToCome
    <3>2. j \in 1 .. n + m
      BY <1>1, <3>1
    <3>3. CASE j \in 1 .. n /\ IsTrade(channel[j], t)
      <4>1. j \in i .. n /\ channel[j].status = "matched"
        BY <1>1, <3>1, <3>3
      <4> QED  BY <1>0, <3>3, <4>1 DEF MatchToCome
    <3>4. CASE j = n + 1 /\ IsTrade(first, t)
      BY <1>2, <3>1, <3>4
    <3> QED  BY <1>4, <3>1, <3>2, <3>3, <3>4
  <2>2. ASSUME MatchToCome(t, i) PROVE MatchToCome(t, i)'
    <3>1. PICK j \in i .. n : IsTrade(channel[j], t) /\ channel[j].status = "matched"
      BY <1>0, <2>2 DEF MatchToCome
    <3>2. j \in i .. n + m /\ channel'[j] = channel[j]
      BY <1>1, <3>1
    <3> QED  BY <1>1, <3>1, <3>2 DEF MatchToCome
  <2>3. ASSUME Opens(t) PROVE MatchToCome(t, i)'
    <3>1. n + 1 \in i .. n + m
      BY <1>1
    <3> QED  BY <1>1, <1>2, <2>3, <3>1 DEF MatchToCome
  <2> QED  BY <2>1, <2>2, <2>3
<1>8. ASSUME NEW t, NEW i \in n + 1 .. n + m, channel'[i].event_type = "order"
      PROVE  ~MatchToCome(t, i)'
  <2>1. \A j \in i .. n + m : channel'[j].event_type = "order"
    <3>1. \A j \in i .. n + m : j = i \/ j \in n + 2 .. n + m
      BY <1>1
    <3> QED  BY <1>3, <1>8, <3>1
  <2> QED  BY <1>1, <2>1 DEF MatchToCome, IsTrade
<1>9. ASSUME NEW t, NEW i \in Nat \ {0}, NEW j \in Int, j <= n
      PROVE  NoTradeIn(t, i, j)' <=> NoTradeIn(t, i, j)
  <2>1. \A k \in i .. j : channel'[k] = channel[k]
    BY <1>1, <1>9
  <2> QED  BY <2>1 DEF NoTradeIn
<1>10. ASSUME NEW t, NEW i \in 1 .. n + 1
       PROVE  NoTradeIn(t, i, n + m)' <=> NoTradeIn(t, i, n) /\ ~IsTrade(first, t)
  <2>1. ASSUME NoTradeIn(t, i, n + m)' PROVE NoTradeIn(t, i, n) /\ ~IsTrade(first, t)
    <3>1. n + 1 \in i .. n + m /\ \A k \in i .. n : k \in i .. n + m /\ channel'[k] = channel[k]
      BY <1>1
    <3> QED  BY <1>2, <2>1, <3>1 DEF NoTradeIn
  <2>2. ASSUME NoTradeIn(t, i, n), ~IsTrade(first, t), NEW k \in i .. n + m,
               IsTrade(channel'[k], t)
        PROVE  FALSE
    <3>1. k \in 1 .. n + m
      BY <1>1
    <3>2. k \in 1 .. n => k \in i .. n
      BY <1>1
    <3> QED  BY <1>4, <2>2, <3>1, <3>2 DEF NoTradeIn
  <2> QED  BY <2>1, <2>2 DEF NoTradeIn
<1>11. ChannelCounts'
  <2>1. ASSUME NEW t \in TradeIds, NEW i \in 1 .. n + m, IsTrade(channel'[i], t)
        PROVE  channel'[i].maker_orders = MakersOf(t)' /\ venueTrades'[t].status # "none"
    <3>2. CASE i \in 1 .. n /\ IsTrade(channel[i], t)
      <4>1. channel'[i] = channel[i] /\ channel[i].maker_orders = MakersOf(t)
        BY <1>0, <1>1, <3>2 DEF ChannelCounts
      <4>2. MakersOf(t)' = MakersOf(t) /\ venueTrades'[t].status # "none"
        BY <1>5, <3>2
      <4> QED  BY <4>1, <4>2
    <3>3. CASE i = n + 1 /\ IsTrade(first, t)
      <4>1. channel'[i] = first /\ first \in TradeEvent
        BY <1>2, <3>3 DEF IsTrade
      <4>2. first.maker_orders = MakersOf(t)' /\ venueTrades'[t].status = first.status
        BY <3>3 DEF first
      <4>3. first.status # "none"
        BY <4>1 DEF TradeEvent, LiveTradeStatus
      <4> QED  BY <4>1, <4>2, <4>3
    <3> QED  BY <1>4, <2>1, <3>2, <3>3
  <2>2. ASSUME NEW t \in TradeIds, NEW i \in 1 .. n + m, NEW j \in 1 .. n + m, i < j,
               IsTrade(channel'[i], t), IsTrade(channel'[j], t),
               channel'[j].status = "matched"
        PROVE  FALSE
    <3>2. i \in 1 .. n /\ IsTrade(channel[i], t)
      <4>1. ASSUME i = n + 1 PROVE FALSE
        <5>1. j \in n + 2 .. n + m
          BY <1>1, <2>2, <4>1
        <5> QED  BY <1>3, <2>2, <5>1 DEF IsTrade
      <4> QED  BY <1>4, <2>2, <4>1
    <3>3. CASE j \in 1 .. n /\ IsTrade(channel[j], t)
      <4>1. channel'[j] = channel[j]
        BY <1>1, <3>3
      <4> QED  BY <1>0, <2>2, <3>2, <3>3, <4>1 DEF ChannelCounts
    <3>4. CASE j = n + 1 /\ IsTrade(first, t)
      <4>1. Opens(t)
        BY <1>2, <2>2, <3>4
      <4> QED  BY <1>6, <3>2, <4>1
    <3> QED  BY <1>4, <2>2, <3>3, <3>4
  <2>3. ASSUME NEW v \in VenueIds, NEW i \in 1 .. n + m, IsOrder(channel'[i], v)
        PROVE  channel'[i].size_matched = Cardinality(ToldBefore(v, i)')
    <3>1. CASE i \in 1 .. n
      <4>1. channel'[i] = channel[i] /\ i \in 1 .. n + 1
        BY <1>1, <3>1
      <4>2. ToldBefore(v, i)' = ToldBefore(v, i)
        <5>1. ASSUME NEW t \in TradeIds
              PROVE  t \in ToldBefore(v, i)' <=> t \in ToldBefore(v, i)
          <6>1. CASE Opens(t)
            BY <1>6, <1>7, <4>1, <6>1 DEF ToldBefore, MatchedIn
          <6>2. CASE ~Opens(t)
            <7>1. MatchToCome(t, i)' <=> MatchToCome(t, i)
              BY <1>7, <4>1, <6>2
            <7>2. MakersOf(t)' = MakersOf(t)
              <8>1. CASE venueTrades'[t] = venueTrades[t]
                BY <8>1 DEF MakersOf
              <8>2. CASE venueTrades[t].status = "none" /\ IsTrade(first, t)
                <9>1. Leads("none", first.status)
                  BY <8>2 DEF first
                <9> QED  BY <6>2, <8>2, <9>1, LeadsFacts
              <8> QED  BY <8>1, <8>2 DEF first
            <7> QED  BY <7>1, <7>2 DEF ToldBefore, MatchedIn
          <6> QED  BY <6>1, <6>2
        <5> QED  BY <5>1 DEF ToldBefore, MatchedIn
      <4>3. channel[i].size_matched = Cardinality(ToldBefore(v, i))
        BY <1>0, <2>3, <3>1, <4>1 DEF ChannelCounts
      <4> QED  BY <4>1, <4>2, <4>3
    <3>2. CASE i \in n + 1 .. n + m
      <4>1. i - n \in 1 .. m /\ channel'[i] = events[i - n]
        <5>1. i - n \in 1 .. m /\ n + (i - n) = i
          BY <1>1, <3>2
        <5> QED  BY <1>1, <5>1
      <4>2. channel'[i].size_matched = Cardinality(MatchedIn(v)')
        BY <2>3, <4>1 DEF m
      <4>3. ToldBefore(v, i)' = MatchedIn(v)'
        <5>1. \A t : ~MatchToCome(t, i)'
          BY <1>8, <2>3, <3>2 DEF IsOrder
        <5> QED  BY <5>1 DEF ToldBefore
      <4> QED  BY <4>2, <4>3
    <3> QED  BY <1>1, <3>1, <3>2
  <2>4. ASSUME NEW t \in TradeIds, NEW v \in MakersOf(t)'
        PROVE  Received(t, v)' = "none" <=> MatchToCome(t, 1)'
    <3>1. MatchToCome(t, 1)' <=> MatchToCome(t, 1) \/ Opens(t)
      BY <1>1, <1>7
    <3>2. CASE MakersOf(t)' = MakersOf(t) /\ ~Opens(t)
      BY <3>1, <3>2 DEF ChannelCounts
    <3>3. CASE Opens(t)
      <4>1. MakersOf(t) = {} /\ IsTrade(first, t)
        BY <1>6, <3>3
      <4>2. Received(t, v)' = "none"
        BY <4>1 DEF first
      <4> QED  BY <3>1, <3>3, <4>2
    <3>4. CASE venueTrades[t].status = "none" /\ IsTrade(first, t)
      <4>1. Leads("none", first.status)
        BY <3>4 DEF first
      <4> QED  BY <3>3, <3>4, <4>1, LeadsFacts
    <3>5. venueTrades'[t] = venueTrades[t] => MakersOf(t)' = MakersOf(t)
      BY DEF MakersOf
    <3> QED  BY <3>2, <3>3, <3>4, <3>5 DEF first
  <2> QED
    <3>1. n + m = Len(channel')
      BY <1>1
    <3> QED  BY <3>1, <2>1, <2>2, <2>3, <2>4 DEF ChannelCounts
<1>12. StatusesLead'
  <2>1. ASSUME NEW t \in TradeIds, NEW i \in 1 .. n + m, IsTrade(channel'[i], t),
               NoTradeIn(t, 1, i - 1)', NEW v \in MakersOf(t)'
        PROVE  Leads(Received(t, v)', channel'[i].status)
    <3>1. CASE i \in 1 .. n /\ IsTrade(channel[i], t)
      <4>1. /\ channel'[i] = channel[i] /\ i - 1 \in Int /\ i - 1 <= n
            /\ 1 \in Nat \ {0}
        BY <1>1, <3>1
      <4>2. NoTradeIn(t, 1, i - 1)
        BY <1>9, <2>1, <4>1
      <4>3. v \in MakersOf(t)
        BY <1>5, <3>1
      <4>4. Leads(Received(t, v), channel[i].status)
        BY <1>0, <3>1, <4>2, <4>3 DEF StatusesLead
      <4> QED  BY <4>1, <4>3, <4>4
    <3>2. CASE i = n + 1 /\ IsTrade(first, t)
      <4>1. NoTradeIn(t, 1, n)
        <5>1. n \in Int /\ i - 1 = n /\ 1 \in Nat \ {0}
          BY <1>1, <3>2
        <5> QED  BY <1>9, <2>1, <5>1
      <4>2. channel'[i] = first /\ Leads(venueTrades[t].status, first.status)
        BY <1>2, <3>2 DEF IsTrade, first
      <4>3. Received(t, v)' = venueTrades[t].status
        <5>1. CASE v \in MakersOf(t)
          BY <1>0, <4>1, <5>1 DEF StatusesLead
        <5>2. CASE v \notin MakersOf(t)
          BY <3>2, <5>2 DEF first
        <5> QED  BY <5>1, <5>2
      <4> QED  BY <4>2, <4>3
    <3> QED  BY <1>4, <2>1, <3>1, <3>2
  <2>2. ASSUME NEW t \in TradeIds, NEW i \in 1 .. n + m, NEW j \in 1 .. n + m, i < j,
               IsTrade(channel'[i], t), IsTrade(channel'[j], t),
               NoTradeIn(t, i + 1, j - 1)'
        PROVE  Leads(channel'[i].status, channel'[j].status)
    <3>1. i \in 1 .. n /\ IsTrade(channel[i], t) /\ channel'[i] = channel[i]
      <4>1. ASSUME i = n + 1 PROVE FALSE
        <5>1. j \in n + 2 .. n + m
          BY <1>1, <2>2, <4>1
        <5> QED  BY <1>3, <2>2, <5>1 DEF IsTrade
      <4> QED  BY <1>1, <1>4, <2>2, <4>1
    <3>2. j \in 1 .. n \/ j = n + 1
      BY <1>4, <2>2
    <3>3. NoTradeIn(t, i + 1, j - 1)
      <4>1. i + 1 \in Nat \ {0} /\ j - 1 \in Int /\ j - 1 <= n
        BY <1>1, <3>1, <3>2
      <4> QED  BY <1>9, <2>2, <4>1
    <3>4. CASE j \in 1 .. n /\ IsTrade(channel[j], t)
      <4>1. channel'[j] = channel[j]
        BY <1>1, <3>4
      <4> QED  BY <1>0, <2>2, <3>1, <3>3, <3>4, <4>1 DEF StatusesLead
    <3>5. CASE j = n + 1 /\ IsTrade(first, t)
      <4>1. NoTradeIn(t, i + 1, n)
        <5>1. j - 1 = n
          BY <1>1, <3>5
        <5> QED  BY <3>3, <5>1
      <4>2. channel[i].status = venueTrades[t].status
        BY <1>0, <3>1, <4>1 DEF StatusesLead
      <4>3. channel'[j] = first /\ Leads(venueTrades[t].status, first.status)
        BY <1>2, <3>5 DEF IsTrade, first
      <4> QED  BY <3>1, <4>2, <4>3
    <3> QED  BY <1>4, <2>2, <3>4, <3>5
  <2>3. ASSUME NEW t \in TradeIds, NEW i \in 1 .. n + m, IsTrade(channel'[i], t),
               NoTradeIn(t, i + 1, n + m)'
        PROVE  channel'[i].status = venueTrades'[t].status
    <3>1. CASE i \in 1 .. n /\ IsTrade(channel[i], t)
      <4>1. i + 1 \in 1 .. n + 1 /\ channel'[i] = channel[i]
        BY <1>1, <3>1
      <4>2. NoTradeIn(t, i + 1, n) /\ ~IsTrade(first, t)
        BY <1>10, <2>3, <4>1
      <4>3. channel[i].status = venueTrades[t].status
        BY <1>0, <3>1, <4>2 DEF StatusesLead
      <4>4. venueTrades'[t] = venueTrades[t]
        BY <4>2 DEF first
      <4> QED  BY <4>1, <4>3, <4>4
    <3>2. CASE i = n + 1 /\ IsTrade(first, t)
      BY <1>2, <3>2 DEF first
    <3> QED  BY <1>4, <2>3, <3>1, <3>2
  <2>4. ASSUME NEW t \in TradeIds, NoTradeIn(t, 1, n + m)', NEW v \in MakersOf(t)'
        PROVE  Received(t, v)' = venueTrades'[t].status
    <3>1. NoTradeIn(t, 1, n) /\ ~IsTrade(first, t)
      BY <1>1, <1>10, <2>4
    <3>2. venueTrades'[t] = venueTrades[t]
      BY <3>1 DEF first
    <3>3. v \in MakersOf(t)
      BY <3>2 DEF MakersOf
    <3>4. Received(t, v) = venueTrades[t].status
      BY <1>0, <3>1, <3>3 DEF StatusesLead
    <3> QED  BY <3>2, <3>3, <3>4
  <2> QED
    <3>1. n + m = Len(channel')
      BY <1>1
    <3> QED  BY <3>1, <2>1, <2>2, <2>3, <2>4 DEF StatusesLead
<1> QED  BY <1>11, <1>12

(* The service takes the first event.                                      *)
LEMMA TakingKeepsTold ==
    ASSUME TypeInv, ChannelCounts, StatusesLead,
           channel # <<>>, channel' = Tail(channel), UNCHANGED venueTrades,
           \A t \in TradeIds : \A v \in MakersOf(t) :
              Received(t, v)' = IF IsTrade(channel[1], t) THEN channel[1].status
                                ELSE Received(t, v)
    PROVE  ChannelCounts' /\ StatusesLead'
<1>0. PICK n \in Nat : n = Len(channel')
  BY VenueType
<1>1. /\ Len(channel) = n + 1
      /\ \A i \in 1 .. n : channel'[i] = channel[i + 1] /\ i + 1 \in 1 .. n + 1
      /\ 1 \in 1 .. n + 1
  BY <1>0, VenueType
<1>2. \A t : MakersOf(t)' = MakersOf(t)
  BY DEF MakersOf
<1>3. \A v : MatchedIn(v)' = MatchedIn(v)
  BY <1>2 DEF MatchedIn
<1>4. ASSUME NEW t, NEW i \in Nat \ {0}
      PROVE  MatchToCome(t, i)' <=> MatchToCome(t, i + 1)
  <2>1. ASSUME MatchToCome(t, i)' PROVE MatchToCome(t, i + 1)
    <3>1. PICK j \in i .. n : IsTrade(channel'[j], t) /\ channel'[j].status = "matched"
      BY <1>0, <2>1 DEF MatchToCome
    <3>2. j + 1 \in i + 1 .. n + 1 /\ channel'[j] = channel[j + 1]
      BY <1>1, <3>1
    <3> QED  BY <1>1, <3>1, <3>2 DEF MatchToCome
  <2>2. ASSUME MatchToCome(t, i + 1) PROVE MatchToCome(t, i)'
    <3>1. PICK j \in i + 1 .. n + 1 : IsTrade(channel[j], t) /\ channel[j].status = "matched"
      BY <1>1, <2>2 DEF MatchToCome
    <3>2. j - 1 \in i .. n /\ j - 1 \in 1 .. n /\ (j - 1) + 1 = j
      BY <3>1
    <3>3. channel'[j - 1] = channel[j]
      BY <1>1, <3>2
    <3> QED  BY <1>0, <3>1, <3>2, <3>3 DEF MatchToCome
  <2> QED  BY <2>1, <2>2
<1>5. ASSUME NEW t, NEW i \in Nat \ {0}, NEW j \in Int, j <= n
      PROVE  NoTradeIn(t, i, j)' <=> NoTradeIn(t, i + 1, j + 1)
  <2>1. ASSUME NoTradeIn(t, i, j)', NEW k \in i + 1 .. j + 1
        PROVE  ~IsTrade(channel[k], t)
    <3>1. k - 1 \in i .. j /\ k - 1 \in 1 .. n /\ (k - 1) + 1 = k
      BY <1>5
    <3>2. channel'[k - 1] = channel[k]
      BY <1>1, <3>1
    <3> QED  BY <2>1, <3>1, <3>2 DEF NoTradeIn
  <2>2. ASSUME NoTradeIn(t, i + 1, j + 1), NEW k \in i .. j
        PROVE  ~IsTrade(channel'[k], t)
    <3>1. k + 1 \in i + 1 .. j + 1 /\ k \in 1 .. n
      BY <1>5
    <3> QED  BY <1>1, <2>2, <3>1 DEF NoTradeIn
  <2> QED  BY <2>1, <2>2 DEF NoTradeIn
<1>6. \A v : \A i \in Nat \ {0} : ToldBefore(v, i)' = ToldBefore(v, i + 1)
  BY <1>3, <1>4 DEF ToldBefore
<1>7. ASSUME NEW t, NEW j \in Int
      PROVE  NoTradeIn(t, 1, j) <=> NoTradeIn(t, 2, j) /\ (1 <= j => ~IsTrade(channel[1], t))
  <2>1. \A k \in Int : k \in 1 .. j <=> k \in 2 .. j \/ (k = 1 /\ 1 <= j)
    OBVIOUS
  <2> QED  BY <2>1 DEF NoTradeIn
<1>8. ChannelCounts'
  <2>1. ASSUME NEW t \in TradeIds, NEW i \in 1 .. n, IsTrade(channel'[i], t)
        PROVE  channel'[i].maker_orders = MakersOf(t) /\ venueTrades[t].status # "none"
    BY <1>1, <2>1 DEF ChannelCounts
  <2>2. ASSUME NEW t \in TradeIds, NEW i \in 1 .. n, NEW j \in 1 .. n, i < j,
               IsTrade(channel'[i], t), IsTrade(channel'[j], t)
        PROVE  channel'[j].status # "matched"
    <3>1. i + 1 < j + 1
      BY <2>2
    <3> QED  BY <1>1, <2>2, <3>1 DEF ChannelCounts
  <2>3. ASSUME NEW v \in VenueIds, NEW i \in 1 .. n, IsOrder(channel'[i], v)
        PROVE  channel'[i].size_matched = Cardinality(ToldBefore(v, i)')
    <3>1. channel[i + 1].size_matched = Cardinality(ToldBefore(v, i + 1))
      BY <1>1, <2>3 DEF ChannelCounts
    <3>2. ToldBefore(v, i)' = ToldBefore(v, i + 1)
      BY <1>6
    <3> QED  BY <1>1, <3>1, <3>2
  <2>4. ASSUME NEW t \in TradeIds, NEW v \in MakersOf(t)
        PROVE  Received(t, v)' = "none" <=> MatchToCome(t, 1)'
    <3>1. MatchToCome(t, 1)' <=> MatchToCome(t, 2)
      <4>1. 1 \in Nat \ {0} /\ 1 + 1 = 2
        OBVIOUS
      <4> QED  BY <1>4, <4>1
    <3>2. MatchToCome(t, 1) <=>
            MatchToCome(t, 2) \/ (IsTrade(channel[1], t) /\ channel[1].status = "matched")
      <4>1. \A j \in Int : j \in 1 .. n + 1 <=> j = 1 \/ j \in 2 .. n + 1
        OBVIOUS
      <4> QED  BY <1>1, <4>1 DEF MatchToCome
    <3>3. CASE IsTrade(channel[1], t)
      <4>1. channel[1].status # "none"
        BY <1>1, <3>3, EventShape DEF IsTrade, TradeEvent, LiveTradeStatus
      <4>2. ~MatchToCome(t, 2)
        <5>1. \A j \in 2 .. n + 1 : j \in 1 .. n + 1 /\ 1 < j
          OBVIOUS
        <5> QED  BY <1>1, <3>3, <5>1 DEF MatchToCome, ChannelCounts
      <4> QED  BY <3>1, <3>3, <4>1, <4>2
    <3>4. CASE ~IsTrade(channel[1], t)
      BY <3>1, <3>2, <3>4 DEF ChannelCounts
    <3> QED  BY <3>3, <3>4
  <2> QED  BY <1>0, <1>2, <2>1, <2>2, <2>3, <2>4 DEF ChannelCounts
<1>9. StatusesLead'
  <2>1. ASSUME NEW t \in TradeIds, NEW i \in 1 .. n, IsTrade(channel'[i], t),
               NoTradeIn(t, 1, i - 1)', NEW v \in MakersOf(t)
        PROVE  Leads(Received(t, v)', channel'[i].status)
    <3>1. NoTradeIn(t, 2, i)
      <4>1. 1 \in Nat \ {0} /\ i - 1 \in Int /\ i - 1 <= n /\ 1 + 1 = 2 /\ (i - 1) + 1 = i
        OBVIOUS
      <4> QED  BY <1>5, <2>1, <4>1
    <3>2. channel'[i] = channel[i + 1] /\ i + 1 \in 1 .. n + 1 /\ IsTrade(channel[i + 1], t)
      BY <1>1, <2>1
    <3>3. CASE IsTrade(channel[1], t)
      <4>1. 1 < i + 1 /\ 1 + 1 = 2 /\ (i + 1) - 1 = i
        OBVIOUS
      <4>2. NoTradeIn(t, 1 + 1, (i + 1) - 1)
        BY <3>1, <4>1
      <4>3. Leads(channel[1].status, channel[i + 1].status)
        BY <1>1, <3>2, <3>3, <4>1, <4>2 DEF StatusesLead
      <4> QED  BY <3>2, <3>3, <4>3
    <3>4. CASE ~IsTrade(channel[1], t)
      <4>1. NoTradeIn(t, 1, i) /\ (i + 1) - 1 = i
        BY <1>7, <3>1, <3>4
      <4>2. NoTradeIn(t, 1, (i + 1) - 1)
        BY <4>1
      <4>3. Leads(Received(t, v), channel[i + 1].status)
        BY <1>1, <3>2, <4>2 DEF StatusesLead
      <4> QED  BY <3>2, <3>4, <4>3
    <3> QED  BY <3>3, <3>4
  <2>2. ASSUME NEW t \in TradeIds, NEW i \in 1 .. n, NEW j \in 1 .. n, i < j,
               IsTrade(channel'[i], t), IsTrade(channel'[j], t),
               NoTradeIn(t, i + 1, j - 1)'
        PROVE  Leads(channel'[i].status, channel'[j].status)
    <3>1. NoTradeIn(t, (i + 1) + 1, (j + 1) - 1)
      <4>1. i + 1 \in Nat \ {0} /\ j - 1 \in Int /\ j - 1 <= n /\ (j - 1) + 1 = (j + 1) - 1
        OBVIOUS
      <4>2. NoTradeIn(t, (i + 1) + 1, (j - 1) + 1)
        BY <1>5, <2>2, <4>1
      <4> QED  BY <4>1, <4>2
    <3>2. i + 1 < j + 1
      BY <2>2
    <3> QED  BY <1>1, <2>2, <3>1, <3>2 DEF StatusesLead
  <2>3. ASSUME NEW t \in TradeIds, NEW i \in 1 .. n, IsTrade(channel'[i], t),
               NoTradeIn(t, i + 1, n)'
        PROVE  channel'[i].status = venueTrades[t].status
    <3>1. NoTradeIn(t, (i + 1) + 1, n + 1)
      <4>1. i + 1 \in Nat \ {0} /\ n \in Int /\ n <= n
        OBVIOUS
      <4> QED  BY <1>5, <2>3, <4>1
    <3> QED  BY <1>1, <2>3, <3>1 DEF StatusesLead
  <2>4. ASSUME NEW t \in TradeIds, NoTradeIn(t, 1, n)', NEW v \in MakersOf(t)
        PROVE  Received(t, v)' = venueTrades[t].status
    <3>1. NoTradeIn(t, 2, n + 1)
      <4>1. 1 \in Nat \ {0} /\ n \in Int /\ n <= n /\ 1 + 1 = 2
        OBVIOUS
      <4> QED  BY <1>5, <2>4, <4>1
    <3>2. CASE IsTrade(channel[1], t)
      <4>1. NoTradeIn(t, 1 + 1, n + 1)
        BY <3>1
      <4> QED  BY <1>1, <3>2, <4>1 DEF StatusesLead
    <3>3. CASE ~IsTrade(channel[1], t)
      <4>1. NoTradeIn(t, 1, n + 1)
        BY <1>7, <3>1, <3>3
      <4> QED  BY <1>1, <3>3, <4>1 DEF StatusesLead
    <3> QED  BY <3>2, <3>3
  <2> QED  BY <1>0, <1>2, <2>1, <2>2, <2>3, <2>4 DEF StatusesLead
<1> QED  BY <1>8, <1>9

(* Nothing is answered to a POST: the call in progress is not a POST that  *)
(* the venue has accepted.                                                 *)
NoAnswer == ~(task.step = "posting" /\ task.answer = "accepted")

(* A step that counts nothing and gives no order a venue id.               *)
LEMMA QuietCounts ==
    ASSUME FillsInv,
           UNCHANGED <<up, raised, trades, clientOrderByVenue, progress, venueOrders,
                       venueTrades, nextVenueId>>,
           \A c \in ClientIds : /\ orders'[c].matched_size = orders[c].matched_size
                                /\ orders'[c].venue_order_id = orders[c].venue_order_id
                                /\ orders'[c].status # "unknown",
           task' = task \/ (NoAnswer /\ NoAnswer'),
           \A c \in posts' : (Posting(c) /\ task.answer = "none")'
    PROVE  Untroubled' /\ OrdersKnown' /\ VenueCounts' /\ ServiceCounts'
<1>1. /\ \A v : OwnerOf(v)' = OwnerOf(v)
      /\ \A t : MakersOf(t)' = MakersOf(t)
      /\ \A c : CountedFor(c)' = CountedFor(c)
      /\ \A v : MatchedIn(v)' = MatchedIn(v)
  BY DEF OwnerOf, MakersOf, CountedFor, MatchedIn
<1>2. Untroubled'
  BY DEF FillsInv, Untroubled
<1>3. OrdersKnown'
  <2>1. ASSUME NEW v \in VenueIds, OwnerOf(v) \in ClientIds
        PROVE  Acknowledged(v)' \/ Awaited(v)'
    <3>1. Acknowledged(v) \/ Awaited(v)
      BY <2>1 DEF FillsInv, OrdersKnown
    <3>2. Acknowledged(v) => Acknowledged(v)'
      BY <1>1, <2>1 DEF Acknowledged
    <3>3. Awaited(v) => Awaited(v)'
      BY <1>1 DEF Awaited, NoAnswer
    <3> QED  BY <3>1, <3>2, <3>3
  <2> QED  BY <1>1, <2>1 DEF OrdersKnown
<1>4. VenueCounts'
  BY <1>1 DEF FillsInv, VenueCounts
<1>5. ServiceCounts'
  BY <1>1 DEF FillsInv, ServiceCounts, NoAnswer
<1> QED  BY <1>2, <1>3, <1>4, <1>5

LEMMA QuietFills ==
    ASSUME FillsInv,
           UNCHANGED <<up, raised, trades, clientOrderByVenue, progress, venueOrders,
                       venueTrades, nextVenueId, channel>>,
           \A c \in ClientIds : /\ orders'[c].matched_size = orders[c].matched_size
                                /\ orders'[c].venue_order_id = orders[c].venue_order_id
                                /\ orders'[c].status # "unknown",
           \/ task' = task
           \/ /\ task.step # "trade" /\ task'.step # "trade"
              /\ NoAnswer /\ NoAnswer',
           \A c \in posts' : (Posting(c) /\ task.answer = "none")'
    PROVE  FillsInv'
<1>1. /\ \A v : OwnerOf(v)' = OwnerOf(v)
      /\ \A t : MakersOf(t)' = MakersOf(t)
  BY DEF OwnerOf, MakersOf
<1>2. HandFits'
  BY <1>1 DEF FillsInv, HandFits
<1>3. ChannelCounts' /\ StatusesLead'
  <2>1. \A t, v : Received(t, v)' = Received(t, v)
    BY <1>1 DEF Received, InHand
  <2> QED  BY <2>1, SameTold DEF FillsInv
<1>4. Untroubled' /\ OrdersKnown' /\ VenueCounts' /\ ServiceCounts'
  BY QuietCounts
<1> QED  BY <1>2, <1>3, <1>4 DEF FillsInv

(* The snapshot of an order that keeps its size and its venue id.          *)
LEMMA WrittenQuietly ==
    ASSUME TypeInv, Untroubled, NEW c \in ClientIds, NEW order,
           orders' = [orders EXCEPT ![c] = order],
           order.matched_size = orders[c].matched_size,
           order.venue_order_id = orders[c].venue_order_id,
           order.status # "unknown"
    PROVE  \A d \in ClientIds : /\ orders'[d].matched_size = orders[d].matched_size
                                /\ orders'[d].venue_order_id = orders[d].venue_order_id
                                /\ orders'[d].status # "unknown"
<1>1. \A d \in ClientIds : orders'[d] = IF d = c THEN order ELSE orders[d]
  BY WalType
<1> QED  BY <1>1 DEF Untroubled

LEMMA MovedKeeps ==
    ASSUME TypeInv, NEW c \in ClientIds, NEW status \in LiveOrderStatus
    PROVE  /\ Moved(orders[c], status).matched_size = orders[c].matched_size
           /\ Moved(orders[c], status).venue_order_id = orders[c].venue_order_id
           /\ Moved(orders[c], status).status = status
  BY WalType DEF Moved, Snapshots, LiveOrder

LEMMA SubmittingFills ==
    ASSUME TypeInv, RestartInv, VenueInv, Reliable, FillsInv, Submitting
    PROVE  FillsInv'
<1> USE DEF venueVars, history, wire
<1>1. PICK c \in ClientIds :
        \/ SubmitDecision(c) \/ SubmitWithheld(c)
        \/ SubmitToGateway(c) \/ SubmitAcknowledged(c) \/ SubmitRejected(c)
        \/ SubmitUnknown(c)
  BY DEF Submitting
<1>2. ~SubmitUnknown(c)
  BY DEF SubmitUnknown, Reliable, Blocks
<1>3. /\ UNCHANGED <<up, raised, trades, venueOrders, venueTrades, nextVenueId, channel>>
      /\ task.step # "trade" /\ task'.step # "trade"
  BY <1>1, <1>2 DEF SubmitDecision, SubmitWithheld, SubmitToGateway, SubmitAcknowledged,
     SubmitRejected, Ready, Deciding, Posting, Idle
<1>4. Untroubled /\ \A d \in posts : Posting(d) /\ task.answer = "none"
  BY DEF FillsInv, OrdersKnown
<1>5. {"created", "rejected", "submitted"} \subseteq LiveOrderStatus
  BY DEF LiveOrderStatus
<1>6. ASSUME SubmitDecision(c) \/ SubmitWithheld(c) \/ SubmitRejected(c)
      PROVE  FillsInv'
  <2>1. /\ UNCHANGED <<clientOrderByVenue, progress, posts>> /\ NoAnswer /\ NoAnswer'
        /\ task'.step # "posting"
        /\ task.step = "posting" => task.answer # "none"
    BY <1>6 DEF SubmitDecision, SubmitWithheld, SubmitRejected, Ready, Deciding, Posting,
                Idle, NoAnswer
  <2>2. posts' = {}
    BY <1>4, <2>1 DEF Posting
  <2>3. PICK order \in {orders[c], Moved(orders[c], "created"), Moved(orders[c], "rejected")} :
           StoreAndLog(c, order)
    BY <1>6 DEF SubmitDecision, SubmitWithheld, SubmitRejected
  <2>4. /\ order.matched_size = orders[c].matched_size
        /\ order.venue_order_id = orders[c].venue_order_id
        /\ order.status # "unknown"
    BY <1>4, <1>5, <2>3, MovedKeeps DEF Untroubled
  <2>5. orders' = [orders EXCEPT ![c] = order]
    BY <2>3 DEF StoreAndLog
  <2> QED  BY <1>3, <1>4, <2>1, <2>2, <2>4, <2>5, WrittenQuietly, QuietFills
<1>7. CASE SubmitToGateway(c)
  <2>1. /\ UNCHANGED <<clientOrderByVenue, progress>> /\ NoAnswer /\ NoAnswer'
        /\ task.step # "posting" /\ posts' = posts \cup {c}
        /\ task' = [step |-> "posting", client |-> c, answer |-> "none",
                    venue |-> NoVenueId]
        /\ orders' = [orders EXCEPT ![c] = Moved(@, "submitted")]
    BY <1>7 DEF SubmitToGateway, Deciding, NoAnswer
  <2>2. \A d \in posts' : (Posting(d) /\ task.answer = "none")'
    BY <1>4, <2>1 DEF Posting
  <2>3. orders' = [orders EXCEPT ![c] = Moved(orders[c], "submitted")]
    BY <2>1
  <2> QED  BY <1>3, <1>4, <1>5, <2>1, <2>2, <2>3, MovedKeeps, WrittenQuietly, QuietFills
<1>8. CASE SubmitAcknowledged(c)
  <2> DEFINE v == task.venue
             order == [orders[c] EXCEPT !.status = "live", !.venue_order_id = v]
  <2>1. /\ task.step = "posting" /\ task.client = c /\ task.answer = "accepted"
        /\ task'.step # "posting" /\ UNCHANGED posts
        /\ orders' = [orders EXCEPT ![c] = order]
        /\ clientOrderByVenue' = [clientOrderByVenue EXCEPT ![v] = c]
        /\ progress' = [progress EXCEPT !.submitted_orders = @ + 1]
    BY <1>8 DEF SubmitAcknowledged, Posting, StoreAndLog, Idle
  <2>2. v \in VenueIds /\ OwnerOf(v) = c
    BY <2>1 DEF RestartInv, IndexFits, OwnerOf
  <2>3. order.matched_size = orders[c].matched_size /\ order.venue_order_id = v
        /\ order.status = "live"
    BY WalType DEF Snapshots, LiveOrder
  <2> HIDE DEF v, order
  <2>4. \A d \in ClientIds : orders'[d] = IF d = c THEN order ELSE orders[d]
    BY <2>1, WalType
  <2>5. \A w \in VenueIds : clientOrderByVenue'[w] = IF w = v THEN c ELSE clientOrderByVenue[w]
    BY <2>1, <2>2, IndexType
  <2>6. /\ \A w : OwnerOf(w)' = OwnerOf(w)
        /\ \A t : MakersOf(t)' = MakersOf(t)
        /\ \A d : CountedFor(d)' = CountedFor(d)
        /\ \A w : MatchedIn(w)' = MatchedIn(w)
    BY <1>3 DEF OwnerOf, MakersOf, CountedFor, MatchedIn
  <2>7. Untroubled'
    BY <1>3, <2>3, <2>4 DEF FillsInv, Untroubled
  <2>8. OrdersKnown'
    <3>1. ASSUME NEW w \in VenueIds, OwnerOf(w) \in ClientIds PROVE Acknowledged(w)'
      <4>1. CASE w = v
        BY <2>2, <2>3, <2>4, <2>5, <2>6, <3>1, <4>1 DEF Acknowledged
      <4>2. CASE w # v
        <5>1. OwnerOf(w) # c
          BY <2>2, <3>1, <4>2 DEF VenueInv, OneOrderEach, OwnerOf
        <5>2. Acknowledged(w)
          BY <2>1, <3>1, <5>1 DEF FillsInv, OrdersKnown, Awaited
        <5> QED  BY <2>4, <2>5, <2>6, <3>1, <4>2, <5>1, <5>2 DEF Acknowledged
      <4> QED  BY <4>1, <4>2
    <3>2. posts' = {}
      BY <1>4, <2>1
    <3> QED  BY <2>6, <3>1, <3>2 DEF OrdersKnown
  <2>9. VenueCounts'
    BY <1>3, <2>6 DEF FillsInv, VenueCounts
  <2>10. ServiceCounts'
    <3>1. progress.submitted_orders + 1 < nextVenueId
      BY <2>1 DEF FillsInv, ServiceCounts
    <3>2. /\ progress'.submitted_orders = progress.submitted_orders + 1
          /\ progress'.fills = progress.fills
      BY <2>1 DEF TypeInv, TypeOK
    <3>3. \A d \in ClientIds : orders'[d].matched_size = orders[d].matched_size
      BY <2>3, <2>4
    <3> QED  BY <1>3, <2>1, <2>6, <3>1, <3>2, <3>3 DEF FillsInv, ServiceCounts
  <2>11. HandFits'
    BY <1>3 DEF HandFits
  <2>12. ChannelCounts' /\ StatusesLead'
    <3>1. \A t, w : Received(t, w)' = Received(t, w)
      BY <1>3, <2>6 DEF Received, InHand
    <3> QED  BY <1>3, <3>1, SameTold DEF FillsInv
  <2> QED  BY <2>7, <2>8, <2>9, <2>10, <2>11, <2>12 DEF FillsInv
<1> QED  BY <1>1, <1>2, <1>6, <1>7, <1>8

LEMMA CancelingFills ==
    ASSUME TypeInv, Reliable, FillsInv, Canceling
    PROVE  FillsInv'
<1> USE DEF venueVars, history, wire, memory
<1>1. Untroubled /\ \A d \in posts : Posting(d) /\ task.answer = "none"
  BY DEF FillsInv, OrdersKnown
<1>2. ASSUME UNCHANGED <<memory, up, raised, posts, venueVars>>, task.step # "posting",
             task.step # "trade", task'.step # "trade", task'.step # "posting"
      PROVE  FillsInv'
  <2>1. posts' = {} /\ NoAnswer /\ NoAnswer'
    BY <1>1, <1>2 DEF NoAnswer, Posting
  <2> QED  BY <1>1, <1>2, <2>1, QuietFills DEF Untroubled
<1>3. ASSUME NEW c \in ClientIds, RequestCancel(c)
      PROVE  FillsInv'
  <2>1. /\ UNCHANGED <<up, raised, trades, clientOrderByVenue, progress, posts, venueVars>>
        /\ task.step \notin {"posting", "trade"} /\ task'.step \notin {"posting", "trade"}
        /\ orders' = [orders EXCEPT ![c] = Moved(orders[c], "cancel_requested")]
    BY <1>3 DEF RequestCancel, StoreAndLog, Ready, Idle
  <2>2. posts' = {} /\ NoAnswer /\ NoAnswer'
    BY <1>1, <2>1 DEF NoAnswer, Posting
  <2>3. "cancel_requested" \in LiveOrderStatus
    BY DEF LiveOrderStatus
  <2> QED  BY <1>1, <2>1, <2>2, <2>3, MovedKeeps, WrittenQuietly, QuietFills
<1>4. ASSUME NEW c \in ClientIds, SendCancel(c) PROVE FillsInv'
  BY <1>2, <1>4 DEF SendCancel
<1>5. ASSUME NEW c \in ClientIds, CancelReturned(c) PROVE FillsInv'
  BY <1>2, <1>5 DEF CancelReturned, Idle
<1>6. ASSUME NEW c \in ClientIds PROVE ~CancelUnknown(c)
  BY DEF CancelUnknown, Reliable, Blocks
<1>7. CASE CancelAll
  BY <1>2, <1>7 DEF CancelAll, Ready, Idle
<1> QED  BY <1>3, <1>4, <1>5, <1>6, <1>7 DEF Canceling

LEMMA StoppingFills ==
    ASSUME TypeInv, FillsInv, Stopping
    PROVE  FillsInv'
<1> USE DEF venueVars, history, wire
<1>1. Untroubled /\ \A d \in posts : Posting(d) /\ task.answer = "none"
  BY DEF FillsInv, OrdersKnown
<1>2. /\ UNCHANGED <<up, raised, orders, trades, clientOrderByVenue, progress, posts,
                     venueVars>>
      /\ task.step \notin {"posting", "trade"} /\ task'.step \notin {"posting", "trade"}
  BY DEF Stopping, EmergencyStop, Freeze, StopCancelsOrders, RecordHeartbeat,
         EnforceTimeout, EnforceTimeoutWhenHalted, Ready, Idle
<1>3. posts' = {} /\ NoAnswer /\ NoAnswer'
  BY <1>1, <1>2 DEF NoAnswer, Posting
<1> QED  BY <1>1, <1>2, <1>3, QuietFills DEF Untroubled

LEMMA TradeSets ==
    ASSUME NEW S \in SUBSET TradeIds
    PROVE  IsFiniteSet(S) /\ Cardinality(S) \in Nat
  BY ConstantsAssumption, FS_Subset, FS_CardinalityType

(* A trade that is counted for an order is one of its trades.              *)
LEMMA CountedIsMatched ==
    ASSUME TypeInv, VenueInv, FillsInv, NEW v \in VenueIds, OwnerOf(v) \in ClientIds
    PROVE  CountedFor(OwnerOf(v)) \subseteq MatchedIn(v)
<1> SUFFICES ASSUME NEW t \in CountedFor(OwnerOf(v)) PROVE t \in MatchedIn(v)
  OBVIOUS
<1>1. t \in TradeIds
  BY DEF CountedFor
<1>2. PICK w \in MakersOf(t) : OwnerOf(w) = OwnerOf(v)
  BY DEF FillsInv, ServiceCounts
<1>3. w \in VenueIds
  BY <1>1, <1>2 DEF MakersOf, TypeInv, TypeOK
<1>4. w = v
  BY <1>2, <1>3 DEF VenueInv, OneOrderEach, OwnerOf
<1> QED  BY <1>1, <1>2, <1>4 DEF MatchedIn

(* Between two events, what is counted is what the channel has told.       *)
LEMMA CountedIsTold ==
    ASSUME TypeInv, VenueInv, FillsInv, task.step # "trade",
           NEW v \in VenueIds, OwnerOf(v) \in ClientIds
    PROVE  CountedFor(OwnerOf(v)) = ToldBefore(v, 1)
<1>1. ASSUME NEW t \in MatchedIn(v)
      PROVE  trades[<<t, OwnerOf(v)>>] = "none" <=> MatchToCome(t, 1)
  <2>1. t \in TradeIds /\ v \in MakersOf(t)
    BY DEF MatchedIn
  <2>2. Received(t, v) = trades[<<t, OwnerOf(v)>>]
    BY DEF Received, InHand
  <2> QED  BY <2>1, <2>2 DEF FillsInv, ChannelCounts
<1>2. MatchedIn(v) \subseteq TradeIds
  BY DEF MatchedIn
<1> QED  BY <1>1, <1>2, CountedIsMatched DEF CountedFor, ToldBefore

LEMMA OrderEventFills ==
    ASSUME TypeInv, StopIsKnown, RestartInv, VenueInv, FillsInv,
           OrderEventIgnored \/ OrderEventRaises \/ OrderEventApplied
    PROVE  FillsInv'
<1> USE DEF venueVars, history, wire
<1>1. /\ Receives("order") /\ channel # <<>> /\ channel' = Tail(channel)
      /\ task = Idle /\ task' = task
      /\ UNCHANGED <<up, trades, clientOrderByVenue, progress, venueOrders, venueTrades,
                     nextVenueId, posts>>
  BY DEF OrderEventIgnored, OrderEventRaises, OrderEventApplied, Receives, Ready, memory, Releases
<1>2. task.step = "idle" /\ NoAnswer
  BY <1>1 DEF Idle, NoAnswer
<1>3. posts' = {}
  BY <1>1, <1>2 DEF FillsInv, OrdersKnown, Posting
<1> DEFINE event == Head(channel)
           v == event.id
           c == clientOrderByVenue[v]
<1>4. event = channel[1] /\ event \in OrderEvent /\ IsOrder(event, v) /\ 1 \in 1 .. Len(channel)
  <2>1. event = channel[1] /\ 1 \in 1 .. Len(channel) /\ event.event_type = "order"
    BY <1>1, VenueType DEF Receives
  <2> QED  BY <2>1, EventShape DEF IsOrder
<1>5. v \in VenueIds /\ c \in ClientIds \cup {NoClient}
  BY <1>4, IndexType DEF OrderEvent
<1>6. c = ClientOf(event)
  BY DEF ClientOf
<1> HIDE DEF event, v, c
<1>7. ASSUME c # NoClient
      PROVE  /\ c \in ClientIds /\ event.size_matched = orders[c].matched_size
             /\ CumulativeFits(event, c)
  <2>1. c \in ClientIds /\ OwnerOf(v) = c
    BY <1>5, <1>7 DEF RestartInv, IndexFits, Known, OwnerOf, c
  <2>2. event.size_matched = Cardinality(ToldBefore(v, 1))
    BY <1>4, <1>5 DEF FillsInv, ChannelCounts
  <2>3. event.size_matched = orders[c].matched_size
    BY <1>2, <1>5, <2>1, <2>2, CountedIsTold DEF FillsInv, ServiceCounts
  <2>4. ToldBefore(v, 1) \subseteq MatchedIn(v) /\ MatchedIn(v) \in SUBSET TradeIds
    BY DEF ToldBefore, MatchedIn
  <2>5. Cardinality(ToldBefore(v, 1)) <= Cardinality(MatchedIn(v))
    BY <2>4, TradeSets, FS_Subset
  <2>6. Cardinality(MatchedIn(v)) <= SizeOf[c]
    BY <1>5, <2>1 DEF FillsInv, VenueCounts
  <2>7. /\ Cardinality(ToldBefore(v, 1)) \in Nat /\ Cardinality(MatchedIn(v)) \in Nat
        /\ SizeOf[c] \in Nat
    BY <2>1, <2>4, TradeSets, ConstantsAssumption
  <2>8. event.size_matched <= SizeOf[c]
    BY <2>2, <2>5, <2>6, <2>7
  <2>9. orders[c].matched_size <= event.size_matched
    BY <2>2, <2>3, <2>7
  <2> QED  BY <2>1, <2>3, <2>8, <2>9 DEF CumulativeFits
<1>8. /\ raised' = raised
      /\ \A d \in ClientIds : /\ orders'[d].matched_size = orders[d].matched_size
                              /\ orders'[d].venue_order_id = orders[d].venue_order_id
                              /\ orders'[d].status # "unknown"
  <2>1. Untroubled
    BY DEF FillsInv
  <2>2. CASE OrderEventIgnored
    BY <2>1, <2>2 DEF OrderEventIgnored, Untroubled, memory
  <2>3. CASE OrderEventRaises
    BY <1>6, <1>7, <2>3 DEF OrderEventRaises, event
  <2>4. CASE OrderEventApplied
    <3> DEFINE status == StatusAfter(event, orders[c].status)
               order == [orders[c] EXCEPT !.status = status,
                                          !.matched_size = event.size_matched]
    <3>1. c # NoClient /\ orders' = [orders EXCEPT ![c] = order] /\ raised' = raised
      BY <1>6, <2>4 DEF OrderEventApplied, StoreAndLog, event, Releases
    <3>2. c \in ClientIds /\ event.size_matched = orders[c].matched_size
      BY <1>7, <3>1
    <3>3. status # "unknown"
      BY <2>1, <3>2 DEF StatusAfter, Untroubled
    <3>4. /\ order.matched_size = event.size_matched /\ order.status = status
          /\ order.venue_order_id = orders[c].venue_order_id
      <4> HIDE DEF status
      <4>1. orders[c] \in Snapshots
        BY <3>2, WalType
      <4> QED  BY <4>1 DEF Snapshots, LiveOrder
    <3> HIDE DEF order, status
    <3> QED  BY <2>1, <3>1, <3>2, <3>3, <3>4, WrittenQuietly
  <2> QED  BY <2>2, <2>3, <2>4
<1>9. Untroubled' /\ OrdersKnown' /\ VenueCounts' /\ ServiceCounts'
  BY <1>1, <1>3, <1>8, QuietCounts
<1>10. HandFits'
  BY <1>1, <1>2 DEF HandFits
<1>11. ChannelCounts' /\ StatusesLead'
  <2>1. \A t \in TradeIds : ~IsTrade(channel[1], t)
    BY <1>4 DEF IsTrade, IsOrder
  <2>2. \A t, w : Received(t, w)' = Received(t, w)
    BY <1>1 DEF Received, InHand, OwnerOf
  <2> QED  BY <1>1, <2>1, <2>2, TakingKeepsTold DEF FillsInv
<1> QED  BY <1>9, <1>10, <1>11 DEF FillsInv

LEMMA TradeTakenFills ==
    ASSUME TypeInv, FillsInv, TradeEventReceived
    PROVE  FillsInv'
<1> USE DEF venueVars, history, wire, memory
<1> DEFINE event == Head(channel)
           t == event.id
<1>1. /\ channel # <<>> /\ channel' = Tail(channel) /\ task.step = "idle"
      /\ task' = [step |-> "trade", event |-> event, rest |-> event.maker_orders]
      /\ UNCHANGED <<up, raised, orders, trades, clientOrderByVenue, progress, venueOrders,
                     venueTrades, nextVenueId, posts>>
      /\ event.event_type = "trade"
  BY DEF TradeEventReceived, Receives, Ready, Idle
<1>2. event = channel[1] /\ event \in TradeEvent /\ 1 \in 1 .. Len(channel)
      /\ IsTrade(event, t) /\ t \in TradeIds
  <2>1. event = channel[1] /\ 1 \in 1 .. Len(channel)
    BY <1>1, VenueType
  <2>2. event \in TradeEvent
    BY <1>1, <2>1, EventShape
  <2> QED  BY <1>1, <2>1, <2>2 DEF IsTrade, TradeEvent
<1> HIDE DEF event, t
<1>3. event.maker_orders = MakersOf(t)
  BY <1>2 DEF FillsInv, ChannelCounts
<1>4. /\ task'.step = "trade" /\ task'.event = event /\ task'.rest = MakersOf(t)
      /\ event.id = t
  BY <1>1, <1>3 DEF t
<1>5. /\ \A v : OwnerOf(v)' = OwnerOf(v)
      /\ \A s : MakersOf(s)' = MakersOf(s)
  BY <1>1 DEF OwnerOf, MakersOf
<1>6. Untroubled' /\ OrdersKnown' /\ VenueCounts' /\ ServiceCounts'
  <2>1. NoAnswer /\ NoAnswer' /\ posts' = {}
    BY <1>1, <1>4 DEF NoAnswer, FillsInv, OrdersKnown, Posting
  <2>2. Untroubled
    BY DEF FillsInv
  <2> QED  BY <1>1, <2>1, <2>2, QuietCounts DEF Untroubled
<1>7. HandFits'
  <2>1. ASSUME NEW v \in MakersOf(t) PROVE Leads(trades[<<t, OwnerOf(v)>>], event.status)
    <3>1. NoTradeIn(t, 1, 1 - 1)
      BY DEF NoTradeIn
    <3>2. Received(t, v) = trades[<<t, OwnerOf(v)>>]
      BY <1>1 DEF Received, InHand
    <3> QED  BY <1>2, <3>1, <3>2 DEF FillsInv, StatusesLead
  <2> QED  BY <1>1, <1>4, <1>5, <2>1 DEF HandFits
<1>8. ChannelCounts' /\ StatusesLead'
  <2>1. ASSUME NEW s \in TradeIds, NEW v \in MakersOf(s)
        PROVE  Received(s, v)' = IF IsTrade(channel[1], s) THEN channel[1].status
                                 ELSE Received(s, v)
    <3>1. IsTrade(channel[1], s) <=> s = t
      BY <1>2 DEF IsTrade
    <3> QED  BY <1>1, <1>2, <1>4, <1>5, <3>1 DEF Received, InHand
  <2> QED  BY <1>1, <2>1, TakingKeepsTold DEF FillsInv
<1> QED  BY <1>6, <1>7, <1>8 DEF FillsInv

(* The maker order the loop looks at.                                      *)
LEMMA MakerInHand ==
    ASSUME TypeInv, VenueInv, FillsInv, NEW v \in VenueIds, Reconciling(v)
    PROVE  LET t == task.event.id
               c == clientOrderByVenue[v]
           IN  /\ t \in TradeIds /\ v \in MakersOf(t) /\ InHand(t, v)
               /\ c \in ClientIds /\ c = OwnerOf(v)
               /\ Leads(trades[<<t, c>>], task.event.status)
               /\ trades[<<t, c>>] = "none" => MatchFits(orders[c], SizeOf[c], 1)
<1> DEFINE t == task.event.id
           c == clientOrderByVenue[v]
<1>1. task.step = "trade" /\ v \in task.rest /\ InHand(t, v) /\ t \in TradeIds
  BY DEF Reconciling, InHand, TypeInv, TypeOK, Task, TradeEvent, Idle
<1>2. v \in MakersOf(t)
  BY <1>1 DEF FillsInv, HandFits
<1>3. OwnerOf(v) \in ClientIds
  BY <1>1, <1>2 DEF FillsInv, VenueCounts
<1>4. c = OwnerOf(v)
  BY <1>1, <1>3 DEF FillsInv, OrdersKnown, Acknowledged, Awaited
<1>5. Leads(trades[<<t, c>>], task.event.status)
  BY <1>1, <1>4 DEF FillsInv, HandFits
<1> HIDE DEF t, c
<1>6. ASSUME trades[<<t, c>>] = "none" PROVE MatchFits(orders[c], SizeOf[c], 1)
  <2>1. t \notin CountedFor(c) /\ t \in MatchedIn(v) /\ CountedFor(c) \subseteq MatchedIn(v)
    BY <1>1, <1>2, <1>3, <1>4, <1>6, CountedIsMatched DEF CountedFor, MatchedIn
  <2>2. MatchedIn(v) \in SUBSET TradeIds
    BY DEF MatchedIn
  <2>3. IsFiniteSet(CountedFor(c)) /\ IsFiniteSet(MatchedIn(v))
    BY <2>1, <2>2, TradeSets
  <2>4. Cardinality(CountedFor(c) \cup {t}) = Cardinality(CountedFor(c)) + 1
    BY <2>1, <2>3, FS_AddElement
  <2>5. CountedFor(c) \cup {t} \subseteq MatchedIn(v)
    BY <2>1
  <2>6. Cardinality(CountedFor(c) \cup {t}) <= Cardinality(MatchedIn(v))
    BY <2>3, <2>5, FS_Subset
  <2>7. Cardinality(MatchedIn(v)) <= SizeOf[c]
    BY <1>3, <1>4 DEF FillsInv, VenueCounts
  <2>8. orders[c].matched_size = Cardinality(CountedFor(c))
    BY <1>3, <1>4 DEF FillsInv, ServiceCounts
  <2>9. /\ Cardinality(CountedFor(c)) \in Nat /\ Cardinality(MatchedIn(v)) \in Nat
        /\ SizeOf[c] \in Nat
    BY <1>3, <1>4, <2>1, <2>2, TradeSets, ConstantsAssumption
  <2> QED  BY <2>4, <2>6, <2>7, <2>8, <2>9 DEF MatchFits
<1> QED  BY <1>1, <1>2, <1>3, <1>4, <1>5, <1>6 DEF t, c

LEMMA LoopPastLeaves ==
    ASSUME TypeInv, NEW v, Reconciling(v), LoopPast(v)
    PROVE  /\ task'.step \in {"idle", "trade"}
           /\ task'.step = "trade" => task'.event = task.event
           /\ task'.step = "trade" => task'.rest = task.rest \ {v}
           /\ task'.step = "idle" => task.rest = {v}
<1>1. CASE task.rest = {v}
  BY <1>1 DEF LoopPast, Idle
<1>2. CASE task.rest # {v}
  <2>1. task' = [task EXCEPT !.rest = @ \ {v}] /\ task.step = "trade"
    BY <1>2 DEF LoopPast, Reconciling
  <2>2. task \in [step : {"trade"}, event : TradeEvent, rest : SUBSET VenueIds]
    BY <2>1 DEF TypeInv, TypeOK, Task, Idle
  <2> QED  BY <2>1, <2>2
<1> QED  BY <1>1, <1>2

LEMMA TradeStoredFills ==
    ASSUME TypeInv, VenueInv, FillsInv, NEW v \in VenueIds,
           MakerFirstSeen(v) \/ MakerUpdated(v)
    PROVE  FillsInv'
<1> USE DEF venueVars, history, wire
<1> DEFINE t == task.event.id
           c == clientOrderByVenue[v]
           s == task.event.status
<1>1. /\ Reconciling(v) /\ LoopPast(v) /\ task.step = "trade"
      /\ UNCHANGED <<up, raised, clientOrderByVenue, venueOrders, venueTrades, channel,
                     nextVenueId, posts>>
      /\ trades' = [trades EXCEPT ![<<t, c>>] = s]
  BY DEF MakerFirstSeen, MakerUpdated, StoreTrade, Reconciling
<1>2. /\ t \in TradeIds /\ v \in MakersOf(t) /\ InHand(t, v)
      /\ c \in ClientIds /\ c = OwnerOf(v)
      /\ Leads(trades[<<t, c>>], s)
  BY <1>1, MakerInHand
<1>3. \/ /\ MakerFirstSeen(v) /\ trades[<<t, c>>] = "none"
         /\ orders' = [orders EXCEPT ![c] = RecordMatch(orders[c], 1)]
         /\ progress' = [progress EXCEPT !.fills = @ + 1]
      \/ /\ MakerUpdated(v) /\ trades[<<t, c>>] # "none"
         /\ orders' = [orders EXCEPT ![c] = orders[c]]
         /\ progress' = progress
  BY DEF MakerFirstSeen, MakerUpdated, StoreTrade, Recorded
<1>4. s \in LiveTradeStatus /\ s # "none"
  BY <1>2, LeadsFacts DEF LiveTradeStatus
<1>5. /\ task'.step \in {"idle", "trade"}
      /\ task'.step = "trade" => task'.event = task.event /\ task'.rest = task.rest \ {v}
      /\ task'.step = "idle" => task.rest = {v}
  BY <1>1, LoopPastLeaves
<1>6. \A r, w : InHand(r, w)' <=> InHand(r, w) /\ w # v
  BY <1>1, <1>5 DEF InHand
<1> HIDE DEF t, c, s
<1>7. \A r \in TradeIds, d \in ClientIds :
        trades'[<<r, d>>] = IF r = t /\ d = c THEN s ELSE trades[<<r, d>>]
  BY <1>1, <1>2 DEF TypeInv, TypeOK
<1>8. /\ \A w : OwnerOf(w)' = OwnerOf(w)
      /\ \A r : MakersOf(r)' = MakersOf(r)
      /\ \A w : MatchedIn(w)' = MatchedIn(w)
  BY <1>1 DEF OwnerOf, MakersOf, MatchedIn
<1>9. \A r \in TradeIds : \A w \in MakersOf(r) :
        /\ w \in VenueIds /\ OwnerOf(w) \in ClientIds
        /\ OwnerOf(w) = c => w = v
  <2>1. \A r \in TradeIds : \A w \in MakersOf(r) : w \in VenueIds /\ OwnerOf(w) \in ClientIds
    BY DEF FillsInv, VenueCounts, TypeInv, TypeOK, MakersOf
  <2> QED  BY <1>2, <2>1 DEF VenueInv, OneOrderEach, OwnerOf
<1>10. ASSUME NEW r \in TradeIds, NEW w \in MakersOf(r)
       PROVE  Received(r, w)' = Received(r, w)
  <2>1. CASE r = t /\ w = v
    <3>1. Received(r, w) = s
      BY <1>2, <2>1 DEF Received, s
    <3>2. Received(r, w)' = s
      BY <1>2, <1>6, <1>7, <1>8, <2>1 DEF Received
    <3> QED  BY <3>1, <3>2
  <2>2. CASE ~(r = t /\ w = v)
    <3>1. trades'[<<r, OwnerOf(w)>>] = trades[<<r, OwnerOf(w)>>]
      BY <1>2, <1>7, <1>9, <2>2
    <3>2. InHand(r, w)' <=> InHand(r, w)
      BY <1>6, <2>2 DEF InHand, t
    <3>3. InHand(r, w)' => task'.event.status = task.event.status
      BY <1>5 DEF InHand
    <3> QED  BY <1>8, <3>1, <3>2, <3>3 DEF Received
  <2> QED  BY <2>1, <2>2
<1>11. ChannelCounts' /\ StatusesLead'
  BY <1>1, <1>10, SameTold DEF FillsInv
<1>12. HandFits'
  <2> SUFFICES ASSUME task'.step = "trade"
               PROVE  /\ task'.rest \subseteq MakersOf(t)
                      /\ \A w \in task'.rest : Leads(trades'[<<t, OwnerOf(w)>>], s)
    BY <1>5, <1>8 DEF HandFits, t, s
  <2>1. task'.rest = task.rest \ {v}
    BY <1>5
  <2>2. task.rest \subseteq MakersOf(t)
        /\ \A w \in task.rest : Leads(trades[<<t, OwnerOf(w)>>], s)
    BY <1>1 DEF FillsInv, HandFits, t, s
  <2>3. \A w \in task.rest \ {v} : trades'[<<t, OwnerOf(w)>>] = trades[<<t, OwnerOf(w)>>]
    BY <1>2, <1>7, <1>9, <2>2
  <2> QED  BY <2>1, <2>2, <2>3
<1>13. VenueCounts'
  BY <1>1, <1>8 DEF FillsInv, VenueCounts
<1> DEFINE order == IF trades[<<t, c>>] = "none" THEN RecordMatch(orders[c], 1) ELSE orders[c]
<1>14. /\ order.venue_order_id = orders[c].venue_order_id
       /\ order.status = orders[c].status
       /\ order.matched_size = IF trades[<<t, c>>] = "none" THEN orders[c].matched_size + 1
                               ELSE orders[c].matched_size
  BY <1>2, WalType DEF RecordMatch, Snapshots, LiveOrder
<1>15. \A d \in ClientIds : orders'[d] = IF d = c THEN order ELSE orders[d]
  BY <1>2, <1>3, WalType
<1> HIDE DEF order
<1>16. Untroubled'
  BY <1>1, <1>2, <1>14, <1>15 DEF FillsInv, Untroubled
<1>17. OrdersKnown'
  <2>1. \A w \in VenueIds : OwnerOf(w) \in ClientIds => Acknowledged(w)
    BY <1>1 DEF FillsInv, OrdersKnown, Awaited
  <2>2. posts' = {}
    BY <1>1 DEF FillsInv, OrdersKnown, Posting
  <2>3. \A w \in VenueIds : OwnerOf(w) \in ClientIds => Acknowledged(w)'
    BY <1>1, <1>8, <1>14, <1>15, <2>1 DEF Acknowledged
  <2> QED  BY <1>8, <2>2, <2>3 DEF OrdersKnown
<1>18. ServiceCounts'
  <2> DEFINE Kept == {k \in TradeIds \X ClientIds : trades[k] # "none"}
  <2>1. ASSUME NEW d \in ClientIds
        PROVE  CountedFor(d)' = IF d = c THEN CountedFor(d) \cup {t} ELSE CountedFor(d)
    BY <1>2, <1>4, <1>7 DEF CountedFor
  <2>2. Kept' = Kept \cup {<<t, c>>}
    BY <1>2, <1>4, <1>7
  <2>3. /\ \A d \in ClientIds : CountedFor(d) \in SUBSET TradeIds
        /\ trades[<<t, c>>] = "none" <=> t \notin CountedFor(c)
        /\ trades[<<t, c>>] = "none" <=> <<t, c>> \notin Kept
    BY <1>2 DEF CountedFor
  <2>4. IsFiniteSet(Kept)
    <3>1. IsFiniteSet(TradeIds \X ClientIds) /\ Kept \subseteq TradeIds \X ClientIds
      BY ConstantsAssumption, FS_Product
    <3> QED  BY <3>1, FS_Subset
  <2>5. progress.fills = Cardinality(Kept)
    BY DEF FillsInv, ServiceCounts
  <2> DEFINE K1 == Kept'
  <2>6. progress'.fills = Cardinality(K1)
    <3> HIDE DEF Kept
    <3>1. CASE trades[<<t, c>>] = "none"
      <4>1. Cardinality(Kept \cup {<<t, c>>}) = Cardinality(Kept) + 1
        BY <2>3, <2>4, <3>1, FS_AddElement
      <4>2. progress'.fills = progress.fills + 1
        BY <1>3, <3>1 DEF TypeInv, TypeOK
      <4> QED  BY <2>2, <2>5, <4>1, <4>2
    <3>2. CASE trades[<<t, c>>] # "none"
      <4>1. Kept \cup {<<t, c>>} = Kept
        BY <2>3, <3>2
      <4> QED  BY <1>3, <2>2, <2>5, <3>2, <4>1
    <3> QED  BY <3>1, <3>2
  <2>7. progress'.submitted_orders = progress.submitted_orders
    BY <1>3 DEF TypeInv, TypeOK
  <2>8. ASSUME NEW d \in ClientIds PROVE orders'[d].matched_size = Cardinality(CountedFor(d)')
    <3>1. orders[d].matched_size = Cardinality(CountedFor(d))
      BY DEF FillsInv, ServiceCounts
    <3>2. CASE d # c
      BY <1>15, <2>1, <3>1, <3>2
    <3>3. CASE d = c
      <4>1. CASE trades[<<t, c>>] = "none"
        <5>1. Cardinality(CountedFor(c) \cup {t}) = Cardinality(CountedFor(c)) + 1
          BY <1>2, <2>3, <4>1, TradeSets, FS_AddElement
        <5> QED  BY <1>14, <1>15, <2>1, <3>1, <3>3, <4>1, <5>1
      <4>2. CASE trades[<<t, c>>] # "none"
        <5>1. CountedFor(c) \cup {t} = CountedFor(c)
          BY <2>3, <4>2
        <5> QED  BY <1>14, <1>15, <2>1, <3>1, <3>3, <4>2, <5>1
      <4> QED  BY <4>1, <4>2
    <3> QED  BY <3>2, <3>3
  <2>9. ASSUME NEW d \in ClientIds, NEW r \in CountedFor(d)'
        PROVE  \E w \in MakersOf(r) : OwnerOf(w) = d
    <3>1. CASE r \in CountedFor(d)
      BY <3>1 DEF FillsInv, ServiceCounts
    <3>2. CASE d = c /\ r = t
      BY <1>2, <3>2
    <3> QED  BY <2>1, <3>1, <3>2
  <2>10. progress.submitted_orders < nextVenueId /\ task'.step # "posting"
    BY <1>5 DEF FillsInv, ServiceCounts
  <2> QED  BY <1>1, <1>8, <2>6, <2>7, <2>8, <2>9, <2>10 DEF ServiceCounts
<1> QED  BY <1>11, <1>12, <1>13, <1>16, <1>17, <1>18 DEF FillsInv

LEMMA ReconciliationFills ==
    ASSUME TypeInv, StopIsKnown, RestartInv, VenueInv, FillsInv, Reconciliation
    PROVE  FillsInv'
<1>1. ASSUME NEW v \in VenueIds PROVE ~MakerUnknown(v)
  <2> SUFFICES ASSUME MakerUnknown(v) PROVE FALSE
    OBVIOUS
  <2>1. clientOrderByVenue[v] \in ClientIds
    BY MakerInHand DEF MakerUnknown
  <2> QED  BY <2>1, ConstantsAssumption DEF MakerUnknown
<1>2. ASSUME NEW v \in VenueIds PROVE ~MakerRaises(v) /\ ~MakerCountedThenRaises(v)
  <2> SUFFICES ASSUME MakerRaises(v) \/ MakerCountedThenRaises(v) PROVE FALSE
    OBVIOUS
  <2> DEFINE from == trades[<<task.event.id, clientOrderByVenue[v]>>]
             status == task.event.status
  <2>1. Reconciling(v)
    BY DEF MakerRaises, MakerCountedThenRaises
  <2>2. Leads(from, status)
        /\ LET c == clientOrderByVenue[v]
           IN  from = "none" => MatchFits(orders[c], SizeOf[c], 1)
    BY <2>1, MakerInHand
  <2>3. /\ from = "none" => TradeMayMove("matched", status)
        /\ from # "none" => TradeMayMove(from, status)
    BY <2>2, LeadsFacts DEF TradeMayMove
  <2> QED  BY <2>2, <2>3 DEF MakerRaises, MakerCountedThenRaises, Recorded
<1>3. ASSUME NEW c \in ClientIds
      PROVE  ~ResolveAbsent(c) /\ \A v \in VenueIds : ~ResolveFound(c, v)
  BY DEF ResolveAbsent, ResolveFound, FillsInv, Untroubled
<1>4. CASE OrderEventIgnored \/ OrderEventRaises \/ OrderEventApplied
  BY <1>4, OrderEventFills
<1>5. CASE TradeEventReceived
  BY <1>5, TradeTakenFills
<1>6. ASSUME NEW v \in VenueIds, MakerFirstSeen(v) \/ MakerUpdated(v)
      PROVE  FillsInv'
  BY <1>6, TradeStoredFills
<1> QED  BY <1>1, <1>2, <1>3, <1>4, <1>5, <1>6 DEF Reconciliation

(* A step of the venue that places no order.                               *)
LEMMA VenueMoves ==
    ASSUME FillsInv, UNCHANGED <<memory, up, raised, nextVenueId>>,
           \/ task' = task
           \/ /\ task.step # "trade" /\ task'.step # "trade"
              /\ NoAnswer /\ NoAnswer',
           \A c \in posts' : (Posting(c) /\ task.answer = "none")',
           \A v \in VenueIds : OwnerOf(v)' = OwnerOf(v),
           \A t \in TradeIds : MakersOf(t) \subseteq MakersOf(t)',
           TypeInv
    PROVE  /\ Untroubled' /\ OrdersKnown' /\ ServiceCounts' /\ HandFits'
           /\ \A t \in TradeIds : \A v \in VenueIds : Received(t, v)' = Received(t, v)
<1> USE DEF memory
<1>1. Untroubled'
  BY DEF FillsInv, Untroubled
<1>2. OrdersKnown'
  <2>1. ASSUME NEW v \in VenueIds, OwnerOf(v) \in ClientIds
        PROVE  Acknowledged(v)' \/ Awaited(v)'
    <3>1. Acknowledged(v) \/ Awaited(v)
      BY <2>1 DEF FillsInv, OrdersKnown
    <3>2. Acknowledged(v) => Acknowledged(v)'
      BY DEF Acknowledged
    <3>3. Awaited(v) => Awaited(v)'
      BY DEF Awaited, NoAnswer
    <3> QED  BY <3>1, <3>2, <3>3
  <2> QED  BY <2>1 DEF OrdersKnown
<1>3. \A t \in TradeIds : \A v \in MakersOf(t) : v \in VenueIds
  BY DEF MakersOf, TypeInv, TypeOK
<1>4. ServiceCounts'
  <2>1. \A c : CountedFor(c)' = CountedFor(c) /\ CountedFor(c) \subseteq TradeIds
    BY DEF CountedFor
  <2>2. ASSUME NEW c \in ClientIds, NEW t \in CountedFor(c)
        PROVE  \E v \in MakersOf(t)' : OwnerOf(v)' = c
    <3>1. PICK v \in MakersOf(t) : OwnerOf(v) = c
      BY DEF FillsInv, ServiceCounts
    <3>2. v \in MakersOf(t)' /\ OwnerOf(v)' = c
      BY <1>3, <2>1, <3>1
    <3> QED  BY <3>2
  <2> QED  BY <2>1, <2>2 DEF FillsInv, ServiceCounts, NoAnswer
<1>5. HandFits'
  <2>1. task.step = "trade" => task.event.id \in TradeIds
    BY DEF TypeInv, TypeOK, Task, Idle, TradeEvent
  <2> QED  BY <1>3, <2>1 DEF FillsInv, HandFits
<1>6. \A t \in TradeIds : \A v \in VenueIds : Received(t, v)' = Received(t, v)
  BY DEF Received, InHand
<1> QED  BY <1>1, <1>2, <1>4, <1>5, <1>6

LEMMA Reported ==
    ASSUME Reliable, FillsInv, NEW events, Report(events)
    PROVE  channel' = channel \o events
  BY DEF Reliable, FillsInv, Untroubled, Report

(* What the venue has is reported.                                         *)
LEMMA OrderReported ==
    ASSUME TypeInv, Reliable, FillsInv, NEW type \in {"PLACEMENT", "CANCELLATION"},
           NEW v \in VenueIds, NEW size \in Nat, size = Cardinality(MatchedIn(v)),
           Report(<<OrderReport(type, v, size)>>), UNCHANGED venueTrades,
           \A t \in TradeIds : \A w \in MakersOf(t) : Received(t, w)' = Received(t, w)
    PROVE  ChannelCounts' /\ StatusesLead'
<1> DEFINE event == OrderReport(type, v, size)
           events == <<event>>
<1>1. event \in OrderEvent /\ event.event_type = "order" /\ event.id = v
      /\ event.size_matched = size
  BY OrderReportType DEF OrderReport
<1>2. channel' = channel \o events
  BY Reported
<1> HIDE DEF event
<1>3. /\ events \in Seq(OrderEvent \cup TradeEvent) /\ events # <<>> /\ Len(events) = 1
      /\ events[1] = event
  BY <1>1
<1>4. /\ \A t : MakersOf(t)' = MakersOf(t)
      /\ \A w : MatchedIn(w)' = MatchedIn(w)
  BY DEF MakersOf, MatchedIn
<1> HIDE DEF events
<1>5. \A k \in 2 .. Len(events) : events[k].event_type = "order"
  BY <1>3
<1>6. \A w \in VenueIds : \A k \in 1 .. Len(events) : IsOrder(events[k], w) =>
        events[k].size_matched = Cardinality(MatchedIn(w)')
  BY <1>1, <1>3, <1>4 DEF IsOrder
<1>7. \A t \in TradeIds : ~IsTrade(events[1], t)
  BY <1>1, <1>3 DEF IsTrade
<1> QED  BY <1>2, <1>3, <1>5, <1>6, <1>7, ReportKeepsTold DEF FillsInv

LEMMA AcceptedFills ==
    ASSUME TypeInv, RestartInv, Reliable, FillsInv, NEW c \in ClientIds, VenueAccepts(c)
    PROVE  FillsInv'
<1> USE DEF memory, history
<1>0. PICK new \in Nat : new = nextVenueId
  BY DEF TypeInv, TypeOK
<1>1. /\ c \in posts /\ new \in VenueIds /\ posts' = posts \ {c}
      /\ venueOrders' = [venueOrders EXCEPT
            ![new] = [client |-> c, open |-> TRUE, matched |-> 0]]
      /\ nextVenueId' = new + 1 /\ AnswerPost(c, "accepted", new)
      /\ Report(<<OrderReport("PLACEMENT", new, 0)>>)
      /\ UNCHANGED <<memory, up, raised, venueTrades>>
  BY <1>0 DEF VenueAccepts
<1>2. Posting(c) /\ task.answer = "none" /\ posts' = {}
  BY <1>1 DEF FillsInv, OrdersKnown, Posting
<1>3. /\ task'.step = "posting" /\ task'.client = c /\ task'.answer = "accepted"
      /\ task'.venue = new
  <2>1. task \in [step : {"posting"}, client : ClientIds,
                  answer : {"none", "accepted", "refused"},
                  venue : VenueIds \cup {NoVenueId}]
    BY <1>2 DEF Posting, TypeInv, TypeOK, Task, Idle
  <2>2. task' = [task EXCEPT !.answer = "accepted", !.venue = new]
    BY <1>1, <1>2 DEF AnswerPost
  <2> QED  BY <1>2, <2>1, <2>2 DEF Posting
<1>4. OwnerOf(new) = NoClient /\ NoClient \notin ClientIds
  BY <1>0, <1>1, IndexType DEF RestartInv, IndexFits, OwnerOf
<1>5. /\ venueOrders'[new] = [client |-> c, open |-> TRUE, matched |-> 0]
      /\ \A v \in VenueIds \ {new} : venueOrders'[v] = venueOrders[v]
  BY <1>1, VenueType
<1>6. /\ \A t : MakersOf(t)' = MakersOf(t)
      /\ \A v : MatchedIn(v)' = MatchedIn(v)
      /\ \A d : CountedFor(d)' = CountedFor(d)
  BY <1>1 DEF MakersOf, MatchedIn, CountedFor
<1>7. OwnerOf(new)' = c /\ \A v \in VenueIds \ {new} : OwnerOf(v)' = OwnerOf(v)
  BY <1>5 DEF OwnerOf
<1>8. \A t \in TradeIds : \A v \in MakersOf(t) : v \in VenueIds \ {new}
  BY <1>4 DEF FillsInv, VenueCounts, MakersOf, TypeInv, TypeOK
<1>9. Cardinality(MatchedIn(new)) = 0
  <2>1. MatchedIn(new) = {}
    BY <1>8 DEF MatchedIn
  <2> QED  BY <2>1, FS_EmptySet
<1>10. Untroubled'
  BY <1>1 DEF FillsInv, Untroubled
<1>11. OrdersKnown'
  <2>1. Awaited(new)'
    BY <1>3, <1>7 DEF Awaited
  <2>2. ASSUME NEW v \in VenueIds \ {new}, OwnerOf(v) \in ClientIds PROVE Acknowledged(v)'
    <3>1. Acknowledged(v)
      BY <1>2, <2>2 DEF FillsInv, OrdersKnown, Awaited
    <3> QED  BY <1>1, <1>7, <3>1 DEF Acknowledged
  <2> QED  BY <1>2, <1>7, <2>1, <2>2 DEF OrdersKnown
<1>12. VenueCounts'
  <2>1. SizeOf[c] \in Nat \ {0}
    BY ConstantsAssumption
  <2>2. /\ \A t \in TradeIds : venueTrades'[t].status = "none" => MakersOf(t)' = {}
        /\ \A t \in TradeIds : \A v \in MakersOf(t)' : OwnerOf(v)' \in ClientIds
    BY <1>1, <1>6, <1>7, <1>8 DEF FillsInv, VenueCounts
  <2>3. /\ venueOrders'[new].matched = Cardinality(MatchedIn(new)')
        /\ venueOrders'[new].matched <= SizeOf[OwnerOf(new)']
        /\ venueOrders'[new].matched < SizeOf[OwnerOf(new)']
    BY <1>5, <1>6, <1>7, <1>9, <2>1
  <2>4. ASSUME NEW v \in VenueIds \ {new}
        PROVE  /\ venueOrders'[v].matched = Cardinality(MatchedIn(v)')
               /\ OwnerOf(v)' \in ClientIds =>
                    /\ venueOrders'[v].matched <= SizeOf[OwnerOf(v)']
                    /\ venueOrders'[v].open => venueOrders'[v].matched < SizeOf[OwnerOf(v)']
    BY <1>5, <1>6, <1>7 DEF FillsInv, VenueCounts
  <2> QED  BY <1>1, <2>2, <2>3, <2>4 DEF VenueCounts
<1>13. ServiceCounts'
  <2>1. progress.submitted_orders < nextVenueId /\ progress.submitted_orders \in Nat
        /\ nextVenueId \in Nat
    BY DEF FillsInv, ServiceCounts, TypeInv, TypeOK
  <2>2. nextVenueId' = nextVenueId + 1
    BY <1>0, <1>1
  <2>3. /\ progress.submitted_orders < nextVenueId'
        /\ progress.submitted_orders + 1 < nextVenueId'
    BY <2>1, <2>2
  <2>4. ASSUME NEW d \in ClientIds, NEW t \in CountedFor(d)
        PROVE  \E v \in MakersOf(t) : OwnerOf(v)' = d
    <3>1. t \in TradeIds
      BY DEF CountedFor
    <3> QED  BY <1>7, <1>8, <3>1 DEF FillsInv, ServiceCounts
  <2> QED  BY <1>1, <1>6, <2>3, <2>4 DEF FillsInv, ServiceCounts
<1>14. HandFits'
  BY <1>3 DEF HandFits
<1>15. ChannelCounts' /\ StatusesLead'
  <2>1. \A t \in TradeIds : \A v \in MakersOf(t) : Received(t, v)' = Received(t, v)
    BY <1>1, <1>2, <1>3, <1>7, <1>8 DEF Received, InHand, Posting
  <2>2. Report(<<OrderReport("PLACEMENT", new, 0)>>) /\ new \in VenueIds
    BY <1>0, <1>1
  <2>3. UNCHANGED venueTrades
    BY <1>1
  <2> QED  BY <1>9, <2>1, <2>2, <2>3, OrderReported
<1> QED  BY <1>10, <1>11, <1>12, <1>13, <1>14, <1>15 DEF FillsInv

LEMMA ClosedFills ==
    ASSUME TypeInv, Reliable, FillsInv, NEW v \in VenueIds, VenueCancels(v) \/ VenueSweeps(v)
    PROVE  FillsInv'
<1> USE DEF memory, wire, history
<1>1. /\ Close(v) /\ (AnswerCancel(v) \/ task' = task)
      /\ UNCHANGED <<memory, up, raised, posts, venueTrades, nextVenueId>>
  BY DEF VenueCancels, VenueSweeps
<1>2. \/ task' = task
      \/ /\ task.step # "trade" /\ task'.step # "trade" /\ NoAnswer /\ NoAnswer'
         /\ task.step # "posting"
  <2>1. CASE task.step = "canceling" /\ task.venue = v /\ AnswerCancel(v)
    <3>1. task \in [step : {"canceling"}, client : ClientIds, venue : VenueIds,
                    answered : BOOLEAN]
      BY <2>1 DEF TypeInv, TypeOK, Task, Idle
    <3>2. task' = [task EXCEPT !.answered = TRUE]
      BY <2>1 DEF AnswerCancel
    <3> QED  BY <2>1, <3>1, <3>2 DEF NoAnswer
  <2> QED  BY <1>1, <2>1 DEF AnswerCancel
<1>3. \A c \in posts' : (Posting(c) /\ task.answer = "none")'
  BY <1>1, <1>2 DEF FillsInv, OrdersKnown, Posting
<1>4. \A w \in VenueIds :
        /\ venueOrders'[w].client = venueOrders[w].client
        /\ venueOrders'[w].matched = venueOrders[w].matched
        /\ venueOrders'[w].open => venueOrders[w].open
  BY <1>1, VenueType DEF Close, VenueOrder
<1>5. /\ \A w \in VenueIds : OwnerOf(w)' = OwnerOf(w)
      /\ \A t : MakersOf(t)' = MakersOf(t)
      /\ \A w : MatchedIn(w)' = MatchedIn(w)
  BY <1>1, <1>4 DEF OwnerOf, MakersOf, MatchedIn
<1>6. /\ Untroubled' /\ OrdersKnown' /\ ServiceCounts' /\ HandFits'
      /\ \A t \in TradeIds : \A w \in VenueIds : Received(t, w)' = Received(t, w)
  BY <1>1, <1>2, <1>3, <1>5, VenueMoves
<1>7. VenueCounts'
  <2>1. \A t \in TradeIds : \A w \in MakersOf(t) : w \in VenueIds
    BY DEF MakersOf, TypeInv, TypeOK
  <2> QED  BY <1>1, <1>4, <1>5, <2>1 DEF FillsInv, VenueCounts
<1>8. ChannelCounts' /\ StatusesLead'
  <2> DEFINE size == venueOrders[v].matched
  <2>1. size \in Nat /\ size = Cardinality(MatchedIn(v))
    BY VenueType DEF VenueOrder, FillsInv, VenueCounts
  <2>2. Report(<<OrderReport("CANCELLATION", v, size)>>) /\ UNCHANGED venueTrades
    BY <1>1 DEF Close
  <2>3. \A t \in TradeIds : \A w \in MakersOf(t) : Received(t, w)' = Received(t, w)
    BY <1>6 DEF MakersOf, TypeInv, TypeOK
  <2> HIDE DEF size
  <2> QED  BY <2>1, <2>2, <2>3, OrderReported
<1> QED  BY <1>6, <1>7, <1>8 DEF FillsInv

(* A match is told by its trade and then by an update of each order in it. *)
LEMMA MatchReports ==
    ASSUME TypeInv, TradeFirst, NEW t \in TradeIds, NEW makers \in SUBSET VenueIds,
           VenueMatches(t, makers)
    PROVE  \E events \in Seq(OrderEvent \cup TradeEvent) :
              /\ Report(events) /\ events # <<>>
              /\ events[1] = TradeReport(t, "matched", makers)
              /\ \A k \in 2 .. Len(events) : \E v \in makers :
                    events[k] = OrderReport("UPDATE", v, venueOrders[v].matched + 1)
<1> DEFINE event == TradeReport(t, "matched", makers)
           Updates == {OrderReport("UPDATE", v, venueOrders[v].matched + 1) : v \in makers}
           update(v) == OrderReport("UPDATE", v, venueOrders[v].matched + 1)
<1>0. PICK n \in Nat : n = Cardinality(makers)
  <2>1. IsFiniteSet(VenueIds)
    BY FS_Interval, ConstantsAssumption DEF VenueIds
  <2> QED  BY <2>1, FS_Subset, FS_CardinalityType
<1>1. PICK nth \in [1 .. n -> makers] :
        Report(<<event>> \o [i \in 1 .. n |-> update(nth[i])])
  BY <1>0 DEF VenueMatches
<1> DEFINE updates == [i \in 1 .. n |-> update(nth[i])]
           events == <<event>> \o updates
<1>2. event \in TradeEvent
  BY DEF TradeReport, TradeEvent, LiveTradeStatus
<1>3. \A v \in makers : update(v) \in Updates
  OBVIOUS
<1>4. Updates \subseteq OrderEvent
  <2> SUFFICES ASSUME NEW v \in makers PROVE update(v) \in OrderEvent
    OBVIOUS
  <2>1. venueOrders[v].matched + 1 \in Nat
    BY VenueType DEF VenueOrder
  <2> QED  BY <2>1, OrderReportType
<1> HIDE DEF event, update, Updates
<1>5. updates \in Seq(Updates) /\ Len(updates) = n
  BY <1>3
<1>6. updates \in Seq(OrderEvent \cup TradeEvent) /\ <<event>> \in Seq(OrderEvent \cup TradeEvent)
  BY <1>2, <1>4, <1>5
<1>7. events \in Seq(OrderEvent \cup TradeEvent) /\ events # <<>> /\ events[1] = event
      /\ \A k \in 2 .. Len(events) : events[k] \in Updates
  <2> HIDE DEF updates
  <2>1. events \in Seq(OrderEvent \cup TradeEvent)
    BY <1>6, ConcatType
  <2>2. Len(events) = n + 1 /\ events[1] = event
    BY <1>5
  <2>3. ASSUME NEW k \in 2 .. n + 1 PROVE events[k] \in Updates
    <3>1. k - 1 \in 1 .. n /\ events[k] = updates[k - 1]
      BY <1>5
    <3> QED  BY <1>5, <3>1
  <2> QED  BY <2>1, <2>2, <2>3
<1>8. Report(events)
  BY <1>1
<1> HIDE DEF events
<1> QED  BY <1>7, <1>8 DEF event, Updates

LEMMA MatchedFills ==
    ASSUME TypeInv, VenueInv, Reliable, FillsInv, NEW t \in TradeIds,
           NEW makers \in SUBSET VenueIds, VenueMatches(t, makers)
    PROVE  FillsInv'
<1> USE DEF memory, wire, history
<1>1. /\ venueTrades[t].status = "none" /\ \A v \in makers : venueOrders[v].open
      /\ venueTrades' = [venueTrades EXCEPT
            ![t] = [status |-> "matched", maker_orders |-> makers]]
      /\ venueOrders' = [v \in VenueIds |->
            IF v \notin makers THEN venueOrders[v]
            ELSE [venueOrders[v] EXCEPT
                    !.matched = @ + 1,
                    !.open = venueOrders[v].matched + 1 < SizeOf[venueOrders[v].client]]]
  BY Zenon DEF VenueMatches, Resting
<1>2. UNCHANGED <<task, memory, up, raised, posts, nextVenueId>>
  BY Zenon DEF VenueMatches
<1>3. \A v \in VenueIds :
        /\ venueOrders'[v].client = venueOrders[v].client
        /\ v \notin makers => venueOrders'[v] = venueOrders[v]
        /\ v \in makers =>
             /\ venueOrders'[v].matched = venueOrders[v].matched + 1
             /\ venueOrders'[v].open =
                  (venueOrders[v].matched + 1 < SizeOf[venueOrders[v].client])
  BY <1>1, VenueType DEF VenueOrder
<1>4. \A v \in VenueIds : OwnerOf(v)' = OwnerOf(v)
  BY <1>3 DEF OwnerOf
<1>5. /\ venueTrades'[t].status = "matched" /\ MakersOf(t) = {} /\ MakersOf(t)' = makers
      /\ \A r \in TradeIds \ {t} : venueTrades'[r] = venueTrades[r] /\ MakersOf(r)' = MakersOf(r)
  BY <1>1 DEF FillsInv, VenueCounts, MakersOf, TypeInv, TypeOK
<1>6. ASSUME NEW v \in VenueIds
      PROVE  MatchedIn(v)' = IF v \in makers THEN MatchedIn(v) \cup {t} ELSE MatchedIn(v)
  BY <1>5 DEF MatchedIn
<1>7. \A v \in makers : OwnerOf(v) \in ClientIds
  BY <1>1, VenueType DEF VenueInv, OpenIsOurs, OwnerOf, VenueOrder
<1>8. ASSUME NEW v \in VenueIds
      PROVE  venueOrders'[v].matched = Cardinality(MatchedIn(v)')
  <2>1. venueOrders[v].matched = Cardinality(MatchedIn(v))
    BY DEF FillsInv, VenueCounts
  <2>2. t \notin MatchedIn(v) /\ MatchedIn(v) \in SUBSET TradeIds
    BY <1>5 DEF MatchedIn
  <2>3. Cardinality(MatchedIn(v) \cup {t}) = Cardinality(MatchedIn(v)) + 1
    BY <2>2, TradeSets, FS_AddElement
  <2>4. CASE v \in makers
    BY <1>3, <1>6, <2>1, <2>3, <2>4
  <2>5. CASE v \notin makers
    BY <1>3, <1>6, <2>1, <2>5
  <2> QED  BY <2>4, <2>5
<1>9. VenueCounts'
  <2>1. ASSUME NEW r \in TradeIds
        PROVE  /\ venueTrades'[r].status = "none" => MakersOf(r)' = {}
               /\ \A v \in MakersOf(r)' : OwnerOf(v)' \in ClientIds
    <3>1. CASE r = t
      BY <1>4, <1>5, <1>7, <3>1
    <3>2. CASE r # t
      <4>1. MakersOf(r) \subseteq VenueIds
        BY DEF MakersOf, TypeInv, TypeOK
      <4> QED  BY <1>4, <1>5, <3>2, <4>1 DEF FillsInv, VenueCounts
    <3> QED  BY <3>1, <3>2
  <2>2. ASSUME NEW v \in VenueIds, OwnerOf(v) \in ClientIds
        PROVE  /\ venueOrders'[v].matched <= SizeOf[OwnerOf(v)]
               /\ venueOrders'[v].open => venueOrders'[v].matched < SizeOf[OwnerOf(v)]
    <3>1. /\ venueOrders[v].matched <= SizeOf[OwnerOf(v)]
          /\ venueOrders[v].open => venueOrders[v].matched < SizeOf[OwnerOf(v)]
      BY <2>2 DEF FillsInv, VenueCounts
    <3>2. CASE v \in makers
      <4>1. venueOrders[v].matched \in Nat /\ SizeOf[OwnerOf(v)] \in Nat
        BY <2>2, VenueType, ConstantsAssumption DEF VenueOrder
      <4>2. venueOrders[v].matched < SizeOf[OwnerOf(v)]
        BY <1>1, <3>1, <3>2
      <4>3. /\ venueOrders'[v].matched = venueOrders[v].matched + 1
            /\ venueOrders'[v].open => venueOrders[v].matched + 1 < SizeOf[OwnerOf(v)]
        BY <1>3, <3>2 DEF OwnerOf
      <4> QED  BY <4>1, <4>2, <4>3
    <3>3. CASE v \notin makers
      BY <1>3, <3>1, <3>3
    <3> QED  BY <3>2, <3>3
  <2> QED  BY <1>4, <1>8, <2>1, <2>2 DEF VenueCounts
<1>10. /\ Untroubled' /\ OrdersKnown' /\ ServiceCounts' /\ HandFits'
       /\ \A r \in TradeIds : \A v \in VenueIds : Received(r, v)' = Received(r, v)
  <2>1. \A c \in posts' : (Posting(c) /\ task.answer = "none")'
    BY <1>2 DEF FillsInv, OrdersKnown, Posting
  <2>2. \A r \in TradeIds : MakersOf(r) \subseteq MakersOf(r)'
    BY <1>5
  <2> QED  BY <1>2, <1>4, <2>1, <2>2, VenueMoves
<1>11. \A v \in makers : Received(t, v) = "none"
  <2>1. ASSUME NEW v \in makers PROVE Received(t, v) = "none"
    <3>1. ~InHand(t, v)
      BY <1>5 DEF InHand, FillsInv, HandFits
    <3>2. t \notin CountedFor(OwnerOf(v))
      BY <1>5, <1>7 DEF FillsInv, ServiceCounts
    <3> QED  BY <3>1, <3>2 DEF Received, CountedFor
  <2> QED  BY <2>1
<1>12. PICK events \in Seq(OrderEvent \cup TradeEvent) :
         /\ Report(events) /\ events # <<>>
         /\ events[1] = TradeReport(t, "matched", makers)
         /\ \A k \in 2 .. Len(events) : \E v \in makers :
               events[k] = OrderReport("UPDATE", v, venueOrders[v].matched + 1)
  BY MatchReports DEF Reliable
<1>13. channel' = channel \o events
  BY <1>12, Reported
<1>14. /\ events[1].event_type = "trade" /\ events[1].maker_orders = makers
       /\ events[1].status = "matched" /\ \A r : IsTrade(events[1], r) <=> r = t
  BY <1>12 DEF TradeReport, IsTrade
<1>15. \A k \in 2 .. Len(events) : events[k].event_type = "order"
  <2>1. ASSUME NEW k \in 2 .. Len(events) PROVE events[k].event_type = "order"
    <3>1. PICK v \in makers :
            events[k] = OrderReport("UPDATE", v, venueOrders[v].matched + 1)
      BY <1>12
    <3> QED  BY <3>1 DEF OrderReport
  <2> QED  BY <2>1
<1>16. ASSUME NEW v \in VenueIds, NEW k \in 1 .. Len(events), IsOrder(events[k], v)
       PROVE  events[k].size_matched = Cardinality(MatchedIn(v)')
  <2>1. k \in 2 .. Len(events)
    <3>1. k # 1
      BY <1>14, <1>16 DEF IsOrder
    <3> QED  BY <3>1
  <2>2. PICK w \in makers : events[k] = OrderReport("UPDATE", w, venueOrders[w].matched + 1)
    BY <1>12, <2>1
  <2>3. w = v /\ events[k].size_matched = venueOrders[v].matched + 1
    BY <1>16, <2>2 DEF IsOrder, OrderReport
  <2> QED  BY <1>3, <1>8, <2>3
<1>17. Leads(venueTrades[t].status, "matched")
  BY <1>1 DEF Leads
<1>18. \A v \in MakersOf(t)' : Received(t, v)' = "none"
  BY <1>5, <1>10, <1>11
<1>19. \A r \in TradeIds : \A v \in MakersOf(r) : Received(r, v)' = Received(r, v)
  BY <1>10 DEF MakersOf, TypeInv, TypeOK
<1>20. ChannelCounts' /\ StatusesLead'
  <2>1. \A r \in TradeIds : IsTrade(events[1], r) =>
          /\ events[1].maker_orders = MakersOf(r)'
          /\ Leads(venueTrades[r].status, events[1].status)
          /\ venueTrades'[r].status = events[1].status
    BY <1>5, <1>14, <1>17
  <2>2. \A r \in TradeIds :
          \/ venueTrades'[r] = venueTrades[r] /\ ~IsTrade(events[1], r)
          \/ /\ venueTrades[r].status = "none" /\ IsTrade(events[1], r)
             /\ \A v \in MakersOf(r)' : Received(r, v)' = "none"
    BY <1>1, <1>5, <1>14, <1>18
  <2> QED
    BY <1>12, <1>13, <1>15, <1>16, <1>19, <2>1, <2>2, ReportKeepsTold DEF FillsInv
<1> QED  BY <1>9, <1>10, <1>20 DEF FillsInv

LEMMA TradeMovedFills ==
    ASSUME TypeInv, Reliable, FillsInv, NEW t \in TradeIds,
           NEW status \in LiveTradeStatus, VenueTradeMoves(t, status)
    PROVE  FillsInv'
<1> USE DEF memory, wire, history
<1> DEFINE event == TradeReport(t, status, MakersOf(t))
           events == <<event>>
<1>1. /\ <<venueTrades[t].status, status>> \in TradeTransitions
      /\ venueTrades' = [venueTrades EXCEPT ![t].status = status]
      /\ Report(events)
      /\ UNCHANGED <<task, memory, up, raised, posts, venueOrders, nextVenueId>>
  BY DEF VenueTradeMoves, MakersOf
<1>2. /\ venueTrades'[t].status = status
      /\ \A r \in TradeIds : venueTrades'[r].maker_orders = venueTrades[r].maker_orders
      /\ \A r \in TradeIds \ {t} : venueTrades'[r] = venueTrades[r]
  BY <1>1 DEF TypeInv, TypeOK
<1>3. /\ \A r \in TradeIds : MakersOf(r)' = MakersOf(r)
      /\ \A v : OwnerOf(v)' = OwnerOf(v)
      /\ \A v : MatchedIn(v)' = MatchedIn(v)
  BY <1>1, <1>2 DEF MakersOf, OwnerOf, MatchedIn
<1>4. Leads(venueTrades[t].status, status) /\ venueTrades[t].status # "none"
  BY <1>1 DEF Leads, TradeTransitions
<1>5. /\ event.event_type = "trade" /\ event.status = status
      /\ event.maker_orders = MakersOf(t) /\ event.id = t /\ event \in TradeEvent
  BY DEF TradeReport, TradeEvent, MakersOf, TypeInv, TypeOK
<1>6. VenueCounts'
  <2>1. \A r \in TradeIds : venueTrades'[r].status = "none" => MakersOf(r)' = {}
    BY <1>2, <1>3, <1>4 DEF FillsInv, VenueCounts, LiveTradeStatus
  <2> QED  BY <1>1, <1>3, <2>1 DEF FillsInv, VenueCounts
<1>7. /\ Untroubled' /\ OrdersKnown' /\ ServiceCounts' /\ HandFits'
      /\ \A r \in TradeIds : \A v \in VenueIds : Received(r, v)' = Received(r, v)
  <2>1. \A c \in posts' : (Posting(c) /\ task.answer = "none")'
    BY <1>1 DEF FillsInv, OrdersKnown, Posting
  <2> QED  BY <1>1, <1>3, <2>1, VenueMoves
<1> HIDE DEF event
<1>8. events \in Seq(OrderEvent \cup TradeEvent) /\ events # <<>> /\ Len(events) = 1
      /\ events[1] = event
  BY <1>5
<1>9. channel' = channel \o events
  BY <1>1, Reported
<1> HIDE DEF events
<1>10. \A r : IsTrade(events[1], r) <=> r = t
  BY <1>5, <1>8 DEF IsTrade
<1>11. ChannelCounts' /\ StatusesLead'
  <2>1. \A k \in 2 .. Len(events) : events[k].event_type = "order"
    BY <1>8
  <2>2. \A v \in VenueIds : \A k \in 1 .. Len(events) : ~IsOrder(events[k], v)
    BY <1>5, <1>8 DEF IsOrder
  <2>3. \A r \in TradeIds : IsTrade(events[1], r) =>
          /\ events[1].maker_orders = MakersOf(r)'
          /\ Leads(venueTrades[r].status, events[1].status)
          /\ venueTrades'[r].status = events[1].status
    BY <1>2, <1>3, <1>4, <1>5, <1>8, <1>10
  <2>4. \A r \in TradeIds :
          \/ venueTrades'[r] = venueTrades[r] /\ ~IsTrade(events[1], r)
          \/ MakersOf(r)' = MakersOf(r) /\ IsTrade(events[1], r)
    BY <1>2, <1>3, <1>10
  <2>5. \A r \in TradeIds : \A v \in MakersOf(r) : Received(r, v)' = Received(r, v)
    BY <1>7 DEF MakersOf, TypeInv, TypeOK
  <2> QED
    BY <1>8, <1>9, <2>1, <2>2, <2>3, <2>4, <2>5, ReportKeepsTold DEF FillsInv
<1> QED  BY <1>6, <1>7, <1>11 DEF FillsInv

LEMMA EnvironmentFills ==
    ASSUME TypeInv, RestartInv, VenueInv, Reliable, FillsInv, Environment
    PROVE  FillsInv'
<1> USE DEF venueVars, history, wire
<1>1. Untroubled /\ \A c \in posts : Posting(c) /\ task.answer = "none"
  BY DEF FillsInv, OrdersKnown
<1>2. ASSUME NEW c \in ClientIds, VenueRefuses(c)
      PROVE  FillsInv'
  <2>1. /\ c \in posts /\ posts' = posts \ {c} /\ AnswerPost(c, "refused", NoVenueId)
        /\ UNCHANGED <<memory, up, raised, venueVars>>
    BY <1>2 DEF VenueRefuses
  <2>2. Posting(c) /\ task.answer = "none" /\ posts' = {}
    BY <1>1, <2>1 DEF Posting
  <2>3. task'.step = "posting" /\ task'.answer = "refused"
    <3>1. task \in [step : {"posting"}, client : ClientIds,
                    answer : {"none", "accepted", "refused"},
                    venue : VenueIds \cup {NoVenueId}]
      BY <2>2 DEF Posting, TypeInv, TypeOK, Task, Idle
    <3>2. task' = [task EXCEPT !.answer = "refused", !.venue = NoVenueId]
      BY <2>1, <2>2 DEF AnswerPost
    <3> QED  BY <3>1, <3>2
  <2>4. task.step # "trade" /\ task'.step # "trade" /\ NoAnswer /\ NoAnswer'
    BY <2>2, <2>3 DEF Posting, NoAnswer
  <2> QED  BY <1>1, <2>1, <2>2, <2>4, QuietFills DEF Untroubled, memory
<1>3. ASSUME NEW v \in VenueIds, VenueKeeps(v)
      PROVE  FillsInv'
  <2>1. /\ UNCHANGED <<memory, up, raised, posts, venueVars>> /\ AnswerCancel(v)
    BY <1>3 DEF VenueKeeps
  <2>2. \/ task' = task
        \/ /\ task.step # "trade" /\ task'.step # "trade" /\ NoAnswer /\ NoAnswer'
           /\ task.step # "posting"
    <3>1. CASE task.step = "canceling" /\ task.venue = v
      <4>1. task \in [step : {"canceling"}, client : ClientIds, venue : VenueIds,
                      answered : BOOLEAN]
        BY <3>1 DEF TypeInv, TypeOK, Task, Idle
      <4>2. task' = [task EXCEPT !.answered = TRUE]
        BY <2>1, <3>1 DEF AnswerCancel
      <4> QED  BY <3>1, <4>1, <4>2 DEF NoAnswer
    <3> QED  BY <2>1, <3>1 DEF AnswerCancel
  <2>3. \A c \in posts' : (Posting(c) /\ task.answer = "none")'
    BY <1>1, <2>1, <2>2 DEF Posting
  <2> QED  BY <1>1, <2>1, <2>2, <2>3, QuietFills DEF Untroubled, memory
<1>4. CASE VenueSwept \/ Tick
  <2>1. UNCHANGED <<task, memory, up, raised, posts, venueVars>>
    BY <1>4 DEF VenueSwept, Tick
  <2>2. \A c \in posts' : (Posting(c) /\ task.answer = "none")'
    BY <1>1, <2>1 DEF Posting
  <2> QED  BY <1>1, <2>1, <2>2, QuietFills DEF Untroubled, memory
<1>5. ~RequestLost /\ ~EventLost
  BY DEF RequestLost, EventLost, Reliable
<1> QED
  BY <1>2, <1>3, <1>4, <1>5, AcceptedFills, ClosedFills, MatchedFills, TradeMovedFills
  DEF Environment

LEMMA StepFills ==
    ASSUME TypeInv, StopIsKnown, RestartInv, VenueInv, Reliable, FillsInv, [Next]_vars
    PROVE  FillsInv'
<1>1. ~Crash /\ ~Restart
  BY DEF Crash, Restart, Reliable, FillsInv, Untroubled, TypeInv, TypeOK
<1>2. CASE UNCHANGED vars
  <2>1. UNCHANGED <<task, memory, up, raised, posts, venueVars>>
    BY <1>2 DEF vars, wire, history
  <2>2. \A c \in posts' : (Posting(c) /\ task.answer = "none")'
    BY <2>1 DEF FillsInv, OrdersKnown, Posting
  <2>3. Untroubled
    BY DEF FillsInv
  <2> QED  BY <2>1, <2>2, <2>3, QuietFills DEF Untroubled, memory, venueVars
<1> QED
  BY <1>1, <1>2, SubmittingFills, CancelingFills, StoppingFills, ReconciliationFills,
     EnvironmentFills
  DEF Next

LEMMA InitFills == Init => FillsInv
<1> SUFFICES ASSUME Init PROVE FillsInv
  OBVIOUS
<1>1. /\ up = TRUE /\ raised = FALSE /\ task.step = "idle" /\ posts = {} /\ channel = <<>>
      /\ \A c \in ClientIds : orders[c].status = "absent" /\ orders[c].matched_size = 0
      /\ \A k \in TradeIds \X ClientIds : trades[k] = "none"
      /\ \A v \in VenueIds : venueOrders[v] = NoOrder
      /\ \A t \in TradeIds : venueTrades[t] = [status |-> "none", maker_orders |-> {}]
      /\ progress = [submitted_orders |-> 0, fills |-> 0] /\ nextVenueId = 1
  BY DEF Init, Fresh, Absent, Idle
<1>2. /\ \A v \in VenueIds : OwnerOf(v) = NoClient /\ venueOrders[v].matched = 0
      /\ \A t \in TradeIds : MakersOf(t) = {}
      /\ \A v : MatchedIn(v) = {}
      /\ \A c \in ClientIds : CountedFor(c) = {}
      /\ {k \in TradeIds \X ClientIds : trades[k] # "none"} = {}
  BY <1>1 DEF OwnerOf, MakersOf, MatchedIn, CountedFor, NoOrder
<1>3. Cardinality({}) = 0 /\ NoClient \notin ClientIds
  BY FS_EmptySet, ConstantsAssumption
<1>4. Untroubled
  BY <1>1 DEF Untroubled
<1>5. OrdersKnown
  BY <1>1, <1>2, <1>3 DEF OrdersKnown
<1>6. VenueCounts
  BY <1>2, <1>3 DEF VenueCounts
<1>7. ServiceCounts
  <2>1. \A c \in ClientIds : orders[c].matched_size = Cardinality(CountedFor(c))
    BY <1>1, <1>2, <1>3
  <2>2. progress.fills = Cardinality({k \in TradeIds \X ClientIds : trades[k] # "none"})
    <3>1. progress.fills = 0
      BY <1>1
    <3> QED  BY <1>2, <1>3, <3>1
  <2>3. progress.submitted_orders < nextVenueId /\ task.step # "posting"
    BY <1>1
  <2>4. \A c \in ClientIds : \A t \in CountedFor(c) : \E v \in MakersOf(t) : OwnerOf(v) = c
    BY <1>2
  <2> QED  BY <2>1, <2>2, <2>3, <2>4, Zenon DEF ServiceCounts
<1>8. HandFits
  BY <1>1 DEF HandFits
<1>9. ChannelCounts
  BY <1>1, <1>2 DEF ChannelCounts
<1>10. StatusesLead
  BY <1>1, <1>2 DEF StatusesLead
<1> QED  BY <1>4, <1>5, <1>6, <1>7, <1>8, <1>9, <1>10 DEF FillsInv

(* Every counted fill is a fill of the venue, each of another one.         *)
LEMMA FillsAreReal ==
    ASSUME TypeInv, VenueInv, FillsInv
    PROVE  progress.fills <= Cardinality(VenueFills)
<1> DEFINE Kept == {k \in TradeIds \X ClientIds : trades[k] # "none"}
           Order(k) == CHOOSE v \in MakersOf(k[1]) : OwnerOf(v) = k[2]
           f == [k \in Kept |-> <<k[1], Order(k)>>]
<1>1. ASSUME NEW k \in Kept
      PROVE  /\ k[1] \in TradeIds /\ k[2] \in ClientIds /\ k = <<k[1], k[2]>>
             /\ Order(k) \in MakersOf(k[1]) /\ OwnerOf(Order(k)) = k[2]
  <2>1. k[1] \in TradeIds /\ k[2] \in ClientIds /\ k = <<k[1], k[2]>>
    OBVIOUS
  <2>2. k[1] \in CountedFor(k[2])
    BY <2>1 DEF CountedFor
  <2>3. \E v \in MakersOf(k[1]) : OwnerOf(v) = k[2]
    BY <2>1, <2>2 DEF FillsInv, ServiceCounts
  <2> QED  BY <2>1, <2>3
<1> HIDE DEF Order
<1>2. f \in [Kept -> VenueFills]
  <2> SUFFICES ASSUME NEW k \in Kept PROVE <<k[1], Order(k)>> \in VenueFills
    OBVIOUS
  <2> QED  BY <1>1 DEF VenueFills, MakersOf
<1>3. \A k, l \in Kept : f[k] = f[l] => k = l
  <2> SUFFICES ASSUME NEW k \in Kept, NEW l \in Kept, f[k] = f[l] PROVE k = l
    OBVIOUS
  <2>1. k[1] = l[1] /\ Order(k) = Order(l)
    OBVIOUS
  <2> QED  BY <1>1, <2>1
<1>4. IsFiniteSet(VenueFills)
  <2>1. IsFiniteSet(VenueIds)
    BY FS_Interval, ConstantsAssumption DEF VenueIds
  <2>2. IsFiniteSet(TradeIds \X VenueIds)
    BY <2>1, ConstantsAssumption, FS_Product
  <2>3. VenueFills \subseteq TradeIds \X VenueIds
    BY DEF VenueFills, TypeInv, TypeOK
  <2> QED  BY <2>2, <2>3, FS_Subset
<1>5. f \in Injection(Kept, VenueFills)
  BY <1>2, <1>3 DEF Injection, IsInjective
<1>6. Cardinality(Kept) <= Cardinality(VenueFills)
  BY <1>4, <1>5, FS_Injection
<1> QED  BY <1>6 DEF FillsInv, ServiceCounts

LEMMA DrainedSizesAgree ==
    ASSUME TypeInv, RestartInv, VenueInv, FillsInv, task = Idle, channel = <<>>
    PROVE  SizesAgree
<1> SUFFICES ASSUME NEW c \in ClientIds, orders[c].venue_order_id # NoVenueId
             PROVE  orders[c].matched_size = venueOrders[orders[c].venue_order_id].matched
  BY DEF SizesAgree
<1> DEFINE v == orders[c].venue_order_id
<1>1. v \in VenueIds
  BY IndexType
<1>2. OwnerOf(v) = c
  BY <1>1, OwnedByVenue DEF RestartInv, IndexFits, OwnerOf
<1> HIDE DEF v
<1>3. CountedFor(c) = ToldBefore(v, 1)
  BY <1>1, <1>2, CountedIsTold DEF Idle
<1>4. ToldBefore(v, 1) = MatchedIn(v)
  BY DEF ToldBefore, MatchToCome
<1> QED  BY <1>1, <1>3, <1>4 DEF FillsInv, ServiceCounts, VenueCounts, v

LEMMA FillsAlways ==
    ASSUME Reliable
    PROVE  Spec => [](TypeInv /\ RestartInv /\ VenueInv /\ FillsInv)
<1>0. Mode # "paper"
  BY DEF Reliable
<1>1. Init => LogInv /\ StatusKnown
  BY InitLog
<1>2. Init => RestartInv /\ VenueInv /\ FillsInv
  BY InitRestart, InitVenue, InitFills
<1>3. IInv /\ [Next]_vars => IInv'
  BY StepInv
<1>4. IInv /\ LogInv /\ [Next]_vars => LogInv'
  BY StepRemembers
<1>5. IInv /\ LogInv /\ StatusKnown /\ [Next]_vars => StatusKnown'
  BY StepMoves
<1>6. IInv /\ RestartInv /\ [Next]_vars => RestartInv'
  BY <1>0, StepIsDurable
<1>7. IInv /\ LogInv /\ StatusKnown /\ RestartInv /\ VenueInv /\ [Next]_vars => VenueInv'
  BY <1>0, StepTracks
<1>8. IInv /\ RestartInv /\ VenueInv /\ FillsInv /\ [Next]_vars => FillsInv'
  BY StepFills DEF IInv
<1>9. IInv => TypeInv
  BY DEF IInv
<1> QED  BY InitInv, <1>1, <1>2, <1>3, <1>4, <1>5, <1>6, <1>7, <1>8, <1>9, PTL DEF Spec

(* The matched sizes of the orders agree with the venue's whenever the     *)
(* service has taken every event, and the counters that open the canary    *)
(* gates are never ahead of what the venue has done, although a match is   *)
(* reported by a trade, by the trade's later statuses and by the sizes of  *)
(* the orders (_reconcile_order, _reconcile_trade).                        *)
THEOREM EachFillCountsOnce == ASSUME Reliable PROVE Spec => []FillsCountOnce
<1>1. TypeInv /\ RestartInv /\ VenueInv /\ FillsInv => FillsCountOnce
  <2> SUFFICES ASSUME TypeInv, RestartInv, VenueInv, FillsInv PROVE FillsCountOnce
    OBVIOUS
  <2>1. task = Idle /\ channel = <<>> => SizesAgree
    BY DrainedSizesAgree
  <2>2. progress.submitted_orders < nextVenueId
    BY DEF FillsInv, ServiceCounts
  <2> QED  BY <2>1, <2>2, FillsAreReal DEF FillsCountOnce
<1> QED  BY <1>1, FillsAlways, PTL

(* No event of the user channel makes its handler raise: an order update   *)
(* never shrinks a size, a match never exceeds its order, and a trade      *)
(* moves only as _TRADE_TRANSITIONS allows.                                *)
THEOREM HandlersNeverRaise == ASSUME Reliable PROVE Spec => []ChannelNeverRaises
<1>1. FillsInv => ChannelNeverRaises
  BY DEF FillsInv, Untroubled, ChannelNeverRaises
<1> QED  BY <1>1, FillsAlways, PTL

(* At no time is the service ahead of the venue: counting by trades and by *)
(* cumulative sizes (_reconcile_trade, _record_cumulative_match) adds up   *)
(* to no share twice.  A trade that is lost is enough to break this.       *)
THEOREM SizeNeverAhead == ASSUME Reliable PROVE Spec => []MatchedNeverAhead
<1>1. TypeInv /\ RestartInv /\ VenueInv /\ FillsInv => MatchedNeverAhead
  <2> SUFFICES ASSUME TypeInv, RestartInv, VenueInv, FillsInv,
                      NEW c \in ClientIds, orders[c].venue_order_id # NoVenueId
               PROVE  orders[c].matched_size <= venueOrders[orders[c].venue_order_id].matched
    BY DEF MatchedNeverAhead
  <2> DEFINE v == orders[c].venue_order_id
  <2>1. v \in VenueIds
    BY IndexType
  <2>2. OwnerOf(v) = c
    BY <2>1, OwnedByVenue DEF RestartInv, IndexFits, OwnerOf
  <2> HIDE DEF v
  <2>3. CountedFor(c) \subseteq MatchedIn(v)
    BY <2>1, <2>2, CountedIsMatched
  <2>4. IsFiniteSet(MatchedIn(v))
    BY ConstantsAssumption, FS_Subset DEF MatchedIn
  <2>5. /\ orders[c].matched_size = Cardinality(CountedFor(c))
        /\ venueOrders[v].matched = Cardinality(MatchedIn(v))
    BY <2>1 DEF FillsInv, ServiceCounts, VenueCounts
  <2>6. Cardinality(CountedFor(c)) <= Cardinality(MatchedIn(v))
    BY <2>3, <2>4, FS_Subset
  <2> QED  BY <2>5, <2>6 DEF v
<1> QED  BY <1>1, FillsAlways, PTL
=============================================================================
