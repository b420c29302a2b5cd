--------------------------- MODULE LiveExecution ---------------------------
(***************************************************************************)
(* LiveExecutionService (btc_short_horizon/live/service.py) with its       *)
(* write-ahead log (wal.py), its risk gate (risk.py), its gateway          *)
(* (gateway.py), the venue behind the gateway and the user channel that    *)
(* reports orders and trades back.                                         *)
(*                                                                         *)
(* The service is synchronous: one call runs at a time, and "task" says    *)
(* which call is in progress and where it is.  While a call waits for the  *)
(* venue, the venue and the network take steps, and the process can crash. *)
(*                                                                         *)
(* The log is kept as what restore_from_wal computes from it: restoring is *)
(* a left fold over the records, every record overwrites the snapshots it  *)
(* carries, so the value of the fold is updated when a record is appended. *)
(***************************************************************************)
EXTENDS Integers, Sequences, FiniteSets, OrderLifecycle

CONSTANTS
    Mode,              \* "shadow", "paper" or "canary"
    TradingEnabled,    \* TradingSafetyConfig.trading_enabled
    ClientIds,         \* client order ids, one for each call of submit
    NoClient,          \* no client order
    MarketOf,          \* the condition_id of the request behind a client id
    SizeOf,            \* the size of the request behind a client id
    CanaryMaxShares,   \* LiveExecutionConfig.canary_max_shares
    HeartbeatTimeout,  \* LiveExecutionConfig.heartbeat_timeout_seconds
    TradeIds,          \* venue trade ids
    VenueIdLimit,      \* bound: venue order ids are 1 .. VenueIdLimit
    MaxTime,           \* bound: the clock stops here
    MaxCrashes,        \* bound: how often the process crashes
    OperatorActs,      \* may the caller stop the service or cancel everything?
    ChannelLimit,      \* bound: events waiting in the user channel
    TransportFaults,   \* may a request or its answer be lost?
    ChannelFaults,     \* may the user channel lose an event?
    TradeFirst         \* does a fill report its trade before its order update?

VenueIds == 1 .. VenueIdLimit
NoVenueId == 0
Markets == {MarketOf[c] : c \in ClientIds}
Never == -1

ASSUME ConstantsAssumption ==
    /\ Mode \in {"shadow", "paper", "canary"}
    /\ TradingEnabled \in BOOLEAN
    /\ IsFiniteSet(ClientIds) /\ NoClient \notin ClientIds
    /\ IsFiniteSet(TradeIds)
    /\ SizeOf \in [ClientIds -> Nat \ {0}]
    /\ CanaryMaxShares \in Nat \ {0}
    /\ HeartbeatTimeout \in Nat \ {0}
    /\ VenueIdLimit \in Nat
    /\ MaxTime \in Nat
    /\ MaxCrashes \in Nat
    /\ OperatorActs \in BOOLEAN
    /\ ChannelLimit \in Nat
    /\ TransportFaults \in BOOLEAN
    /\ ChannelFaults \in BOOLEAN
    /\ TradeFirst \in BOOLEAN
    /\ Mode = "paper" => ~TransportFaults  \* PaperOrderGateway cannot fail

VARIABLES
    up,                          \* is the process running?
    task,                        \* the call in progress
    orders,                      \* client id -> order snapshot
    trades,                      \* <<trade id, client id>> -> trade status
    clientOrderByVenue,          \* venue id -> client id
    progress,                    \* CanaryProgress
    lastHeartbeat,
    heartbeatCancelRequested,
    ambiguousMarkets,
    halted,
    wal,                         \* what restore_from_wal would rebuild
    now,
    posts, cancels, cancelAll,   \* requests on their way to the venue
    venueOrders, venueTrades,    \* the venue's own records
    nextVenueId,
    channel,                     \* user-channel events not yet handled
    crashes,
    inFlightAtCrash,             \* history: posts unanswered when it crashed
    cancelAllSent,               \* history: cancel_all reached the gateway
    raised,                      \* history: an event handler raised
    lifted                       \* history: orders in doubt whose block went
                                 \* with the answer about another order

memory == <<orders, trades, clientOrderByVenue, progress, lastHeartbeat,
            heartbeatCancelRequested, ambiguousMarkets, halted>>
wire == <<posts, cancels, cancelAll>>
venueVars == <<venueOrders, venueTrades, nextVenueId, channel>>
history == <<crashes, inFlightAtCrash, cancelAllSent, raised, lifted>>
vars == <<up, task, memory, wal, now, wire, venueVars, history>>
-----------------------------------------------------------------------------
(* Shapes *)

Absent == [status |-> "absent", venue_order_id |-> NoVenueId, matched_size |-> 0]

OrderEvent ==
    [event_type : {"order"}, type : {"PLACEMENT", "UPDATE", "CANCELLATION"},
     id : VenueIds, size_matched : Nat]
(* One trade event lists every resting order it matched, one share each.   *)
TradeEvent ==
    [event_type : {"trade"}, id : TradeIds, status : LiveTradeStatus,
     maker_orders : SUBSET VenueIds]

Idle == [step |-> "idle"]
Task == {Idle}
          \cup [step : {"decided", "cancel_logged"}, client : ClientIds]
          \cup [step : {"canceling"}, client : ClientIds, venue : VenueIds,
                answered : BOOLEAN]
          \cup [step : {"posting"}, client : ClientIds,
                answer : {"none", "accepted", "refused"},
                venue : VenueIds \cup {NoVenueId}]
          \cup [step : {"stopping"}, cause : {"operator", "heartbeat"}]
          \cup [step : {"trade"}, event : TradeEvent, rest : SUBSET VenueIds]

Durable ==
    [orders : [ClientIds -> LiveOrder(VenueIds, NoVenueId)],
     trades : [TradeIds \X ClientIds -> LiveTradeStatus \cup {"none"}],
     clientOrderByVenue : [VenueIds -> ClientIds \cup {NoClient}],
     ambiguousMarkets : SUBSET Markets,
     lastHeartbeat : Int,
     halted : BOOLEAN]

TypeOK ==
    /\ up \in BOOLEAN
    /\ task \in Task
    /\ orders \in [ClientIds -> LiveOrder(VenueIds, NoVenueId)]
    /\ trades \in [TradeIds \X ClientIds -> LiveTradeStatus \cup {"none"}]
    /\ clientOrderByVenue \in [VenueIds -> ClientIds \cup {NoClient}]
    /\ progress \in [submitted_orders : Nat, fills : Nat]
    /\ lastHeartbeat \in Int
    /\ heartbeatCancelRequested \in BOOLEAN
    /\ ambiguousMarkets \subseteq Markets
    /\ halted \in BOOLEAN
    /\ wal \in Durable
    /\ now \in Nat
    /\ posts \subseteq ClientIds
    /\ cancels \subseteq VenueIds
    /\ cancelAll \in BOOLEAN
    /\ venueOrders \in [VenueIds -> [client : ClientIds \cup {NoClient},
                                     open : BOOLEAN, matched : Nat]]
    /\ venueTrades \in [TradeIds -> [status : LiveTradeStatus \cup {"none"},
                                     maker_orders : SUBSET VenueIds]]
    /\ nextVenueId \in Nat \ {0}
    /\ channel \in Seq(OrderEvent \cup TradeEvent)
    /\ crashes \in Nat
    /\ inFlightAtCrash \subseteq ClientIds
    /\ cancelAllSent \in BOOLEAN
    /\ raised \in BOOLEAN
    /\ lifted \subseteq ClientIds

Fresh ==
    [orders |-> [c \in ClientIds |-> Absent],
     trades |-> [k \in TradeIds \X ClientIds |-> "none"],
     clientOrderByVenue |-> [v \in VenueIds |-> NoClient],
     ambiguousMarkets |-> {},
     lastHeartbeat |-> Never,
     halted |-> FALSE]

NoOrder == [client |-> NoClient, open |-> FALSE, matched |-> 0]

(* LiveExecutionService.__init__ followed by restore_from_wal.  The fold   *)
(* adds the market of every snapshot that was ever UNKNOWN and takes none  *)
(* out; the progress counters are recounted; the "cancel already           *)
(* requested" flag is not restored.                                        *)
Load(log) ==
    /\ orders' = log.orders
    /\ trades' = log.trades
    /\ clientOrderByVenue' = log.clientOrderByVenue
    /\ ambiguousMarkets' = log.ambiguousMarkets
    /\ lastHeartbeat' = log.lastHeartbeat
    /\ halted' = log.halted
    /\ heartbeatCancelRequested' = FALSE
    /\ progress' =
        [submitted_orders |->
            Cardinality({c \in ClientIds : log.orders[c].venue_order_id # NoVenueId}),
         fills |->
            Cardinality({k \in TradeIds \X ClientIds : log.trades[k] # "none"})]

Init ==
    /\ up = TRUE
    /\ task = Idle
    /\ orders = Fresh.orders
    /\ trades = Fresh.trades
    /\ clientOrderByVenue = Fresh.clientOrderByVenue
    /\ progress = [submitted_orders |-> 0, fills |-> 0]
    /\ lastHeartbeat = Never
    /\ heartbeatCancelRequested = FALSE
    /\ ambiguousMarkets = {}
    /\ halted = FALSE
    /\ wal = Fresh
    /\ now = 0
    /\ posts = {} /\ cancels = {} /\ cancelAll = FALSE
    /\ venueOrders = [v \in VenueIds |-> NoOrder]
    /\ venueTrades = [t \in TradeIds |-> [status |-> "none", maker_orders |-> {}]]
    /\ nextVenueId = 1
    /\ channel = <<>>
    /\ crashes = 0
    /\ inFlightAtCrash = {}
    /\ cancelAllSent = FALSE
    /\ raised = FALSE
    /\ lifted = {}
-----------------------------------------------------------------------------
(* Appending to the log *)

(* Mutant of WithOrder: restoring does not block the market of an UNKNOWN  *)
(* order.                                                                  *)
WithOrderUnblocked(log, c, order) ==
    [log EXCEPT
        !.orders[c] = order,
        !.clientOrderByVenue =
            IF order.venue_order_id = NoVenueId THEN @
            ELSE [@ EXCEPT ![order.venue_order_id] = c]]

(* A record that carries an order snapshot, as restore_from_wal reads it.  *)
WithOrder(log, c, order) ==
    [log EXCEPT
        !.orders[c] = order,
        !.clientOrderByVenue =
            IF order.venue_order_id = NoVenueId THEN @
            ELSE [@ EXCEPT ![order.venue_order_id] = c],
        !.ambiguousMarkets =
            IF order.status = "unknown" THEN @ \cup {MarketOf[c]} ELSE @]

(* Store a snapshot in memory and append a record that carries it.         *)
StoreAndLog(c, order) ==
    /\ orders' = [orders EXCEPT ![c] = order]
    /\ wal' = WithOrder(wal, c, order)

Moved(order, status) == [order EXCEPT !.status = status]

Ready == up /\ task = Idle
-----------------------------------------------------------------------------
(* submit *)

(* evaluate_order_risk on the caller's AccountSnapshot, and the two        *)
(* settings paper mode overrides.  "within_limits" stands for the numeric  *)
(* limits on markets, open orders, daily loss and unresolved notional.     *)
Accounts == [feeds_healthy : BOOLEAN, geo_eligible : BOOLEAN, within_limits : BOOLEAN]

RiskAllows(account) ==
    /\ Mode = "paper" \/ TradingEnabled
    /\ account.feeds_healthy
    /\ Mode = "paper" \/ account.geo_eligible
    /\ account.within_limits

(* Mutant of Frozen: submit forgets the kill switch.                       *)
FrozenByMarketOnly(c) == MarketOf[c] \in ambiguousMarkets

(* The gates that stop an order before the mode is looked at.              *)
Frozen(c) == halted \/ MarketOf[c] \in ambiguousMarkets

WithinCanaryCap(c) == Mode = "canary" => SizeOf[c] <= CanaryMaxShares

SubmitDecision(c) ==
    /\ Ready
    /\ orders[c] = Absent
    /\ StoreAndLog(c, Moved(Absent, "created"))
    /\ task' = [step |-> "decided", client |-> c]
    /\ UNCHANGED <<up, trades, clientOrderByVenue, progress, lastHeartbeat,
                   heartbeatCancelRequested, ambiguousMarkets, halted, now,
                   wire, venueVars, history>>

Deciding(c) == task = [step |-> "decided", client |-> c]

(* Refused, or in shadow mode recorded and left at that.                   *)
SubmitWithheld(c) ==
    /\ Deciding(c)
    /\ \/ Frozen(c) \/ Mode = "shadow" \/ ~WithinCanaryCap(c)
       \/ \E account \in Accounts : ~RiskAllows(account)
    /\ StoreAndLog(c, IF Mode = "shadow" /\ ~Frozen(c) THEN orders[c]
                      ELSE Moved(orders[c], "rejected"))
    /\ task' = Idle
    /\ UNCHANGED <<up, trades, clientOrderByVenue, progress, lastHeartbeat,
                   heartbeatCancelRequested, ambiguousMarkets, halted, now,
                   wire, venueVars, history>>

(* SIGNED and SUBMITTED exist in memory only: nothing is logged between    *)
(* order_decision and the answer of the venue.                             *)
SubmitToGateway(c) ==
    /\ Deciding(c)
    /\ ~Frozen(c)
    /\ Mode # "shadow"
    /\ WithinCanaryCap(c)
    /\ \E account \in Accounts : RiskAllows(account)
    /\ orders' = [orders EXCEPT ![c] = Moved(@, "submitted")]
    /\ posts' = posts \cup {c}
    /\ task' = [step |-> "posting", client |-> c, answer |-> "none",
                venue |-> NoVenueId]
    /\ UNCHANGED <<up, trades, clientOrderByVenue, progress, lastHeartbeat,
                   heartbeatCancelRequested, ambiguousMarkets, halted, wal, now,
                   cancels, cancelAll, venueVars, history>>

Posting(c) == task.step = "posting" /\ task.client = c

SubmitAcknowledged(c) ==
    /\ Posting(c) /\ task.answer = "accepted"
    /\ StoreAndLog(c, [orders[c] EXCEPT !.status = "live",
                                        !.venue_order_id = task.venue])
    /\ clientOrderByVenue' = [clientOrderByVenue EXCEPT ![task.venue] = c]
    /\ progress' = [progress EXCEPT !.submitted_orders = @ + 1]
    /\ task' = Idle
    /\ UNCHANGED <<up, trades, lastHeartbeat, heartbeatCancelRequested,
                   ambiguousMarkets, halted, now, wire, venueVars, history>>

SubmitRejected(c) ==
    /\ Posting(c) /\ task.answer = "refused"
    /\ StoreAndLog(c, Moved(orders[c], "rejected"))
    /\ task' = Idle
    /\ UNCHANGED <<up, trades, clientOrderByVenue, progress, lastHeartbeat,
                   heartbeatCancelRequested, ambiguousMarkets, halted, now,
                   wire, venueVars, history>>

(* Mutant of SubmitUnknown: a timeout is taken for a rejection.            *)
SubmitUnknownRejects(c) ==
    /\ TransportFaults
    /\ Posting(c)
    /\ StoreAndLog(c, Moved(orders[c], "rejected"))
    /\ task' = Idle
    /\ UNCHANGED <<up, trades, clientOrderByVenue, progress, lastHeartbeat,
                   heartbeatCancelRequested, ambiguousMarkets, halted, now,
                   wire, venueVars, history>>

(* The market of an order in doubt is blocked, and released again with the *)
(* answer about any order of the market.                                   *)
Blocks(c) ==
    /\ ambiguousMarkets' = ambiguousMarkets \cup {MarketOf[c]}
    /\ lifted' = lifted \ {c}

Releases(c) ==
    /\ ambiguousMarkets' = ambiguousMarkets \ {MarketOf[c]}
    /\ lifted' = lifted \cup {d \in ClientIds \ {c} :
                                MarketOf[d] = MarketOf[c] /\ orders[d].status = "unknown"}

(* GatewaySubmissionUnknownError: a transport error or a 5xx, whatever the *)
(* venue did or will do with the request.                                  *)
SubmitUnknown(c) ==
    /\ TransportFaults
    /\ Posting(c)
    /\ StoreAndLog(c, Moved(orders[c], "unknown"))
    /\ Blocks(c)
    /\ task' = Idle
    /\ UNCHANGED <<up, trades, clientOrderByVenue, progress, lastHeartbeat,
                   heartbeatCancelRequested, halted, now, wire, venueVars, crashes,
                   inFlightAtCrash, cancelAllSent, raised>>
-----------------------------------------------------------------------------
(* request_cancel, cancel_all *)

RequestCancel(c) ==
    /\ Ready
    /\ Mode # "shadow"
    /\ orders[c].status \in {"live", "not_canceled"}
    /\ orders[c].venue_order_id # NoVenueId
    /\ StoreAndLog(c, Moved(orders[c], "cancel_requested"))
    /\ task' = [step |-> "cancel_logged", client |-> c]
    /\ UNCHANGED <<up, trades, clientOrderByVenue, progress, lastHeartbeat,
                   heartbeatCancelRequested, ambiguousMarkets, halted, now,
                   wire, venueVars, history>>

SendCancel(c) ==
    /\ task = [step |-> "cancel_logged", client |-> c]
    /\ cancels' = cancels \cup {orders[c].venue_order_id}
    /\ task' = [step |-> "canceling", client |-> c,
                venue |-> orders[c].venue_order_id, answered |-> FALSE]
    /\ UNCHANGED <<up, memory, wal, now, posts, cancelAll, venueVars, history>>

(* The venue answered, or refused with an error the gateway lets through:  *)
(* either way the order stays CANCEL_REQUESTED until the user channel      *)
(* reports it.                                                             *)
CancelReturned(c) ==
    /\ task.step = "canceling" /\ task.client = c /\ task.answered
    /\ task' = Idle
    /\ UNCHANGED <<up, memory, wal, now, wire, venueVars, history>>

(* Mutant of CancelUnknown: the doubt is not logged.                       *)
CancelUnknownUnlogged(c) ==
    /\ TransportFaults
    /\ task.step = "canceling" /\ task.client = c
    /\ orders' = [orders EXCEPT ![c] = Moved(@, "unknown")]
    /\ ambiguousMarkets' = ambiguousMarkets \cup {MarketOf[c]}
    /\ task' = Idle
    /\ UNCHANGED <<up, trades, clientOrderByVenue, progress, lastHeartbeat,
                   heartbeatCancelRequested, halted, wal, now, wire, venueVars,
                   history>>

CancelUnknown(c) ==
    /\ TransportFaults
    /\ task.step = "canceling" /\ task.client = c
    /\ StoreAndLog(c, Moved(orders[c], "unknown"))
    /\ Blocks(c)
    /\ task' = Idle
    /\ UNCHANGED <<up, trades, clientOrderByVenue, progress, lastHeartbeat,
                   heartbeatCancelRequested, halted, now, wire, venueVars, crashes,
                   inFlightAtCrash, cancelAllSent, raised>>

(* The log records the request, the fold ignores it.  In shadow mode only  *)
(* the log changes.                                                        *)
SendCancelAll ==
    /\ cancelAll' = (cancelAll \/ Mode # "shadow")
    /\ cancelAllSent' = (cancelAllSent \/ Mode # "shadow")

CancelAll ==
    /\ OperatorActs
    /\ Ready
    /\ SendCancelAll
    /\ UNCHANGED <<up, task, memory, wal, now, posts, cancels, venueVars,
                   crashes, inFlightAtCrash, raised, lifted>>
-----------------------------------------------------------------------------
(* emergency_stop and the heartbeat *)

Freeze(cause) ==
    /\ halted' = TRUE
    /\ wal' = [wal EXCEPT !.halted = TRUE]
    /\ task' = [step |-> "stopping", cause |-> cause]
    /\ UNCHANGED <<up, orders, trades, clientOrderByVenue, progress,
                   lastHeartbeat, heartbeatCancelRequested, ambiguousMarkets,
                   now, wire, venueVars, history>>

EmergencyStop == OperatorActs /\ Ready /\ ~halted /\ Freeze("operator")

(* Mutant of StopCancelsOrders: the service freezes and stops there.       *)
StopOnlyFreezes ==
    /\ task.step = "stopping"
    /\ heartbeatCancelRequested' =
          (heartbeatCancelRequested \/ task.cause = "heartbeat")
    /\ task' = Idle
    /\ UNCHANGED <<up, orders, trades, clientOrderByVenue, progress,
                   lastHeartbeat, ambiguousMarkets, halted, wal, now, wire,
                   venueVars, history>>

(* The second half of emergency_stop.  An error of the gateway is caught   *)
(* and logged; enforce_heartbeat_timeout then raises its flag.             *)
StopCancelsOrders ==
    /\ task.step = "stopping"
    /\ SendCancelAll
    /\ heartbeatCancelRequested' =
          (heartbeatCancelRequested \/ task.cause = "heartbeat")
    /\ task' = Idle
    /\ UNCHANGED <<up, orders, trades, clientOrderByVenue, progress,
                   lastHeartbeat, ambiguousMarkets, halted, wal, now, posts,
                   cancels, venueVars, crashes, inFlightAtCrash, raised, lifted>>

(* record_heartbeat, called directly or by send_venue_heartbeat after the  *)
(* venue has answered.                                                     *)
RecordHeartbeat ==
    /\ Ready
    /\ lastHeartbeat' = now
    /\ heartbeatCancelRequested' = FALSE
    /\ wal' = [wal EXCEPT !.lastHeartbeat = now]
    /\ UNCHANGED <<up, task, orders, trades, clientOrderByVenue, progress,
                   ambiguousMarkets, halted, now, wire, venueVars, history>>

HeartbeatOverdue ==
    /\ lastHeartbeat # Never
    /\ now - lastHeartbeat > HeartbeatTimeout

EnforceTimeout ==
    /\ Ready
    /\ HeartbeatOverdue
    /\ ~heartbeatCancelRequested
    /\ ~halted
    /\ Freeze("heartbeat")

(* emergency_stop returns False at once when the service is halted.        *)
EnforceTimeoutWhenHalted ==
    /\ Ready
    /\ HeartbeatOverdue
    /\ ~heartbeatCancelRequested
    /\ halted
    /\ heartbeatCancelRequested' = TRUE
    /\ UNCHANGED <<up, task, orders, trades, clientOrderByVenue, progress,
                   lastHeartbeat, ambiguousMarkets, halted, wal, now, wire,
                   venueVars, history>>

Tick ==
    /\ now < MaxTime
    /\ now' = now + 1
    /\ UNCHANGED <<up, task, memory, wal, wire, venueVars, history>>
-----------------------------------------------------------------------------
(* reconcile_user_event: order events *)

Receives(type) == Ready /\ channel # <<>> /\ Head(channel).event_type = type

(* _order_for_venue_event: the order of an event, if the venue id is known. *)
ClientOf(event) == clientOrderByVenue[event.id]

(* Mutant of StatusAfter: a cancellation closes the order in any status.   *)
StatusAfterAlways(event, status) ==
    IF event.type = "CANCELLATION" THEN "canceled" ELSE status

(* The status an order event leads to.                                     *)
StatusAfter(event, status) ==
    IF event.type = "CANCELLATION"
       /\ status \in {"live", "cancel_requested", "not_canceled", "unknown"}
    THEN "canceled"
    ELSE IF event.type # "CANCELLATION" /\ status = "submitted" THEN "live"
    ELSE status

(* Mutant of CumulativeFits: a shrinking size is accepted.                 *)
CumulativeBelowSize(event, c) == event.size_matched <= SizeOf[c]

(* _record_cumulative_match refuses a size that shrinks or exceeds the     *)
(* order.                                                                  *)
CumulativeFits(event, c) ==
    orders[c].matched_size <= event.size_matched /\ event.size_matched <= SizeOf[c]

OrderEventIgnored ==
    /\ Receives("order")
    /\ ClientOf(Head(channel)) = NoClient
    /\ channel' = Tail(channel)
    /\ UNCHANGED <<up, task, memory, wal, now, wire, venueOrders, venueTrades,
                   nextVenueId, history>>

OrderEventRaises ==
    /\ Receives("order")
    /\ ClientOf(Head(channel)) # NoClient
    /\ ~CumulativeFits(Head(channel), ClientOf(Head(channel)))
    /\ raised' = TRUE
    /\ channel' = Tail(channel)
    /\ UNCHANGED <<up, task, memory, wal, now, wire, venueOrders, venueTrades,
                   nextVenueId, crashes, inFlightAtCrash, cancelAllSent, lifted>>

OrderEventApplied ==
    /\ Receives("order")
    /\ LET event == Head(channel)
           c == ClientOf(event)
           status == StatusAfter(event, orders[c].status)
       IN  /\ c # NoClient
           /\ CumulativeFits(event, c)
           /\ StoreAndLog(c, [orders[c] EXCEPT !.status = status,
                                               !.matched_size = event.size_matched])
           /\ IF status = "unknown" THEN UNCHANGED <<ambiguousMarkets, lifted>>
              ELSE Releases(c)
    /\ channel' = Tail(channel)
    /\ UNCHANGED <<up, task, trades, clientOrderByVenue, progress, lastHeartbeat,
                   heartbeatCancelRequested, halted, now, wire, venueOrders,
                   venueTrades, nextVenueId, crashes, inFlightAtCrash, cancelAllSent,
                   raised>>
-----------------------------------------------------------------------------
(* reconcile_user_event: trade events, one maker order at a time *)

TradeEventReceived ==
    /\ Receives("trade")
    /\ task' = [step |-> "trade", event |-> Head(channel),
                rest |-> Head(channel).maker_orders]
    /\ channel' = Tail(channel)
    /\ UNCHANGED <<up, memory, wal, now, wire, venueOrders, venueTrades,
                   nextVenueId, history>>

(* The maker order v is the next of the event the loop looks at.           *)
Reconciling(v) == task.step = "trade" /\ v \in task.rest

LoopPast(v) == task' = IF task.rest = {v} THEN Idle
                       ELSE [task EXCEPT !.rest = @ \ {v}]

Recorded(c) == trades[<<task.event.id, c>>]

MakerUnknown(v) ==
    /\ Reconciling(v)
    /\ clientOrderByVenue[v] = NoClient
    /\ LoopPast(v)
    /\ UNCHANGED <<up, memory, wal, now, wire, venueVars, history>>

(* The snapshots the loop stores and logs for one maker order.             *)
StoreTrade(c, order) ==
    LET key == <<task.event.id, c>> IN
    /\ orders' = [orders EXCEPT ![c] = order]
    /\ trades' = [trades EXCEPT ![key] = task.event.status]
    /\ wal' = [WithOrder(wal, c, order) EXCEPT !.trades[key] = task.event.status]

MakerFirstSeen(v) ==
    /\ Reconciling(v)
    /\ LET c == clientOrderByVenue[v] IN
        /\ c # NoClient
        /\ Recorded(c) = "none"
        /\ MatchFits(orders[c], SizeOf[c], 1)
        /\ TradeMayMove("matched", task.event.status)
        /\ StoreTrade(c, RecordMatch(orders[c], 1))
    /\ progress' = [progress EXCEPT !.fills = @ + 1]
    /\ LoopPast(v)
    /\ UNCHANGED <<up, clientOrderByVenue, lastHeartbeat, heartbeatCancelRequested,
                   ambiguousMarkets, halted, now, wire, venueVars, history>>

(* Mutant of MakerUpdated: a status update counts the fill again.          *)
MakerUpdatedCounts(v) ==
    /\ Reconciling(v)
    /\ LET c == clientOrderByVenue[v] IN
        /\ c # NoClient
        /\ Recorded(c) # "none"
        /\ MatchFits(orders[c], SizeOf[c], 1)
        /\ StoreTrade(c, RecordMatch(orders[c], 1))
    /\ progress' = [progress EXCEPT !.fills = @ + 1]
    /\ LoopPast(v)
    /\ UNCHANGED <<up, clientOrderByVenue, lastHeartbeat, heartbeatCancelRequested,
                   ambiguousMarkets, halted, now, wire, venueVars, history>>

MakerUpdated(v) ==
    /\ Reconciling(v)
    /\ LET c == clientOrderByVenue[v] IN
        /\ c # NoClient
        /\ Recorded(c) # "none"
        /\ TradeMayMove(Recorded(c), task.event.status)
        /\ StoreTrade(c, orders[c])
    /\ LoopPast(v)
    /\ UNCHANGED <<up, clientOrderByVenue, progress, lastHeartbeat,
                   heartbeatCancelRequested, ambiguousMarkets, halted, now, wire,
                   venueVars, history>>

(* The match exceeds the order, or a known trade may not move so: the      *)
(* exception leaves the loop and the remaining maker orders are skipped.   *)
MakerRaises(v) ==
    /\ Reconciling(v)
    /\ LET c == clientOrderByVenue[v] IN
        /\ c # NoClient
        /\ IF Recorded(c) = "none" THEN ~MatchFits(orders[c], SizeOf[c], 1)
           ELSE ~TradeMayMove(Recorded(c), task.event.status)
    /\ raised' = TRUE
    /\ task' = Idle
    /\ UNCHANGED <<up, memory, wal, now, wire, venueVars, crashes,
                   inFlightAtCrash, cancelAllSent, lifted>>

(* A trade first heard of when it is already CONFIRMED: the match and the  *)
(* fill are counted in memory, then trade.transition raises, before the    *)
(* trade is stored or anything is logged.                                  *)
MakerCountedThenRaises(v) ==
    /\ Reconciling(v)
    /\ LET c == clientOrderByVenue[v] IN
        /\ c # NoClient
        /\ Recorded(c) = "none"
        /\ MatchFits(orders[c], SizeOf[c], 1)
        /\ ~TradeMayMove("matched", task.event.status)
        /\ orders' = [orders EXCEPT ![c] = RecordMatch(@, 1)]
    /\ progress' = [progress EXCEPT !.fills = @ + 1]
    /\ raised' = TRUE
    /\ task' = Idle
    /\ UNCHANGED <<up, trades, clientOrderByVenue, lastHeartbeat,
                   heartbeatCancelRequested, ambiguousMarkets, halted, wal, now,
                   wire, venueVars, crashes, inFlightAtCrash, cancelAllSent, lifted>>
-----------------------------------------------------------------------------
(* resolve_submission_unknown, on evidence from the venue's own records *)

Resolve(c, order) ==
    /\ StoreAndLog(c, order)
    /\ Releases(c)
    /\ UNCHANGED <<up, task, trades, progress, lastHeartbeat,
                   heartbeatCancelRequested, halted, now, wire, venueVars, crashes,
                   inFlightAtCrash, cancelAllSent, raised>>

ResolveFound(c, v) ==
    /\ Ready
    /\ orders[c].status = "unknown"
    /\ venueOrders[v].client = c
    /\ clientOrderByVenue' = [clientOrderByVenue EXCEPT ![v] = c]
    /\ Resolve(c, [orders[c] EXCEPT !.status = "live", !.venue_order_id = v])

ResolveAbsent(c) ==
    /\ Ready
    /\ orders[c].status = "unknown"
    /\ c \notin posts
    /\ \A v \in VenueIds : venueOrders[v].client = c => ~venueOrders[v].open
    /\ clientOrderByVenue' = clientOrderByVenue
    /\ Resolve(c, Moved(orders[c], "rejected"))
-----------------------------------------------------------------------------
(* Crash and restart *)

(* The memory and the connections are gone.  The paper venue lives in the  *)
(* process, so its orders go with it and its numbering starts again.       *)
Crash ==
    /\ up /\ crashes < MaxCrashes
    /\ up' = FALSE
    /\ crashes' = crashes + 1
    /\ inFlightAtCrash' = inFlightAtCrash \cup {c \in ClientIds : Posting(c)}
    /\ task' = Idle
    /\ Load(Fresh) /\ lifted' = {}
    /\ channel' = <<>>
    /\ IF Mode = "paper"
       THEN /\ venueOrders' = [v \in VenueIds |-> NoOrder]
            /\ nextVenueId' = 1
            /\ posts' = {} /\ cancels' = {} /\ cancelAll' = FALSE
       ELSE UNCHANGED <<venueOrders, nextVenueId, wire>>
    /\ UNCHANGED <<wal, now, venueTrades, cancelAllSent, raised>>

Restart ==
    /\ ~up
    /\ up' = TRUE
    /\ Load(wal)
    /\ UNCHANGED <<task, wal, now, wire, venueVars, history>>
-----------------------------------------------------------------------------
(* The venue and the network (outside the repository) *)

(* Paper mode has no user channel, and nobody listens while the process is *)
(* down.  The venue waits while the channel is at its bound.               *)
Report(events) ==
    IF up /\ Mode = "canary"
    THEN /\ Len(channel) + Len(events) <= ChannelLimit
         /\ channel' = channel \o events
    ELSE channel' = channel

OrderReport(type, v, matched) ==
    [event_type |-> "order", type |-> type, id |-> v, size_matched |-> matched]

TradeReport(t, status, makers) ==
    [event_type |-> "trade", id |-> t, status |-> status, maker_orders |-> makers]

AnswerPost(c, answer, v) ==
    task' = IF Posting(c) THEN [task EXCEPT !.answer = answer, !.venue = v] ELSE task

VenueAccepts(c) ==
    /\ c \in posts
    /\ nextVenueId \in VenueIds
    /\ posts' = posts \ {c}
    /\ venueOrders' = [venueOrders EXCEPT
          ![nextVenueId] = [client |-> c, open |-> TRUE, matched |-> 0]]
    /\ nextVenueId' = nextVenueId + 1
    /\ AnswerPost(c, "accepted", nextVenueId)
    /\ Report(<<OrderReport("PLACEMENT", nextVenueId, 0)>>)
    /\ UNCHANGED <<up, memory, wal, now, cancels, cancelAll, venueTrades, history>>

VenueRefuses(c) ==
    /\ Mode = "canary"
    /\ c \in posts
    /\ posts' = posts \ {c}
    /\ AnswerPost(c, "refused", NoVenueId)
    /\ UNCHANGED <<up, memory, wal, now, cancels, cancelAll, venueVars, history>>

RequestLost ==
    /\ TransportFaults
    /\ \/ /\ \E c \in posts : posts' = posts \ {c}
          /\ UNCHANGED <<cancels, cancelAll>>
       \/ /\ \E v \in cancels : cancels' = cancels \ {v}
          /\ UNCHANGED <<posts, cancelAll>>
       \/ /\ cancelAll /\ cancelAll' = FALSE
          /\ UNCHANGED <<posts, cancels>>
    /\ UNCHANGED <<up, task, memory, wal, now, venueVars, history>>

Close(v) ==
    /\ venueOrders' = [venueOrders EXCEPT ![v].open = FALSE]
    /\ Report(<<OrderReport("CANCELLATION", v, venueOrders[v].matched)>>)

AnswerCancel(v) ==
    task' = IF task.step = "canceling" /\ task.venue = v
            THEN [task EXCEPT !.answered = TRUE] ELSE task

VenueCancels(v) ==
    /\ v \in cancels /\ venueOrders[v].open
    /\ cancels' = cancels \ {v}
    /\ Close(v)
    /\ AnswerCancel(v)
    /\ UNCHANGED <<up, memory, wal, now, posts, cancelAll, venueTrades,
                   nextVenueId, history>>

VenueKeeps(v) ==
    /\ v \in cancels
    /\ Mode = "canary" \/ ~venueOrders[v].open
    /\ cancels' = cancels \ {v}
    /\ AnswerCancel(v)
    /\ UNCHANGED <<up, memory, wal, now, posts, cancelAll, venueVars, history>>

VenueSweeps(v) ==
    /\ cancelAll /\ venueOrders[v].open
    /\ Close(v)
    /\ UNCHANGED <<up, task, memory, wal, now, wire, venueTrades, nextVenueId,
                   history>>

VenueSwept ==
    /\ cancelAll /\ \A v \in VenueIds : ~venueOrders[v].open
    /\ cancelAll' = FALSE
    /\ UNCHANGED <<up, task, memory, wal, now, posts, cancels, venueVars, history>>

(* One share of every resting order in "makers" trades; the updates of the *)
(* orders are reported in any order.                                       *)
Resting(v) == venueOrders[v].open

VenueMatches(t, makers) ==
    /\ Mode = "canary"
    /\ venueTrades[t].status = "none"
    /\ makers # {} /\ \A v \in makers : Resting(v)
    /\ \A v, w \in makers :
          MarketOf[venueOrders[v].client] = MarketOf[venueOrders[w].client]
    /\ venueTrades' = [venueTrades EXCEPT
          ![t] = [status |-> "matched", maker_orders |-> makers]]
    /\ venueOrders' = [v \in VenueIds |->
          IF v \notin makers THEN venueOrders[v]
          ELSE [venueOrders[v] EXCEPT
                  !.matched = @ + 1,
                  !.open = venueOrders[v].matched + 1 < SizeOf[venueOrders[v].client]]]
    /\ \E nth \in [1 .. Cardinality(makers) -> makers] :
          /\ \A v \in makers : \E i \in DOMAIN nth : nth[i] = v
          /\ LET trade == <<TradeReport(t, "matched", makers)>>
                 updates == [i \in 1 .. Cardinality(makers) |->
                     OrderReport("UPDATE", nth[i], venueOrders[nth[i]].matched + 1)]
             IN  Report(IF TradeFirst THEN trade \o updates ELSE updates \o trade)
    /\ UNCHANGED <<up, task, memory, wal, now, wire, nextVenueId, history>>

VenueTradeMoves(t, status) ==
    /\ <<venueTrades[t].status, status>> \in TradeTransitions
    /\ venueTrades' = [venueTrades EXCEPT ![t].status = status]
    /\ Report(<<TradeReport(t, status, venueTrades[t].maker_orders)>>)
    /\ UNCHANGED <<up, task, memory, wal, now, wire, venueOrders, nextVenueId,
                   history>>

EventLost ==
    /\ ChannelFaults /\ channel # <<>>
    /\ channel' = Tail(channel)
    /\ UNCHANGED <<up, task, memory, wal, now, wire, venueOrders, venueTrades,
                   nextVenueId, history>>
-----------------------------------------------------------------------------
Submitting == \E c \in ClientIds :
    \/ SubmitDecision(c) \/ SubmitWithheld(c)
    \/ SubmitToGateway(c) \/ SubmitAcknowledged(c) \/ SubmitRejected(c)
    \/ SubmitUnknown(c)

Canceling ==
    \/ \E c \in ClientIds :
         RequestCancel(c) \/ SendCancel(c) \/ CancelReturned(c) \/ CancelUnknown(c)
    \/ CancelAll

Stopping ==
    \/ EmergencyStop \/ StopCancelsOrders \/ RecordHeartbeat
    \/ EnforceTimeout \/ EnforceTimeoutWhenHalted

Reconciliation ==
    \/ OrderEventIgnored \/ OrderEventRaises \/ OrderEventApplied
    \/ TradeEventReceived
    \/ \E v \in VenueIds :
         \/ MakerUnknown(v) \/ MakerFirstSeen(v) \/ MakerUpdated(v)
         \/ MakerRaises(v) \/ MakerCountedThenRaises(v)
    \/ \E c \in ClientIds : ResolveAbsent(c) \/ \E v \in VenueIds : ResolveFound(c, v)

Environment ==
    \/ \E c \in ClientIds : VenueAccepts(c) \/ VenueRefuses(c)
    \/ \E v \in VenueIds : VenueCancels(v) \/ VenueKeeps(v) \/ VenueSweeps(v)
    \/ VenueSwept
    \/ \E t \in TradeIds :
         \/ \E makers \in SUBSET VenueIds : VenueMatches(t, makers)
         \/ \E status \in LiveTradeStatus : VenueTradeMoves(t, status)
    \/ RequestLost \/ EventLost \/ Tick

Next == Submitting \/ Canceling \/ Stopping \/ Reconciliation \/ Environment
          \/ Crash \/ Restart

Spec == Init /\ [][Next]_vars
-----------------------------------------------------------------------------
(* Safety *)

(* What the process holds is what a restart would rebuild: outside a POST  *)
(* and as long as no handler raised half-way, every order and trade        *)
(* snapshot, the venue index and the kill switch equal the replayed log,   *)
(* and every blocked market is blocked again.  service.py writes memory    *)
(* and log separately in each of its ten handlers.                         *)
MemoryIsDurable ==
    up => /\ halted = wal.halted
          /\ clientOrderByVenue = wal.clientOrderByVenue
          /\ ambiguousMarkets \subseteq wal.ambiguousMarkets
          /\ trades = wal.trades
          /\ ~raised => \A c \in ClientIds : ~Posting(c) => orders[c] = wal.orders[c]

(* Once the kill switch is in the log nothing new is handed to the         *)
(* gateway, across any number of crashes and restarts.                     *)
KillSwitchHolds ==
    [][wal.halted => wal'.halted /\ posts' \subseteq posts]_vars

(* The orphan window: every request under way and every open order at the  *)
(* venue is known to the log by venue id or as UNKNOWN, unless its POST is *)
(* waiting for the answer now or was waiting when the process crashed.     *)
OpenOrdersKnown ==
    Mode = "canary" =>
      \A c \in ClientIds :
        \/ Posting(c) \/ c \in inFlightAtCrash
        \/ wal.orders[c].status = "unknown"
        \/ /\ c \notin posts
           /\ \A v \in VenueIds :
                venueOrders[v].client = c /\ venueOrders[v].open
                  => wal.orders[c].venue_order_id = v

(* An order the service has written off has nothing working at the venue:  *)
(* REJECTED and CANCELED are reached only when no POST of the order is     *)
(* still under way and no order of it is open.                             *)
SettledMeansGone ==
    \A c \in ClientIds : wal.orders[c].status \in {"rejected", "canceled"} =>
        /\ c \notin posts
        /\ \A v \in VenueIds : venueOrders[v].client = c => ~venueOrders[v].open

(* Both: what the venue has is what the log says (submit, request_cancel,  *)
(* restore_from_wal).                                                      *)
VenueOrdersAccounted == OpenOrdersKnown /\ SettledMeansGone

(* A fill is not counted twice: the matched size of an order, which grows  *)
(* both with trades and with the cumulative size of order updates, is      *)
(* never ahead of what the venue matched.                                  *)
MatchedNeverAhead ==
    \A c \in ClientIds :
        LET v == orders[c].venue_order_id IN
        v # NoVenueId => orders[c].matched_size <= venueOrders[v].matched

(* No user-channel event makes its handler raise.                          *)
ChannelNeverRaises == ~raised

(* The matched sizes of the orders agree with the venue's once the channel *)
(* is drained, and the counters that open the canary gates (200 orders and *)
(* 50 fills, 2000 and 300) never run ahead of what the venue has done,     *)
(* although trades and order updates both report a match                   *)
(* (_reconcile_order, _reconcile_trade).                                   *)
VenueFills == UNION {{t} \X venueTrades[t].maker_orders : t \in TradeIds}

SizesAgree ==
    \A c \in ClientIds :
        LET v == orders[c].venue_order_id IN
        v # NoVenueId => orders[c].matched_size = venueOrders[v].matched

FillsCountOnce ==
    /\ task = Idle /\ channel = <<>> => SizesAgree
    /\ progress.fills <= Cardinality(VenueFills)
    /\ progress.submitted_orders < nextVenueId

(* "Suspend resubmission ..., first reconcile" (btc-execution-latency-     *)
(* research.md): an order in doubt, by its POST or its cancellation, keeps *)
(* the other orders of its market from the gateway over crashes and        *)
(* restarts, until it is settled.  The code does not keep that once an     *)
(* answer about another order of the market has lifted the block in this   *)
(* process (submit, _reconcile_order, resolve_submission_unknown).         *)
DoubtStopsMarketUnlessLifted ==
    [][\A c \in posts' \ posts, d \in ClientIds :
          MarketOf[c] = MarketOf[d] /\ orders[d].status = "unknown" => d \in lifted]_vars

(* The log never takes back a matched size, a final order status or a      *)
(* final trade status, whichever events the user channel lost and wherever *)
(* the process crashed (restore_from_wal, _reconcile_order).               *)
LogNeverForgets ==
    [][/\ \A c \in ClientIds :
            /\ wal'.orders[c].matched_size >= wal.orders[c].matched_size
            /\ wal.orders[c].status \in {"rejected", "canceled"}
                 => wal'.orders[c].status = wal.orders[c].status
       /\ \A k \in DOMAIN wal.trades : wal.trades[k] \in {"confirmed", "failed"}
            => wal'.trades[k] = wal.trades[k]]_vars

(* A timeout handler that reports that it requested cancellation has sent  *)
(* a cancel_all, whatever stop came before it, while no crash intervenes   *)
(* (enforce_heartbeat_timeout, emergency_stop).                            *)
HeartbeatFlagMeansCancel ==
    Mode # "shadow" /\ heartbeatCancelRequested /\ crashes = 0 => cancelAllSent

(* Nothing reaches the gateway in shadow mode, whatever is submitted,      *)
(* cancelled, stopped or restarted (submit, cancel_all, emergency_stop).   *)
ShadowNeverCalls ==
    Mode = "shadow" => /\ posts = {} /\ nextVenueId = 1
                       /\ cancels = {} /\ ~cancelAll /\ ~cancelAllSent

(* The durable record of orders implements OrderPromise: read through the  *)
(* log, an order moves only as promised, over crashes, restarts, lost      *)
(* requests and answers, and the kill switch.                              *)
PhaseOf(status) ==
    CASE status = "absent" -> "new"
      [] status \in {"created", "signed", "submitted"} -> "decided"
      [] status = "rejected" -> "refused"
      [] status \in {"live", "cancel_requested", "not_canceled"} -> "working"
      [] status = "unknown" -> "doubtful"
      [] status = "canceled" -> "closed"

Promise == INSTANCE OrderPromise WITH
    Orders <- ClientIds,
    phase <- [c \in ClientIds |-> PhaseOf(wal.orders[c].status)],
    stopped <- wal.halted

KeepsPromise == Promise!Spec
=============================================================================
