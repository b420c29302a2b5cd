--------------------------- MODULE ExecutionClient ---------------------------
(***************************************************************************)
(* PolymarketExecutionClient (adapters/polymarket/execution.py): what the  *)
(* trading engine is told of its orders.  The answer to a post gives an    *)
(* order its venue id; messages of the user channel carry only that id and *)
(* may come first.  A message about an id not yet known waits, in a task   *)
(* of its own, for the answer (an asyncio.Event per id, one for the order  *)
(* messages and one for the trades) or for ack_timeout_secs.               *)
(*                                                                         *)
(* Everything runs on one event loop: a task that is created or woken goes *)
(* to the end of ready.  So does the engine, which takes events off a      *)
(* queue of its own: order.status is behind the events generated.  Answers *)
(* to posts and messages come at any moment; commands, the answers to      *)
(* cancels and timeouts when no task is ready, which for them is as good.  *)
(*                                                                         *)
(* An order is the size of its trades, or larger; its venue id is itself.  *)
(* Orders are valid limit orders.  MINED stands for CONFIRMED too, which   *)
(* the client treats alike; RETRYING and FAILED it only logs.  The account *)
(* balance is left out, and the channel loses nothing.                     *)
(***************************************************************************)
EXTENDS Integers, Sequences, SequencesExt

CONSTANTS
    Orders,
    Trades,
    Matchings,  \* the orders of ours each trade may fill
    Larger,     \* the orders that are larger than their trades
    Cancelable, \* bound: the orders the strategy may cancel
    Repeated,   \* bound: the trades with messages that come again or updates
    MaxRepeats  \* bound: messages that come again, and updates of orders

ASSUME ExecutionAssumption ==
    /\ IsFiniteSet(Orders)
    /\ Matchings \subseteq [Trades -> SUBSET Orders] /\ Larger \subseteq Orders
    /\ Cancelable \subseteq Orders /\ Repeated \subseteq Trades /\ MaxRepeats \in Nat

VARIABLES
    fillsOf,    \* the orders each trade fills; never changes
    status,     \* order.status, as far as the engine has got
    named,      \* the orders with an order.venue_order_id
    executed,   \* order.trade_ids: the fills the engine has applied
    events,     \* the queue of the engine
    known,      \* the orders whose venue id is in the cache
    posts,      \* the submissions that have not been answered
    cancels,    \* a cancel: "none", "asked", "sent" or "done"
    ready,      \* the tasks that can run
    waiting,    \* the tasks that wait for an answer, the longest first
    filled,     \* _processed_fills
    open,       \* _processed_trades
    final,      \* _finalized_trades
    venue,      \* the orders at the venue
    trade,      \* the trades at the venue
    wire,       \* the user channel
    told,       \* history: how often the engine was told of a fill, up to 2
    seen,       \* history: the fills whose messages have been received
    overtaken,  \* history: the fills a cancellation may come before
    reported,   \* history: the orders some message of which became a report
    repeats     \* history: the messages that came again, and the updates

engine == <<status, named, executed>>
market == <<fillsOf, venue, trade>>
history == <<told, seen, overtaken, reported, repeats>>

vars == <<engine, events, known, posts, cancels, ready, waiting, filled, open,
          final, market, wire, history>>

Fills == Trades \X Orders
TradesOf(o) == {t \in Trades : o \in fillsOf[t]}

(* These trades fill the order.                                            *)
Complete(o, trades) == o \notin Larger /\ TradesOf(o) \subseteq trades

Messages ==
    [kind : {"order"}, type : {"PLACEMENT", "UPDATE", "CANCELLATION"}, order : Orders]
        \cup [kind : {"trade"}, type : {"MATCHED", "MINED"}, trade : Trades]

(* A task: its message, the order it is for and whether the event it waits *)
(* for is the one in the dictionary.                                       *)
Tasks == [message : Messages, order : Orders, linked : BOOLEAN]

EngineTask == [message |-> [kind |-> "engine"]]

Statuses == {"INITIALIZED", "SUBMITTED", "OPEN", "PENDING_CANCEL",
             "REJECTED", "CANCELED", "FILLED"}

is_closed(o) == status[o] \in {"REJECTED", "CANCELED", "FILLED"}

POLYMARKET_FINALIZED_TRADE_STATUSES == {"MINED"}

Events == [kind : {"accepted", "rejected", "canceled", "cancel_rejected", "filled"},
           order : Orders, trade : Trades \cup {"none"}]

TypeOK ==
    /\ fillsOf \in [Trades -> SUBSET Orders]
    /\ status \in [Orders -> Statuses] /\ named \subseteq Orders
    /\ executed \subseteq Fills /\ events \in Seq(Events)
    /\ known \subseteq Orders /\ posts \subseteq SUBSET Orders
    /\ cancels \in [Orders -> {"none", "asked", "sent", "done"}]
    /\ ready \in Seq(Tasks \cup {EngineTask}) /\ waiting \in Seq(Tasks)
    /\ filled \subseteq Fills /\ open \subseteq Trades /\ final \subseteq Trades
    /\ venue \in [Orders -> {"none", "asked", "live", "refused", "done"}]
    /\ trade \in [Trades -> {"none", "MATCHED", "MINED"}]
    /\ wire \in Seq(Messages)
    /\ told \in [Fills -> 0 .. 2]
    /\ seen \subseteq Fills /\ overtaken \subseteq Fills
    /\ reported \subseteq Orders /\ repeats \in Nat

Init ==
    /\ fillsOf \in Matchings
    /\ status = [o \in Orders |-> "INITIALIZED"] /\ named = {} /\ executed = {}
    /\ events = <<>> /\ known = {} /\ posts = {}
    /\ cancels = [o \in Orders |-> "none"]
    /\ ready = <<>> /\ waiting = <<>> /\ filled = {} /\ open = {} /\ final = {}
    /\ venue = [o \in Orders |-> "none"] /\ trade = [t \in Trades |-> "none"]
    /\ wire = <<>>
    /\ told = [f \in Fills |-> 0] /\ seen = {} /\ overtaken = {} /\ reported = {}
    /\ repeats = 0
-----------------------------------------------------------------------------
(* Events for the engine, generate_order_* *)

Event(kind, o, t) == [kind |-> kind, order |-> o, trade |-> t]

(* An event wakes the engine when its queue was empty.                     *)
WithEngine(new, tasks) ==
    IF events = <<>> /\ new # <<>> THEN Append(tasks, EngineTask) ELSE tasks

Generate(new, tasks) == events' = events \o new /\ ready' = WithEngine(new, tasks)

(* The engine takes the events in their order; what does not fit the order *)
(* is logged.                                                              *)
Apply ==
    /\ ready # <<>> /\ Head(ready) = EngineTask
    /\ events' = Tail(events)
    /\ ready' = IF Len(events) = 1 THEN Tail(ready) ELSE ready
    /\ LET event == Head(events)
           o == event.order
           fills == executed \cup {<<event.trade, o>>}
           Becomes(s) == status' = [status EXCEPT ![o] = s]
       IN  CASE event.kind = "filled" ->
                  /\ executed' = fills /\ named' = named \cup {o}
                  /\ CASE Complete(o, {t \in Trades : <<t, o>> \in fills}) -> Becomes("FILLED")
                       [] is_closed(o) -> UNCHANGED status
                       [] OTHER -> Becomes("OPEN")
             [] event.kind = "accepted" /\ status[o] \in {"SUBMITTED", "PENDING_CANCEL"} ->
                  Becomes("OPEN") /\ named' = named \cup {o} /\ UNCHANGED executed
             [] event.kind = "rejected" /\ ~is_closed(o) ->
                  Becomes("REJECTED") /\ UNCHANGED <<named, executed>>
             [] event.kind = "canceled" /\ ~is_closed(o) ->
                  Becomes("CANCELED") /\ named' = named \cup {o} /\ UNCHANGED executed
             [] event.kind = "cancel_rejected" /\ status[o] = "PENDING_CANCEL" ->
                  Becomes("OPEN") /\ UNCHANGED <<named, executed>>
             [] OTHER -> UNCHANGED engine
    /\ UNCHANGED <<known, posts, cancels, waiting, filled, open, final, market, wire,
                   history>>
-----------------------------------------------------------------------------
(* Commands and their answers *)

(* generate_order_submitted, which the engine has applied long before the  *)
(* request is answered.  Several orders go to post_orders together.        *)
Submit ==
    /\ ready = <<>>
    /\ \E list \in SUBSET Orders \ {{}} :
          /\ \A o \in list : status[o] = "INITIALIZED" /\ TradesOf(o) # {}
          /\ status' = [o \in Orders |-> IF o \in list THEN "SUBMITTED" ELSE status[o]]
          /\ venue' = [o \in Orders |-> IF o \in list THEN "asked" ELSE venue[o]]
          /\ posts' = posts \cup {list}
    /\ UNCHANGED <<named, executed, events, known, cancels, ready, waiting, filled,
                   open, final, fillsOf, trade, wire, history>>

IsOrderTask(task) == task.message.kind = "order"

(* Mutant of Wakes: the event of the trades is not set.                    *)
WakesOrdersOnly(task, o) == task.linked /\ task.order = o /\ IsOrderTask(task)

(* The tasks whose event the answer for an order sets.                     *)
Wakes(task, o) == task.linked /\ task.order = o

(* The waiting tasks that are in the set, the longest waiting first.       *)
WaitingIn(set) ==
    FlattenSeq([i \in DOMAIN waiting |->
                   IF waiting[i] \in set THEN <<waiting[i]>> ELSE <<>>])

(* The tasks an answer for these orders lets run.                          *)
WokenBy(orders) == {task \in ToSet(waiting) : \E o \in orders : Wakes(task, o)}

(* First those with order messages, then those with trades.                *)
Woken(o) ==
    WaitingIn({task \in WokenBy({o}) : IsOrderTask(task)})
        \o WaitingIn({task \in WokenBy({o}) : ~IsOrderTask(task)})

WokenInTurn(orders) == FlattenSeq([i \in DOMAIN orders |-> Woken(orders[i])])

Rejections(orders) == [i \in DOMAIN orders |-> Event("rejected", orders[i], "none")]

(* The submission ends: the orders the answer calls a success get their    *)
(* ids, all others are rejected -- refused ones, those missing from the    *)
(* answer, and the whole submission when there is no answer after the      *)
(* retries, whatever the venue has made of it.  The first rejection may    *)
(* come before or after the results of the orders in early.                *)
Answer ==
    /\ \E list \in posts :
       \E success \in SUBSET {o \in list : venue[o] \in {"live", "done"}} :
       \E early \in SUBSET success :
       \E first \in SetToSeqs(early), rest \in SetToSeqs(success \ early),
          last \in SetToSeqs(list \ success) :
          /\ posts' = posts \ {list}
          /\ known' = known \cup success
          /\ waiting' = WaitingIn(ToSet(waiting) \ WokenBy(success))
          /\ events' = events \o Rejections(last)
          /\ ready' = WithEngine(Rejections(last), ready \o WokenInTurn(first))
                         \o WokenInTurn(rest)
    /\ UNCHANGED <<engine, cancels, filled, open, final, market, wire, history>>

(* The strategy marks the order and sends the command.                     *)
RequestCancel ==
    /\ ready = <<>>
    /\ \E o \in Cancelable :
          /\ status[o] \in {"SUBMITTED", "OPEN"} /\ cancels[o] = "none"
          /\ status' = [status EXCEPT ![o] = "PENDING_CANCEL"]
          /\ cancels' = [cancels EXCEPT ![o] = "asked"]
    /\ UNCHANGED <<named, executed, events, known, posts, ready, waiting, filled, open,
                   final, market, wire, history>>

(* After _maintain_active_market: no request for an order that is closed   *)
(* or has no venue id, and nothing is said about it.                       *)
SendCancel ==
    /\ ready = <<>>
    /\ \E o \in Orders :
          /\ cancels[o] = "asked"
          /\ cancels' = [cancels EXCEPT ![o] =
                IF ~is_closed(o) /\ o \in named THEN "sent" ELSE "none"]
    /\ UNCHANGED <<engine, events, known, posts, ready, waiting, filled, open, final,
                   market, wire, history>>

(* A cancel that went through, or an order that is gone, is left to the    *)
(* channel; no answer or another reason is an event.                       *)
GenerateCancelEvent(o) ==
    \/ cancels[o] # "sent" /\ UNCHANGED <<events, ready>>
    \/ Generate(<<Event("cancel_rejected", o, "none")>>, ready)

CancelAnswer ==
    /\ ready = <<>>
    /\ \E o \in Orders :
          /\ cancels[o] \in {"sent", "done"}
          /\ cancels' = [cancels EXCEPT ![o] = "none"]
          /\ GenerateCancelEvent(o)
    /\ UNCHANGED <<engine, known, posts, waiting, filled, open, final, market, wire,
                   history>>
-----------------------------------------------------------------------------
(* The user channel *)

NewTask(message, o) == [message |-> message, order |-> o, linked |-> TRUE]

(* MATCHED -> MINED *)
Transitions(message) ==
    /\ message.trade \in open
    /\ message.type \in POLYMARKET_FINALIZED_TRADE_STATUSES

(* _handle_ws_message: a task for every order the message is about; a      *)
(* trade that is final or becomes it has no more fills.                    *)
Receive ==
    /\ wire # <<>> /\ wire' = Tail(wire)
    /\ LET message == Head(wire)
           t == message.trade
       IN  CASE message.kind = "order" ->
                  /\ ready' = Append(ready, NewTask(message, message.order))
                  /\ UNCHANGED <<open, final, seen>>
             [] message.kind = "trade" /\ t \in final ->
                  UNCHANGED <<ready, open, final, seen>>
             [] message.kind = "trade" /\ t \notin final /\ Transitions(message) ->
                  /\ open' = open \ {t} /\ final' = final \cup {t}
                  /\ UNCHANGED <<ready, seen>>
             [] OTHER ->
                  /\ \E orders \in SetToSeqs(fillsOf[t]) :
                        ready' = ready \o [i \in DOMAIN orders |->
                                              NewTask(message, orders[i])]
                  /\ seen' = seen \cup {t} \X fillsOf[t]
                  /\ UNCHANGED <<open, final>>
    /\ UNCHANGED <<engine, events, known, posts, cancels, waiting, filled, market, told,
                   overtaken, reported, repeats>>

(* Mutant of AlreadyCanceled: only an order that works can be canceled.    *)
AlreadyNotOpen(o) == status[o] # "OPEN"

AlreadyCanceled(o) == status[o] = "CANCELED"

(* _handle_ws_order_msg: what is not known here becomes a report.          *)
HandleOrder(message, tasks) ==
    LET o == message.order
        Tells(kind) == Generate(<<Event(kind, o, "none")>>, tasks) /\ UNCHANGED reported
    IN  /\ CASE o \notin known -> reported' = reported \cup {o} /\ Generate(<<>>, tasks)
             [] o \in known /\ message.type = "PLACEMENT" /\ status[o] = "SUBMITTED" ->
                  Tells("accepted")
             [] o \in known /\ message.type = "CANCELLATION" /\ ~AlreadyCanceled(o) ->
                  Tells("canceled")
             [] OTHER -> Generate(<<>>, tasks) /\ UNCHANGED reported
        /\ UNCHANGED <<filled, open, final, told>>

(* Mutant of Processed: the fills the engine has applied.                  *)
ProcessedByEngine(f) == f \in executed

Processed(f) == f \in filled

(* _record_processed_trade *)
RecordTrade(message) ==
    IF message.type \in POLYMARKET_FINALIZED_TRADE_STATUSES
    THEN final' = final \cup {message.trade} /\ open' = open \ {message.trade}
    ELSE open' = open \cup {message.trade} /\ UNCHANGED final

(* _handle_user_trade_in_ws_trade_msg: the fill of one order.              *)
HandleFill(message, o, tasks) ==
    LET f == <<message.trade, o>>
    IN  IF Processed(f) \/ (o \in known /\ (f \in executed \/ is_closed(o)))
        THEN Generate(<<>>, tasks) /\ UNCHANGED <<filled, open, final, told, reported>>
        ELSE /\ told' = [told EXCEPT ![f] = IF @ = 2 THEN 2 ELSE @ + 1]
             /\ filled' = filled \cup {f}
             /\ RecordTrade(message)
             /\ IF o \in known
                THEN /\ Generate(<<Event("filled", o, message.trade)>>, tasks)
                     /\ UNCHANGED reported
                ELSE Generate(<<>>, tasks) /\ reported' = reported \cup {o}

Handle(task, tasks) ==
    IF IsOrderTask(task) THEN HandleOrder(task.message, tasks)
                         ELSE HandleFill(task.message, task.order, tasks)

(* The fills of an order among these tasks.                                *)
FillsIn(tasks, o) ==
    {<<task.message.trade, o>> : task \in
        {task \in ToSet(tasks) : task # EngineTask /\ ~IsOrderTask(task) /\ task.order = o}}

(* A task handles its message or begins to wait for the event of its       *)
(* order, the one in the dictionary or a new one.                          *)
RunTask ==
    /\ ready # <<>> /\ Head(ready) # EngineTask
    /\ LET task == Head(ready)
       IN  IF task.order \in known
           THEN /\ Handle(task, Tail(ready)) /\ UNCHANGED waiting
                /\ overtaken' = IF task.message.type = "CANCELLATION"
                      THEN overtaken \cup FillsIn(Tail(ready), task.order) ELSE overtaken
           ELSE /\ waiting' = Append(waiting, task) /\ Generate(<<>>, Tail(ready))
                /\ UNCHANGED <<filled, open, final, told, reported, overtaken>>
    /\ UNCHANGED <<engine, known, posts, cancels, market, wire, seen, repeats>>

SharesEvent(task, other) ==
    other.order = task.order /\ IsOrderTask(other) = IsOrderTask(task)

(* The longest wait runs out.  finally removes the event of its order from *)
(* the dictionary; who else waits for that event now waits in vain.        *)
TimeOut ==
    /\ ready = <<>> /\ waiting # <<>>
    /\ LET task == Head(waiting)
           rest == Tail(waiting)
           alone == {i \in DOMAIN rest : SharesEvent(task, rest[i])}
       IN  /\ Handle(task, ready)
           /\ waiting' = [i \in DOMAIN rest |->
                 [rest[i] EXCEPT !.linked = @ /\ i \notin alone]]
           /\ overtaken' = IF IsOrderTask(task) THEN overtaken
                           ELSE overtaken \cup FillsIn(rest, task.order)
    /\ UNCHANGED <<engine, known, posts, cancels, market, wire, seen, repeats>>
-----------------------------------------------------------------------------
(* The venue *)

client == <<engine, events, known, posts, ready, waiting, filled, open, final>>

OrderMessage(type, o) == [kind |-> "order", type |-> type, order |-> o]
TradeMessage(type, t) == [kind |-> "trade", type |-> type, trade |-> t]

Place ==
    /\ \E o \in Orders :
          /\ venue[o] = "asked"
          /\ \/ venue' = [venue EXCEPT ![o] = "refused"] /\ UNCHANGED wire
             \/ /\ venue' = [venue EXCEPT ![o] = "live"]
                /\ wire' = Append(wire, OrderMessage("PLACEMENT", o))
    /\ UNCHANGED <<client, cancels, fillsOf, trade, history>>

(* A trade takes all the orders it is said to fill; an order is done with  *)
(* the last of its trades.                                                 *)
Match ==
    /\ \E t \in Trades :
          /\ trade[t] = "none" /\ fillsOf[t] # {}
          /\ \A o \in fillsOf[t] : venue[o] = "live"
          /\ trade' = [trade EXCEPT ![t] = "MATCHED"]
          /\ venue' = [o \in Orders |->
                IF o \in fillsOf[t] /\ Complete(o, {u \in Trades : trade'[u] # "none"})
                THEN "done" ELSE venue[o]]
          /\ wire' = Append(wire, TradeMessage("MATCHED", t))
    /\ UNCHANGED <<client, cancels, fillsOf, history>>

Settle ==
    /\ \E t \in Trades :
          /\ trade[t] = "MATCHED" /\ trade' = [trade EXCEPT ![t] = "MINED"]
          /\ wire' = Append(wire, TradeMessage("MINED", t))
    /\ UNCHANGED <<client, cancels, fillsOf, venue, history>>

(* The venue takes an order off the book, asked to or not.                 *)
Withdraw ==
    /\ \E o \in Orders :
          \/ /\ venue[o] = "live"
             /\ venue' = [venue EXCEPT ![o] = "done"]
             /\ wire' = Append(wire, OrderMessage("CANCELLATION", o))
             /\ cancels' = [cancels EXCEPT ![o] = IF @ = "sent" THEN "done" ELSE @]
          \/ /\ venue[o] = "done" /\ cancels[o] = "sent"
             /\ cancels' = [cancels EXCEPT ![o] = "done"]
             /\ UNCHANGED <<venue, wire>>
    /\ UNCHANGED <<client, fillsOf, trade, history>>

(* A status is sent again, as after a reconnection.                        *)
Repeat ==
    /\ repeats < MaxRepeats /\ repeats' = repeats + 1
    /\ \E t \in Repeated :
          trade[t] # "none" /\ wire' = Append(wire, TradeMessage(trade[t], t))
    /\ UNCHANGED <<client, cancels, market, told, seen, overtaken, reported>>

(* How much of an order has traded, which the client leaves to the trades. *)
Update ==
    /\ repeats < MaxRepeats /\ repeats' = repeats + 1
    /\ \E t \in Repeated : \E o \in fillsOf[t] :
          trade[t] # "none" /\ wire' = Append(wire, OrderMessage("UPDATE", o))
    /\ UNCHANGED <<client, cancels, market, told, seen, overtaken, reported>>
-----------------------------------------------------------------------------
Strategy == Submit \/ RequestCancel
Client == Answer \/ SendCancel \/ CancelAnswer \/ Receive \/ RunTask \/ TimeOut \/ Apply
Venue == Place \/ Match \/ Settle \/ Withdraw \/ Repeat \/ Update

Next == Strategy \/ Client \/ Venue

(* Requests end, by an answer or by their timeout; the loop gets round to  *)
(* every task, message and timer.                                          *)
Fairness ==
    /\ WF_vars(Answer) /\ WF_vars(SendCancel) /\ WF_vars(CancelAnswer)
    /\ WF_vars(Receive) /\ WF_vars(RunTask) /\ WF_vars(TimeOut) /\ WF_vars(Apply)

Spec == Init /\ [][Next]_vars /\ Fairness
-----------------------------------------------------------------------------
(* The engine is told of the fill of an order by a trade once, however     *)
(* many statuses the trade goes through, are repeated or wait together for *)
(* the answer, and whether it is told by an event or by a report           *)
(* (_processed_fills).                                                     *)
FillToldOnce == \A f \in Fills : told[f] <= 1

Pending(f) ==
    \E tasks \in {ready, waiting} : \E i \in DOMAIN tasks :
        /\ tasks[i].message.kind = "trade"
        /\ tasks[i].message.trade = f[1] /\ tasks[i].order = f[2]

(* A fill that has been received is told or waits to be: no cancellation,  *)
(* answer or timeout in between makes _handle_user_trade_in_ws_trade_msg   *)
(* drop it, unless the wait of its message lost its event, or the answer   *)
(* that wakes it came after a cancellation in the same pass of the loop.   *)
ReceivedFillIsTold ==
    \A f \in seen : told[f] > 0 \/ Pending(f) \/ f \in overtaken

(* What _handle_user_trade_in_ws_trade_msg skips because the order is      *)
(* closed is "only status update": the fill has been told.                 *)
ClosedOrderKnowsFill == \A f \in seen : told[f] > 0 \/ Pending(f)

(* An order the venue is done with gets closed here, cancelled before or   *)
(* after its answer, its cancel answered or not; except where a message    *)
(* about it had become a report.                                           *)
OrderEnds ==
    \A o \in Orders : venue[o] = "done" ~> is_closed(o) \/ o \in reported
=============================================================================
