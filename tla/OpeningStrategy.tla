-------------------------- MODULE OpeningStrategy --------------------------
(***************************************************************************)
(* BtcOpeningMispricingStrategy (btc_short_horizon/backtest/strategy.py)   *)
(* with its MarketExecution (strategy/lifecycle.py), the entry checks of   *)
(* backtest/signals.py, evaluate_cancellation (strategy/maker.py), and the *)
(* trading engine that runs its orders and reports back.                   *)
(*                                                                         *)
(* The engine calls one handler at a time, so every handler is one action. *)
(* Between two handlers anything can happen to the orders, and what        *)
(* happened is reported later, in order.                                   *)
(*                                                                         *)
(* Prices are abstracted to what the decisions tell apart: each time a     *)
(* signal and the books are judged, the side with the highest viable edge  *)
(* is some side or none.  Time is in units of one second.                  *)
(***************************************************************************)
EXTENDS Integers, Sequences, FiniteSets, Functions

CONSTANTS
    Sides,             \* token sides
    None,              \* no side, no signal, no plan
    LayerSizes,        \* shares of each layer of the configured structure
    EntryStart,        \* MakerStrategyConfig.entry_start_seconds
    EntryEnd,          \* ... entry_end_seconds
    Persistence,       \* ... edge_persistence_seconds
    MaxWork,           \* ... max_work_seconds
    StaleAfter,        \* ... stale_after_seconds
    Cadence,           \* the model signals at multiples of this
    SignalAges,        \* data_age_seconds a signal may arrive with
    MaxTime,           \* bound: the clock stops here
    LayersMayFail,     \* may the venue's rounding or the order factory drop layers?
    DeniedInCall,      \* may submit_order deny an order before it returns?
    MayStop,           \* may the strategy be stopped?
    NoDropTolerated    \* is cancel_probability_drop zero?

Layers == DOMAIN LayerSizes
Never == -1

ASSUME ParametersAssumption ==
    /\ None \notin Sides /\ IsFiniteSet(Sides)
    /\ LayerSizes \in Seq(Nat \ {0}) /\ LayerSizes # <<>>
    /\ EntryStart \in Nat \ {0} /\ EntryEnd \in Nat /\ EntryStart < EntryEnd
    /\ Persistence \in Nat
    /\ MaxWork \in Nat \ {0} /\ StaleAfter \in Nat \ {0}
    /\ Cadence \in Nat \ {0} /\ SignalAges \subseteq Nat
    /\ MaxTime \in Nat
    /\ LayersMayFail \in BOOLEAN /\ DeniedInCall \in BOOLEAN /\ MayStop \in BOOLEAN
    /\ NoDropTolerated \in BOOLEAN

VARIABLES
    running,           \* has the engine started, and not stopped, the strategy?
    now,
    phase,             \* StrategyPhase
    plan,              \* OrderPlan
    filled,            \* MarketExecution.filled_size
    active,            \* the layers in _active_orders
    signal,            \* _latest_signal
    usable,            \* do the books of both sides have sane best prices?
    candidate,         \* _candidate_side and _candidate_since_ts_ns
    engine,            \* the engine's own record of each order
    cancels,           \* cancel commands on their way to the engine
    events,            \* order events on their way to the strategy
    backed,            \* history: the side every event has favoured, since when
    missed             \* history: fills reported after the strategy had stopped

execution == <<phase, plan, filled>>
market == <<engine, cancels, events, missed>>
vars == <<running, now, execution, active, signal, usable, candidate, market, backed>>
-----------------------------------------------------------------------------
Phases == {"discovered", "monitoring", "order_working", "cancel_requested",
           "partially_filled", "filled", "canceled", "rejected"}
Terminal == {"partially_filled", "filled", "canceled", "rejected"}
OpenPhases == {"order_working", "cancel_requested"}

SharesOf(layers) == SumFunctionOnSet(LayerSizes, layers)

Signals == [at : Nat, age : Nat, clean : BOOLEAN]
Plans == [side : Sides, basis : Nat, expires : Nat, total : Nat \ {0}]
Candidates ==
    {c \in [side : Sides \cup {None}, since : Nat \cup {Never}] :
        c.side = None <=> c.since = Never}
NoCandidate == [side |-> None, since |-> Never]

ASSUME NoneAssumption == None \notin Signals /\ None \notin Plans

OrderEvents == [type : {"fill", "canceled", "expired", "rejected"}, layer : Layers]

TypeOK ==
    /\ running \in BOOLEAN
    /\ now \in Nat
    /\ phase \in Phases
    /\ plan \in Plans \cup {None}
    /\ filled \in Nat
    /\ active \subseteq Layers
    /\ signal \in Signals \cup {None}
    /\ usable \in BOOLEAN
    /\ candidate \in Candidates
    /\ engine \in [Layers -> [state : {"none", "sent", "open", "closed"}, filled : Nat]]
    /\ cancels \subseteq Layers
    /\ events \in Seq(OrderEvents)
    /\ backed \in Candidates
    /\ missed \in Nat

Init ==
    /\ running = FALSE
    /\ now = 1
    /\ phase = "discovered"
    /\ plan = None
    /\ filled = 0
    /\ active = {}
    /\ signal = None
    /\ usable = FALSE
    /\ candidate = NoCandidate
    /\ engine = [i \in Layers |-> [state |-> "none", filled |-> 0]]
    /\ cancels = {}
    /\ events = <<>>
    /\ backed = NoCandidate
    /\ missed = 0

(* on_start: without its instruments the strategy stops at once.           *)
Start ==
    /\ ~running /\ phase = "discovered"
    /\ running' = TRUE
    /\ phase' = "monitoring"
    /\ UNCHANGED <<now, plan, filled, active, signal, usable, candidate, market,
                   backed>>
-----------------------------------------------------------------------------
(* Judging a signal *)

(* opening_signal_data_age_seconds *)
Age(s) == s.age + (now - s.at)

(* opening_signal_entry_rejection_reason: "clean" stands for its five      *)
(* flags.                                                                  *)
Acceptable(s) == s.clean /\ Age(s) <= StaleAfter

(* plan_opening_mispricing_orders, where best is the side with the highest *)
(* edge, if any.  The market window starts at time 0.                      *)
Decision(s, best) ==
    IF EntryStart <= s.at /\ s.at <= EntryEnd THEN best ELSE None

(* Mutant of PersistedLongEnough: the last instant does not count.         *)
PersistedTooLong(since) == now - since > Persistence

PersistedLongEnough(since) == now - since >= Persistence

(* With no drop tolerated the signal the plan was made from cancels it.    *)
MustCancel(s) ==
    \/ now >= plan.expires \/ ~s.clean \/ Age(s) > StaleAfter
    \/ NoDropTolerated /\ s.at = plan.basis

(* The probability has dropped or the edge is gone at every layer.         *)
EdgeMayBeGone(s) == s.at # plan.basis
-----------------------------------------------------------------------------
(* What _process_signal does with a signal, books and a best side          *)

Forget == candidate' = NoCandidate

Rejects(s) ==
    /\ ~Acceptable(s)
    /\ Forget
    /\ UNCHANGED <<execution, active, market>>

WaitsForBooks(s, u, best) ==
    /\ Acceptable(s) /\ ~u
    /\ UNCHANGED <<candidate, execution, active, market>>

(* Mutant of SeesNoPlan: the candidate survives a decision against it.     *)
SeesNoPlanButRemembers(s, u, best) ==
    /\ Acceptable(s) /\ u
    /\ Decision(s, best) = None
    /\ UNCHANGED <<candidate, execution, active, market>>

SeesNoPlan(s, u, best) ==
    /\ Acceptable(s) /\ u
    /\ Decision(s, best) = None
    /\ Forget
    /\ UNCHANGED <<execution, active, market>>

NamesCandidate(s, u, best) ==
    /\ Acceptable(s) /\ u
    /\ Decision(s, best) \notin {None, candidate.side}
    /\ candidate' = [side |-> Decision(s, best), since |-> now]
    /\ UNCHANGED <<execution, active, market>>

WaitsForPersistence(s, u, best) ==
    /\ Acceptable(s) /\ u
    /\ Decision(s, best) # None /\ Decision(s, best) = candidate.side
    /\ ~PersistedLongEnough(candidate.since)
    /\ UNCHANGED <<candidate, execution, active, market>>

(* submit_plan and _submit_orders: layers the order factory refuses are    *)
(* skipped, but the plan keeps their size.  An order denied while          *)
(* submit_order runs is reported before the order is registered, so the    *)
(* report is ignored.                                                      *)
Submits(s, layers, refused, denied) ==
    /\ plan' = [side |-> candidate.side, basis |-> s.at, expires |-> now + MaxWork,
                total |-> SharesOf(layers)]
    /\ active' = layers \ refused
    /\ phase' = IF active' = {} THEN "rejected" ELSE "order_working"
    /\ engine' = [i \in Layers |->
         CASE i \in denied -> [state |-> "closed", filled |-> 0]
           [] i \in (layers \ refused) \ denied -> [state |-> "sent", filled |-> 0]
           [] OTHER -> engine[i]]

(* _materialize_plan keeps the layers the venue can represent; with none   *)
(* left nothing is placed and the next event tries again.                  *)
Places(s, u, best) ==
    /\ Acceptable(s) /\ u
    /\ Decision(s, best) # None /\ Decision(s, best) = candidate.side
    /\ PersistedLongEnough(candidate.since)
    /\ \E layers \in SUBSET Layers, refused, denied \in SUBSET Layers :
        /\ layers # {} /\ refused \subseteq layers /\ denied \subseteq layers \ refused
        /\ LayersMayFail \/ (layers = Layers /\ refused = {})
        /\ DeniedInCall \/ denied = {}
        /\ Submits(s, layers, refused, denied)
    /\ UNCHANGED <<candidate, filled, cancels, events, missed>>

MaterializesNothing(s, u, best) ==
    /\ LayersMayFail
    /\ Acceptable(s) /\ u
    /\ Decision(s, best) # None /\ Decision(s, best) = candidate.side
    /\ PersistedLongEnough(candidate.since)
    /\ UNCHANGED <<candidate, execution, active, market>>

SubmitPlanIfActionable(s, u, best) ==
    \/ Rejects(s) \/ WaitsForBooks(s, u, best) \/ SeesNoPlan(s, u, best)
    \/ NamesCandidate(s, u, best) \/ WaitsForPersistence(s, u, best)
    \/ Places(s, u, best) \/ MaterializesNothing(s, u, best)

(* Mutant of RequestCancel: the orders leave the books of the strategy     *)
(* before the engine has confirmed.                                        *)
RequestCancelAndForget ==
    /\ phase = "order_working"
    /\ phase' = "cancel_requested"
    /\ cancels' = cancels \cup active
    /\ active' = {}
    /\ UNCHANGED <<plan, filled, engine, events, missed>>

(* Mutant of RequestCancel: the deeper layers are forgotten.               *)
RequestCancelFirst ==
    /\ phase = "order_working"
    /\ phase' = "cancel_requested"
    /\ cancels' = cancels \cup {i \in active : i = 1}
    /\ UNCHANGED <<plan, filled, active, engine, events, missed>>

(* _request_cancel, from ORDER_WORKING only: every active order.           *)
RequestCancel ==
    /\ phase = "order_working"
    /\ phase' = "cancel_requested"
    /\ cancels' = cancels \cup active
    /\ UNCHANGED <<plan, filled, active, engine, events, missed>>

EvaluateWorkingOrders(s) ==
    /\ \/ (MustCancel(s) \/ EdgeMayBeGone(s)) /\ RequestCancel
       \/ ~MustCancel(s) /\ UNCHANGED <<execution, active, market>>
    /\ UNCHANGED candidate

(* Mutant of ProcessSignal: a canceled cycle counts as none.               *)
ProcessSignalAgain(s, u, best) ==
    CASE s # None /\ phase \in {"monitoring", "canceled"} -> SubmitPlanIfActionable(s, u, best)
      [] s # None /\ phase = "order_working" -> EvaluateWorkingOrders(s)
      [] OTHER -> UNCHANGED <<candidate, execution, active, market>>

(* _process_signal *)
ProcessSignal(s, u, best) ==
    CASE s # None /\ phase = "monitoring" -> SubmitPlanIfActionable(s, u, best)
      [] s # None /\ phase = "order_working" -> EvaluateWorkingOrders(s)
      [] OTHER -> UNCHANGED <<candidate, execution, active, market>>
-----------------------------------------------------------------------------
(* Data: on_data and on_order_book_deltas *)

(* History: the side that all events since some time have favoured.  A     *)
(* signal that is unclean, or by now too old, favours none; unusable books *)
(* say nothing.                                                            *)
Backed(s, u, best) ==
    CASE s = None -> backed
      [] s # None /\ ~Acceptable(s) -> NoCandidate
      [] s # None /\ Acceptable(s) /\ ~u -> backed
      [] OTHER -> LET side == Decision(s, best) IN
                    IF side = backed.side THEN backed
                    ELSE [side |-> side, since |-> IF side = None THEN Never ELSE now]

LastSignalAt == IF signal = None THEN Never ELSE signal.at

(* on_data: at most one signal an instant.                                 *)
OnData ==
    /\ running
    /\ now % Cadence = 0
    /\ LastSignalAt < now
    /\ \E age \in SignalAges, clean \in BOOLEAN, best \in Sides \cup {None} :
        /\ signal' = [at |-> now, age |-> age, clean |-> clean]
        /\ ProcessSignal(signal', usable, best)
        /\ backed' = Backed(signal', usable, best)
    /\ UNCHANGED <<running, now, usable>>

OnOrderBookDeltas ==
    /\ running
    /\ usable' \in BOOLEAN
    /\ \E best \in Sides \cup {None} :
        /\ ProcessSignal(signal, usable', best)
        /\ backed' = Backed(signal, usable', best)
    /\ UNCHANGED <<running, now, signal>>

Tick ==
    /\ now < MaxTime
    /\ now' = now + 1
    /\ UNCHANGED <<running, execution, active, signal, usable, candidate, market,
                   backed>>
-----------------------------------------------------------------------------
(* Order events *)

Receives(type) == running /\ events # <<>> /\ Head(events).type = type

(* Mutant of AcceptsFill: a fill that races a cancellation is refused.     *)
AcceptsFillOnlyWorking == phase = "order_working" /\ filled < plan.total

(* record_fill: an event fills one share.                                  *)
AcceptsFill == phase \in OpenPhases /\ filled < plan.total

(* A filled order stays in _active_orders.                                 *)
RecordFill ==
    /\ filled' = filled + 1
    /\ phase' = IF filled' = plan.total THEN "filled" ELSE phase
    /\ UNCHANGED <<running, plan, cancels>>

(* The lifecycle error: the strategy stops itself, which cancels working   *)
(* orders (on_stop).                                                       *)
StopOnError ==
    /\ running' = FALSE
    /\ IF phase = "order_working"
       THEN phase' = "cancel_requested" /\ cancels' = cancels \cup active
       ELSE UNCHANGED <<phase, cancels>>
    /\ UNCHANGED <<plan, filled>>

(* on_order_filled: a fill of an order that is not active is ignored.      *)
OnOrderFilled ==
    /\ Receives("fill")
    /\ events' = Tail(events)
    /\ IF Head(events).layer \notin active
       THEN UNCHANGED <<running, execution, cancels>>
       ELSE IF AcceptsFill THEN RecordFill ELSE StopOnError
    /\ UNCHANGED <<now, active, signal, usable, candidate, engine, backed, missed>>

(* acknowledge_cancel, complete_working_orders and reject_order, once no   *)
(* order is left.                                                          *)
PhaseAfterClose(left, refused) ==
    CASE left = {} /\ phase = "order_working" /\ refused /\ filled = 0 -> "rejected"
      [] left = {} /\ phase \in OpenPhases /\ ~(phase = "order_working" /\ refused /\ filled = 0)
           -> IF filled > 0 THEN "partially_filled" ELSE "canceled"
      [] OTHER -> phase

(* on_order_canceled, on_order_expired, on_order_rejected, on_order_denied *)
(* (_close_order_event): of an order that is not active, ignored.          *)
CloseOrderEvent ==
    /\ Receives("canceled") \/ Receives("expired") \/ Receives("rejected")
    /\ events' = Tail(events)
    /\ IF Head(events).layer \in active
       THEN /\ active' = active \ {Head(events).layer}
            /\ phase' = PhaseAfterClose(active', Head(events).type = "rejected")
       ELSE UNCHANGED <<active, phase>>
    /\ UNCHANGED <<running, now, plan, filled, signal, usable, candidate, engine,
                   cancels, backed, missed>>
-----------------------------------------------------------------------------
(* on_stop and on_reset *)

(* A strategy that does not run is handed no report (Nautilus, outside the *)
(* repository).                                                            *)
ReportDropped ==
    /\ ~running /\ events # <<>>
    /\ events' = Tail(events)
    /\ missed' = IF Head(events).type = "fill" THEN missed + 1 ELSE missed
    /\ UNCHANGED <<running, now, execution, active, signal, usable, candidate, engine,
                   cancels, backed>>

Stop ==
    /\ MayStop /\ running
    /\ running' = FALSE
    /\ IF phase = "order_working" THEN RequestCancel
       ELSE UNCHANGED <<execution, active, market>>
    /\ UNCHANGED <<now, signal, usable, candidate, backed>>

(* A new run of the engine: the clock and its orders start over.           *)
Reset ==
    /\ ~running /\ phase # "discovered"
    /\ phase' = "discovered" /\ plan' = None /\ filled' = 0
    /\ active' = {} /\ usable' = FALSE /\ signal' = None
    /\ Forget
    /\ engine' = [i \in Layers |-> [state |-> "none", filled |-> 0]]
    /\ cancels' = {} /\ events' = <<>> /\ now' = 1
    /\ backed' = NoCandidate /\ missed' = 0
    /\ UNCHANGED running
-----------------------------------------------------------------------------
(* The engine (outside the repository) *)

Engine(i, record, reports) ==
    /\ engine' = [engine EXCEPT ![i] = record]
    /\ events' = events \o reports
    /\ UNCHANGED <<running, now, execution, active, signal, usable, candidate, backed,
                   missed>>

Reported(type, i) == <<[type |-> type, layer |-> i]>>

Accepts(i) ==
    /\ engine[i].state = "sent"
    /\ Engine(i, [engine[i] EXCEPT !.state = "open"], <<>>)
    /\ UNCHANGED cancels

(* A post-only order that would cross.                                     *)
RejectsOrder(i) ==
    /\ engine[i].state = "sent"
    /\ Engine(i, [engine[i] EXCEPT !.state = "closed"], Reported("rejected", i))
    /\ UNCHANGED cancels

Fills(i) ==
    /\ engine[i].state = "open"
    /\ LET done == engine[i].filled + 1 IN
        Engine(i, [state |-> IF done = LayerSizes[i] THEN "closed" ELSE "open",
                   filled |-> done], Reported("fill", i))
    /\ UNCHANGED cancels

Cancels(i) ==
    /\ i \in cancels /\ engine[i].state = "open"
    /\ Engine(i, [engine[i] EXCEPT !.state = "closed"], Reported("canceled", i))
    /\ cancels' = cancels \ {i}

(* Too late: the strategy has no handler for a rejected cancellation.      *)
RejectsCancel(i) ==
    /\ i \in cancels /\ engine[i].state = "closed"
    /\ Engine(i, engine[i], <<>>)
    /\ cancels' = cancels \ {i}

Expires(i) ==
    /\ engine[i].state = "open"
    /\ Engine(i, [engine[i] EXCEPT !.state = "closed"], Reported("expired", i))
    /\ UNCHANGED cancels
-----------------------------------------------------------------------------
HandleEvent == OnOrderFilled \/ CloseOrderEvent

EngineStep == \E i \in Layers :
    \/ Accepts(i) \/ RejectsOrder(i) \/ Fills(i) \/ Cancels(i) \/ RejectsCancel(i)
    \/ Expires(i)

Next ==
    \/ Start \/ OnData \/ OnOrderBookDeltas \/ Tick
    \/ HandleEvent \/ Stop \/ ReportDropped \/ Reset \/ EngineStep

Spec == Init /\ [][Next]_vars

(* The replay runs to its end: time passes, the books keep changing, the   *)
(* engine answers every order and every cancellation and delivers what it  *)
(* reported.  It need not fill anything.                                   *)
Fairness ==
    /\ WF_vars(Tick) /\ WF_vars(OnOrderBookDeltas) /\ WF_vars(HandleEvent)
    /\ \A i \in Layers :
        /\ WF_vars(Accepts(i) \/ RejectsOrder(i))
        /\ WF_vars(Cancels(i) \/ RejectsCancel(i))

FairSpec == Spec /\ Fairness
-----------------------------------------------------------------------------
(* Properties *)

PendingFills == Cardinality({k \in DOMAIN events : events[k].type = "fill"})
Executed == SumFunctionOnSet([i \in Layers |-> engine[i].filled], Layers)

(* Every share the engine has executed is in filled_size or in a report    *)
(* still on its way: no fill that races a cancellation or another layer's  *)
(* end is refused, ignored or counted twice (on_order_filled, record_fill).*)
(* Only a strategy that has stopped misses fills.                          *)
NoFillLost == filled + PendingFills + missed = Executed

(* A cycle stays open only while it has an order the engine still works,   *)
(* or an active one whose end the engine does not report to the strategy   *)
(* as an end: a fill that completed it, or a denial within submit_order    *)
(* (_close_order_event, record_fill, acknowledge_cancel between them).     *)
EndGoesUnnoticed(i) ==
    /\ engine[i].state = "closed"
    /\ engine[i].filled = LayerSizes[i] \/ (DeniedInCall /\ engine[i].filled = 0)

CycleWaitsForOrders ==
    running /\ phase \in OpenPhases /\ events = <<>>
        => \/ \E i \in Layers : engine[i].state \in {"sent", "open"}
           \/ \E i \in active : EndGoesUnnoticed(i)

(* A plan is placed on a side only when every event of the last            *)
(* edge_persistence_seconds favoured it: no signal or book in between was  *)
(* judged otherwise, or belonged to an earlier run.                        *)
PlacementIsPersistent ==
    [][phase = "monitoring" /\ phase' \in OpenPhases
        => /\ backed'.side = plan'.side
           /\ now - backed'.since >= Persistence]_vars

(* The first signal or book that finds a side favoured by every event of   *)
(* the last edge_persistence_seconds places the plan: no candidate waits   *)
(* for longer, unless the venue can represent no layer of it.              *)
CandidateIsPlaced ==
    [][(/\ OnData \/ OnOrderBookDeltas
        /\ phase = "monitoring" /\ usable'
        /\ backed'.side # None /\ backed' = backed
        /\ now - backed.since >= Persistence)
        => \/ phase' # "monitoring"
           \/ MaterializesNothing(signal', usable', backed.side)]_vars

(* The execution keeps the promise of one placement cycle per life.        *)
Stage == CASE phase \in {"discovered", "monitoring"} -> "waiting"
           [] phase \in OpenPhases -> "working"
           [] phase \in Terminal -> "ended"

Cycle == INSTANCE PlacementCycle WITH
    MaxPlanned <- SharesOf(Layers), live <- running, stage <- Stage, bought <- filled,
    planned <- IF plan = None THEN 0 ELSE plan.total

KeepsCycle == Cycle!Spec

(* No order outlives its cycle: whatever raced the cancellation, a stop or *)
(* an error of the strategy, the engine is in the end left with none       *)
(* (the work time, _request_cancel, on_stop).                              *)
WorkingEnds ==
    phase \in OpenPhases ~> \A i \in Layers : engine[i].state \in {"none", "closed"}
=============================================================================
