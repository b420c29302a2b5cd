----------------------------- MODULE ClobStream -----------------------------
(***************************************************************************)
(* The evidence of one CLOB token, from the wire to the research reader:   *)
(* PolymarketL2Normalizer (btc_short_horizon/data/polymarket.py) and       *)
(* EventQualityValidator (data/quality.py) under the socket of a           *)
(* BtcForwardCollector (data/forward.py, data/collector.py), one collector *)
(* after the other as the market windows rotate                            *)
(* (scripts/btc_forward_collector.py), and what                            *)
(* load_forward_polymarket_book_events (research/opening_evidence.py)      *)
(* makes of the stored events.                                             *)
(*                                                                         *)
(* A book is abstracted to whether there is one.  Two messages with the    *)
(* same kind and source time are the same message.  What is stored stays   *)
(* stored (EvidenceBuffer has how).                                        *)
(***************************************************************************)
EXTENDS Integers, SequencesExt, FiniteSetsExt

CONSTANTS
    Leads,             \* how far the venue's clock may be ahead of ours
    Tolerance,         \* source_timestamp_regression_tolerance
    MaxSeen,           \* max_seen_identifiers
    ReconnectDelay,    \* reconnect_delay_seconds
    DiscoveryDelay,    \* what it takes at least to start the next collector
    Window,            \* the length of a market window
    EpochStride,       \* the epochs between two windows: its length in seconds
    MaxFaults,         \* bound: the kinds of fault in one behaviour
    MaxTime,           \* bound: the clock stops here
    MaxStored,         \* bound: events stored
    MaxEpoch           \* bound: gaps in the life of a collector

ASSUME StreamAssumption ==
    /\ Leads \subseteq Nat
    /\ Tolerance \in Nat /\ MaxSeen \in Nat \ {0}
    /\ ReconnectDelay \in Nat \ {0} /\ DiscoveryDelay \in Nat
    /\ Window \in Nat \ {0} /\ EpochStride \in Nat \ {0}
    /\ MaxFaults \in Nat /\ MaxTime \in Nat /\ MaxStored \in Nat /\ MaxEpoch \in Nat

Never == -1
Kinds == {"book", "price_change", "last_trade_price"}

VARIABLES
    clock,
    collector,         \* number of the window it was started in, or Never
    socket,            \* "off", "waiting" or "connected"
    retryAt,           \* when the next start or connection is tried
    hasSnapshot,       \* the normalizer
    lastAvailable, lastSource,
    epoch,             \* the validator: _epoch_id, _last_available_ts,
    lastAccepted,      \* _seen_order
    seen,
    stored,            \* the raw events on disk, in the order of acceptance
    run,               \* history: collectors started
    missedAfter,       \* history: events stored when last a message was missed
    faults             \* history: the faults so far

normalizer == <<hasSnapshot, lastAvailable, lastSource>>
validator == <<epoch, lastAccepted, seen>>
vars == <<clock, collector, socket, retryAt, normalizer, validator, stored, run,
          missedAfter, faults>>

(* A message was older than the one before by the tolerance; one left the  *)
(* book empty or crossed; one could not be read; the process was restarted *)
(* within a window.                                                        *)
Faults == {"regressed", "crossed", "unreadable", "restarted"}

Times == Nat \cup {Never}
RawEvents == [kind : Kinds, source : Nat, receive : Nat, available : Nat,
              epoch : Nat, run : Nat]

TypeOK ==
    /\ clock \in Nat /\ collector \in Times
    /\ socket \in {"off", "waiting", "connected"} /\ retryAt \in Nat
    /\ hasSnapshot \in BOOLEAN /\ lastAvailable \in Times /\ lastSource \in Times
    /\ epoch \in Nat /\ lastAccepted \in Times
    /\ seen \in Seq(Kinds \X Nat) /\ Len(seen) <= MaxSeen
    /\ stored \in Seq(RawEvents)
    /\ run \in Nat /\ missedAfter \in 0 .. Len(stored)
    /\ faults \subseteq Faults

Init ==
    /\ clock = 0
    /\ collector = Never /\ socket = "off" /\ retryAt = 0
    /\ hasSnapshot = FALSE /\ lastAvailable = Never /\ lastSource = Never
    /\ epoch = 0 /\ lastAccepted = Never /\ seen = <<>>
    /\ stored = <<>>
    /\ run = 0 /\ missedAfter = 0 /\ faults = {}
-----------------------------------------------------------------------------
(* One message *)

Regresses(source) == lastSource # Never /\ source + Tolerance <= lastSource

(* Mutant of Available: source times are taken as they come.               *)
AvailableUnheld(source) == Max({source, clock})

(* _timing: an event is available no earlier than the one before, unless   *)
(* the source's clock has gone back by the tolerance.                      *)
Available(source) ==
    IF Regresses(source)
    THEN Max({source, clock})
    ELSE Max({source, clock, lastAvailable})

Applies(kind) == kind # "price_change" \/ hasSnapshot

ResetNormalizer ==
    hasSnapshot' = FALSE /\ lastAvailable' = Never /\ lastSource' = Never

Missed == missedAfter' = Len(stored)

(* Mutant of MarkGap: the identifiers of the old epoch are remembered.     *)
MarkGapKeepsSeen ==
    /\ epoch < MaxEpoch
    /\ epoch' = epoch + 1 /\ lastAccepted' = Never /\ UNCHANGED seen

(* mark_gap *)
MarkGap ==
    /\ epoch < MaxEpoch
    /\ epoch' = epoch + 1 /\ lastAccepted' = Never /\ seen' = <<>>

Same == UNCHANGED <<clock, collector, socket, retryAt, run>>

(* At most MaxFaults kinds of fault.                                       *)
Suffers(fault) ==
    /\ faults' = faults \cup {fault}
    /\ Cardinality(faults') <= MaxFaults

(* A change before any snapshot is dropped.                                *)
AwaitsSnapshot(kind) ==
    /\ socket = "connected" /\ ~Applies(kind)
    /\ Missed
    /\ Same /\ UNCHANGED <<normalizer, validator, stored, faults>>

(* A message that leaves no sane book is dropped with the snapshot; the    *)
(* validator does not hear of it.                                          *)
Crosses(kind) ==
    /\ Suffers("crossed")
    /\ socket = "connected" /\ Applies(kind) /\ kind # "last_trade_price"
    /\ hasSnapshot' = FALSE
    /\ Missed
    /\ Same /\ UNCHANGED <<lastAvailable, lastSource, validator, stored>>

(* handle_polymarket rejects what raises ValueError, and the validator does *)
(* not hear of it.  A snapshot whose time cannot be read has replaced the  *)
(* book by then.                                                           *)
Unreadable(kind) ==
    /\ Suffers("unreadable")
    /\ socket = "connected"
    /\ hasSnapshot' \in {hasSnapshot, hasSnapshot \/ kind = "book"}
    /\ Missed
    /\ Same /\ UNCHANGED <<lastAvailable, lastSource, validator, stored>>

(* The normalizer takes the message before the validator judges it.        *)
Applied(kind, source) ==
    /\ socket = "connected" /\ Applies(kind)
    /\ IF Regresses(source) THEN Suffers("regressed")
       ELSE UNCHANGED faults
    /\ Same

Normalizes(kind, source) ==
    /\ hasSnapshot' = (hasSnapshot \/ kind = "book")
    /\ lastAvailable' = Available(source)
    /\ lastSource' = source

OutOfOrder(source) == lastAccepted # Never /\ Available(source) < lastAccepted

RejectsDuplicate(kind, source) ==
    /\ Applied(kind, source) /\ <<kind, source>> \in ToSet(seen)
    /\ Normalizes(kind, source)
    /\ UNCHANGED <<validator, stored, missedAfter>>

(* observe marks the gap, _invalidate_state_after_quality_gap the book.    *)
RejectsOutOfOrder(kind, source) ==
    /\ Applied(kind, source) /\ <<kind, source>> \notin ToSet(seen)
    /\ OutOfOrder(source)
    /\ MarkGap
    /\ ResetNormalizer
    /\ Missed
    /\ UNCHANGED stored

(* _remember *)
Remember(id) ==
    seen' = IF Len(seen) < MaxSeen THEN Append(seen, id) ELSE Append(Tail(seen), id)

(* Mutant of EpochId: the epochs of every collector start at 0.            *)
EpochIdPlain == epoch

(* epoch_id_offset + epoch_id *)
EpochId == collector * EpochStride + epoch

(* A payload is stamped with the time at which the loop takes it up        *)
(* (_collect_connection), so no two stored events have the same.           *)
TakenUpLater == \A e \in ToSet(stored) : e.receive < clock

Accepts(kind, source) ==
    /\ TakenUpLater
    /\ Applied(kind, source) /\ <<kind, source>> \notin ToSet(seen)
    /\ ~OutOfOrder(source)
    /\ Len(stored) < MaxStored
    /\ Normalizes(kind, source)
    /\ Remember(<<kind, source>>) /\ lastAccepted' = Available(source)
    /\ stored' = Append(stored, [kind |-> kind, source |-> source, receive |-> clock,
                                 available |-> Available(source), epoch |-> EpochId,
                                 run |-> run])
    /\ UNCHANGED <<epoch, missedAfter>>

Message ==
    \E kind \in Kinds :
        \/ AwaitsSnapshot(kind) \/ Crosses(kind) \/ Unreadable(kind)
        \/ \E lead \in Leads :
            \/ RejectsDuplicate(kind, clock + lead)
            \/ RejectsOutOfOrder(kind, clock + lead)
            \/ Accepts(kind, clock + lead)
-----------------------------------------------------------------------------
(* The socket *)

(* Mutant of SocketError: the gap is not declared.                         *)
SocketErrorUndeclared ==
    /\ ResetNormalizer
    /\ UNCHANGED validator
    /\ Missed
    /\ socket' = "waiting" /\ retryAt' = clock + ReconnectDelay
    /\ UNCHANGED <<clock, collector, stored, run, faults>>

(* on_polymarket_error, and the wait before the next attempt.              *)
SocketError ==
    /\ MarkGap
    /\ ResetNormalizer
    /\ Missed
    /\ socket' = "waiting" /\ retryAt' = clock + ReconnectDelay
    /\ UNCHANGED <<clock, collector, stored, run, faults>>

Disconnect == socket = "connected" /\ SocketError
ConnectFails == socket = "waiting" /\ clock >= retryAt /\ SocketError

Connect ==
    /\ socket = "waiting" /\ clock >= retryAt
    /\ socket' = "connected"
    /\ UNCHANGED <<clock, collector, retryAt, normalizer, validator, stored, run,
                   missedAfter, faults>>
-----------------------------------------------------------------------------
(* The collectors *)

(* collect_current_market_windows: a new collector for the window that is  *)
(* current, connecting at once.                                            *)
Start ==
    /\ collector = Never /\ clock >= retryAt
    /\ collector' = clock \div Window
    /\ run' = run + 1
    /\ ResetNormalizer
    /\ epoch' = 0 /\ lastAccepted' = Never /\ seen' = <<>>
    /\ socket' = "waiting" /\ retryAt' = clock
    /\ UNCHANGED <<clock, stored, missedAfter, faults>>

Leaves ==
    /\ collector' = Never /\ socket' = "off"
    /\ retryAt' = clock + DiscoveryDelay
    /\ Missed
    /\ UNCHANGED <<clock, normalizer, validator, stored, run>>

(* Some time into the next window, to cover its opening.                   *)
Rotate ==
    /\ collector # Never /\ clock >= (collector + 1) * Window
    /\ Leaves
    /\ UNCHANGED faults

(* The container's restart policy.                                         *)
Restart ==
    /\ collector # Never
    /\ Suffers("restarted")
    /\ Leaves

Tick ==
    /\ clock < MaxTime /\ clock' = clock + 1
    /\ UNCHANGED <<collector, socket, retryAt, normalizer, validator, stored, run,
                   missedAfter, faults>>

Next ==
    \/ Message \/ Disconnect \/ ConnectFails \/ Connect
    \/ Start \/ Rotate \/ Restart \/ Tick

Spec == Init /\ [][Next]_vars
-----------------------------------------------------------------------------
(* The reader *)

(* _raw_payload_sort_key, up to events that share all three times.         *)
Before(a, b) ==
    \/ a.available < b.available
    \/ a.available = b.available /\ a.receive < b.receive
    \/ a.available = b.available /\ a.receive = b.receive /\ a.source < b.source

Stored == ToSet(stored)

(* load_forward_polymarket_book_events raises "raw epoch regressed in      *)
(* causal event order": what the collectors store never makes it, across   *)
(* reconnections, rotations and invalid messages, as long as the source's  *)
(* clock does not go back by the tolerance and no window sees two          *)
(* collectors.                                                             *)
RowsInEpochOrder == \A a, b \in Stored : Before(a, b) => a.epoch <= b.epoch

ReaderAccepts == faults \subseteq {"crossed", "unreadable"} => RowsInEpochOrder

(* The reader forgets the book where the epoch changes and then needs a    *)
(* snapshot: it finds one before every change the collector has stored,    *)
(* although the collector resets its own book elsewhere.  After a snapshot *)
(* of unreadable time it does not.                                         *)
ReaderCanRebuild ==
    "unreadable" \notin faults =>
        \A b \in Stored : b.kind = "price_change" =>
            \E a \in Stored : a.kind = "book" /\ a.epoch = b.epoch /\ ~Before(b, a)

(* Nothing is missed within an epoch: once a message of the stream is      *)
(* dropped or may have been lost, no event joins an epoch that already has *)
(* a book, however often the socket fails or the collectors change (an     *)
(* invalid message and a restarted process do not declare their gap).      *)
EpochIsUnbroken ==
    faults \subseteq {"regressed"} =>
        \A i, j \in DOMAIN stored :
            i <= missedAfter /\ missedAfter < j /\ stored[i].kind = "book"
                => stored[i].epoch # stored[j].epoch

(* A clock that strays by less than the tolerance costs no epoch: only the *)
(* socket ends one (test_forward_collector_keeps_clob_source_timestamp_    *)
(* jitter_in_one_epoch).                                                   *)
JitterKeepsEpoch ==
    [][epoch' > epoch => socket' = "waiting" \/ "regressed" \in faults']_vars
=============================================================================
