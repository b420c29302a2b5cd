------------------------------ MODULE DepthBook ------------------------------
(***************************************************************************)
(* The local order book of one instrument inside a BtcForwardCollector     *)
(* (btc_short_horizon/data/forward.py): BinanceDepthSynchronizer and its   *)
(* BinanceDiffDepthBook (data/binance.py), which buffer the diffs of the   *)
(* stream until a REST snapshot fits them, and OkxBookSynchronizer         *)
(* (data/okx.py), whose snapshots come by the stream.  What is judged by   *)
(* the synchroniser is then judged by the EventQualityValidator and        *)
(* archived in its epoch.                                                  *)
(*                                                                         *)
(* The venue numbers its updates 1, 2, ...; a diff stands for the updates  *)
(* first .. final.  A book is abstracted to the last update it claims to   *)
(* include and the set of updates before it that it misses.  Diffs reach   *)
(* the collector in the order of their numbers, so the buffer is the set   *)
(* of its diffs.  Time is relative: an event is available lead ahead of    *)
(* the local clock when the venue's clock is.                              *)
(***************************************************************************)
EXTENDS Integers, Sequences, FiniteSets

CONSTANTS
    Feeds,          \* the feeds checked: some of "spot", "perp", "okx"
    Sizes,          \* how many updates one diff may carry
    Leads,          \* how far the venue's clock may be ahead of ours
    MaxBuffered,    \* max_buffered_events
    MaxUpdates,     \* bound: updates of the venue
    MaxFaults       \* bound: lost diffs, broken sockets and failed requests

ASSUME DepthAssumption ==
    /\ Feeds \subseteq {"spot", "perp", "okx"}
    /\ Sizes \subseteq Nat \ {0} /\ Leads \subseteq Nat
    /\ MaxBuffered \in Nat \ {0} /\ MaxUpdates \in Nat /\ MaxFaults \in Nat

VARIABLES
    feed,       \* which of the feeds this is; never changes
    venue,      \* the venue's last update
    socket,     \* "starting" (the initial snapshot), "waiting" or "connected"
    wire,       \* messages on their way
    fetch,      \* the refresh task: its state and the snapshot it was answered
    book,       \* the synchroniser
    epoch,      \* the validator: its epoch,
    ahead,      \* and how far the last accepted event lies ahead of the clock
    archive,    \* the events stored in this epoch
    late,       \* history: the last snapshot did not fit what was buffered
    carried,    \* history: the buffer outlived a gap declared in its replay
    faults      \* history: the faults so far

vars == <<feed, venue, socket, wire, fetch, book, epoch, ahead, archive, late,
          carried, faults>>

Messages == [kind : {"snapshot", "update"}, first : Nat, final : Nat]
Books == [synced : BOOLEAN, last : Nat, missing : SUBSET Nat,
          buffer : SUBSET Messages]
FetchStates == {"none", "requested", "answered", "done"}

TypeOK ==
    /\ feed \in {"spot", "perp", "okx"} /\ venue \in Nat
    /\ socket \in {"starting", "waiting", "connected"}
    /\ wire \in Seq(Messages)
    /\ fetch \in [state : FetchStates, id : Nat]
    /\ book \in Books
    /\ epoch \in Nat /\ ahead \in Nat /\ archive \subseteq Messages
    /\ late \in BOOLEAN /\ carried \in BOOLEAN /\ faults \in Nat

NoBook == [synced |-> FALSE, last |-> 0, missing |-> {}, buffer |-> {}]
InFlight == fetch.state \in {"requested", "answered"}

(* Binance books ask for a snapshot before their sockets open.             *)
Init ==
    /\ feed \in Feeds /\ venue = 1
    /\ socket = (IF feed = "okx" THEN "waiting" ELSE "starting")
    /\ fetch = [state |-> IF feed = "okx" THEN "none" ELSE "requested", id |-> 0]
    /\ wire = <<>> /\ book = NoBook
    /\ epoch = 0 /\ ahead = 0 /\ archive = {}
    /\ late = FALSE /\ carried = FALSE /\ faults = 0
-----------------------------------------------------------------------------
(* The synchronisers: the book an event leaves, and whether it is a gap.   *)

(* The updates after all of ends that the diff does not bring.             *)
Skipped(ends, diff) == {n \in 1 .. diff.first - 1 : \A e \in ends : e < n}

(* Mutant of Continues: a diff that begins later is taken.                 *)
ContinuesAnyway(ends, diff) == feed = "spot" \/ \A e \in ends : e < diff.first

(* apply_delta: Binance spot diffs may overlap the book; "pu" and OKX's    *)
(* prevSeqId name the end of the diff before.                              *)
Continues(ends, diff) ==
    /\ Skipped(ends, diff) = {}
    /\ feed # "spot" => \A e \in ends : e < diff.first

(* observe_delta on a synchronised book, and update on OKX's.              *)
Update(diff) ==
    IF diff.final <= book.last THEN [book |-> book, gap |-> FALSE]
    ELSE IF Continues({book.last}, diff)
    THEN [book |-> [book EXCEPT !.last = diff.final,
                                !.missing = @ \cup Skipped({book.last}, diff)],
          gap |-> FALSE]
    ELSE IF feed = "okx" THEN [book |-> [book EXCEPT !.synced = FALSE], gap |-> TRUE]
    ELSE [book |-> [NoBook EXCEPT !.buffer = {diff}], gap |-> TRUE]

(* _buffer_update *)
Buffered(diff) ==
    IF Cardinality(book.buffer) < MaxBuffered
    THEN [book |-> [book EXCEPT !.buffer = @ \cup {diff}], gap |-> FALSE]
    ELSE [book |-> [book EXCEPT !.buffer = {}], gap |-> TRUE]

ObserveDelta(diff) ==
    IF book.synced THEN Update(diff)
    ELSE IF feed = "okx" THEN [book |-> book, gap |-> FALSE]
    ELSE Buffered(diff)

(* Replay of the buffered diffs that the snapshot does not cover.          *)
Retained(id) == {diff \in book.buffer : diff.final > id}

Ends(id, diff) == {id} \cup {e.final : e \in {r \in Retained(id) : r.final < diff.final}}

Broken(id) == {diff \in Retained(id) : ~Continues(Ends(id, diff), diff)}

TooOld(id) == Retained(id) # {} /\ \A diff \in Retained(id) : id + 1 < diff.first

(* What a book has come to after the replay.                               *)
Reached(id) == {id} \cup {diff.final : diff \in Retained(id)}

(* apply_snapshot; last is the greatest of Reached(id).                    *)
ApplySnapshot(id, last) ==
    IF TooOld(id) THEN [book |-> [NoBook EXCEPT !.buffer = book.buffer], gap |-> FALSE]
    ELSE IF Broken(id) # {}
    THEN [book |-> [NoBook EXCEPT !.buffer =
                        {diff \in Retained(id) :
                            \E b \in Broken(id) : b.final <= diff.final}],
          gap |-> TRUE]
    ELSE [book |-> [synced |-> TRUE,
                    last |-> last,
                    missing |-> UNION {Skipped(Ends(id, diff), diff) : diff \in Retained(id)},
                    buffer |-> {}],
          gap |-> FALSE]
-----------------------------------------------------------------------------
(* The collector *)

(* mark_gap *)
MarkGap == epoch' = epoch + 1 /\ ahead' = 0 /\ archive' = {}

(* A gap is declared before the event is judged, so it is never out of     *)
(* order then.                                                             *)
OutOfOrder(outcome, lead) == ~outcome.gap /\ lead < ahead

(* The synchroniser takes the event first; _ingest archives it, or rejects *)
(* it and drops the book with all it took.                                 *)
Handle(outcome, message, lead) ==
    IF OutOfOrder(outcome, lead)
    THEN book' = NoBook /\ MarkGap
    ELSE /\ book' = outcome.book
         /\ epoch' = epoch + (IF outcome.gap THEN 1 ELSE 0)
         /\ ahead' = lead
         /\ archive' = {message} \cup (IF outcome.gap THEN {} ELSE archive)

(* Mutant of NeedsRefresh: tasks that are done are not replaced.           *)
NeedsRefreshOnce == ~book'.synced /\ fetch.state = "none"

(* Mutant of NeedsRefresh: every diff asks for a snapshot.                 *)
NeedsRefreshAlways == ~InFlight

(* binance_depth_needs_snapshot, one task at a time.                       *)
NeedsRefresh == ~book'.synced /\ ~InFlight

(* A diff, handled by _handle_binance_depth_update and on_binance.         *)
BinanceDiff(diff) ==
    /\ feed # "okx"
    /\ \E lead \in Leads :
        LET outcome == ObserveDelta(diff) IN
        /\ Handle(outcome, diff, lead)
        /\ carried' = (carried /\ ~outcome.gap /\ ~OutOfOrder(outcome, lead))
    /\ late' = FALSE
    /\ fetch' = IF NeedsRefresh THEN [state |-> "requested", id |-> 0] ELSE fetch

(* _handle_okx_books *)
OkxBooks(message) ==
    /\ feed = "okx"
    /\ \E lead \in Leads :
        IF message.kind = "snapshot"
        THEN Handle([book |-> [NoBook EXCEPT !.synced = TRUE, !.last = message.final],
                     gap |-> FALSE], message, lead)
        ELSE Handle(ObserveDelta(message), message, lead)
    /\ UNCHANGED <<fetch, late, carried>>

Receive ==
    /\ wire # <<>>
    /\ BinanceDiff(Head(wire)) \/ OkxBooks(Head(wire))
    /\ wire' = Tail(wire)
    /\ UNCHANGED <<feed, venue, socket, faults>>

(* The initial refresh is no task.                                         *)
Finished ==
    /\ fetch' = [state |-> IF socket = "starting" THEN "none" ELSE "done", id |-> 0]
    /\ socket' = IF socket = "starting" THEN "waiting" ELSE socket

(* handle_binance_depth_snapshot: a snapshot is available when it comes.   *)
SnapshotArrives ==
    /\ fetch.state = "answered"
    /\ \E last \in Reached(fetch.id) :
        LET outcome == ApplySnapshot(fetch.id, last) IN
        /\ \A n \in Reached(fetch.id) : n <= last
        /\ Handle(outcome, [kind |-> "snapshot", first |-> 0, final |-> fetch.id], 0)
        /\ late' = (~outcome.book.synced /\ ~OutOfOrder(outcome, 0))
        /\ carried' = IF OutOfOrder(outcome, 0) THEN FALSE ELSE carried \/ outcome.gap
    /\ Finished
    /\ UNCHANGED <<feed, venue, wire, faults>>

Suffers == faults < MaxFaults /\ faults' = faults + 1

(* Mutant of DropBook: a book survives the socket it was fed by.           *)
DropBookNot == UNCHANGED book /\ MarkGap /\ UNCHANGED <<late, carried>>

(* invalidate_binance_depth or reset, and mark_gap.                        *)
DropBook == book' = NoBook /\ MarkGap /\ late' = FALSE /\ carried' = FALSE

(* refresh_depth_safely: any error of the request.                         *)
FetchFails ==
    /\ Suffers /\ InFlight
    /\ DropBook /\ Finished
    /\ UNCHANGED <<feed, venue, wire>>

(* on_binance_error, on_okx_error *)
SocketFails ==
    /\ Suffers /\ socket # "starting"
    /\ socket' = "waiting" /\ wire' = <<>>
    /\ DropBook
    /\ UNCHANGED <<feed, venue, fetch>>
-----------------------------------------------------------------------------
(* The venue *)

SameCollector == UNCHANGED <<feed, fetch, book, epoch, ahead, archive, late, carried>>

(* OKX sends a snapshot to every new subscriber.                           *)
Connect ==
    /\ socket = "waiting" /\ socket' = "connected"
    /\ wire' = IF feed = "okx"
               THEN <<[kind |-> "snapshot", first |-> 0, final |-> venue]>> ELSE <<>>
    /\ SameCollector /\ UNCHANGED <<venue, faults>>

VenueUpdates ==
    \E size \in Sizes :
        /\ venue + size <= MaxUpdates
        /\ venue' = venue + size
        /\ wire' = IF socket = "connected"
                   THEN Append(wire, [kind |-> "update", first |-> venue + 1,
                                      final |-> venue + size])
                   ELSE wire
        /\ SameCollector /\ UNCHANGED <<socket, faults>>

(* A diff that never comes.                                                *)
DiffLost ==
    /\ Suffers
    /\ wire # <<>> /\ Head(wire).kind = "update" /\ wire' = Tail(wire)
    /\ SameCollector /\ UNCHANGED <<venue, socket>>

(* A server that may lag behind the stream.                                *)
Answer ==
    /\ fetch.state = "requested"
    /\ \E id \in 0 .. venue : fetch' = [state |-> "answered", id |-> id]
    /\ UNCHANGED <<feed, venue, socket, wire, book, epoch, ahead, archive, late,
                   carried, faults>>

Tick ==
    /\ ahead > 0 /\ ahead' = ahead - 1
    /\ UNCHANGED <<feed, venue, socket, wire, fetch, book, epoch, archive, late,
                   carried, faults>>

Next ==
    \/ Receive \/ SnapshotArrives \/ FetchFails \/ SocketFails
    \/ Connect \/ VenueUpdates \/ DiffLost \/ Answer \/ Tick

(* The request has a timeout, and the event loop gets round to its answer. *)
Fairness == WF_vars(Answer) /\ WF_vars(SnapshotArrives)

Spec == Init /\ [][Next]_vars /\ Fairness
-----------------------------------------------------------------------------
(* A book that says it is in step is the venue's book as of its last       *)
(* update, however diffs, snapshots, failures and late answers interleave, *)
(* and it never steps back (test_diff_depth_requires_snapshot_detects_gap_ *)
(* and_rebuilds_top_of_book).                                              *)
Mirror == INSTANCE BookMirror WITH
    mirror <- IF ~book.synced THEN -1 ELSE IF book.missing = {} THEN book.last ELSE -2

MirrorsVenue == Mirror!Spec

(* A book in step can be rebuilt from the archive of its epoch alone: a    *)
(* snapshot is there and every update since ("buffers updates until the    *)
(* snapshot overlaps their update IDs, and resets the local depth epoch on *)
(* a discontinuity", docs/btc-short-horizon-architecture.md).  It is not   *)
(* so once a gap is met in the replay of the buffer: what is left of it    *)
(* was archived in the epoch before.                                       *)
ArchiveRebuilds ==
    book.synced /\ ~carried =>
        \E s \in archive :
            /\ s.kind = "snapshot" /\ s.final <= book.last
            /\ \A n \in s.final + 1 .. book.last :
                \E diff \in archive : diff.first <= n /\ n <= diff.final

(* No snapshot is on its way to a book that is in step: it would set it    *)
(* back to an older state, with the buffer gone.                           *)
NoRefreshInStep == InFlight => ~book.synced

(* A diff that has to wait for a snapshot does not wait for ever: the book *)
(* comes into step, is dropped with a gap, or the answer was unfit and the *)
(* next diff asks again.                                                   *)
WaitingEnds == book.buffer # {} ~> (book.synced \/ book.buffer = {} \/ late)
=============================================================================
