--------------------------- MODULE DepthBook_proofs ---------------------------
(***************************************************************************)
(* The synchronisers of DepthBook keep the promise of BookMirror, and what *)
(* they archive is enough to rebuild the book they show, for all sizes of  *)
(* diffs and buffers, all leads of the venue's clock and any number of     *)
(* faults.                                                                 *)
(*                                                                         *)
(* The argument: no snapshot is in flight to a book that is in step, so    *)
(* only a diff that continues a book, or a snapshot into an empty place,   *)
(* ever changes what it shows; whatever is buffered, in flight or on the   *)
(* wire is something the venue has already done.                           *)
(*                                                                         *)
(* The archive: while a book can still be rebuilt its snapshot and every   *)
(* diff after it are stored, and a snapshot replayed over the buffer       *)
(* leaves no update out, for of the buffered diffs that end at or after an *)
(* update the one that ends first brings it.                               *)
(***************************************************************************)
EXTENDS DepthBook, WellFoundedInduction, TLAPS

(* Nothing is known of an update before the venue has made it.             *)
InThePast ==
    /\ \A i \in 1 .. Len(wire) : wire[i].final <= venue
    /\ \A diff \in book.buffer : diff.final <= venue
    /\ fetch.id <= venue

(* What a book in step shows.                                              *)
Complete == book.synced => book.missing = {} /\ book.last <= venue

(* OKX's snapshot comes first on a socket, to a book that was reset.       *)
SnapshotComesFirst ==
    feed = "okx" =>
        /\ fetch.state = "none"
        /\ socket # "connected" => ~book.synced /\ wire = <<>>
        /\ \A i \in 1 .. Len(wire) : wire[i].kind = "snapshot" => i = 1 /\ ~book.synced

IInv == TypeOK /\ InThePast /\ Complete /\ SnapshotComesFirst /\ NoRefreshInStep

(* What a step may do to a book in step: the venue goes on, or the book    *)
(* does.                                                                   *)
BookStep ==
    \/ venue' > venue /\ book' = book
    \/ /\ venue' = venue
       /\ book.synced /\ book'.synced => book.last <= book'.last
-----------------------------------------------------------------------------
LEMMA NoBookType == NoBook \in Books /\ ~NoBook.synced /\ NoBook.buffer = {}
BY DEF NoBook, Books

LEMMA InitIInv == Init => IInv
<1> SUFFICES ASSUME Init PROVE IInv
  OBVIOUS
<1>1. /\ fetch.id = 0 /\ fetch.state \in {"none", "requested"}
      /\ feed = "okx" => fetch.state = "none"
      /\ fetch \in [state : FetchStates, id : Nat]
  BY DEF Init, FetchStates
<1>2. TypeOK
  <2>1. feed \in {"spot", "perp", "okx"}
    BY DepthAssumption DEF Init
  <2>2. socket \in {"starting", "waiting", "connected"}
    BY DEF Init
  <2>3. wire \in Seq(Messages)
    BY DEF Init
  <2>4. venue \in Nat /\ epoch \in Nat /\ ahead \in Nat /\ faults \in Nat
    BY DEF Init
  <2>5. archive \subseteq Messages /\ late \in BOOLEAN /\ carried \in BOOLEAN
    BY DEF Init
  <2>6. book \in Books
    BY NoBookType DEF Init
  <2> QED BY <1>1, <2>1, <2>2, <2>3, <2>4, <2>5, <2>6 DEF TypeOK
<1>3. NoRefreshInStep /\ InThePast /\ Complete /\ SnapshotComesFirst
  BY <1>1, NoBookType DEF Init, NoRefreshInStep, InThePast, Complete, SnapshotComesFirst
<1> QED BY <1>2, <1>3 DEF IInv

(* What the synchronisers return.                                          *)
LEMMA WithBuffer ==
    ASSUME NEW b \in Books, NEW S \in SUBSET Messages
    PROVE  /\ [b EXCEPT !.buffer = S] \in Books
           /\ [b EXCEPT !.buffer = S].synced = b.synced
           /\ [b EXCEPT !.buffer = S].buffer = S
BY DEF Books

LEMMA UpdateFits ==
    ASSUME TypeOK, Complete, book.synced, NEW diff \in Messages, diff.final <= venue
    PROVE  LET outcome == Update(diff) IN
           /\ outcome.book \in Books /\ outcome.gap \in BOOLEAN
           /\ \A d \in outcome.book.buffer : d \in book.buffer \/ d = diff
           /\ outcome.book.synced =>
                /\ outcome.book.missing = {} /\ outcome.book.last <= venue
                /\ book.last <= outcome.book.last
<1>0. book.missing = {} /\ book.last <= venue /\ book.last \in Nat
  BY DEF Complete, TypeOK, Books
<1>1. CASE diff.final <= book.last
  BY <1>0, <1>1 DEF Update, TypeOK
<1>2. CASE diff.final > book.last /\ Continues({book.last}, diff)
  <2> DEFINE next == [book EXCEPT !.last = diff.final,
                                  !.missing = @ \cup Skipped({book.last}, diff)]
  <2>1. Update(diff) = [book |-> next, gap |-> FALSE]
    <3>1. ~(diff.final <= book.last)
      BY <1>0, <1>2 DEF Messages
    <3> QED BY <1>2, <3>1 DEF Update
  <2>2. Skipped({book.last}, diff) = {}
    BY <1>2 DEF Continues
  <2>3. diff.final \in Nat /\ book \in Books
    BY DEF Messages, TypeOK
  <2>4. next = [book EXCEPT !.last = diff.final]
    BY <1>0, <2>2, <2>3 DEF Books
  <2>5. next \in Books /\ next.missing = {} /\ next.last = diff.final
        /\ next.buffer = book.buffer
    BY <1>0, <2>3, <2>4 DEF Books
  <2> HIDE DEF next
  <2> QED BY <1>0, <1>2, <2>1, <2>3, <2>5
<1>3. CASE diff.final > book.last /\ ~Continues({book.last}, diff) /\ feed = "okx"
  <2> DEFINE stale == [book EXCEPT !.synced = FALSE]
  <2>1. ~(diff.final <= book.last)
    BY <1>0, <1>3 DEF Messages
  <2>2. Update(diff) = [book |-> stale, gap |-> TRUE]
    BY <1>3, <2>1 DEF Update
  <2>3. stale \in Books /\ stale.buffer = book.buffer /\ ~stale.synced
    BY DEF TypeOK, Books
  <2> HIDE DEF stale
  <2> QED BY <2>2, <2>3
<1>4. CASE diff.final > book.last /\ ~Continues({book.last}, diff) /\ feed # "okx"
  <2> DEFINE kept == [NoBook EXCEPT !.buffer = {diff}]
  <2>1. ~(diff.final <= book.last)
    BY <1>0, <1>4 DEF Messages
  <2>2. Update(diff) = [book |-> kept, gap |-> TRUE]
    BY <1>4, <2>1 DEF Update
  <2>3. kept \in Books /\ kept.buffer = {diff} /\ ~kept.synced
    BY NoBookType, WithBuffer
  <2> HIDE DEF kept
  <2> QED BY <2>2, <2>3
<1> QED BY <1>0, <1>1, <1>2, <1>3, <1>4 DEF Messages

LEMMA ObserveFits ==
    ASSUME TypeOK, Complete, NEW diff \in Messages, diff.final <= venue
    PROVE  LET outcome == ObserveDelta(diff) IN
           /\ outcome.book \in Books /\ outcome.gap \in BOOLEAN
           /\ \A d \in outcome.book.buffer : d \in book.buffer \/ d = diff
           /\ outcome.book.synced =>
                /\ book.synced
                /\ outcome.book.missing = {} /\ outcome.book.last <= venue
                /\ book.last <= outcome.book.last
<1>1. CASE book.synced
  BY <1>1, UpdateFits DEF ObserveDelta
<1>2. CASE ~book.synced /\ feed = "okx"
  BY <1>2 DEF ObserveDelta, TypeOK
<1>3. CASE ~book.synced /\ feed # "okx" /\ Cardinality(book.buffer) < MaxBuffered
  <2>1. ObserveDelta(diff) =
            [book |-> [book EXCEPT !.buffer = @ \cup {diff}], gap |-> FALSE]
    BY <1>3 DEF ObserveDelta, Buffered
  <2> QED BY <1>3, <2>1 DEF TypeOK, Books
<1>4. CASE ~book.synced /\ feed # "okx" /\ ~(Cardinality(book.buffer) < MaxBuffered)
  <2>1. ObserveDelta(diff) = [book |-> [book EXCEPT !.buffer = {}], gap |-> TRUE]
    BY <1>4 DEF ObserveDelta, Buffered
  <2> QED BY <1>4, <2>1 DEF TypeOK, Books
<1> QED BY <1>1, <1>2, <1>3, <1>4

LEMMA SnapshotFits ==
    ASSUME TypeOK, InThePast, NEW last \in Reached(fetch.id)
    PROVE  LET outcome == ApplySnapshot(fetch.id, last) IN
           /\ outcome.book \in Books /\ outcome.gap \in BOOLEAN
           /\ outcome.book.buffer \subseteq book.buffer
           /\ outcome.book.synced =>
                outcome.book.missing = {} /\ outcome.book.last <= venue
<1> DEFINE id == fetch.id
<1>0. id \in Nat /\ book.buffer \subseteq Messages /\ Retained(id) \subseteq book.buffer
  BY DEF TypeOK, Books, Retained
<1>1. last \in Nat /\ last <= venue
  BY <1>0 DEF Reached, InThePast, Messages
<1>2. CASE TooOld(id)
  <2> DEFINE kept == [NoBook EXCEPT !.buffer = book.buffer]
  <2>1. ApplySnapshot(id, last) = [book |-> kept, gap |-> FALSE]
    BY <1>2 DEF ApplySnapshot
  <2>2. kept \in Books /\ kept.buffer = book.buffer /\ ~kept.synced
    BY <1>0, NoBookType, WithBuffer
  <2> HIDE DEF kept
  <2> QED BY <2>1, <2>2
<1>3. CASE ~TooOld(id) /\ Broken(id) # {}
  <2> DEFINE rest == {diff \in Retained(id) :
                        \E b \in Broken(id) : b.final <= diff.final}
             kept == [NoBook EXCEPT !.buffer = rest]
  <2>1. ApplySnapshot(id, last) = [book |-> kept, gap |-> TRUE]
    BY <1>3 DEF ApplySnapshot
  <2>2. rest \subseteq book.buffer
    BY <1>0
  <2> HIDE DEF rest
  <2>3. kept \in Books /\ kept.buffer = rest /\ ~kept.synced
    BY <1>0, <2>2, NoBookType, WithBuffer
  <2> HIDE DEF kept
  <2> QED BY <2>1, <2>2, <2>3
<1>4. CASE ~TooOld(id) /\ Broken(id) = {}
  <2> DEFINE gone == UNION {Skipped(Ends(id, diff), diff) : diff \in Retained(id)}
  <2>1. ApplySnapshot(id, last) =
            [book |-> [synced |-> TRUE, last |-> last, missing |-> gone, buffer |-> {}],
             gap |-> FALSE]
    BY <1>4 DEF ApplySnapshot
  <2>2. \A diff \in Retained(id) : Skipped(Ends(id, diff), diff) = {}
    BY <1>4 DEF Broken, Continues
  <2>3. gone = {}
    BY <2>2
  <2> HIDE DEF gone
  <2> QED BY <1>1, <2>1, <2>3 DEF Books
<1> QED BY <1>2, <1>3, <1>4
-----------------------------------------------------------------------------
(* The wire.                                                               *)
LEMMA TakenOff ==
    ASSUME TypeOK, wire # <<>>
    PROVE  /\ Head(wire) \in Messages /\ Head(wire) = wire[1] /\ 1 \in 1 .. Len(wire)
           /\ Tail(wire) \in Seq(Messages)
           /\ \A i \in 1 .. Len(Tail(wire)) :
                i + 1 \in 1 .. Len(wire) /\ Tail(wire)[i] = wire[i + 1]
BY DEF TypeOK

(* Whatever the synchroniser says, the collector keeps or drops it.        *)
LEMMA HandleFits ==
    ASSUME TypeOK, NEW outcome, outcome.book \in Books, outcome.gap \in BOOLEAN,
           NEW message \in Messages, NEW lead \in Nat, Handle(outcome, message, lead)
    PROVE  /\ book' \in Books /\ epoch' \in Nat /\ ahead' \in Nat
           /\ archive' \subseteq Messages
           /\ book' = outcome.book \/ (book' = NoBook /\ OutOfOrder(outcome, lead))
<1>1. CASE OutOfOrder(outcome, lead)
  BY <1>1, NoBookType DEF Handle, MarkGap, TypeOK
<1>2. CASE ~OutOfOrder(outcome, lead)
  <2>1. epoch' = epoch + (IF outcome.gap THEN 1 ELSE 0) /\ epoch \in Nat
    BY <1>2 DEF Handle, TypeOK
  <2>2. archive' \subseteq Messages
    BY <1>2 DEF Handle, TypeOK
  <2>3. book' = outcome.book /\ ahead' = lead
    BY <1>2 DEF Handle
  <2> QED BY <2>1, <2>2, <2>3
<1> QED BY <1>1, <1>2

LEMMA BinanceDiffStep ==
    ASSUME IInv, NEW diff \in Messages, diff.final <= venue, BinanceDiff(diff),
           UNCHANGED <<feed, venue, socket, faults>>,
           wire' \in Seq(Messages),
           \A i \in 1 .. Len(wire') : wire'[i].final <= venue
    PROVE  IInv' /\ BookStep
<1> USE DEF IInv
<1>1. PICK lead \in Leads :
        /\ Handle(ObserveDelta(diff), diff, lead)
        /\ carried' = (carried /\ ~ObserveDelta(diff).gap
                                 /\ ~OutOfOrder(ObserveDelta(diff), lead))
  BY DEF BinanceDiff
<1>2. lead \in Nat
  BY DepthAssumption
<1>3. /\ ObserveDelta(diff).book \in Books /\ ObserveDelta(diff).gap \in BOOLEAN
      /\ \A d \in ObserveDelta(diff).book.buffer : d \in book.buffer \/ d = diff
      /\ ObserveDelta(diff).book.synced =>
            /\ book.synced
            /\ ObserveDelta(diff).book.missing = {}
            /\ ObserveDelta(diff).book.last <= venue
            /\ book.last <= ObserveDelta(diff).book.last
  BY ObserveFits
<1>4. /\ book' \in Books /\ epoch' \in Nat /\ ahead' \in Nat /\ archive' \subseteq Messages
      /\ book' = ObserveDelta(diff).book \/ book' = NoBook
  BY <1>1, <1>2, <1>3, HandleFits
<1>5. /\ \A d \in book'.buffer : d \in book.buffer \/ d = diff
      /\ book'.synced =>
            /\ book.synced /\ book'.missing = {} /\ book'.last <= venue
            /\ book.last <= book'.last
  BY <1>3, <1>4, NoBookType
<1>6. /\ fetch' \in [state : FetchStates, id : Nat] /\ fetch'.id <= venue
      /\ fetch'.state \in {"requested", "answered"} => ~book'.synced
  <2>1. CASE NeedsRefresh
    <3>1. fetch' = [state |-> "requested", id |-> 0] /\ ~book'.synced
      BY <2>1 DEF BinanceDiff, NeedsRefresh
    <3> QED BY <3>1 DEF FetchStates, TypeOK
  <2>2. CASE ~NeedsRefresh
    <3>1. fetch' = fetch
      BY <2>2 DEF BinanceDiff
    <3> QED BY <1>5, <3>1 DEF TypeOK, InThePast, NoRefreshInStep, InFlight
  <2> QED BY <2>1, <2>2
<1>7. late' \in BOOLEAN /\ carried' \in BOOLEAN
  BY <1>1 DEF BinanceDiff
<1>8. TypeOK'
  BY <1>4, <1>6, <1>7 DEF TypeOK
<1>9. InThePast' /\ Complete' /\ NoRefreshInStep'
  BY <1>5, <1>6 DEF InThePast, Complete, NoRefreshInStep, InFlight
<1>10. SnapshotComesFirst'
  BY DEF BinanceDiff, SnapshotComesFirst
<1> QED BY <1>5, <1>8, <1>9, <1>10 DEF BookStep

LEMMA OkxBooksStep ==
    ASSUME IInv, wire # <<>>, OkxBooks(Head(wire)), wire' = Tail(wire),
           UNCHANGED <<feed, venue, socket, faults>>
    PROVE  IInv' /\ BookStep
<1> USE DEF IInv
<1> DEFINE message == Head(wire)
           fresh == [NoBook EXCEPT !.synced = TRUE, !.last = message.final]
           outcome == IF message.kind = "snapshot"
                      THEN [book |-> fresh, gap |-> FALSE] ELSE ObserveDelta(message)
<1>1. /\ feed = "okx" /\ fetch.state = "none" /\ socket = "connected"
      /\ \A i \in 1 .. Len(wire) : wire[i].kind = "snapshot" => i = 1 /\ ~book.synced
      /\ UNCHANGED <<fetch, late, carried>>
  BY DEF OkxBooks, SnapshotComesFirst
<1>2. /\ message \in Messages /\ message.final <= venue
      /\ message.kind = "snapshot" => ~book.synced
  BY <1>1, TakenOff DEF InThePast
<1>3. /\ fresh \in Books /\ fresh.synced /\ fresh.missing = {} /\ fresh.buffer = {}
      /\ fresh.last = message.final
  BY <1>2 DEF NoBook, Books, Messages
<1>4. /\ outcome.book \in Books /\ outcome.gap \in BOOLEAN
      /\ \A d \in outcome.book.buffer : d \in book.buffer \/ d = message
      /\ outcome.book.synced =>
            /\ outcome.book.missing = {} /\ outcome.book.last <= venue
            /\ book.synced => book.last <= outcome.book.last
      /\ message.kind # "snapshot" /\ outcome.book.synced => book.synced
  <2>1. CASE message.kind = "snapshot"
    <3>1. outcome = [book |-> fresh, gap |-> FALSE]
      BY <2>1
    <3> HIDE DEF outcome, fresh
    <3> QED BY <1>2, <1>3, <2>1, <3>1
  <2>2. CASE message.kind # "snapshot"
    <3>1. outcome = ObserveDelta(message)
      BY <2>2
    <3> HIDE DEF outcome, message
    <3> QED BY <1>2, <2>2, <3>1, ObserveFits
  <2> QED BY <2>1, <2>2
<1>5. PICK lead \in Leads : Handle(outcome, message, lead)
  BY DEF OkxBooks
<1>6. lead \in Nat
  BY DepthAssumption
<1> HIDE DEF fresh, outcome
<1>7. /\ book' \in Books /\ epoch' \in Nat /\ ahead' \in Nat /\ archive' \subseteq Messages
      /\ book' = outcome.book \/ book' = NoBook
  <2> HIDE DEF message
  <2> QED BY <1>2, <1>4, <1>5, <1>6, HandleFits
<1>8. /\ \A d \in book'.buffer : d \in book.buffer \/ d = message
      /\ book'.synced =>
            /\ book'.missing = {} /\ book'.last <= venue
            /\ book.synced => book.last <= book'.last
      /\ message.kind # "snapshot" /\ book'.synced => book.synced
  BY <1>4, <1>7, NoBookType
<1>9. TypeOK'
  BY <1>1, <1>7, TakenOff DEF TypeOK
<1>10. InThePast' /\ Complete' /\ NoRefreshInStep'
  BY <1>1, <1>2, <1>8, TakenOff DEF InThePast, Complete, NoRefreshInStep, InFlight
<1>11. SnapshotComesFirst'
  <2>1. \A i \in 1 .. Len(wire') : wire'[i].kind # "snapshot"
    <3> SUFFICES ASSUME NEW i \in 1 .. Len(Tail(wire)) PROVE Tail(wire)[i].kind # "snapshot"
      OBVIOUS
    <3>1. i + 1 \in 1 .. Len(wire) /\ Tail(wire)[i] = wire[i + 1] /\ i + 1 # 1
      BY TakenOff
    <3> QED BY <1>1, <3>1
  <2> QED BY <1>1, <2>1 DEF SnapshotComesFirst
<1> QED BY <1>8, <1>9, <1>10, <1>11 DEF BookStep

LEMMA ReceiveStep == IInv /\ Receive => IInv' /\ BookStep
<1> SUFFICES ASSUME IInv, Receive PROVE IInv' /\ BookStep
  OBVIOUS
<1>1. /\ wire # <<>> /\ wire' = Tail(wire) /\ UNCHANGED <<feed, venue, socket, faults>>
      /\ BinanceDiff(Head(wire)) \/ OkxBooks(Head(wire))
  BY DEF Receive
<1>2. /\ Head(wire) \in Messages /\ Head(wire).final <= venue
      /\ wire' \in Seq(Messages) /\ \A i \in 1 .. Len(wire') : wire'[i].final <= venue
  BY <1>1, TakenOff DEF IInv, InThePast
<1>3. CASE BinanceDiff(Head(wire))
  BY <1>1, <1>2, <1>3, BinanceDiffStep
<1>4. CASE OkxBooks(Head(wire))
  BY <1>1, <1>4, OkxBooksStep
<1> QED BY <1>1, <1>3, <1>4

LEMMA SnapshotStep == IInv /\ SnapshotArrives => IInv' /\ BookStep
<1> SUFFICES ASSUME IInv, SnapshotArrives PROVE IInv' /\ BookStep
  OBVIOUS
<1> USE DEF IInv
<1> DEFINE message == [kind |-> "snapshot", first |-> 0, final |-> fetch.id]
<1>1. PICK last \in Reached(fetch.id) :
        LET outcome == ApplySnapshot(fetch.id, last) IN
        /\ Handle(outcome, message, 0)
        /\ late' = (~outcome.book.synced /\ ~OutOfOrder(outcome, 0))
        /\ carried' = IF OutOfOrder(outcome, 0) THEN FALSE ELSE carried \/ outcome.gap
  BY DEF SnapshotArrives
<1> DEFINE outcome == ApplySnapshot(fetch.id, last)
<1>2. /\ outcome.book \in Books /\ outcome.gap \in BOOLEAN
      /\ outcome.book.buffer \subseteq book.buffer
      /\ outcome.book.synced =>
            outcome.book.missing = {} /\ outcome.book.last <= venue
  BY SnapshotFits
<1>3. /\ Handle(outcome, message, 0)
      /\ late' \in BOOLEAN
      /\ carried' = IF OutOfOrder(outcome, 0) THEN FALSE ELSE carried \/ outcome.gap
  BY <1>1
<1> HIDE DEF outcome
<1>4. late' \in BOOLEAN /\ carried' \in BOOLEAN
  BY <1>3
<1>5. message \in Messages
  BY DEF TypeOK, Messages
<1> HIDE DEF message
<1>6. /\ book' \in Books /\ epoch' \in Nat /\ ahead' \in Nat /\ archive' \subseteq Messages
      /\ book' = outcome.book \/ book' = NoBook
  BY <1>2, <1>3, <1>5, HandleFits
<1>7. /\ book'.buffer \subseteq book.buffer
      /\ book'.synced => book'.missing = {} /\ book'.last <= venue
  BY <1>2, <1>6, NoBookType
<1>8. /\ fetch' \in [state : FetchStates, id : Nat] /\ fetch'.id = 0
      /\ fetch'.state \in {"none", "done"}
      /\ socket' \in {"starting", "waiting", "connected"}
      /\ UNCHANGED <<feed, venue, wire, faults>>
  BY DEF SnapshotArrives, Finished, FetchStates, TypeOK
<1>9. ~book.synced /\ feed # "okx"
  BY DEF SnapshotArrives, NoRefreshInStep, InFlight, SnapshotComesFirst
<1>10. TypeOK'
  BY <1>4, <1>6, <1>8 DEF TypeOK
<1>11. InThePast' /\ Complete' /\ NoRefreshInStep' /\ SnapshotComesFirst'
  BY <1>7, <1>8, <1>9
  DEF InThePast, Complete, NoRefreshInStep, InFlight, SnapshotComesFirst, TypeOK
<1> QED BY <1>8, <1>9, <1>10, <1>11 DEF BookStep

LEMMA FailureStep == IInv /\ (FetchFails \/ SocketFails) => IInv' /\ BookStep
<1> SUFFICES ASSUME IInv, FetchFails \/ SocketFails PROVE IInv' /\ BookStep
  OBVIOUS
<1> USE DEF IInv
<1>1. /\ book' = NoBook /\ UNCHANGED <<feed, venue>> /\ faults' = faults + 1
      /\ epoch' = epoch + 1 /\ ahead' = 0 /\ archive' = {}
      /\ late' = FALSE /\ carried' = FALSE
  BY DEF FetchFails, SocketFails, Suffers, DropBook, MarkGap
<1>2. /\ wire' = wire \/ wire' = <<>>
      /\ socket' \in {"starting", "waiting", "connected"}
      /\ feed = "okx" => wire' = <<>>
      /\ fetch' \in [state : FetchStates, id : Nat] /\ fetch'.id <= venue
      /\ feed = "okx" => fetch'.state = "none"
  <2>1. CASE FetchFails
    BY <2>1 DEF FetchFails, Finished, FetchStates, TypeOK, InFlight, SnapshotComesFirst
  <2>2. CASE SocketFails
    BY <2>2 DEF SocketFails, TypeOK, InThePast, SnapshotComesFirst
  <2> QED BY <2>1, <2>2
<1>3. TypeOK'
  <2>1. wire' \in Seq(Messages)
    <3>1. wire \in Seq(Messages) /\ <<>> \in Seq(Messages)
      BY DEF TypeOK
    <3> QED BY <1>2, <3>1
  <2>2. faults' \in Nat /\ epoch' \in Nat /\ venue' \in Nat
    BY <1>1 DEF TypeOK
  <2>3. feed' \in {"spot", "perp", "okx"} /\ book' \in Books
    BY <1>1, NoBookType DEF TypeOK
  <2> QED BY <1>1, <1>2, <2>1, <2>2, <2>3 DEF TypeOK
<1>4. InThePast' /\ Complete' /\ NoRefreshInStep'
  BY <1>1, <1>2, NoBookType DEF InThePast, Complete, NoRefreshInStep
<1>5. SnapshotComesFirst'
  BY <1>1, <1>2, NoBookType DEF SnapshotComesFirst
<1> QED BY <1>1, <1>3, <1>4, <1>5, NoBookType DEF BookStep

LEMMA VenueStep == IInv /\ (VenueUpdates \/ Connect) => IInv' /\ BookStep
<1> SUFFICES ASSUME IInv, VenueUpdates \/ Connect PROVE IInv' /\ BookStep
  OBVIOUS
<1> USE DEF IInv, SameCollector
<1>1. CASE VenueUpdates
  <2>1. PICK size \in Sizes :
            /\ venue' = venue + size /\ UNCHANGED <<socket, faults>> /\ SameCollector
            /\ wire' = IF socket = "connected"
                       THEN Append(wire, [kind |-> "update", first |-> venue + 1,
                                          final |-> venue + size])
                       ELSE wire
    BY <1>1 DEF VenueUpdates
  <2> DEFINE update == [kind |-> "update", first |-> venue + 1, final |-> venue + size]
  <2>2. size \in Nat \ {0} /\ venue \in Nat
    BY DepthAssumption DEF TypeOK
  <2>3. update \in Messages /\ update.kind # "snapshot" /\ update.final = venue'
    BY <2>1, <2>2 DEF Messages
  <2>4. wire' = wire \/ (socket = "connected" /\ wire' = Append(wire, update))
    BY <2>1
  <2> HIDE DEF update
  <2>5. wire' \in Seq(Messages)
    BY <2>3, <2>4 DEF TypeOK
  <2>6. \A i \in 1 .. Len(wire') :
            \/ i \in 1 .. Len(wire) /\ wire'[i] = wire[i]
            \/ wire'[i] = update
    BY <2>3, <2>4 DEF TypeOK
  <2>7. TypeOK'
    BY <2>1, <2>2, <2>5 DEF TypeOK
  <2>8. InThePast'
    <3>1. \A i \in 1 .. Len(wire') : wire'[i].final <= venue'
      <4> SUFFICES ASSUME NEW i \in 1 .. Len(wire') PROVE wire'[i].final <= venue'
        OBVIOUS
      <4>1. CASE wire'[i] = update
        BY <2>1, <2>2, <2>3, <4>1
      <4>2. CASE i \in 1 .. Len(wire) /\ wire'[i] = wire[i]
        <5>1. wire[i].final <= venue /\ wire[i] \in Messages
          BY <4>2 DEF InThePast, TypeOK
        <5>2. wire[i].final \in Nat
          BY <5>1 DEF Messages
        <5> QED BY <2>1, <2>2, <4>2, <5>1, <5>2
      <4> QED BY <2>6, <4>1, <4>2
    <3>2. \A d \in book.buffer : d.final <= venue'
      BY <2>1, <2>2 DEF InThePast, TypeOK, Books, Messages
    <3>3. fetch.id <= venue'
      BY <2>1, <2>2 DEF InThePast, TypeOK
    <3> QED BY <2>1, <3>1, <3>2, <3>3 DEF InThePast
  <2>9. Complete' /\ NoRefreshInStep'
    BY <2>1, <2>2 DEF Complete, NoRefreshInStep, InFlight, TypeOK, Books
  <2>10. SnapshotComesFirst'
    BY <2>1, <2>3, <2>4, <2>6 DEF SnapshotComesFirst
  <2>11. venue' > venue
    BY <2>1, <2>2
  <2> QED BY <2>1, <2>7, <2>8, <2>9, <2>10, <2>11 DEF BookStep
<1>2. CASE Connect
  <2> DEFINE first == [kind |-> "snapshot", first |-> 0, final |-> venue]
  <2>1. /\ UNCHANGED <<venue, faults>> /\ SameCollector
        /\ socket = "waiting" /\ socket' = "connected"
        /\ IF feed = "okx" THEN wire' = <<first>> ELSE wire' = <<>>
    BY <1>2 DEF Connect
  <2>2. first \in Messages /\ first.final = venue
    BY DEF TypeOK, Messages
  <2> HIDE DEF first
  <2>3. wire' \in Seq(Messages) /\ \A i \in 1 .. Len(wire') : i = 1 /\ wire'[i] = first
    <3>1. <<first>> \in Seq(Messages) /\ <<>> \in Seq(Messages)
      BY <2>2
    <3>2. wire' = <<first>> \/ wire' = <<>>
      BY <2>1
    <3>3. wire' \in Seq(Messages)
      BY <3>1, <3>2
    <3>4. CASE wire' = <<first>>
      BY <3>3, <3>4
    <3>5. CASE wire' = <<>>
      BY <3>3, <3>5
    <3> QED BY <3>2, <3>4, <3>5
  <2>4. TypeOK'
    BY <2>1, <2>3 DEF TypeOK
  <2>5. InThePast'
    BY <2>1, <2>2, <2>3 DEF InThePast, TypeOK
  <2>6. Complete' /\ NoRefreshInStep'
    BY <2>1 DEF Complete, NoRefreshInStep, InFlight
  <2>7. SnapshotComesFirst'
    BY <2>1, <2>3 DEF SnapshotComesFirst
  <2> QED BY <2>1, <2>4, <2>5, <2>6, <2>7 DEF BookStep, TypeOK, Books
<1> QED BY <1>1, <1>2

LEMMA WireStep == IInv /\ (DiffLost \/ Answer \/ Tick) => IInv' /\ BookStep
<1> SUFFICES ASSUME IInv, DiffLost \/ Answer \/ Tick PROVE IInv' /\ BookStep
  OBVIOUS
<1> USE DEF IInv, SameCollector
<1>1. CASE DiffLost
  <2>1. /\ wire # <<>> /\ wire' = Tail(wire) /\ wire' \in Seq(Messages)
        /\ \A i \in 1 .. Len(wire') :
                i + 1 \in 1 .. Len(wire) /\ wire'[i] = wire[i + 1]
        /\ UNCHANGED <<venue, socket>> /\ SameCollector /\ faults' = faults + 1
    BY <1>1, TakenOff DEF DiffLost, Suffers
  <2>2. TypeOK'
    BY <2>1 DEF TypeOK
  <2>3. InThePast' /\ Complete' /\ NoRefreshInStep'
    BY <2>1 DEF InThePast, Complete, NoRefreshInStep, InFlight
  <2>4. SnapshotComesFirst'
    BY <2>1 DEF SnapshotComesFirst
  <2> QED BY <2>1, <2>2, <2>3, <2>4 DEF BookStep, TypeOK, Books
<1>2. CASE Answer
  <2>1. /\ \E id \in 0 .. venue : fetch' = [state |-> "answered", id |-> id]
        /\ fetch.state = "requested"
        /\ UNCHANGED <<feed, venue, socket, wire, book, epoch, ahead, archive, late,
                       carried, faults>>
    BY <1>2 DEF Answer
  <2>2. fetch' \in [state : FetchStates, id : Nat] /\ fetch'.id <= venue
    BY <2>1 DEF TypeOK, FetchStates
  <2>3. TypeOK' /\ InThePast'
    BY <2>1, <2>2 DEF TypeOK, InThePast
  <2>4. Complete' /\ NoRefreshInStep' /\ SnapshotComesFirst'
    BY <2>1 DEF Complete, NoRefreshInStep, InFlight, SnapshotComesFirst
  <2> QED BY <2>1, <2>3, <2>4 DEF BookStep, TypeOK, Books
<1>3. CASE Tick
  <2>1. /\ ahead' = ahead - 1 /\ ahead > 0
        /\ UNCHANGED <<feed, venue, socket, wire, fetch, book, epoch, archive, late,
                       carried, faults>>
    BY <1>3 DEF Tick
  <2>2. TypeOK'
    BY <2>1 DEF TypeOK
  <2>3. InThePast' /\ Complete' /\ NoRefreshInStep' /\ SnapshotComesFirst'
    BY <2>1 DEF InThePast, Complete, NoRefreshInStep, InFlight, SnapshotComesFirst
  <2> QED BY <2>1, <2>2, <2>3 DEF BookStep, TypeOK, Books
<1> QED BY <1>1, <1>2, <1>3

LEMMA NextStep == IInv /\ [Next]_vars => IInv' /\ BookStep
<1>1. IInv /\ Next => IInv' /\ BookStep
  BY ReceiveStep, SnapshotStep, FailureStep, VenueStep, WireStep DEF Next
<1>2. IInv /\ UNCHANGED vars => IInv' /\ BookStep
  BY DEF vars, IInv, TypeOK, InThePast, Complete, SnapshotComesFirst, NoRefreshInStep,
         InFlight, BookStep, Books
<1> QED BY <1>1, <1>2
-----------------------------------------------------------------------------
(* The archive *)
(* What a step leaves in the archive: the message, and what was there.     *)
Stored(outcome, message) == {message} \cup (IF outcome.gap THEN {} ELSE archive)

(* A book of the store's snapshots and updates up to last can be rebuilt.  *)
Rebuilt(store, last) ==
    \E s \in store :
        /\ s.kind = "snapshot" /\ s.final <= last
        /\ \A n \in s.final + 1 .. last :
            \E diff \in store : diff.first <= n /\ n <= diff.final

(* A book in step has no buffer, and a buffer that has seen no gap in its  *)
(* replay is in the archive of its epoch.                                  *)
NothingWaits == book.synced => book.buffer = {}
Archived == ~carried => book.buffer \subseteq archive

AInv == NothingWaits /\ Archived /\ ArchiveRebuilds

LEMMA LeastNumber ==
    ASSUME NEW T, T \subseteq Nat, T # {}
    PROVE  \E x \in T : \A y \in T : x <= y
<1> DEFINE R == OpToRel(<, Nat)
<1>1. IsWellFoundedOn(R, Nat)
  BY NatLessThanWellFounded
<1>2. ASSUME NEW x \in Nat, NEW y \in Nat, y < x PROVE <<y, x>> \in R
  BY <1>2 DEF OpToRel
<1> HIDE DEF R
<1>3. PICK x \in T : \A y \in T : ~ (<<y, x>> \in R)
  BY <1>1, WFMin
<1>4. ASSUME NEW y \in T PROVE x <= y
  <2>1. x \in Nat /\ y \in Nat /\ ~(<<y, x>> \in R)
    BY <1>3
  <2>2. ~(y < x)
    BY <1>2, <2>1
  <2> QED BY <2>1, <2>2
<1> QED BY <1>4

(* A diff that skips nothing carries a book that can be rebuilt on.        *)
LEMMA RebuiltFurther ==
    ASSUME NEW store \in SUBSET Messages, NEW last \in Nat, NEW diff \in Messages,
           Skipped({last}, diff) = {}, last < diff.final, Rebuilt(store, last)
    PROVE  Rebuilt({diff} \cup store, diff.final)
<1>1. PICK s \in store :
        /\ s.kind = "snapshot" /\ s.final <= last
        /\ \A n \in s.final + 1 .. last :
            \E d \in store : d.first <= n /\ n <= d.final
  BY DEF Rebuilt
<1>2. s.final \in Nat /\ diff.first \in Nat /\ diff.final \in Nat
  BY DEF Messages
<1>3. ASSUME NEW n \in s.final + 1 .. diff.final
      PROVE  \E d \in {diff} \cup store : d.first <= n /\ n <= d.final
  <2>1. CASE n <= last
    BY <1>1, <1>2, <1>3, <2>1
  <2>2. CASE n > last
    <3>1. n \in Nat /\ n >= 1
      BY <1>2, <1>3
    <3>2. ~(n < diff.first)
      <4>1. n \notin Skipped({last}, diff)
        OBVIOUS
      <4> QED BY <1>2, <2>2, <3>1, <4>1 DEF Skipped
    <3> QED BY <1>2, <1>3, <3>1, <3>2
  <2> QED BY <1>2, <1>3, <2>1, <2>2
<1>4. s.final <= diff.final
  BY <1>1, <1>2
<1> QED BY <1>1, <1>3, <1>4 DEF Rebuilt

(* The diffs retained in a replay that meets no gap leave no update out:   *)
(* the least of their ends at or after n is that of a diff that brings n.  *)
LEMMA ReplayIsWhole ==
    ASSUME TypeOK, NEW id \in Nat, Broken(id) = {}, NEW last \in Reached(id),
           NEW n \in id + 1 .. last
    PROVE  \E diff \in Retained(id) : diff.first <= n /\ n <= diff.final
<1>1. Retained(id) \subseteq book.buffer /\ book.buffer \subseteq Messages
  BY DEF Retained, TypeOK, Books
<1>2. \A d \in Retained(id) : d.first \in Nat /\ d.final \in Nat
  BY <1>1 DEF Messages
<1>3. last \in Nat /\ n \in Nat /\ n > id /\ n <= last
  BY <1>2 DEF Reached
<1> DEFINE later == {d.final : d \in {r \in Retained(id) : n <= r.final}}
<1>4. later \subseteq Nat /\ later # {}
  <2>1. PICK d \in Retained(id) : last = d.final
    BY <1>3 DEF Reached
  <2> QED BY <1>2, <1>3, <2>1
<1>5. PICK end \in later : \A e \in later : end <= e
  <2> HIDE DEF later
  <2> QED BY <1>4, LeastNumber
<1>6. PICK diff \in Retained(id) : n <= diff.final /\ end = diff.final
  OBVIOUS
<1>7. \A e \in Ends(id, diff) : e < n
  <2> SUFFICES ASSUME NEW e \in Ends(id, diff) PROVE e < n
    OBVIOUS
  <2>1. CASE e = id
    BY <1>3, <2>1
  <2>2. CASE \E r \in Retained(id) : r.final < diff.final /\ e = r.final
    <3>1. PICK r \in Retained(id) : r.final < diff.final /\ e = r.final
      BY <2>2
    <3>2. r.final \in Nat /\ diff.final \in Nat
      BY <1>2
    <3>3. ~(n <= r.final)
      BY <1>5, <1>6, <3>1, <3>2
    <3> QED BY <1>3, <3>1, <3>2, <3>3
  <2> QED BY <2>1, <2>2 DEF Ends
<1>8. Skipped(Ends(id, diff), diff) = {}
  BY DEF Broken, Continues
<1>9. ~(n < diff.first)
  <2>1. n \notin Skipped(Ends(id, diff), diff)
    BY <1>8
  <2>2. diff.first \in Nat /\ n >= 1
    BY <1>2, <1>3
  <2> QED BY <1>3, <1>7, <2>1, <2>2 DEF Skipped
<1> QED BY <1>2, <1>3, <1>6, <1>9

LEMMA UpdateKeeps ==
    ASSUME TypeOK, AInv, Complete, book.synced, NEW diff \in Messages
    PROVE  LET outcome == Update(diff) IN
           /\ outcome.book.synced => outcome.book.buffer = {}
           /\ outcome.book.buffer \subseteq Stored(outcome, diff)
           /\ outcome.book.synced /\ ~carried =>
                Rebuilt(Stored(outcome, diff), outcome.book.last)
<1>0. /\ book.missing = {} /\ book.last \in Nat /\ book.buffer = {}
      /\ diff.final \in Nat /\ archive \in SUBSET Messages /\ book \in Books
      /\ ~carried => Rebuilt(archive, book.last)
  BY DEF Complete, TypeOK, Books, AInv, NothingWaits, ArchiveRebuilds, Rebuilt, Messages
<1>1. CASE diff.final <= book.last
  <2>1. Update(diff) = [book |-> book, gap |-> FALSE]
    BY <1>1 DEF Update
  <2>2. Stored(Update(diff), diff) = {diff} \cup archive
    BY <2>1 DEF Stored
  <2>3. ~carried => Rebuilt({diff} \cup archive, book.last)
    <3> SUFFICES ASSUME ~carried PROVE Rebuilt({diff} \cup archive, book.last)
      OBVIOUS
    <3>1. archive \subseteq {diff} \cup archive /\ Rebuilt(archive, book.last)
      BY <1>0
    <3> QED BY <3>1 DEF Rebuilt
  <2>4. Update(diff).book = book
    BY <2>1
  <2> QED BY <1>0, <2>2, <2>3, <2>4
<1>2. CASE ~(diff.final <= book.last) /\ Continues({book.last}, diff)
  <2> DEFINE next == [book EXCEPT !.last = diff.final,
                                  !.missing = @ \cup Skipped({book.last}, diff)]
  <2>1. Update(diff) = [book |-> next, gap |-> FALSE]
    BY <1>2 DEF Update
  <2>2. Stored(Update(diff), diff) = {diff} \cup archive
    BY <2>1 DEF Stored
  <2>3. next.last = diff.final /\ next.buffer = {}
    BY <1>0 DEF Books
  <2> HIDE DEF next
  <2>4. ~carried => Rebuilt({diff} \cup archive, diff.final)
    <3> SUFFICES ASSUME ~carried PROVE Rebuilt({diff} \cup archive, diff.final)
      OBVIOUS
    <3> DEFINE last == book.last
    <3>1. Skipped({last}, diff) = {} /\ last < diff.final
      BY <1>0, <1>2 DEF Continues
    <3>2. last \in Nat /\ archive \in SUBSET Messages /\ Rebuilt(archive, last)
      BY <1>0
    <3> HIDE DEF last
    <3> QED BY <3>1, <3>2, RebuiltFurther
  <2>5. Update(diff).book.last = diff.final /\ Update(diff).book.buffer = {}
    BY <2>1, <2>3
  <2> QED BY <2>2, <2>4, <2>5
<1>3. CASE ~(diff.final <= book.last) /\ ~Continues({book.last}, diff) /\ feed = "okx"
  <2> DEFINE stale == [book EXCEPT !.synced = FALSE]
  <2>1. Update(diff) = [book |-> stale, gap |-> TRUE]
    BY <1>3 DEF Update
  <2>2. stale.buffer = {} /\ ~stale.synced
    BY <1>0 DEF Books
  <2> HIDE DEF stale
  <2> QED BY <2>1, <2>2
<1>4. CASE ~(diff.final <= book.last) /\ ~Continues({book.last}, diff) /\ feed # "okx"
  <2> DEFINE kept == [NoBook EXCEPT !.buffer = {diff}]
  <2>1. Update(diff) = [book |-> kept, gap |-> TRUE]
    BY <1>4 DEF Update
  <2>2. kept.buffer = {diff} /\ ~kept.synced
    BY NoBookType, WithBuffer
  <2> HIDE DEF kept
  <2> QED BY <2>1, <2>2 DEF Stored
<1> QED BY <1>1, <1>2, <1>3, <1>4

LEMMA ObserveKeeps ==
    ASSUME TypeOK, AInv, Complete, NEW diff \in Messages
    PROVE  LET outcome == ObserveDelta(diff) IN
           /\ outcome.book.synced => outcome.book.buffer = {}
           /\ ~carried \/ outcome.gap => outcome.book.buffer \subseteq Stored(outcome, diff)
           /\ outcome.book.synced /\ ~carried =>
                Rebuilt(Stored(outcome, diff), outcome.book.last)
<1>1. CASE book.synced
  BY <1>1, UpdateKeeps DEF ObserveDelta
<1>2. CASE ~book.synced /\ feed = "okx"
  BY <1>2 DEF ObserveDelta, AInv, Archived, Stored
<1>3. CASE ~book.synced /\ feed # "okx" /\ Cardinality(book.buffer) < MaxBuffered
  <2> DEFINE longer == [book EXCEPT !.buffer = @ \cup {diff}]
  <2>1. ObserveDelta(diff) = [book |-> longer, gap |-> FALSE]
    BY <1>3 DEF ObserveDelta, Buffered
  <2>2. longer.buffer = book.buffer \cup {diff} /\ ~longer.synced
    BY <1>3 DEF TypeOK, Books
  <2> HIDE DEF longer
  <2> QED BY <2>1, <2>2 DEF AInv, Archived, Stored
<1>4. CASE ~book.synced /\ feed # "okx" /\ ~(Cardinality(book.buffer) < MaxBuffered)
  <2> DEFINE empty == [book EXCEPT !.buffer = {}]
  <2>1. ObserveDelta(diff) = [book |-> empty, gap |-> TRUE]
    BY <1>4 DEF ObserveDelta, Buffered
  <2>2. empty.buffer = {} /\ ~empty.synced
    BY <1>4 DEF TypeOK, Books
  <2> HIDE DEF empty
  <2> QED BY <2>1, <2>2
<1> QED BY <1>1, <1>2, <1>3, <1>4

LEMMA SnapshotKeeps ==
    ASSUME TypeOK, AInv, NEW last \in Reached(fetch.id),
           \A n \in Reached(fetch.id) : n <= last
    PROVE  LET outcome == ApplySnapshot(fetch.id, last)
               message == [kind |-> "snapshot", first |-> 0, final |-> fetch.id] IN
           /\ outcome.book.synced => outcome.book.buffer = {}
           /\ ~carried /\ ~outcome.gap =>
                outcome.book.buffer \subseteq Stored(outcome, message)
           /\ outcome.book.synced /\ ~carried =>
                Rebuilt(Stored(outcome, message), outcome.book.last)
<1> DEFINE id == fetch.id
           message == [kind |-> "snapshot", first |-> 0, final |-> id]
<1>0. id \in Nat /\ book.buffer \subseteq Messages /\ Retained(id) \subseteq book.buffer
  BY DEF TypeOK, Books, Retained
<1>1. CASE TooOld(id)
  <2> DEFINE kept == [NoBook EXCEPT !.buffer = book.buffer]
  <2>1. ApplySnapshot(id, last) = [book |-> kept, gap |-> FALSE]
    BY <1>1 DEF ApplySnapshot
  <2>2. kept.buffer = book.buffer /\ ~kept.synced
    BY <1>0, NoBookType, WithBuffer
  <2> HIDE DEF kept
  <2> QED BY <2>1, <2>2 DEF AInv, Archived, Stored
<1>2. CASE ~TooOld(id) /\ Broken(id) # {}
  <2> DEFINE rest == {diff \in Retained(id) :
                        \E b \in Broken(id) : b.final <= diff.final}
             kept == [NoBook EXCEPT !.buffer = rest]
  <2>1. ApplySnapshot(id, last) = [book |-> kept, gap |-> TRUE]
    BY <1>2 DEF ApplySnapshot
  <2>2. rest \subseteq book.buffer
    BY <1>0
  <2> HIDE DEF rest
  <2>3. ~kept.synced
    BY <1>0, <2>2, NoBookType, WithBuffer
  <2> HIDE DEF kept
  <2> QED BY <2>1, <2>3
<1>3. CASE ~TooOld(id) /\ Broken(id) = {}
  <2> DEFINE gone == UNION {Skipped(Ends(id, diff), diff) : diff \in Retained(id)}
             store == {message} \cup archive
  <2>1. ApplySnapshot(id, last) =
            [book |-> [synced |-> TRUE, last |-> last, missing |-> gone, buffer |-> {}],
             gap |-> FALSE]
    BY <1>3 DEF ApplySnapshot
  <2> HIDE DEF gone
  <2>2. Stored(ApplySnapshot(id, last), message) = store
    BY <2>1 DEF Stored
  <2>3. ~carried => Rebuilt(store, last)
    <3> SUFFICES ASSUME ~carried PROVE Rebuilt(store, last)
      OBVIOUS
    <3>1. Retained(id) \subseteq archive
      BY <1>0 DEF AInv, Archived
    <3>2. \A n \in id + 1 .. last :
            \E diff \in store : diff.first <= n /\ n <= diff.final
      <4> HIDE DEF id
      <4> SUFFICES ASSUME NEW n \in id + 1 .. last
                   PROVE  \E diff \in store : diff.first <= n /\ n <= diff.final
        OBVIOUS
      <4>1. \E diff \in Retained(id) : diff.first <= n /\ n <= diff.final
        <5>1. last \in Reached(id)
          BY DEF id
        <5> QED BY <1>0, <1>3, <5>1, ReplayIsWhole
      <4> QED BY <3>1, <4>1
    <3>3. message \in store /\ message.kind = "snapshot" /\ message.final = id
      OBVIOUS
    <3>4. id <= last
      BY DEF Reached
    <3> HIDE DEF store, message
    <3>5. /\ message.kind = "snapshot" /\ message.final <= last
          /\ \A n \in message.final + 1 .. last :
                \E diff \in store : diff.first <= n /\ n <= diff.final
      BY <3>2, <3>3, <3>4
    <3> QED BY <3>3, <3>5 DEF Rebuilt
  <2>4. /\ ApplySnapshot(id, last).book.last = last
        /\ ApplySnapshot(id, last).book.buffer = {}
    BY <2>1
  <2> QED BY <2>2, <2>3, <2>4
<1> QED BY <1>1, <1>2, <1>3

(* Handle drops the book, or keeps it with what is stored.                 *)
LEMMA HandleStores ==
    ASSUME NEW outcome, NEW message, NEW lead, Handle(outcome, message, lead)
    PROVE  \/ OutOfOrder(outcome, lead) /\ book' = NoBook /\ archive' = {}
           \/ /\ ~OutOfOrder(outcome, lead)
              /\ book' = outcome.book /\ archive' = Stored(outcome, message)
BY DEF Handle, MarkGap, Stored

LEMMA EmptyBook == book' = NoBook => AInv'
BY NoBookType DEF AInv, NothingWaits, Archived, ArchiveRebuilds

(* The three parts of AInv after a step that keeps the book.               *)
LEMMA KeptBook ==
    ASSUME NEW outcome, NEW store, book' = outcome.book, archive' = store,
           outcome.book.synced => outcome.book.buffer = {},
           ~carried' => outcome.book.buffer \subseteq store,
           outcome.book.synced /\ ~carried' => Rebuilt(store, outcome.book.last)
    PROVE  AInv'
<1>1. NothingWaits' /\ Archived'
  BY DEF NothingWaits, Archived
<1>2. ArchiveRebuilds'
  BY DEF ArchiveRebuilds, Rebuilt
<1> QED BY <1>1, <1>2 DEF AInv

LEMMA BinanceDiffStores ==
    ASSUME IInv, AInv, NEW diff \in Messages, BinanceDiff(diff)
    PROVE  AInv'
<1> DEFINE outcome == ObserveDelta(diff)
<1>1. PICK lead \in Leads :
        /\ Handle(outcome, diff, lead)
        /\ carried' = (carried /\ ~outcome.gap /\ ~OutOfOrder(outcome, lead))
  BY DEF BinanceDiff
<1>2. /\ outcome.book.synced => outcome.book.buffer = {}
      /\ ~carried \/ outcome.gap => outcome.book.buffer \subseteq Stored(outcome, diff)
      /\ outcome.book.synced /\ ~carried => Rebuilt(Stored(outcome, diff), outcome.book.last)
  BY ObserveKeeps DEF IInv
<1>3. outcome.gap => ~outcome.book.synced
  <2>1. CASE ~outcome.gap
    BY <2>1
  <2>2. CASE outcome.gap
    BY <2>2, NoBookType, WithBuffer
    DEF ObserveDelta, Update, Buffered, IInv, TypeOK, Books
  <2> QED BY <2>1, <2>2
<1> HIDE DEF outcome
<1>4. CASE book' = NoBook
  BY <1>4, EmptyBook
<1>5. CASE /\ ~OutOfOrder(outcome, lead)
           /\ book' = outcome.book /\ archive' = Stored(outcome, diff)
  <2>1. ~carried' => ~carried \/ outcome.gap
    BY <1>1, <1>5
  <2> QED BY <1>2, <1>3, <1>5, <2>1, KeptBook
<1> QED BY <1>1, <1>4, <1>5, HandleStores

LEMMA OkxBooksStores ==
    ASSUME IInv, AInv, NEW message \in Messages, OkxBooks(message)
    PROVE  AInv'
<1> DEFINE fresh == [NoBook EXCEPT !.synced = TRUE, !.last = message.final]
           outcome == IF message.kind = "snapshot"
                      THEN [book |-> fresh, gap |-> FALSE] ELSE ObserveDelta(message)
<1>1. carried' = carried /\ (\E lead \in Leads : Handle(outcome, message, lead))
  BY DEF OkxBooks
<1>2. PICK lead \in Leads : Handle(outcome, message, lead)
  BY <1>1
<1>3. /\ outcome.book.synced => outcome.book.buffer = {}
      /\ ~carried => outcome.book.buffer \subseteq Stored(outcome, message)
      /\ outcome.book.synced /\ ~carried =>
            Rebuilt(Stored(outcome, message), outcome.book.last)
  <2>1. CASE message.kind = "snapshot"
    <3>1. fresh.buffer = {} /\ fresh.last = message.final /\ message.final \in Nat
      BY DEF NoBook, Messages
    <3>2. outcome = [book |-> fresh, gap |-> FALSE]
      BY <2>1
    <3> HIDE DEF fresh, outcome
    <3>3. message \in Stored(outcome, message)
      BY DEF Stored
    <3>4. Rebuilt(Stored(outcome, message), message.final)
      BY <2>1, <3>1, <3>3 DEF Rebuilt
    <3> QED BY <3>1, <3>2, <3>4
  <2>2. CASE message.kind # "snapshot"
    <3>1. outcome = ObserveDelta(message)
      BY <2>2
    <3> HIDE DEF outcome
    <3> QED BY <3>1, ObserveKeeps DEF IInv
  <2> QED BY <2>1, <2>2
<1> HIDE DEF outcome
<1>4. CASE book' = NoBook
  BY <1>4, EmptyBook
<1>5. CASE book' = outcome.book /\ archive' = Stored(outcome, message)
  BY <1>1, <1>3, <1>5, KeptBook
<1> QED BY <1>2, <1>4, <1>5, HandleStores

LEMMA SnapshotStores ==
    ASSUME IInv, AInv, SnapshotArrives
    PROVE  AInv'
<1> DEFINE message == [kind |-> "snapshot", first |-> 0, final |-> fetch.id]
<1>1. PICK last \in Reached(fetch.id) :
        LET outcome == ApplySnapshot(fetch.id, last) IN
        /\ \A n \in Reached(fetch.id) : n <= last
        /\ Handle(outcome, message, 0)
        /\ carried' = IF OutOfOrder(outcome, 0) THEN FALSE ELSE carried \/ outcome.gap
  BY DEF SnapshotArrives
<1> DEFINE outcome == ApplySnapshot(fetch.id, last)
<1>2. /\ outcome.book.synced => outcome.book.buffer = {}
      /\ ~carried /\ ~outcome.gap => outcome.book.buffer \subseteq Stored(outcome, message)
      /\ outcome.book.synced /\ ~carried =>
            Rebuilt(Stored(outcome, message), outcome.book.last)
  BY <1>1, SnapshotKeeps DEF IInv
<1>3. /\ Handle(outcome, message, 0)
      /\ ~OutOfOrder(outcome, 0) => (carried' = (carried \/ outcome.gap))
  BY <1>1
<1> HIDE DEF outcome, message
<1>4. CASE book' = NoBook
  BY <1>4, EmptyBook
<1>5. CASE /\ ~OutOfOrder(outcome, 0)
           /\ book' = outcome.book /\ archive' = Stored(outcome, message)
  <2>1. ~carried' => ~carried /\ ~outcome.gap
    BY <1>3, <1>5
  <2> QED BY <1>2, <1>5, <2>1, KeptBook
<1> QED BY <1>3, <1>4, <1>5, HandleStores

LEMMA NextStores == IInv /\ AInv /\ [Next]_vars => AInv'
<1> SUFFICES ASSUME IInv, AInv, [Next]_vars PROVE AInv'
  OBVIOUS
<1>1. CASE Receive
  <2>1. Head(wire) \in Messages
    BY <1>1, TakenOff DEF Receive, IInv
  <2> QED BY <1>1, <2>1, BinanceDiffStores, OkxBooksStores DEF Receive
<1>2. CASE SnapshotArrives
  BY <1>2, SnapshotStores
<1>3. CASE FetchFails \/ SocketFails
  BY <1>3, EmptyBook DEF FetchFails, SocketFails, DropBook
<1>4. CASE \/ Connect \/ VenueUpdates \/ DiffLost \/ Answer \/ Tick \/ UNCHANGED vars
  <2>1. UNCHANGED <<book, archive, carried>>
    BY <1>4 DEF Connect, VenueUpdates, DiffLost, Answer, Tick, SameCollector, vars
  <2> QED BY <2>1 DEF AInv, NothingWaits, Archived, ArchiveRebuilds
<1> QED BY <1>1, <1>2, <1>3, <1>4 DEF Next
-----------------------------------------------------------------------------
(* The state of a synchroniser, its refresh and its archive keep their     *)
(* types under every interleaving.                                         *)
THEOREM DepthTypes == Spec => []TypeOK
<1>1. IInv => TypeOK
  BY DEF IInv
<1> QED BY InitIInv, NextStep, <1>1, PTL DEF Spec

(* apply_snapshot never meets a book that is in step: one task per book,   *)
(* started only while it is out of step, and nothing else brings it there. *)
THEOREM RefreshNeverSetsBack == Spec => []NoRefreshInStep
<1>1. IInv => NoRefreshInStep
  BY DEF IInv
<1> QED BY InitIInv, NextStep, <1>1, PTL DEF Spec

(* A book in step that met no gap in the replay of its buffer can be       *)
(* rebuilt from the archive of its epoch alone: a snapshot is in it, and   *)
(* a diff for every update since.                                          *)
THEOREM ArchiveIsEnough == Spec => []ArchiveRebuilds
<1>1. Init => AInv
  BY NoBookType DEF Init, AInv, NothingWaits, Archived, ArchiveRebuilds
<1>2. AInv => ArchiveRebuilds
  BY DEF AInv
<1> QED BY InitIInv, NextStep, <1>1, NextStores, <1>2, PTL DEF Spec

(* The synchronisers implement BookMirror: a book in step is the venue's   *)
(* book as of its last update and only moves forward.                      *)
THEOREM BookIsVenues == Spec => MirrorsVenue
<1> DEFINE mirror == IF ~book.synced THEN -1
                     ELSE IF book.missing = {} THEN book.last ELSE -2
<1>1. Init => Mirror!Init
  BY DEF Init, NoBook, Mirror!Init, Mirror!Absent
<1>2. IInv /\ IInv' /\ BookStep => [Mirror!Next]_<<venue, mirror>>
  <2> SUFFICES ASSUME IInv, IInv', BookStep
               PROVE  Mirror!Next \/ UNCHANGED <<venue, mirror>>
    OBVIOUS
  <2>1. /\ venue \in Nat /\ venue' \in Nat
        /\ book.last \in Nat /\ book'.last \in Nat
        /\ mirror = IF book.synced THEN book.last ELSE -1
        /\ mirror' = IF book'.synced THEN book'.last ELSE -1
        /\ book'.synced => book'.last <= venue'
    BY DEF IInv, TypeOK, Books, Complete
  <2>2. CASE venue' > venue /\ book' = book
    BY <2>1, <2>2 DEF Mirror!Next, Mirror!Grow
  <2>3. CASE /\ venue' = venue
             /\ book.synced /\ book'.synced => book.last <= book'.last
    <3>1. CASE ~book'.synced
      BY <2>1, <2>3, <3>1 DEF Mirror!Next, Mirror!Vanish, Mirror!Absent
    <3>2. CASE book'.synced /\ ~book.synced
      BY <2>1, <2>3, <3>2 DEF Mirror!Next, Mirror!Appear, Mirror!Absent
    <3>3. CASE book'.synced /\ book.synced
      BY <2>1, <2>3, <3>3 DEF Mirror!Next, Mirror!Follow, Mirror!Absent
    <3> QED BY <3>1, <3>2, <3>3
  <2> QED BY <2>2, <2>3 DEF BookStep
<1>3. IInv /\ [Next]_vars => [Mirror!Next]_<<venue, mirror>>
  BY NextStep, <1>2
<1> QED BY InitIInv, NextStep, <1>1, <1>3, PTL DEF Spec, MirrorsVenue, Mirror!Spec
=============================================================================
