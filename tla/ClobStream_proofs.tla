------------------------- MODULE ClobStream_proofs -------------------------
(***************************************************************************)
(* What is stored of a token is in order, can be rebuilt and has no hole   *)
(* within an epoch, for any clock leads, tolerance, delays, window and     *)
(* bounds under the conditions the theorems name.                          *)
(*                                                                         *)
(* The normalizer forgets its book, and the validator its identifiers and  *)
(* its last time, at different places.  SnapshotFits ties both to a book   *)
(* that is stored in the current epoch; LastFits ties the last times to    *)
(* each other; EpochFits orders the epochs of reconnections and of         *)
(* collectors, and OlderAreBefore their times.                             *)
(***************************************************************************)
EXTENDS ClobStream, TLAPS

(* The epochs a window has for itself: a collector declares fewer gaps     *)
(* than its window has seconds.                                            *)
EpochsSuffice == MaxEpoch < EpochStride

(* The venue's clock is ahead of ours by no more than a reconnection or a  *)
(* new collector takes.                                                    *)
LeadsAreShort == \A lead \in Leads : lead <= ReconnectDelay /\ lead <= DiscoveryDelay

Running == collector # Never

(* The reader finds a book in the current epoch.                           *)
BookStored ==
    \E a \in Stored : a.kind = "book" /\ a.epoch = EpochId /\ a.available <= lastAccepted

SnapshotFits ==
    Running /\ (hasSnapshot \/ \E id \in ToSet(seen) : id[1] = "book") => BookStored

RebuildInv == "unreadable" \notin faults => SnapshotFits /\ ReaderCanRebuild

(* Without a regression nothing is accepted that is later than what the    *)
(* normalizer has announced.                                               *)
LastFits == "regressed" \notin faults => lastAccepted <= lastAvailable

(* A window's collector continues the epochs of the ones before it.        *)
EpochFits ==
    /\ epoch <= MaxEpoch
    /\ "restarted" \notin faults =>
        \A e \in Stored :
            IF Running THEN e.epoch <= EpochId
            ELSE e.epoch < (clock \div Window) * EpochStride

(* No book of the current epoch is from before a loss, nor stored while    *)
(* the normalizer waits for one.                                           *)
UnbrokenInv ==
    /\ EpochIsUnbroken
    /\ faults \subseteq {"regressed"} /\ Running =>
        \A i \in DOMAIN stored :
            stored[i].kind = "book" /\ (i <= missedAfter \/ ~hasSnapshot)
                => stored[i].epoch < EpochId

(* How far an event is ahead of our clock.                                 *)
Ahead == IF ReconnectDelay <= DiscoveryDelay THEN ReconnectDelay ELSE DiscoveryDelay

(* What an older epoch holds is available before the next one connects.    *)
OlderAreBefore ==
    /\ lastAvailable <= clock + Ahead
    /\ \A e \in Stored : e.available <= clock + Ahead
    /\ socket = "connected" => clock >= retryAt
    /\ \A e \in Stored : ~Running \/ e.epoch < EpochId => e.available <= retryAt

OrderInv == faults \subseteq {"crossed", "unreadable"} => OlderAreBefore /\ RowsInEpochOrder

ConnectedRuns == socket # "off" <=> Running
-----------------------------------------------------------------------------
(* Numbers and sequences *)

LEMMA Products ==
    ASSUME NEW a \in Nat, NEW b \in Nat, NEW k \in Nat, a < b
    PROVE  a * k + k <= b * k
  OBVIOUS

LEMMA Quotients ==
    ASSUME NEW t \in Nat, NEW w \in Nat \ {0}
    PROVE  /\ t \div w \in Nat /\ t \div w <= (t + 1) \div w
           /\ \A k \in Nat : t >= k * w => t \div w >= k
  OBVIOUS

LEMMA Appended ==
    ASSUME NEW S, NEW s \in Seq(S), NEW x \in S
    PROVE  /\ Append(s, x) \in Seq(S) /\ Len(Append(s, x)) = Len(s) + 1
           /\ DOMAIN Append(s, x) = 1 .. Len(s) + 1
           /\ \A i \in DOMAIN s : i \in 1 .. Len(s) /\ Append(s, x)[i] = s[i]
           /\ Append(s, x)[Len(s) + 1] = x
           /\ ToSet(Append(s, x)) = ToSet(s) \cup {x}
<1>1. /\ Append(s, x) \in Seq(S) /\ Len(Append(s, x)) = Len(s) + 1
      /\ DOMAIN Append(s, x) = 1 .. Len(s) + 1 /\ DOMAIN s = 1 .. Len(s) /\ Len(s) \in Nat
      /\ \A i \in 1 .. Len(s) : Append(s, x)[i] = s[i]
      /\ Append(s, x)[Len(s) + 1] = x
  OBVIOUS
<1>2. ToSet(Append(s, x)) \subseteq ToSet(s) \cup {x}
  BY <1>1 DEF ToSet
<1>3. ToSet(s) \cup {x} \subseteq ToSet(Append(s, x))
  BY <1>1 DEF ToSet
<1> QED  BY <1>1, <1>2, <1>3

LEMMA TailElements ==
    ASSUME NEW S, NEW s \in Seq(S), s # <<>>
    PROVE  Tail(s) \in Seq(S) /\ Len(Tail(s)) = Len(s) - 1 /\ ToSet(Tail(s)) \subseteq ToSet(s)
<1>1. /\ Tail(s) \in Seq(S) /\ Len(Tail(s)) = Len(s) - 1 /\ Len(s) \in Nat \ {0}
      /\ \A i \in 1 .. Len(s) - 1 : Tail(s)[i] = s[i + 1]
      /\ DOMAIN Tail(s) = 1 .. Len(s) - 1 /\ DOMAIN s = 1 .. Len(s)
  OBVIOUS
<1>2. \A i \in 1 .. Len(s) - 1 : i + 1 \in 1 .. Len(s)
  BY <1>1
<1> QED  BY <1>1, <1>2 DEF ToSet
-----------------------------------------------------------------------------
(* The steps *)

LEMMA AvailableFacts ==
    ASSUME TypeOK, NEW source \in Nat
    PROVE  /\ Available(source) \in Nat /\ Available(source) >= clock
           /\ Available(source) \in {source, clock, lastAvailable}
           /\ ~Regresses(source) => Available(source) >= lastAvailable
<1>1. clock \in Nat /\ lastAvailable \in Int /\ source \in Int
  BY DEF TypeOK, Times, Never
<1> DEFINE two == Max({source, clock})
           three == Max({source, clock, lastAvailable})
<1>2. two \in {source, clock} /\ two >= clock
  <2>1. \E m \in {source, clock} : \A y \in {source, clock} : m >= y
    BY <1>1
  <2> QED  BY <2>1 DEF Max
<1>3. three \in {source, clock, lastAvailable} /\ three >= clock /\ three >= lastAvailable
  <2>1. \E m \in {source, clock, lastAvailable} :
            \A y \in {source, clock, lastAvailable} : m >= y
    BY <1>1
  <2> QED  BY <2>1 DEF Max
<1> HIDE DEF two, three
<1>4. CASE Regresses(source)
  <2>1. Available(source) = two
    BY <1>4 DEF Available, two
  <2> QED  BY <1>1, <1>2, <1>4, <2>1
<1>5. CASE ~Regresses(source)
  <2>1. Available(source) = three
    BY <1>5 DEF Available, three
  <2> QED  BY <1>1, <1>3, <1>5, <2>1
<1> QED  BY <1>4, <1>5

(* A message's source time.                                                *)
LEMMA SourceType ==
    ASSUME TypeOK, NEW lead \in Leads
    PROVE  clock + lead \in Nat /\ lead \in Nat
  BY StreamAssumption DEF TypeOK

LEMMA AcceptsEffect ==
    ASSUME TypeOK, ConnectedRuns, NEW kind \in Kinds, NEW source \in Nat,
           Accepts(kind, source)
    PROVE  LET new == [kind |-> kind, source |-> source, receive |-> clock,
                       available |-> Available(source), epoch |-> EpochId, run |-> run]
           IN
           /\ new \in RawEvents /\ stored' = Append(stored, new)
           /\ Stored' = Stored \cup {new}
           /\ \A e \in Stored : e.receive < clock
           /\ Available(source) >= lastAccepted
           /\ lastAccepted' = Available(source) /\ lastAvailable' = Available(source)
           /\ hasSnapshot' = (hasSnapshot \/ kind = "book")
           /\ kind = "price_change" => hasSnapshot
           /\ socket = "connected" /\ Running /\ EpochId' = EpochId
           /\ faults \subseteq faults' /\ (Regresses(source) => "regressed" \in faults')
           /\ UNCHANGED <<clock, collector, socket, retryAt, epoch, missedAfter>>
<1> DEFINE new == [kind |-> kind, source |-> source, receive |-> clock,
                   available |-> Available(source), epoch |-> EpochId, run |-> run]
<1>1. socket = "connected" /\ Running /\ collector \in Nat
  BY DEF Accepts, Applied, ConnectedRuns, Running, TypeOK, Times
<1>2. EpochId \in Nat /\ Available(source) \in Nat
  <2>1. epoch \in Nat /\ EpochStride \in Nat
    BY StreamAssumption DEF TypeOK
  <2>2. EpochId \in Nat
    BY <1>1, <2>1 DEF EpochId
  <2> QED  BY <2>2, AvailableFacts
<1>3. new \in RawEvents
  BY <1>2 DEF RawEvents, TypeOK
<1>4. stored' = Append(stored, new)
  BY DEF Accepts
<1>5. Stored' = Stored \cup {new}
  BY <1>3, <1>4, Appended DEF Stored, TypeOK
<1>6. /\ lastAccepted' = Available(source) /\ lastAvailable' = Available(source)
      /\ hasSnapshot' = (hasSnapshot \/ kind = "book")
      /\ kind = "price_change" => hasSnapshot
      /\ UNCHANGED <<clock, collector, socket, retryAt, epoch, missedAfter>>
      /\ \A e \in Stored : e.receive < clock
  BY DEF Accepts, Normalizes, Applied, Applies, Same, TakenUpLater, Stored
<1>7. Available(source) >= lastAccepted
  BY <1>2 DEF Accepts, OutOfOrder, TypeOK, Times, Never
<1>8. EpochId' = EpochId
  BY <1>6 DEF EpochId
<1>9. faults \subseteq faults' /\ (Regresses(source) => "regressed" \in faults')
  BY DEF Accepts, Applied, Suffers
<1> QED  BY <1>1, <1>3, <1>4, <1>5, <1>6, <1>7, <1>8, <1>9

LEMMA RememberedIs ==
    ASSUME seen \in Seq(Kinds \X Nat), NEW kind \in Kinds, NEW source \in Nat,
           Remember(<<kind, source>>)
    PROVE  \A id \in ToSet(seen') : id \in ToSet(seen) \/ id[1] = kind
<1> DEFINE new == <<kind, source>>
<1>1. new \in Kinds \X Nat /\ new[1] = kind
  OBVIOUS
<1>2. seen' = IF Len(seen) < MaxSeen THEN Append(seen, new) ELSE Append(Tail(seen), new)
  BY DEF Remember
<1> HIDE DEF new
<1>3. CASE Len(seen) < MaxSeen
  BY <1>1, <1>2, <1>3, Appended
<1>4. CASE ~(Len(seen) < MaxSeen)
  <2>1. seen # <<>>
    BY <1>4, StreamAssumption
  <2>2. Tail(seen) \in Seq(Kinds \X Nat) /\ ToSet(Tail(seen)) \subseteq ToSet(seen)
    BY <2>1, TailElements
  <2>3. ToSet(seen') = ToSet(Tail(seen)) \cup {new}
    <3> DEFINE rest == Tail(seen)
    <3>1. seen' = Append(rest, new) /\ rest \in Seq(Kinds \X Nat)
      BY <1>2, <1>4, <2>2
    <3> HIDE DEF rest
    <3>2. ToSet(seen') = ToSet(rest) \cup {new}
      BY <1>1, <3>1, Appended
    <3> QED  BY <3>2 DEF rest
  <2> QED  BY <1>1, <2>2, <2>3
<1> QED  BY <1>3, <1>4

LEMMA EmptySeen == <<>> \in Seq(Kinds \X Nat) /\ Len(<<>>) <= MaxSeen
  BY StreamAssumption

(* Where the last epoch ends.                                              *)
LEMMA GapEffect ==
    ASSUME TypeOK, ConnectedRuns,
           \/ Disconnect \/ ConnectFails
           \/ \E kind \in Kinds, source \in Nat : RejectsOutOfOrder(kind, source)
    PROVE  /\ Running /\ Running' /\ collector \in Nat
           /\ epoch' = epoch + 1 /\ epoch' <= MaxEpoch
           /\ EpochId' = EpochId + 1 /\ EpochId \in Nat
           /\ seen' = <<>> /\ lastAccepted' = Never
           /\ hasSnapshot' = FALSE /\ lastAvailable' = Never /\ lastSource' = Never
           /\ missedAfter' = Len(stored)
           /\ faults \subseteq faults' /\ faults' \subseteq faults \cup {"regressed"}
           /\ UNCHANGED <<stored, collector, clock, run>>
<1>1. Running /\ collector \in Nat /\ epoch \in Nat
  BY DEF Disconnect, ConnectFails, RejectsOutOfOrder, Applied, ConnectedRuns, Running,
         TypeOK, Times
<1>2. MarkGap /\ ResetNormalizer /\ Missed /\ UNCHANGED <<stored, collector, clock, run>>
  BY DEF Disconnect, ConnectFails, RejectsOutOfOrder, SocketError, Applied, Same
<1>3. faults \subseteq faults' /\ faults' \subseteq faults \cup {"regressed"}
  BY DEF Disconnect, ConnectFails, RejectsOutOfOrder, SocketError, Applied, Suffers
<1>4. epoch' = epoch + 1 /\ epoch' <= MaxEpoch
  BY <1>1, <1>2, StreamAssumption DEF MarkGap
<1>5. EpochId' = EpochId + 1 /\ EpochId \in Nat
  BY <1>1, <1>2, <1>4, StreamAssumption DEF EpochId
<1> QED  BY <1>1, <1>2, <1>3, <1>4, <1>5 DEF MarkGap, ResetNormalizer, Missed, Running

LEMMA StepType ==
    ASSUME TypeOK, ConnectedRuns, [Next]_vars
    PROVE  TypeOK' /\ ConnectedRuns'
<1>1. ASSUME NEW kind \in Kinds, AwaitsSnapshot(kind) \/ Crosses(kind) \/ Unreadable(kind)
      PROVE  TypeOK' /\ ConnectedRuns'
  <2>1. /\ UNCHANGED <<clock, collector, socket, retryAt, run, lastAvailable, lastSource,
                       validator, stored>>
        /\ hasSnapshot' \in BOOLEAN /\ missedAfter' = Len(stored)
        /\ faults' \subseteq Faults
    BY <1>1 DEF AwaitsSnapshot, Crosses, Unreadable, Missed, Same, Suffers, normalizer, TypeOK, Faults
  <2>2. Len(stored) \in 0 .. Len(stored)
    BY DEF TypeOK
  <2> QED  BY <2>1, <2>2 DEF TypeOK, validator, ConnectedRuns, Running
<1>2. ASSUME NEW kind \in Kinds, NEW lead \in Leads, RejectsDuplicate(kind, clock + lead)
      PROVE  TypeOK' /\ ConnectedRuns'
  <2>1. clock + lead \in Nat /\ Available(clock + lead) \in Nat
    BY SourceType, AvailableFacts
  <2>2. /\ UNCHANGED <<clock, collector, socket, retryAt, run, validator, stored, missedAfter>>
        /\ hasSnapshot' \in BOOLEAN /\ faults' \subseteq Faults
        /\ lastAvailable' = Available(clock + lead) /\ lastSource' = clock + lead
    BY <1>2 DEF RejectsDuplicate, Applied, Normalizes, Same, Suffers, TypeOK, Faults
  <2> QED  BY <2>1, <2>2 DEF TypeOK, Times, validator, ConnectedRuns, Running
<1>3. ASSUME \/ Disconnect \/ ConnectFails
             \/ \E kind \in Kinds, source \in Nat : RejectsOutOfOrder(kind, source)
      PROVE  TypeOK' /\ ConnectedRuns'
  <2>1. /\ Running /\ Running' /\ epoch' = epoch + 1
        /\ seen' = <<>> /\ lastAccepted' = Never
        /\ hasSnapshot' = FALSE /\ lastAvailable' = Never /\ lastSource' = Never
        /\ missedAfter' = Len(stored)
        /\ faults' \subseteq faults \cup {"regressed"}
        /\ UNCHANGED <<stored, collector, clock, run>>
    BY <1>3, GapEffect
  <2>2. socket' \in {"waiting", "connected"} /\ retryAt' \in Nat
    <3>1. CASE Disconnect \/ ConnectFails
      <4>1. clock + ReconnectDelay \in Nat
        BY StreamAssumption DEF TypeOK
      <4> QED  BY <3>1, <4>1 DEF Disconnect, ConnectFails, SocketError
    <3>2. ASSUME NEW kind \in Kinds, NEW source \in Nat, RejectsOutOfOrder(kind, source)
          PROVE  socket' = "connected" /\ retryAt' = retryAt
      BY <3>2 DEF RejectsOutOfOrder, Applied, Same
    <3> QED  BY <1>3, <3>1, <3>2 DEF TypeOK
  <2>3. TypeOK'
    <3>1. missedAfter' \in 0 .. Len(stored')
      BY <2>1 DEF TypeOK
    <3>2. epoch' \in Nat /\ faults' \subseteq Faults
      BY <2>1 DEF TypeOK, Faults
    <3> QED  BY <2>1, <2>2, <3>1, <3>2, EmptySeen DEF TypeOK, Times
  <2> QED  BY <2>1, <2>2, <2>3 DEF ConnectedRuns
<1>4. ASSUME NEW kind \in Kinds, NEW lead \in Leads, Accepts(kind, clock + lead)
      PROVE  TypeOK' /\ ConnectedRuns'
  <2> DEFINE id == <<kind, clock + lead>>
  <2>1. clock + lead \in Nat /\ Available(clock + lead) \in Nat
    BY SourceType, AvailableFacts
  <2>2. /\ \E new \in RawEvents : stored' = Append(stored, new)
        /\ lastAccepted' = Available(clock + lead) /\ lastAvailable' = Available(clock + lead)
        /\ UNCHANGED <<clock, collector, socket, retryAt, epoch, missedAfter>>
    BY <1>4, <2>1, AcceptsEffect
  <2>3. stored' \in Seq(RawEvents) /\ Len(stored') = Len(stored) + 1
    BY <2>2, Appended DEF TypeOK
  <2>4. /\ hasSnapshot' \in BOOLEAN /\ lastSource' = clock + lead /\ run' = run
        /\ faults' \subseteq Faults
    BY <1>4 DEF Accepts, Applied, Normalizes, Same, Suffers, TypeOK, Faults
  <2>5. seen' \in Seq(Kinds \X Nat) /\ Len(seen') <= MaxSeen
    <3>1. id \in Kinds \X Nat /\ seen \in Seq(Kinds \X Nat) /\ Len(seen) <= MaxSeen
          /\ MaxSeen \in Nat \ {0} /\ Len(seen) \in Nat
      BY <2>1, StreamAssumption DEF TypeOK
    <3>2. seen' = IF Len(seen) < MaxSeen THEN Append(seen, id) ELSE Append(Tail(seen), id)
      BY <1>4 DEF Accepts, Remember
    <3> HIDE DEF id
    <3>3. CASE Len(seen) < MaxSeen
      BY <3>1, <3>2, <3>3, Appended
    <3>4. CASE Len(seen) >= MaxSeen
      <4>1. seen # <<>>
        BY <3>1, <3>4
      <4>2. Tail(seen) \in Seq(Kinds \X Nat) /\ Len(Tail(seen)) = Len(seen) - 1
        BY <3>1, <4>1, TailElements
      <4> QED  BY <3>1, <3>2, <3>4, <4>2, Appended
    <3> QED  BY <3>1, <3>3, <3>4
  <2>6. missedAfter \in 0 .. Len(stored')
    BY <2>3 DEF TypeOK
  <2> QED  BY <2>1, <2>2, <2>3, <2>4, <2>5, <2>6 DEF TypeOK, Times, ConnectedRuns, Running
<1>5. CASE Connect \/ Tick \/ UNCHANGED vars
  <2>1. /\ UNCHANGED <<collector, retryAt, normalizer, validator, stored, run, missedAfter, faults>>
    BY <1>5 DEF Connect, Tick, vars, normalizer, validator
  <2>2. clock' \in Nat
    BY <1>5 DEF Connect, Tick, vars, TypeOK
  <2>3. socket' = socket \/ (socket = "waiting" /\ socket' = "connected")
    BY <1>5 DEF Connect, Tick, vars
  <2> QED  BY <2>1, <2>2, <2>3 DEF TypeOK, normalizer, validator, ConnectedRuns, Running
<1>6. CASE Start
  <2>1. clock \in Nat /\ clock \div Window \in Nat
    BY Quotients, StreamAssumption DEF TypeOK
  <2>2. /\ collector' = clock \div Window /\ run' = run + 1
        /\ hasSnapshot' = FALSE /\ lastAvailable' = Never /\ lastSource' = Never
        /\ epoch' = 0 /\ lastAccepted' = Never /\ seen' = <<>>
        /\ socket' = "waiting" /\ retryAt' = clock
        /\ UNCHANGED <<clock, stored, missedAfter, faults>>
    BY <1>6 DEF Start, ResetNormalizer
  <2>3. missedAfter' \in 0 .. Len(stored') /\ run' \in Nat /\ collector' \in Times
    BY <2>1, <2>2 DEF TypeOK, Times
  <2>4. TypeOK'
    BY <2>1, <2>2, <2>3, EmptySeen DEF TypeOK, Times
  <2> QED  BY <2>1, <2>2, <2>4 DEF ConnectedRuns, Running, Never
<1>7. CASE Rotate \/ Restart
  <2>1. /\ collector' = Never /\ socket' = "off" /\ retryAt' = clock + DiscoveryDelay
        /\ missedAfter' = Len(stored) /\ faults' \subseteq Faults
        /\ UNCHANGED <<clock, normalizer, validator, stored, run>>
    BY <1>7 DEF Rotate, Restart, Leaves, Missed, Suffers, TypeOK, Faults
  <2>2. clock + DiscoveryDelay \in Nat /\ Len(stored) \in 0 .. Len(stored)
    BY StreamAssumption DEF TypeOK
  <2>3. TypeOK'
    BY <2>1, <2>2 DEF TypeOK, Times, normalizer, validator
  <2> QED  BY <2>1, <2>3 DEF ConnectedRuns, Running
<1> QED
  BY <1>1, <1>2, <1>3, <1>4, <1>5, <1>6, <1>7, SourceType DEF Next, Message
-----------------------------------------------------------------------------
(* The invariants *)

(* What changes neither the archive, nor the epoch, nor what it remembers. *)
Passes ==
    UNCHANGED <<collector, epoch, lastAccepted, seen, stored>>

LEMMA StepCases ==
    ASSUME TypeOK, [Next]_vars
    PROVE  \/ \E kind \in Kinds : AwaitsSnapshot(kind) \/ Crosses(kind) \/ Unreadable(kind)
           \/ \E kind \in Kinds, source \in Nat : RejectsDuplicate(kind, source)
           \/ \E kind \in Kinds, source \in Nat : Accepts(kind, source)
           \/ Disconnect \/ ConnectFails
              \/ \E kind \in Kinds, source \in Nat : RejectsOutOfOrder(kind, source)
           \/ Connect \/ Tick \/ UNCHANGED vars
           \/ Start \/ Rotate \/ Restart
  BY SourceType DEF Next, Message

LEMMA StoredType == TypeOK => \A e \in Stored : e \in RawEvents
  BY DEF TypeOK, Stored, ToSet

(* A new epoch or collector has no book, and nothing to remember.          *)
LEMMA StepRebuild ==
    ASSUME TypeOK, ConnectedRuns, RebuildInv, [Next]_vars
    PROVE  RebuildInv'
<1> SUFFICES ASSUME "unreadable" \notin faults'
             PROVE  RebuildInv'
  BY DEF RebuildInv
<1>10. faults \subseteq faults'
  BY StepCases, GapEffect, AcceptsEffect
     DEF AwaitsSnapshot, Crosses, Unreadable, RejectsDuplicate, Applied, Suffers, Connect,
         Tick, Start, Rotate, Restart, Leaves, vars
<1>1. "unreadable" \notin faults /\ SnapshotFits /\ ReaderCanRebuild
  BY <1>10 DEF RebuildInv
<1>2. ASSUME Passes, hasSnapshot' => hasSnapshot \/ \E id \in ToSet(seen) : id[1] = "book"
      PROVE  RebuildInv'
  BY <1>1, <1>2 DEF Passes, RebuildInv, SnapshotFits, ReaderCanRebuild, BookStored, Running,
                    Stored, EpochId
<1>3. ASSUME UNCHANGED stored, (hasSnapshot' = FALSE /\ seen' = <<>>) \/ ~Running'
      PROVE  RebuildInv'
  <2>1. ToSet(<<>>) = {}
    BY DEF ToSet
  <2>2. SnapshotFits'
    BY <1>3, <2>1 DEF SnapshotFits
  <2> QED  BY <1>1, <1>3, <2>2 DEF RebuildInv, ReaderCanRebuild, Stored
<1>4. ASSUME NEW kind \in Kinds, AwaitsSnapshot(kind) \/ Crosses(kind) \/ Unreadable(kind)
      PROVE  RebuildInv'
  BY <1>2, <1>4 DEF AwaitsSnapshot, Crosses, Unreadable, Suffers, Same, Passes, normalizer,
                    validator
<1>5. ASSUME NEW kind \in Kinds, NEW source \in Nat, RejectsDuplicate(kind, source)
      PROVE  RebuildInv'
  <2>1. <<kind, source>> \in ToSet(seen) /\ <<kind, source>>[1] = kind
    BY <1>5 DEF RejectsDuplicate
  <2>2. Passes /\ hasSnapshot' = (hasSnapshot \/ kind = "book")
    BY <1>5 DEF RejectsDuplicate, Applied, Normalizes, Same, Passes, validator
  <2> QED  BY <1>2, <2>1, <2>2
<1>6. ASSUME \/ Disconnect \/ ConnectFails
             \/ \E kind \in Kinds, source \in Nat : RejectsOutOfOrder(kind, source)
      PROVE  RebuildInv'
  BY <1>3, <1>6, GapEffect
<1>7. CASE Connect \/ Tick \/ UNCHANGED vars
  <2>1. Passes /\ hasSnapshot' = hasSnapshot
    BY <1>7 DEF Connect, Tick, vars, Passes, normalizer, validator
  <2> QED  BY <1>2, <2>1
<1>8. CASE Start \/ Rotate \/ Restart
  <2>1. UNCHANGED stored /\ ((hasSnapshot' = FALSE /\ seen' = <<>>) \/ ~Running')
    BY <1>8 DEF Start, Rotate, Restart, Leaves, ResetNormalizer, Running
  <2> QED  BY <1>3, <2>1
<1>9. ASSUME NEW kind \in Kinds, NEW source \in Nat, Accepts(kind, source)
      PROVE  RebuildInv'
  <2> DEFINE new == [kind |-> kind, source |-> source, receive |-> clock,
                     available |-> Available(source), epoch |-> EpochId, run |-> run]
  <2>1. /\ new \in RawEvents /\ Stored' = Stored \cup {new}
        /\ \A e \in Stored : e.receive < clock
        /\ Available(source) >= lastAccepted /\ lastAccepted' = Available(source)
        /\ hasSnapshot' = (hasSnapshot \/ kind = "book")
        /\ kind = "price_change" => hasSnapshot
        /\ Running /\ EpochId' = EpochId
    BY <1>9, AcceptsEffect
  <2>2. /\ new.kind = kind /\ new.epoch = EpochId /\ new.available = Available(source)
        /\ new.receive = clock
    OBVIOUS
  <2> HIDE DEF new
  <2>3. lastAccepted \in Int /\ Available(source) \in Int /\ clock \in Int
        /\ \A e \in Stored : e.available \in Int /\ e.receive \in Int
    <3>1. Available(source) \in Nat
      BY AvailableFacts
    <3>2. lastAccepted \in Int /\ clock \in Nat
      BY DEF TypeOK, Times, Never
    <3>3. \A e \in Stored : e.available \in Nat /\ e.receive \in Nat
      BY StoredType DEF RawEvents
    <3> QED  BY <3>1, <3>2, <3>3
  <2>4. hasSnapshot \/ (\E id \in ToSet(seen) : id[1] = "book") \/ kind = "book" => BookStored'
    <3>1. CASE kind = "book"
      BY <2>1, <2>2, <2>3, <3>1 DEF BookStored
    <3>2. CASE BookStored
      BY <2>1, <2>3, <3>2 DEF BookStored
    <3> QED  BY <1>1, <2>1, <3>1, <3>2 DEF SnapshotFits
  <2>5. SnapshotFits'
    <3>1. \A id \in ToSet(seen') : id \in ToSet(seen) \/ id[1] = kind
      BY <1>9, RememberedIs DEF Accepts, TypeOK
    <3> QED  BY <2>1, <2>4, <3>1 DEF SnapshotFits
  <2>6. ReaderCanRebuild'
    <3>1. CASE kind # "price_change"
      BY <1>1, <2>1, <2>2, <3>1 DEF ReaderCanRebuild
    <3>2. CASE kind = "price_change"
      <4>1. PICK a \in Stored : a.kind = "book" /\ a.epoch = EpochId /\ a.available <= lastAccepted
        BY <1>1, <2>1, <3>2 DEF SnapshotFits, BookStored
      <4>2. ~Before(new, a)
        BY <2>1, <2>2, <2>3, <4>1 DEF Before
      <4> QED  BY <1>1, <2>1, <2>2, <4>1, <4>2 DEF ReaderCanRebuild
    <3> QED  BY <3>1, <3>2
  <2> QED  BY <2>5, <2>6 DEF RebuildInv
<1> QED  BY <1>4, <1>5, <1>6, <1>7, <1>8, <1>9, StepCases

LEMMA StepLast ==
    ASSUME TypeOK, ConnectedRuns, LastFits, [Next]_vars
    PROVE  LastFits' /\ (epoch' > epoch => socket' = "waiting" \/ "regressed" \in faults')
<1> DEFINE Keeps == /\ LastFits'
                    /\ epoch' > epoch => socket' = "waiting" \/ "regressed" \in faults'
<1>1. epoch \in Nat /\ lastAccepted \in Int /\ lastAvailable \in Int
  BY DEF TypeOK, Times, Never
<1>2. ASSUME epoch' = epoch \/ epoch' = 0, UNCHANGED <<lastAccepted, lastAvailable>>,
             faults \subseteq faults'
      PROVE  Keeps
  BY <1>1, <1>2 DEF LastFits
<1>3. ASSUME NEW kind \in Kinds, AwaitsSnapshot(kind) \/ Crosses(kind) \/ Unreadable(kind)
      PROVE  Keeps
  BY <1>2, <1>3 DEF AwaitsSnapshot, Crosses, Unreadable, Suffers, normalizer, validator
<1>4. ASSUME NEW kind \in Kinds, NEW source \in Nat, RejectsDuplicate(kind, source)
      PROVE  Keeps
  <2>1. /\ UNCHANGED <<epoch, lastAccepted>> /\ lastAvailable' = Available(source)
        /\ faults \subseteq faults' /\ (Regresses(source) => "regressed" \in faults')
    BY <1>4 DEF RejectsDuplicate, Applied, Normalizes, Suffers, validator
  <2> QED  BY <1>1, <2>1, AvailableFacts DEF LastFits
<1>5. CASE Disconnect \/ ConnectFails
  <2>1. lastAccepted' = Never /\ lastAvailable' = Never /\ socket' = "waiting"
    BY <1>5, GapEffect DEF Disconnect, ConnectFails, SocketError
  <2> QED  BY <2>1 DEF LastFits, Never
<1>6. ASSUME NEW kind \in Kinds, NEW source \in Nat, RejectsOutOfOrder(kind, source)
      PROVE  Keeps
  <2>1. lastAccepted' = Never /\ lastAvailable' = Never /\ faults \subseteq faults'
    BY <1>6, GapEffect
  <2>2. Available(source) < lastAccepted /\ (Regresses(source) => "regressed" \in faults')
    BY <1>6 DEF RejectsOutOfOrder, OutOfOrder, Applied, Suffers
  <2>3. "regressed" \in faults'
    BY <1>1, <2>1, <2>2, AvailableFacts DEF LastFits
  <2> QED  BY <2>3 DEF LastFits
<1>7. CASE Connect \/ Tick \/ UNCHANGED vars
  BY <1>2, <1>7 DEF Connect, Tick, vars, normalizer, validator
<1>8. CASE Start
  <2>1. epoch' = 0 /\ lastAccepted' = Never /\ lastAvailable' = Never
    BY <1>8 DEF Start, ResetNormalizer
  <2> QED  BY <1>1, <2>1 DEF LastFits, Never
<1>9. CASE Rotate \/ Restart
  BY <1>2, <1>9 DEF Rotate, Restart, Leaves, Suffers, normalizer, validator
<1>10. ASSUME NEW kind \in Kinds, NEW source \in Nat, Accepts(kind, source)
       PROVE  Keeps
  <2>1. lastAccepted' = Available(source) /\ lastAvailable' = Available(source) /\ epoch' = epoch
    BY <1>10, AcceptsEffect
  <2> QED  BY <1>1, <2>1, AvailableFacts DEF LastFits
<1> QED  BY <1>3, <1>4, <1>5, <1>6, <1>7, <1>8, <1>9, <1>10, StepCases
-----------------------------------------------------------------------------
(* The epochs *)

LEMMA EpochIdType == TypeOK /\ Running => EpochId \in Nat /\ collector \in Nat
<1> SUFFICES ASSUME TypeOK, Running PROVE EpochId \in Nat /\ collector \in Nat
  OBVIOUS
<1>1. collector \in Nat /\ epoch \in Nat /\ EpochStride \in Nat
  BY StreamAssumption DEF TypeOK, Times, Running
<1> QED  BY <1>1 DEF EpochId

LEMMA StepEpoch ==
    ASSUME EpochsSuffice, TypeOK, ConnectedRuns, EpochFits, [Next]_vars
    PROVE  EpochFits'
<1>1. /\ epoch \in Nat /\ MaxEpoch \in Nat /\ EpochStride \in Nat /\ clock \in Nat
      /\ \A e \in Stored : e.epoch \in Nat
  BY StoredType, StreamAssumption DEF TypeOK, RawEvents
<1>2. ASSUME UNCHANGED <<collector, epoch, stored, clock>>, faults \subseteq faults'
      PROVE  EpochFits'
  BY <1>2 DEF EpochFits, Running, Stored, EpochId
<1>3. ASSUME NEW kind \in Kinds, AwaitsSnapshot(kind) \/ Crosses(kind) \/ Unreadable(kind)
      PROVE  EpochFits'
  BY <1>2, <1>3 DEF AwaitsSnapshot, Crosses, Unreadable, Same, Suffers, normalizer, validator
<1>4. ASSUME NEW kind \in Kinds, NEW source \in Nat, RejectsDuplicate(kind, source)
      PROVE  EpochFits'
  BY <1>2, <1>4 DEF RejectsDuplicate, Applied, Same, Suffers, validator
<1>5. ASSUME \/ Disconnect \/ ConnectFails
             \/ \E kind \in Kinds, source \in Nat : RejectsOutOfOrder(kind, source)
      PROVE  EpochFits'
  <2>1. /\ Running /\ Running' /\ epoch' <= MaxEpoch
        /\ EpochId' = EpochId + 1 /\ EpochId \in Nat
        /\ faults \subseteq faults' /\ stored' = stored
    BY <1>5, GapEffect
  <2> QED  BY <1>1, <2>1 DEF EpochFits, Stored
<1>6. CASE Connect \/ UNCHANGED vars
  BY <1>2, <1>6 DEF Connect, vars, validator
<1>7. CASE Tick
  <2>1. clock' = clock + 1 /\ UNCHANGED <<collector, epoch, stored, faults>>
    BY <1>7 DEF Tick, validator
  <2> DEFINE old == clock \div Window
             new == (clock + 1) \div Window
  <2>2. old \in Nat /\ new \in Nat /\ old <= new
    BY <1>1, Quotients, StreamAssumption
  <2> HIDE DEF old, new
  <2>3. old * EpochStride <= new * EpochStride
    BY <1>1, <2>2
  <2>4. old * EpochStride \in Nat /\ new * EpochStride \in Nat
    BY <1>1, <2>2
  <2>5. ~Running => \A e \in Stored : "restarted" \notin faults => e.epoch < new * EpochStride
    BY <1>1, <2>3, <2>4 DEF EpochFits, old
  <2> QED  BY <2>1, <2>5 DEF EpochFits, Running, Stored, EpochId, new
<1>8. CASE Start
  <2>1. /\ collector' = clock \div Window /\ epoch' = 0 /\ ~Running
        /\ UNCHANGED <<stored, faults>>
    BY <1>8 DEF Start, Running
  <2>2. clock \div Window \in Nat
    BY <1>1, Quotients, StreamAssumption
  <2>3. EpochId' = (clock \div Window) * EpochStride /\ (clock \div Window) * EpochStride \in Nat
    BY <1>1, <2>1, <2>2 DEF EpochId
  <2>4. Running'
    BY <2>1, <2>2 DEF Running, Never
  <2> QED  BY <1>1, <2>1, <2>3, <2>4 DEF EpochFits, Stored
<1>9. CASE Rotate
  <2>1. /\ Running /\ ~Running' /\ clock >= (collector + 1) * Window
        /\ UNCHANGED <<clock, epoch, stored, faults>>
    BY <1>9 DEF Rotate, Leaves, Running, validator
  <2>2. collector \in Nat /\ EpochId \in Nat
    BY <2>1, EpochIdType
  <2> DEFINE next == clock \div Window
  <2>3. next \in Nat /\ next >= collector + 1
    BY <1>1, <2>1, <2>2, Quotients, StreamAssumption
  <2> HIDE DEF next
  <2>4. collector * EpochStride + EpochStride <= next * EpochStride
    BY <1>1, <2>2, <2>3, Products
  <2>5. EpochId < next * EpochStride
    <3>1. collector * EpochStride \in Nat /\ next * EpochStride \in Nat
      BY <1>1, <2>2, <2>3
    <3>2. epoch < EpochStride
      BY <1>1 DEF EpochFits, EpochsSuffice
    <3> QED  BY <1>1, <2>4, <3>1, <3>2 DEF EpochId
  <2>6. next * EpochStride \in Nat
    BY <1>1, <2>3
  <2>7. "restarted" \notin faults => \A e \in Stored : e.epoch < next * EpochStride
    BY <1>1, <2>1, <2>2, <2>5, <2>6 DEF EpochFits
  <2> QED  BY <2>1, <2>7 DEF EpochFits, Stored, next
<1>10. CASE Restart
  <2>1. "restarted" \in faults' /\ epoch' = epoch
    BY <1>10 DEF Restart, Leaves, Suffers, validator
  <2> QED  BY <2>1 DEF EpochFits
<1>11. ASSUME NEW kind \in Kinds, NEW source \in Nat, Accepts(kind, source)
       PROVE  EpochFits'
  <2>1. /\ \E e \in RawEvents : e.epoch = EpochId /\ Stored' = Stored \cup {e}
        /\ Running /\ EpochId' = EpochId /\ faults \subseteq faults'
        /\ UNCHANGED <<collector, epoch>>
    BY <1>11, AcceptsEffect
  <2>2. EpochId \in Nat
    BY <2>1, EpochIdType
  <2> QED  BY <1>1, <2>1, <2>2 DEF EpochFits, Running
<1> QED  BY <1>3, <1>4, <1>5, <1>6, <1>7, <1>8, <1>9, <1>10, <1>11, StepCases

(* Whatever is missed ends the epoch, or meets one that has no book yet.   *)
LEMMA StepUnbroken ==
    ASSUME TypeOK, ConnectedRuns, EpochFits, UnbrokenInv, [Next]_vars
    PROVE  UnbrokenInv'
<1> DEFINE Mild == faults \subseteq {"regressed"}
           Old(i) == stored[i].kind = "book" /\ (i <= missedAfter \/ ~hasSnapshot)
<1>1. /\ DOMAIN stored = 1 .. Len(stored) /\ Len(stored) \in Nat /\ missedAfter \in Nat
      /\ \A i \in DOMAIN stored : stored[i] \in Stored /\ stored[i].epoch \in Nat
  <2>1. stored \in Seq(RawEvents) /\ missedAfter \in 0 .. Len(stored)
    BY DEF TypeOK
  <2>2. \A i \in DOMAIN stored : stored[i] \in RawEvents /\ stored[i] \in Stored
    BY <2>1 DEF Stored, ToSet
  <2> QED  BY <2>1, <2>2 DEF RawEvents
<1>2. faults \subseteq faults'
  BY StepCases, GapEffect, AcceptsEffect
     DEF AwaitsSnapshot, Crosses, Unreadable, RejectsDuplicate, Applied, Suffers, Connect, Tick, Start,
         Rotate, Restart, Leaves, vars
<1>3. Mild' => Mild
  BY <1>2
<1>4. Mild /\ Running => \A i \in DOMAIN stored : Old(i) => stored[i].epoch < EpochId
  BY DEF UnbrokenInv
<1>5. ASSUME UNCHANGED <<stored, missedAfter>>,
             Mild' /\ Running' =>
                \A i \in DOMAIN stored : Old(i)' => stored[i].epoch < EpochId'
      PROVE  UnbrokenInv'
  BY <1>3, <1>5 DEF UnbrokenInv, EpochIsUnbroken
<1>6. ASSUME stored' = stored, missedAfter' = Len(stored),
             Mild' /\ Running' =>
                \A i \in DOMAIN stored : stored[i].kind = "book" => stored[i].epoch < EpochId'
      PROVE  UnbrokenInv'
  BY <1>1, <1>6 DEF UnbrokenInv, EpochIsUnbroken
<1>7. ASSUME NEW kind \in Kinds, AwaitsSnapshot(kind)
      PROVE  UnbrokenInv'
  <2>1. /\ stored' = stored /\ missedAfter' = Len(stored) /\ ~hasSnapshot
        /\ UNCHANGED <<collector, epoch>>
    BY <1>7 DEF AwaitsSnapshot, Applies, Missed, Same, validator
  <2> QED  BY <1>3, <1>4, <1>6, <2>1 DEF Running, EpochId
<1>8. ASSUME NEW kind \in Kinds, Crosses(kind) \/ Unreadable(kind)
      PROVE  UnbrokenInv'
  <2>1. stored' = stored /\ missedAfter' = Len(stored)
    BY <1>8 DEF Crosses, Unreadable, Missed
  <2>2. "crossed" \in faults' \/ "unreadable" \in faults'
    BY <1>8 DEF Crosses, Unreadable, Suffers
  <2>3. ~Mild'
    BY <2>2
  <2> QED  BY <1>6, <2>1, <2>3
<1>9. ASSUME NEW kind \in Kinds, NEW source \in Nat, RejectsDuplicate(kind, source)
      PROVE  UnbrokenInv'
  <2>1. /\ UNCHANGED <<collector, epoch, stored, missedAfter>>
        /\ hasSnapshot => hasSnapshot'
    BY <1>9 DEF RejectsDuplicate, Applied, Normalizes, Same, validator
  <2> QED  BY <1>3, <1>4, <1>5, <2>1 DEF Running, EpochId
<1>10. ASSUME \/ Disconnect \/ ConnectFails
              \/ \E kind \in Kinds, source \in Nat : RejectsOutOfOrder(kind, source)
       PROVE  UnbrokenInv'
  <2>1. /\ Running /\ EpochId' = EpochId + 1 /\ EpochId \in Nat
        /\ missedAfter' = Len(stored) /\ stored' = stored
    BY <1>10, GapEffect
  <2>2. Mild => \A i \in DOMAIN stored : stored[i].epoch <= EpochId
    BY <1>1, <2>1 DEF EpochFits
  <2>3. Mild' => \A i \in DOMAIN stored : stored[i].epoch < EpochId'
    BY <1>1, <1>3, <2>1, <2>2
  <2> QED  BY <1>6, <2>1, <2>3
<1>11. CASE Connect \/ Tick \/ UNCHANGED vars
  <2>1. UNCHANGED <<collector, epoch, stored, missedAfter, hasSnapshot>>
    BY <1>11 DEF Connect, Tick, vars, normalizer, validator
  <2> QED  BY <1>3, <1>4, <1>5, <2>1 DEF Running, EpochId
<1>12. CASE Start
  <2>1. /\ collector' = clock \div Window /\ epoch' = 0 /\ ~Running
        /\ UNCHANGED <<stored, missedAfter>>
    BY <1>12 DEF Start, Running
  <2>2. clock \div Window \in Nat /\ (clock \div Window) * EpochStride \in Nat
    <3>1. clock \in Nat /\ Window \in Nat \ {0} /\ EpochStride \in Nat
      BY StreamAssumption DEF TypeOK
    <3>2. clock \div Window \in Nat
      BY <3>1, Quotients
    <3> QED  BY <3>1, <3>2
  <2>3. EpochId' = (clock \div Window) * EpochStride
    BY <2>1, <2>2, StreamAssumption DEF EpochId
  <2>4. Mild => \A i \in DOMAIN stored : stored[i].epoch < EpochId'
    BY <1>1, <2>1, <2>3 DEF EpochFits
  <2> QED  BY <1>3, <1>5, <2>1, <2>4
<1>13. CASE Rotate \/ Restart
  <2>1. ~Running' /\ stored' = stored /\ missedAfter' = Len(stored)
    BY <1>13 DEF Rotate, Restart, Leaves, Missed, Running
  <2> QED  BY <1>6, <2>1
<1>14. ASSUME NEW kind \in Kinds, NEW source \in Nat, Accepts(kind, source)
       PROVE  UnbrokenInv'
  <2> DEFINE n == Len(stored)
  <2>1. PICK new \in RawEvents :
            /\ new.kind = kind /\ new.epoch = EpochId
            /\ stored' = Append(stored, new)
            /\ hasSnapshot' = (hasSnapshot \/ kind = "book")
            /\ Running /\ EpochId' = EpochId /\ missedAfter' = missedAfter
    BY <1>14, AcceptsEffect
  <2>2. /\ DOMAIN stored' = 1 .. n + 1 /\ stored'[n + 1] = new
        /\ \A i \in 1 .. n : stored'[i] = stored[i]
    BY <1>1, <2>1, Appended DEF TypeOK
  <2>3. n \in Nat /\ missedAfter \in Nat /\ missedAfter <= n
    BY <1>1 DEF TypeOK
  <2> HIDE DEF n
  <2>4. Mild' => \A i \in 1 .. n : Old(i)' => stored'[i].epoch < EpochId
    BY <1>1, <1>3, <1>4, <2>1, <2>2 DEF n
  <2>5. ~(stored'[n + 1].kind = "book" /\ (n + 1 <= missedAfter' \/ ~hasSnapshot'))
    <3>1. kind = "book" => hasSnapshot'
      BY <2>1
    <3>2. ~(n + 1 <= missedAfter') /\ stored'[n + 1].kind = kind
      BY <2>1, <2>2, <2>3
    <3> QED  BY <3>1, <3>2
  <2>6. EpochIsUnbroken'
    <3> SUFFICES ASSUME Mild', NEW i \in DOMAIN stored', NEW j \in DOMAIN stored',
                        i <= missedAfter, missedAfter < j, stored'[i].kind = "book"
                 PROVE  stored'[i].epoch # stored'[j].epoch
      BY <2>1 DEF EpochIsUnbroken
    <3>1. i \in 1 .. n /\ Old(i)'
      BY <2>1, <2>2, <2>3
    <3>2. CASE j = n + 1
      <4>1. stored'[i].epoch < EpochId /\ stored'[j].epoch = EpochId
        BY <2>1, <2>2, <2>4, <3>1, <3>2
      <4>2. stored'[i].epoch \in Nat /\ EpochId \in Nat
        BY <1>1, <2>1, <2>2, <3>1, EpochIdType DEF n
      <4> QED  BY <4>1, <4>2
    <3>3. CASE j \in 1 .. n
      <4>1. stored[i].kind = "book" /\ i \in DOMAIN stored /\ j \in DOMAIN stored
        BY <1>1, <2>2, <3>1, <3>3 DEF n
      <4>2. stored[i].epoch # stored[j].epoch
        BY <1>3, <4>1 DEF UnbrokenInv, EpochIsUnbroken
      <4> QED  BY <2>2, <3>1, <3>3, <4>2
    <3> QED  BY <2>2, <2>3, <3>2, <3>3
  <2>7. \A i \in DOMAIN stored' : i \in 1 .. n \/ i = n + 1
    BY <2>2, <2>3
  <2>8. Mild' => \A i \in DOMAIN stored' : Old(i)' => stored'[i].epoch < EpochId'
    BY <2>1, <2>4, <2>5, <2>7
  <2> QED  BY <2>6, <2>8 DEF UnbrokenInv
<1> QED  BY <1>7, <1>8, <1>9, <1>10, <1>11, <1>12, <1>13, <1>14, StepCases
-----------------------------------------------------------------------------
(* The order *)

LEMMA StepOrder ==
    ASSUME LeadsAreShort, TypeOK, ConnectedRuns, LastFits, EpochFits, OrderInv, [Next]_vars
    PROVE  OrderInv'
<1> SUFFICES ASSUME faults' \subseteq {"crossed", "unreadable"}
             PROVE  OlderAreBefore' /\ RowsInEpochOrder'
  BY DEF OrderInv
<1>1. faults \subseteq faults'
  BY StepCases, GapEffect, AcceptsEffect
     DEF AwaitsSnapshot, Crosses, Unreadable, RejectsDuplicate, Applied, Suffers, Connect, Tick, Start,
         Rotate, Restart, Leaves, vars
<1>2. /\ lastAvailable <= clock + Ahead
      /\ \A e \in Stored : e.available <= clock + Ahead
      /\ socket = "connected" => clock >= retryAt
      /\ \A e \in Stored : ~Running \/ e.epoch < EpochId => e.available <= retryAt
      /\ RowsInEpochOrder
      /\ "restarted" \notin faults /\ "regressed" \notin faults'
  BY <1>1 DEF OrderInv, OlderAreBefore
<1>3. /\ clock \in Nat /\ retryAt \in Nat /\ lastAvailable \in Int
      /\ \A e \in Stored : e.available \in Nat /\ e.epoch \in Nat /\ e.receive \in Nat
  <2>1. clock \in Nat /\ retryAt \in Nat /\ lastAvailable \in Int
    BY DEF TypeOK, Times, Never
  <2> QED  BY <2>1, StoredType DEF RawEvents
<1>4. /\ Ahead \in Nat /\ Ahead <= ReconnectDelay /\ Ahead <= DiscoveryDelay
      /\ ReconnectDelay \in Nat /\ DiscoveryDelay \in Nat
      /\ \A lead \in Leads : lead \in Nat /\ lead <= Ahead
  BY StreamAssumption DEF Ahead, LeadsAreShort
<1>5. ASSUME UNCHANGED <<stored, lastAvailable, collector, epoch, clock, retryAt>>,
             socket' = socket \/ clock >= retryAt
      PROVE  OlderAreBefore' /\ RowsInEpochOrder'
  BY <1>2, <1>5 DEF OlderAreBefore, RowsInEpochOrder, Stored, Running, EpochId, Ahead
<1>6. ASSUME NEW lead \in Leads
      PROVE  /\ Available(clock + lead) \in Nat /\ Available(clock + lead) >= clock
             /\ Available(clock + lead) <= clock + Ahead
  <2>1. clock + lead \in Nat /\ lead \in Nat /\ lead <= Ahead
    BY <1>3, <1>4
  <2> QED  BY <1>2, <1>3, <1>4, <2>1, AvailableFacts
<1>7. ASSUME NEW kind \in Kinds, AwaitsSnapshot(kind) \/ Crosses(kind) \/ Unreadable(kind)
      PROVE  OlderAreBefore' /\ RowsInEpochOrder'
  BY <1>5, <1>7 DEF AwaitsSnapshot, Crosses, Unreadable, Same, normalizer, validator
<1>8. ASSUME NEW kind \in Kinds, NEW lead \in Leads, RejectsDuplicate(kind, clock + lead)
      PROVE  OlderAreBefore' /\ RowsInEpochOrder'
  <2>1. /\ lastAvailable' = Available(clock + lead)
        /\ UNCHANGED <<stored, collector, epoch, clock, retryAt, socket>>
    BY <1>8 DEF RejectsDuplicate, Applied, Normalizes, Same, validator
  <2> QED
    BY <1>2, <1>6, <2>1 DEF OlderAreBefore, RowsInEpochOrder, Stored, Running, EpochId, Ahead
<1>9. CASE Disconnect \/ ConnectFails
  <2>1. /\ stored' = stored /\ clock' = clock /\ lastAvailable' = Never
        /\ retryAt' = clock + ReconnectDelay /\ socket' = "waiting"
    BY <1>9, GapEffect DEF Disconnect, ConnectFails, SocketError
  <2>2. \A e \in Stored : e.available <= retryAt'
    BY <1>2, <1>3, <1>4, <2>1
  <2>3. OlderAreBefore'
    BY <1>2, <1>3, <1>4, <2>1, <2>2 DEF OlderAreBefore, Stored, Ahead, Never
  <2> QED  BY <1>2, <2>1, <2>3 DEF RowsInEpochOrder, Stored
<1>10. ASSUME NEW kind \in Kinds, NEW source \in Nat, RejectsOutOfOrder(kind, source)
       PROVE  FALSE
  <2>1. /\ ~Regresses(source) /\ lastAccepted # Never
        /\ Available(source) < lastAccepted
    BY <1>2, <1>10 DEF RejectsOutOfOrder, Applied, OutOfOrder, Suffers
  <2>2. lastAccepted <= lastAvailable /\ lastAccepted \in Int
    BY <1>1, <1>2 DEF LastFits, TypeOK, Times, Never
  <2> QED  BY <1>3, <2>1, <2>2, AvailableFacts
<1>11. CASE Connect \/ UNCHANGED vars
  BY <1>5, <1>11 DEF Connect, vars, normalizer, validator
<1>12. CASE Tick
  <2>1. /\ clock' = clock + 1
        /\ UNCHANGED <<stored, lastAvailable, collector, epoch, retryAt, socket>>
    BY <1>12 DEF Tick, normalizer, validator
  <2>2. OlderAreBefore'
    BY <1>2, <1>3, <1>4, <2>1 DEF OlderAreBefore, Stored, Running, EpochId, Ahead
  <2> QED  BY <1>2, <2>1, <2>2 DEF RowsInEpochOrder, Stored
<1>13. CASE Start
  <2>1. /\ retryAt' = clock /\ clock' = clock /\ stored' = stored /\ lastAvailable' = Never
        /\ ~Running /\ clock >= retryAt /\ socket' = "waiting"
    BY <1>13 DEF Start, ResetNormalizer, Running
  <2>2. OlderAreBefore'
    BY <1>2, <1>3, <1>4, <2>1 DEF OlderAreBefore, Stored, Ahead, Never
  <2> QED  BY <1>2, <2>1, <2>2 DEF RowsInEpochOrder, Stored
<1>14. CASE Rotate \/ Restart
  <2>1. /\ retryAt' = clock + DiscoveryDelay /\ clock' = clock /\ stored' = stored
        /\ lastAvailable' = lastAvailable /\ socket' = "off"
    BY <1>14 DEF Rotate, Restart, Leaves, normalizer
  <2>2. \A e \in Stored : e.available <= retryAt'
    BY <1>2, <1>3, <1>4, <2>1
  <2>3. OlderAreBefore'
    BY <1>2, <2>1, <2>2 DEF OlderAreBefore, Stored, Ahead
  <2> QED  BY <1>2, <2>1, <2>3 DEF RowsInEpochOrder, Stored
<1>15. ASSUME NEW kind \in Kinds, NEW lead \in Leads, Accepts(kind, clock + lead)
       PROVE  OlderAreBefore' /\ RowsInEpochOrder'
  <2> DEFINE available == Available(clock + lead)
  <2>1. clock + lead \in Nat
    BY SourceType
  <2>2. PICK new \in RawEvents :
            /\ new.epoch = EpochId /\ new.receive = clock /\ new.available = available
            /\ Stored' = Stored \cup {new}
            /\ \A e \in Stored : e.receive < clock
            /\ lastAvailable' = available
            /\ socket = "connected" /\ Running /\ EpochId' = EpochId
            /\ UNCHANGED <<clock, collector, socket, retryAt>>
    BY <1>15, <2>1, AcceptsEffect
  <2>3. available \in Nat /\ available >= clock /\ available <= clock + Ahead
    BY <1>6
  <2> HIDE DEF available
  <2>4. EpochId \in Nat /\ \A e \in Stored : e.epoch <= EpochId
    BY <1>2, <2>2, EpochIdType DEF EpochFits
  <2>5. Running' /\ Ahead' = Ahead
    BY <2>2 DEF Running, Ahead
  <2>6. OlderAreBefore'
    BY <1>2, <1>3, <1>4, <2>2, <2>3, <2>4, <2>5 DEF OlderAreBefore
  <2>7. ASSUME NEW e \in Stored, e.epoch < EpochId
        PROVE  ~Before(new, e)
    <3>1. e.available <= retryAt /\ clock >= retryAt
      BY <1>2, <2>2, <2>7
    <3> QED  BY <1>3, <2>2, <2>3, <3>1 DEF Before
  <2>8. RowsInEpochOrder'
    BY <1>2, <1>3, <2>2, <2>4, <2>7 DEF RowsInEpochOrder
  <2> QED  BY <2>6, <2>8
<1>16. CASE Message
  BY <1>7, <1>8, <1>10, <1>15, <1>16, SourceType DEF Message
<1> QED
  BY <1>9, <1>11, <1>12, <1>13, <1>14, <1>16 DEF Next
-----------------------------------------------------------------------------
LEMMA InitHolds ==
    Init => /\ TypeOK /\ ConnectedRuns /\ RebuildInv /\ LastFits
            /\ EpochFits /\ UnbrokenInv /\ OrderInv
<1> SUFFICES ASSUME Init
             PROVE  /\ TypeOK /\ ConnectedRuns /\ RebuildInv /\ LastFits
                    /\ EpochFits /\ UnbrokenInv /\ OrderInv
  OBVIOUS
<1>1. /\ stored = <<>> /\ collector = Never /\ socket = "off" /\ seen = <<>>
      /\ clock = 0 /\ epoch = 0 /\ lastAccepted = Never /\ lastAvailable = Never
      /\ faults = {} /\ missedAfter = 0 /\ retryAt = 0
  BY DEF Init
<1>2. Stored = {} /\ DOMAIN stored = {} /\ ~Running
  BY <1>1 DEF Stored, ToSet, Running
<1>3. TypeOK
  <2>1. stored \in Seq(RawEvents) /\ missedAfter \in 0 .. Len(stored)
    BY <1>1
  <2>2. hasSnapshot = FALSE /\ lastSource = Never /\ run = 0
    BY DEF Init
  <2> QED  BY <1>1, <2>1, <2>2, EmptySeen DEF TypeOK, Times
<1>4. ConnectedRuns /\ RebuildInv
  BY <1>1, <1>2 DEF ConnectedRuns, RebuildInv, SnapshotFits, ReaderCanRebuild
<1>5. LastFits /\ EpochFits
  BY <1>1, <1>2, StreamAssumption DEF LastFits, EpochFits, Never
<1>6. UnbrokenInv
  BY <1>2 DEF UnbrokenInv, EpochIsUnbroken
<1>7. OrderInv
  BY <1>1, <1>2, StreamAssumption DEF OrderInv, OlderAreBefore, RowsInEpochOrder, Ahead, Never
<1> QED  BY <1>3, <1>4, <1>5, <1>6, <1>7

(* Normalizer, validator, socket and archive stay well typed.              *)
THEOREM StreamTypes == Spec => []TypeOK
<1>1. TypeOK /\ ConnectedRuns /\ [Next]_vars => TypeOK' /\ ConnectedRuns'
  BY StepType
<1> QED  BY <1>1, InitHolds, PTL DEF Spec

(* ReaderCanRebuild for every value of the constants: every stored change  *)
(* follows, in the reader's order, a stored book of its epoch.             *)
THEOREM ArchiveCanBeRebuilt == Spec => []ReaderCanRebuild
<1>1. TypeOK /\ ConnectedRuns /\ RebuildInv /\ [Next]_vars
        => TypeOK' /\ ConnectedRuns' /\ RebuildInv'
  BY StepType, StepRebuild
<1>2. RebuildInv => ReaderCanRebuild
  BY DEF RebuildInv, ReaderCanRebuild
<1> QED  BY <1>1, <1>2, InitHolds, PTL DEF Spec

(* JitterKeepsEpoch for every value of the constants: only the socket and  *)
(* a source clock that went back by the tolerance end an epoch.            *)
THEOREM JitterCostsNothing == Spec => JitterKeepsEpoch
<1>1. TypeOK /\ ConnectedRuns /\ LastFits /\ [Next]_vars
        => TypeOK' /\ ConnectedRuns' /\ LastFits'
  BY StepType, StepLast
<1>2. TypeOK /\ ConnectedRuns /\ LastFits /\ [Next]_vars
        => [epoch' > epoch => socket' = "waiting" \/ "regressed" \in faults']_vars
  BY StepLast
<1> QED  BY <1>1, <1>2, InitHolds, PTL DEF Spec, JitterKeepsEpoch

(* EpochIsUnbroken: nothing is missed within an epoch that has a book, if  *)
(* a collector declares fewer gaps than its window has seconds.            *)
THEOREM EpochsAreUnbroken == EpochsSuffice => (Spec => []EpochIsUnbroken)
<1> SUFFICES ASSUME EpochsSuffice PROVE Spec => []EpochIsUnbroken
  OBVIOUS
<1>1. TypeOK /\ ConnectedRuns /\ EpochFits /\ UnbrokenInv /\ [Next]_vars
        => TypeOK' /\ ConnectedRuns' /\ EpochFits' /\ UnbrokenInv'
  BY StepType, StepEpoch, StepUnbroken
<1>2. UnbrokenInv => EpochIsUnbroken
  BY DEF UnbrokenInv
<1> QED  BY <1>1, <1>2, InitHolds, PTL DEF Spec

(* ReaderAccepts: the epochs of the archive never go back in the reader's  *)
(* order, if moreover the venue's clock is ahead of ours by no more than a *)
(* reconnection or a new collector takes.                                  *)
THEOREM ReaderFindsOrder == EpochsSuffice /\ LeadsAreShort => (Spec => []ReaderAccepts)
<1> SUFFICES ASSUME EpochsSuffice, LeadsAreShort PROVE Spec => []ReaderAccepts
  OBVIOUS
<1> DEFINE Inv == TypeOK /\ ConnectedRuns /\ LastFits /\ EpochFits /\ OrderInv
<1>1. Inv /\ [Next]_vars => Inv'
  BY StepType, StepLast, StepEpoch, StepOrder
<1>2. Inv => ReaderAccepts
  BY DEF OrderInv, ReaderAccepts
<1>3. Init => Inv
  BY InitHolds
<1> HIDE DEF Inv
<1> QED  BY <1>1, <1>2, <1>3, PTL DEF Spec
=============================================================================
