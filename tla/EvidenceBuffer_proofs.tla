----------------------- MODULE EvidenceBuffer_proofs -----------------------
(***************************************************************************)
(* The buffer keeps the promise of EvidenceLog, archives an event once,    *)
(* keeps what it counts and returns empty, for any streams, events,        *)
(* partitions, numbers of gaps, duplicates, failing writes and crashes.    *)
(*                                                                         *)
(* Four facts carry the proof.  An event is accepted once, so one that     *)
(* waits is in no part, unless a flush failed after it had written.  Of    *)
(* the running flush, the partitions that are not on its list have their   *)
(* manifest, and the one between its two files is known.  The counts that  *)
(* will come with a waiting event are at least what was declared before    *)
(* it, whether they are still in the buffer or taken already.  And the     *)
(* final flush starts when every other task is done, or the periodic one   *)
(* failed, and no task that is done accepts anything.                      *)
(***************************************************************************)
EXTENDS EvidenceBuffer, FiniteSetTheorems, WellFoundedInduction, TLAPS

(* The rows of the flush that are still to be written.                     *)
Todo == IF flush = None THEN {} ELSE {e \in flush.events : PartitionOf[e] \in flush.todo}
Placed == flush # None /\ flush.step = "placed"
HasManifest(rows) == \E m \in manifests : m.rows = rows

(* What a flush holds is no longer in the buffer, and what it has passed   *)
(* is kept.                                                                *)
FlushFits ==
    flush # None =>
        /\ pending \cap flush.events = {}
        /\ flush.todo # {}
        /\ \A p \in flush.todo : \E e \in flush.events : PartitionOf[e] = p
        /\ \A e \in flush.events : PartitionOf[e] \in flush.todo \/ e \in Kept
        /\ flush.step = "placed" => Rows \in parts

OnlyAccepted ==
    /\ Held \subseteq accepted
    /\ \A rows \in parts : rows \subseteq accepted
    /\ \A m \in manifests : m.rows \in parts

(* The part between its two files.                                         *)
PlacedFits ==
    Placed =>
        /\ flush.created => ~HasManifest(Rows)
        /\ ~flush.created /\ crashes = 0 => HasManifest(Rows)
        /\ ~torn => flush.created

(* What is still to be written is in no part but the one just placed.      *)
WaitingIsNew ==
    ~torn => \A e \in pending \cup Todo, rows \in parts :
                e \in rows => Placed /\ rows = Rows

EvidenceInv == FlushFits /\ OnlyAccepted
ArchiveInv == PlacedFits /\ WaitingIsNew /\ ArchivedOnce

(* A flush runs for a task that waits for it; the final one, when nobody   *)
(* else is left to work, unless the periodic flush has failed.             *)
FlusherWaits == flush # None => tasks[flush.by] = "flushing"
FinalIsAlone ==
    tasks[Final] # "idle" =>
        tasks[Periodic] = "failed" \/ \A t \in Tasks \ {Final} : tasks[t] = "done"
FinalIsEmpty ==
    tasks[Periodic] # "failed" =>
        /\ tasks[Final] = "done" => pending = {}
        /\ flush # None /\ flush.by = Final => pending = {}

TasksInv == FlusherWaits /\ FinalIsAlone /\ FinalIsEmpty

-----------------------------------------------------------------------------
(* Types *)

LEMMA LeastNumber ==
    ASSUME NEW T, T \subseteq Nat, T # {}
    PROVE  Min(T) \in T
<1> DEFINE R == OpToRel(<, Nat)
<1>1. IsWellFoundedOn(R, Nat)
  BY NatLessThanWellFounded
<1>2. ASSUME NEW x \in Nat, NEW y \in Nat, y < x PROVE <<y, x>> \in R
  BY <1>2 DEF OpToRel
<1> HIDE DEF R
<1>3. PICK x \in T : \A y \in T : ~ (<<y, x>> \in R)
  BY <1>1, WFMin
<1>4. ASSUME NEW y \in T PROVE x <= y
  <2>1. x \in Nat /\ y \in Nat /\ ~(<<y, x>> \in R)
    BY <1>3
  <2>2. ~(y < x)
    BY <1>2, <2>1
  <2> QED  BY <2>1, <2>2
<1> QED  BY <1>3, <1>4 DEF Min

LEMMA PartitionType == \A e \in Events : PartitionOf[e] \in Partitions /\ PartitionOf[e] \in Nat
  BY BufferAssumption DEF Partitions

LEMMA FlushType ==
    ASSUME TypeOK, flush # None
    PROVE  /\ flush \in Flushes /\ flush.by \in Tasks
           /\ flush.events \subseteq Events /\ flush.todo \subseteq Partitions
           /\ flush.counts \in [Partitions -> Counts]
  BY DEF TypeOK, Flushes

(* The partition being written is on the list and has rows.                *)
LEMMA WritingFits ==
    ASSUME TypeOK, FlushFits, flush # None
    PROVE  /\ Writing \in flush.todo
           /\ Rows # {} /\ Rows \subseteq flush.events
           /\ \A e \in Rows : PartitionOf[e] = Writing
<1>1. flush.todo \subseteq Nat
  BY FlushType, PartitionType DEF Partitions
<1>2. Writing \in flush.todo
  BY <1>1, LeastNumber DEF FlushFits, Writing
<1> QED  BY <1>2 DEF FlushFits, Rows, EventsIn

LEMMA AddCountsType ==
    ASSUME NEW D, NEW table \in [Partitions -> [dup : D, gap : D]], NEW p \in Partitions,
           NEW dup, NEW gap, table[p].dup + dup \in D, table[p].gap + gap \in D
    PROVE  AddCounts(table, p, dup, gap) \in [Partitions -> [dup : D, gap : D]]
  BY DEF AddCounts

LEMMA AddNat ==
    ASSUME NEW table \in [Partitions -> Counts], NEW p \in Partitions,
           NEW dup \in Nat, NEW gap \in Nat
    PROVE  AddCounts(table, p, dup, gap) \in [Partitions -> Counts]
<1>1. table[p].dup + dup \in Nat /\ table[p].gap + gap \in Nat
  BY DEF Counts
<1> QED  BY <1>1, AddCountsType DEF Counts

LEMMA AddInt ==
    ASSUME NEW table \in [Partitions -> [dup : Int, gap : Int]], NEW p \in Partitions,
           NEW dup \in Nat, NEW gap \in Nat
    PROVE  AddCounts(table, p, dup, gap) \in [Partitions -> [dup : Int, gap : Int]]
<1>1. table[p].dup + dup \in Int /\ table[p].gap + gap \in Int
  OBVIOUS
<1> QED  BY <1>1, AddCountsType

LEMMA AfterMessageType ==
    ASSUME TypeOK, NEW s \in Streams, AfterMessage(s)
    PROVE  /\ tasks' \in [Tasks -> TaskStates]
           /\ \A t \in Tasks \ {s} : tasks'[t] = tasks[t]
           /\ tasks'[s] \in {tasks[s], "flushing"}
  BY DEF TypeOK, AfterMessage, TaskStates, Tasks

LEMMA RestoreType ==
    ASSUME TypeOK, flush # None, Restore
    PROVE  pending' \subseteq Events /\ counts' \in [Partitions -> Counts]
  BY FlushType DEF TypeOK, Restore, Counts

LEMMA GoDownType ==
    ASSUME TypeOK, GoDown
    PROVE  /\ up' = FALSE /\ stop' = FALSE /\ tasks' = [t \in Tasks |-> "idle"]
           /\ pending' = {} /\ flush' = None
           /\ counts' \in [Partitions -> Counts] /\ unattributed' \in [Streams -> Nat]
           /\ recorded' \in [Partitions -> [dup : Int, gap : Int]]
           /\ UNCHANGED <<parts, manifests, accepted, gapsBefore, torn>>
<1>1. ASSUME NEW p \in Partitions PROVE Taken(p) \in Counts
  BY FlushType DEF Taken, NoCounts, Counts
<1>2. \A p \in Partitions : counts[p] \in Counts /\ recorded[p] \in [dup : Int, gap : Int]
  BY DEF TypeOK
<1>3. recorded' \in [Partitions -> [dup : Int, gap : Int]]
  BY <1>1, <1>2 DEF GoDown, Counts
<1> QED  BY <1>3 DEF GoDown, NoCounts, Counts, disk

LEMMA ReceiveType ==
    ASSUME TypeOK, NEW s \in Streams, Receive(s)
    PROVE  TypeOK'
<1> USE DEF disk, memory, history, bounds
<1>1. ASSUME NEW e \in Events, Accept(s, e) PROVE TypeOK'
  <2>1. /\ unattributed[s] \in Nat /\ counts \in [Partitions -> Counts]
        /\ recorded \in [Partitions -> [dup : Int, gap : Int]]
    BY DEF TypeOK
  <2>2. counts' \in [Partitions -> Counts]
    BY <1>1, <2>1, AddNat, PartitionType DEF Accept
  <2>3. recorded' \in [Partitions -> [dup : Int, gap : Int]]
    BY <1>1, <2>1, AddInt, PartitionType DEF Accept
  <2>4. gapsBefore' \in [Events -> Int]
    BY <1>1, <2>3, PartitionType DEF Accept, TypeOK
  <2>5. unattributed' \in [Streams -> Nat] /\ pending' \subseteq Events /\ accepted' \subseteq Events
    BY <1>1 DEF Accept, Attributed, TypeOK
  <2>6. tasks' \in [Tasks -> TaskStates]
    BY <1>1, AfterMessageType DEF Accept
  <2> QED  BY <1>1, <2>2, <2>3, <2>4, <2>5, <2>6 DEF Accept, TypeOK
<1>2. ASSUME NEW e \in Events, Duplicate(s, e) PROVE TypeOK'
  <2>1. /\ counts \in [Partitions -> Counts]
        /\ recorded \in [Partitions -> [dup : Int, gap : Int]]
    BY DEF TypeOK
  <2>2. counts' \in [Partitions -> Counts]
    BY <1>2, <2>1, AddNat, PartitionType DEF Duplicate
  <2>3. recorded' \in [Partitions -> [dup : Int, gap : Int]]
    BY <1>2, <2>1, AddInt, PartitionType DEF Duplicate
  <2>4. tasks' \in [Tasks -> TaskStates]
    BY <1>2, AfterMessageType DEF Duplicate
  <2> QED  BY <1>2, <2>2, <2>3, <2>4 DEF Duplicate, TypeOK
<1>3. CASE OutOfOrder(s)
  <2>1. tasks' \in [Tasks -> TaskStates]
    BY <1>3, AfterMessageType DEF OutOfOrder
  <2> QED  BY <1>3, <2>1 DEF OutOfOrder, DeclareGap, TypeOK
<1>4. CASE Disconnect(s)
  <2>1. gaps' \in Nat /\ unattributed' \in [Streams -> Nat]
    BY <1>4 DEF Disconnect, DeclareGap, TypeOK
  <2>2. tasks' \in [Tasks -> TaskStates]
    BY <1>4 DEF Disconnect, TypeOK, TaskStates
  <2> QED  BY <1>4, <2>1, <2>2 DEF Disconnect, TypeOK
<1>5. CASE Reconnect(s)
  BY <1>5 DEF Reconnect, TypeOK, TaskStates
<1> QED  BY <1>1, <1>2, <1>3, <1>4, <1>5 DEF Receive

LEMMA FlushStepType ==
    ASSUME TypeOK, FlushFits, FlushStep
    PROVE  TypeOK'
<1> USE DEF disk, memory, history, bounds
<1>1. /\ flush # None /\ flush \in Flushes /\ flush.by \in Tasks
      /\ flush.counts \in [Partitions -> Counts]
      /\ Writing \in Partitions /\ Rows \subseteq Events
  BY FlushType, WritingFits DEF FlushStep, TakeCounts, PlacePart, WriteManifest, Flushing
<1>2. CASE TakeCounts
  <2>1. \A p \in Partitions : counts[p] \in Counts /\ NoCounts[p] \in Counts
    BY DEF TypeOK, NoCounts, Counts
  <2>2. counts' \in [Partitions -> Counts]
    BY <1>2, <2>1 DEF TakeCounts
  <2>3. flush' \in Flushes
    <3> DEFINE taken == [p \in Partitions |-> IF p \in flush.todo THEN counts[p]
                                              ELSE NoCounts[p]]
    <3>1. taken \in [Partitions -> Counts]
      BY <2>1
    <3>2. flush' = [flush EXCEPT !.step = "writing", !.counts = taken]
      BY <1>2 DEF TakeCounts
    <3> HIDE DEF taken
    <3> QED  BY <1>1, <3>1, <3>2 DEF Flushes
  <2> QED  BY <1>2, <2>2, <2>3 DEF TakeCounts, TypeOK
<1>3. CASE PlacePart
  <2>1. flush' \in Flushes
    <3> DEFINE new == Rows \notin parts
    <3>1. flush' = [flush EXCEPT !.step = "placed", !.created = new]
      BY <1>3 DEF PlacePart
    <3>2. new \in BOOLEAN
      OBVIOUS
    <3> HIDE DEF new
    <3> QED  BY <1>1, <3>1, <3>2 DEF Flushes
  <2>2. parts' \subseteq SUBSET Events
    BY <1>1, <1>3 DEF PlacePart, TypeOK
  <2> QED  BY <1>3, <2>1, <2>2 DEF PlacePart, TypeOK
<1>4. CASE WriteManifest
  <2>1. manifests' \subseteq Manifests
    <3>1. flush.counts[Writing] \in Counts
      BY <1>1
    <3>2. [rows |-> Rows, dup |-> flush.counts[Writing].dup,
           gap |-> flush.counts[Writing].gap] \in Manifests
      BY <1>1, <3>1 DEF Manifests, Counts
    <3> QED  BY <1>4, <3>2 DEF WriteManifest, TypeOK
  <2>2. flush' \in Flushes \cup {None} /\ tasks' \in [Tasks -> TaskStates]
    <3>1. CASE flush' = None /\ tasks' = [tasks EXCEPT ![flush.by] = Returned(flush.by)]
      BY <1>1, <3>1 DEF TypeOK, Returned, TaskStates
    <3>2. CASE /\ flush' = [flush EXCEPT !.step = "writing", !.todo = flush.todo \ {Writing}]
               /\ UNCHANGED tasks
      BY <1>1, <3>2 DEF TypeOK, Flushes
    <3> QED  BY <1>4, <3>1, <3>2 DEF WriteManifest
  <2> QED  BY <1>4, <2>1, <2>2 DEF WriteManifest, TypeOK
<1> QED  BY <1>2, <1>3, <1>4 DEF FlushStep

LEMMA FailureType ==
    ASSUME TypeOK, FlushFails
    PROVE  TypeOK' /\ flush # None /\ flush.step \in {"writing", "placed"} /\ WriteFails
<1> USE DEF disk, memory, history, bounds
<1>1. flush # None /\ flush.step \in {"writing", "placed"} /\ WriteFails
  BY DEF FlushFails, SocketFlushFails, OtherFlushFails, WriteFails, Flushing
<1>2. /\ pending' \subseteq Events /\ counts' \in [Partitions -> Counts]
      /\ parts' \subseteq SUBSET Events /\ failures' \in Nat /\ flush' = None
      /\ torn' \in BOOLEAN
  <2>1. pending' \subseteq Events /\ counts' \in [Partitions -> Counts]
    BY <1>1, RestoreType DEF WriteFails
  <2> QED  BY <1>1, <2>1 DEF WriteFails, TypeOK
<1>3. CASE SocketFlushFails
  <2>1. gaps' \in Nat /\ unattributed' \in [Streams -> Nat]
    BY <1>3 DEF SocketFlushFails, TypeOK
  <2>2. tasks' \in [Tasks -> TaskStates]
    BY <1>3 DEF SocketFlushFails, TypeOK, TaskStates
  <2> QED  BY <1>1, <1>2, <1>3, <2>1, <2>2 DEF SocketFlushFails, TypeOK
<1>4. CASE OtherFlushFails
  <2>1. tasks' \in [Tasks -> TaskStates]
    BY <1>4 DEF OtherFlushFails, TypeOK, TaskStates
  <2> QED  BY <1>1, <1>2, <1>4, <2>1 DEF OtherFlushFails, TypeOK
<1> QED  BY <1>1, <1>3, <1>4 DEF FlushFails

LEMMA StepType ==
    ASSUME TypeOK, FlushFits, [Next]_vars
    PROVE  TypeOK'
<1> USE DEF disk, memory, history, bounds
<1>1. CASE PeriodicFlush \/ RequestStop \/ FinalFlush \/ Start
  BY <1>1 DEF PeriodicFlush, RequestStop, FinalFlush, Start, TypeOK, TaskStates, Tasks
<1>2. ASSUME NEW t \in Tasks, TakeEvents(t) PROVE TypeOK'
  <2>1. CASE pending = {}
    BY <1>2, <2>1 DEF TakeEvents, TypeOK, TaskStates, Returned
  <2>2. CASE pending # {}
    <3>1. NoCounts \in [Partitions -> Counts]
      BY DEF NoCounts, Counts
    <3>2. {PartitionOf[e] : e \in pending} \subseteq Partitions /\ pending \subseteq Events
      BY PartitionType DEF TypeOK
    <3>3. flush' \in Flushes
      <4> DEFINE todo == {PartitionOf[e] : e \in pending}
      <4>1. flush' = [by |-> t, step |-> "taken", events |-> pending, counts |-> NoCounts,
                      created |-> FALSE, todo |-> todo]
        BY <1>2, <2>2 DEF TakeEvents
      <4> HIDE DEF todo, NoCounts
      <4>2. todo \subseteq Partitions
        BY <3>2 DEF todo
      <4> QED  BY <3>1, <3>2, <4>1, <4>2 DEF Flushes
    <3> QED  BY <1>2, <2>2, <3>3 DEF TakeEvents, TypeOK
  <2> QED  BY <2>1, <2>2
<1>3. ASSUME NEW t \in Tasks, TaskEnds(t) PROVE TypeOK'
  BY <1>3 DEF TaskEnds, TypeOK, TaskStates
<1>4. CASE End \/ Crash
  <2>1. GoDown /\ crashes' \in Nat /\ UNCHANGED <<gaps, duplicates, failures>>
    BY <1>4 DEF End, Crash, TypeOK
  <2>2. tasks' \in [Tasks -> TaskStates]
    BY <2>1, GoDownType DEF TaskStates
  <2> QED  BY <2>1, <2>2, GoDownType DEF TypeOK
<1>5. CASE UNCHANGED vars
  BY <1>5 DEF vars, TypeOK
<1> QED
  BY <1>1, <1>2, <1>3, <1>4, <1>5, ReceiveType, FlushStepType, FailureType DEF Next
-----------------------------------------------------------------------------
(* The events *)

(* What can happen to them.                                                *)
Untouched == UNCHANGED <<pending, flush, parts, manifests, accepted, torn, crashes>>
Takes(t) == TakeEvents(t) /\ pending # {}
Leaves ==
    /\ up /\ GoDown
    /\ \/ flush = None /\ crashes' = crashes
       \/ crashes' = crashes + 1

LEMMA Steps ==
    ASSUME [Next]_vars
    PROVE  \/ Untouched /\ (up' = up \/ Start)
           \/ \E s \in Streams, e \in Events : Accept(s, e)
           \/ \E t \in Tasks : Takes(t)
           \/ FlushStep \/ FlushFails \/ Leaves
<1> USE DEF disk, memory, history, bounds
<1>1. ASSUME NEW s \in Streams, Receive(s)
      PROVE  (Untouched /\ up' = up) \/ \E e \in Events : Accept(s, e)
  BY <1>1 DEF Receive, Duplicate, OutOfOrder, Disconnect, Reconnect, Untouched
<1>2. ASSUME NEW t \in Tasks, TakeEvents(t) \/ TaskEnds(t)
      PROVE  (Untouched /\ up' = up) \/ Takes(t)
  BY <1>2 DEF TakeEvents, TaskEnds, Untouched, Takes
<1>3. CASE PeriodicFlush \/ RequestStop \/ FinalFlush \/ UNCHANGED vars
  <2>1. Untouched /\ up' = up
    BY <1>3 DEF PeriodicFlush, RequestStop, FinalFlush, vars, Untouched
  <2> QED  BY <2>1
<1>4. CASE Start
  <2>1. Untouched
    BY <1>4 DEF Start, Untouched
  <2> QED  BY <1>4, <2>1
<1>5. CASE End \/ Crash
  BY <1>5 DEF End, Crash, Leaves
<1> QED  BY <1>1, <1>2, <1>3, <1>4, <1>5 DEF Next

(* The three steps of a flush, and its failure.                            *)
LEMMA TakesEffect ==
    ASSUME TypeOK, NEW t \in Tasks, Takes(t)
    PROVE  /\ flush = None /\ flush' # None /\ pending' = {}
           /\ flush'.by = t /\ flush'.step = "taken" /\ flush'.events = pending
           /\ flush'.todo = {PartitionOf[e] : e \in pending}
           /\ UNCHANGED <<parts, manifests, accepted, torn, crashes, tasks>>
           /\ up /\ up' /\ tasks[t] = "flushing"
<1>1. TypeOK'
  BY StepType DEF Takes, TakeEvents, Next, FlushFits
<1>2. flush' = [by |-> t, step |-> "taken", events |-> pending, counts |-> NoCounts,
                created |-> FALSE, todo |-> {PartitionOf[e] : e \in pending}]
  BY DEF Takes, TakeEvents
<1>3. flush' # None
  <2> DEFINE todo == {PartitionOf[e] : e \in pending}
  <2>1. NoCounts \in [Partitions -> Counts]
    BY DEF NoCounts, Counts
  <2>2. todo \subseteq Partitions /\ pending \subseteq Events
    BY PartitionType DEF TypeOK
  <2> HIDE DEF todo, NoCounts
  <2>3. [by |-> t, step |-> "taken", events |-> pending, counts |-> NoCounts,
         created |-> FALSE, todo |-> todo] \in Flushes
    BY <2>1, <2>2 DEF Flushes
  <2> QED  BY <1>2, <2>3, NoneAssumption DEF todo
<1> HIDE DEF NoCounts
<1> QED  BY <1>2, <1>3 DEF Takes, TakeEvents, disk, memory, history, bounds

LEMMA CountsEffect ==
    ASSUME TypeOK, TakeCounts
    PROVE  /\ flush # None /\ flush' # None /\ flush'.step = "writing" /\ flush.step = "taken"
           /\ flush'.by = flush.by /\ flush'.events = flush.events /\ flush'.todo = flush.todo
           /\ UNCHANGED <<up, pending, parts, manifests, accepted, torn, crashes, tasks>>
<1> DEFINE taken == [p \in Partitions |-> IF p \in flush.todo THEN counts[p]
                                          ELSE NoCounts[p]]
<1>1. flush # None /\ flush \in Flushes /\ flush.step = "taken"
  BY FlushType DEF TakeCounts, Flushing
<1>2. taken \in [Partitions -> Counts]
  BY DEF TypeOK, NoCounts, Counts
<1>3. flush' = [flush EXCEPT !.step = "writing", !.counts = taken]
  BY DEF TakeCounts
<1> HIDE DEF taken
<1>4. flush' \in Flushes
  BY <1>1, <1>2, <1>3 DEF Flushes
<1> QED
  BY <1>1, <1>3, <1>4, NoneAssumption DEF TakeCounts, disk, history, bounds, Flushes

LEMMA PlaceEffect ==
    ASSUME TypeOK, PlacePart
    PROVE  /\ flush # None /\ flush' # None /\ flush'.step = "placed" /\ flush.step = "writing"
           /\ flush'.by = flush.by /\ flush'.events = flush.events /\ flush'.todo = flush.todo
           /\ flush'.created = (Rows \notin parts)
           /\ parts' = parts \cup {Rows} /\ Rows' = Rows
           /\ UNCHANGED <<up, pending, manifests, accepted, torn, crashes, tasks>>
<1> DEFINE new == Rows \notin parts
<1>1. flush # None /\ flush \in Flushes /\ flush.step = "writing"
  BY FlushType DEF PlacePart, Flushing
<1>2. flush' = [flush EXCEPT !.step = "placed", !.created = new]
  BY DEF PlacePart
<1>3. new \in BOOLEAN
  OBVIOUS
<1>4. /\ flush' \in Flushes /\ flush'.created = new /\ flush'.step = "placed"
      /\ flush'.by = flush.by /\ flush'.events = flush.events /\ flush'.todo = flush.todo
  <2> HIDE DEF new
  <2> QED  BY <1>1, <1>2, <1>3 DEF Flushes
<1>5. Rows' = Rows
  BY <1>4 DEF Rows, Writing, EventsIn
<1> QED
  BY <1>1, <1>4, <1>5, NoneAssumption DEF PlacePart, disk, memory, history, bounds

LEMMA ManifestEffect ==
    ASSUME TypeOK, FlushFits, WriteManifest
    PROVE  /\ flush # None /\ flush.step = "placed"
           /\ \A m \in manifests' : m \in manifests \/ m.rows = Rows
           /\ manifests \subseteq manifests'
           /\ \E m \in manifests' : m.rows = Rows
           /\ UNCHANGED <<up, pending, parts, accepted, torn, crashes>>
           /\ \/ /\ flush.todo = {Writing} /\ flush' = None
                 /\ tasks' = [tasks EXCEPT ![flush.by] = Returned(flush.by)]
              \/ /\ flush.todo # {Writing} /\ flush' # None /\ flush'.step = "writing"
                 /\ flush'.todo = flush.todo \ {Writing}
                 /\ flush'.by = flush.by /\ flush'.events = flush.events
                 /\ UNCHANGED tasks
<1>1. flush # None /\ flush \in Flushes /\ flush.step = "placed" /\ Writing \in flush.todo
  BY FlushType, WritingFits DEF WriteManifest, Flushing
<1>2. UNCHANGED <<up, pending, parts, accepted, torn, crashes>>
  BY DEF WriteManifest, memory, history, bounds
<1>3. /\ \A m \in manifests' : m \in manifests \/ m.rows = Rows
      /\ manifests \subseteq manifests'
      /\ \E m \in manifests' : m.rows = Rows
  <2>1. CASE \E m \in manifests : m.rows = Rows
    BY <2>1 DEF WriteManifest
  <2>2. CASE ~\E m \in manifests : m.rows = Rows
    <3> DEFINE new == [rows |-> Rows, dup |-> flush.counts[Writing].dup,
                       gap |-> flush.counts[Writing].gap]
    <3>1. manifests' = manifests \cup {new} /\ new.rows = Rows
      BY <2>2 DEF WriteManifest
    <3> HIDE DEF new
    <3> QED  BY <3>1
  <2> QED  BY <2>1, <2>2
<1>4. CASE flush.todo = {Writing}
  BY <1>1, <1>2, <1>3, <1>4 DEF WriteManifest
<1>5. CASE flush.todo # {Writing}
  <2> DEFINE rest == flush.todo \ {Writing}
  <2>1. rest # {}
    BY <1>1, <1>5
  <2>2. flush' = [flush EXCEPT !.step = "writing", !.todo = rest] /\ UNCHANGED tasks
    BY <2>1 DEF WriteManifest
  <2>3. rest \subseteq Partitions
    BY <1>1 DEF Flushes
  <2> HIDE DEF rest
  <2>4. /\ flush' \in Flushes /\ flush'.step = "writing" /\ flush'.todo = rest
        /\ flush'.by = flush.by /\ flush'.events = flush.events
    BY <1>1, <2>2, <2>3 DEF Flushes
  <2>5. flush' # None
    BY <2>4, NoneAssumption
  <2> QED  BY <1>1, <1>2, <1>3, <1>5, <2>2, <2>4, <2>5 DEF rest
<1> QED  BY <1>4, <1>5

LEMMA FailureEffect ==
    ASSUME TypeOK, FlushFails
    PROVE  /\ flush # None /\ flush' = None /\ flush.step \in {"writing", "placed"}
           /\ pending' = pending \cup flush.events
           /\ parts' = IF Placed /\ flush.created /\ ~HasManifest(Rows)
                       THEN parts \ {Rows} ELSE parts
           /\ torn' = (torn \/ WrittenBefore # {})
           /\ UNCHANGED <<up, manifests, accepted, crashes>>
           /\ flush.by = Final => tasks'[Final] = "failed"
           /\ \/ tasks' = [tasks EXCEPT ![flush.by] = "waiting"] /\ flush.by \in Streams
              \/ tasks' = [tasks EXCEPT ![flush.by] = "failed"] /\ flush.by \in {Periodic, Final}
<1>1. flush # None /\ flush.step \in {"writing", "placed"} /\ WriteFails /\ flush.by \in Tasks
  BY FailureType, FlushType
<1>2. UNCHANGED <<up, manifests, accepted, crashes>>
  BY DEF FlushFails, SocketFlushFails, OtherFlushFails
<1>3. \/ tasks' = [tasks EXCEPT ![flush.by] = "waiting"] /\ flush.by \in Streams
      \/ tasks' = [tasks EXCEPT ![flush.by] = "failed"] /\ flush.by \in {Periodic, Final}
  BY DEF FlushFails, SocketFlushFails, OtherFlushFails
<1>4. flush.by = Final => tasks'[Final] = "failed"
  BY <1>1, <1>3, BufferAssumption DEF TypeOK
<1>5. /\ parts' = IF Placed /\ flush.created /\ ~HasManifest(Rows)
                  THEN parts \ {Rows} ELSE parts
      /\ flush' = None /\ torn' = (torn \/ WrittenBefore # {})
      /\ pending' = pending \cup flush.events
  BY <1>1 DEF WriteFails, Restore, Placed, HasManifest
<1> QED  BY <1>1, <1>2, <1>3, <1>4, <1>5

LEMMA KeptGrows ==
    ASSUME TypeOK, FlushFits, WriteManifest
    PROVE  Kept' = Kept \cup Rows
<1>1. /\ \A m \in manifests' : m \in manifests \/ m.rows = Rows
      /\ manifests \subseteq manifests' /\ \E m \in manifests' : m.rows = Rows
  BY ManifestEffect
<1> HIDE DEF Rows
<1> QED  BY <1>1 DEF Kept, RowsOf

LEMMA KeptStays ==
    ASSUME UNCHANGED manifests PROVE Kept' = Kept
  BY DEF Kept, RowsOf

LEMMA AcceptEffect ==
    ASSUME NEW s \in Streams, NEW e \in Events, Accept(s, e)
    PROVE  /\ up /\ tasks[s] = "idle" /\ e \notin accepted
           /\ pending' = pending \cup {e} /\ accepted' = accepted \cup {e}
           /\ UNCHANGED <<up, flush, parts, manifests, torn, crashes>>
  BY DEF Accept, Reading, disk, bounds

LEMMA StepEvidence ==
    ASSUME TypeOK, EvidenceInv, [Next]_vars
    PROVE  EvidenceInv'
<1>1. FlushFits /\ OnlyAccepted
  BY DEF EvidenceInv
<1>2. CASE Untouched
  BY <1>1, <1>2, KeptStays
  DEF Untouched, EvidenceInv, FlushFits, OnlyAccepted, Held, Rows, Writing, EventsIn
<1>3. ASSUME NEW s \in Streams, NEW e \in Events, Accept(s, e)
      PROVE  EvidenceInv'
  <2>1. Kept' = Kept
    BY <1>3, AcceptEffect, KeptStays
  <2>2. FlushFits'
    <3>1. flush # None => e \notin flush.events
      BY <1>1, <1>3, AcceptEffect DEF OnlyAccepted, Held
    <3>2. UNCHANGED <<flush, parts>> /\ Rows' = Rows
      BY <1>3, AcceptEffect DEF Rows, Writing, EventsIn
    <3> QED  BY <1>1, <1>3, <2>1, <3>1, <3>2, AcceptEffect DEF FlushFits
  <2>3. OnlyAccepted'
    BY <1>1, <1>3, AcceptEffect DEF OnlyAccepted, Held
  <2> QED  BY <2>2, <2>3 DEF EvidenceInv
<1>4. ASSUME NEW t \in Tasks, Takes(t)
      PROVE  EvidenceInv'
  <2>1. FlushFits'
    <3>1. pending # {}
      BY <1>4 DEF Takes
    <3> QED  BY <1>4, <3>1, TakesEffect DEF FlushFits
  <2>2. OnlyAccepted'
    BY <1>1, <1>4, TakesEffect DEF OnlyAccepted, Held
  <2> QED  BY <2>1, <2>2 DEF EvidenceInv
<1>5. CASE TakeCounts
  <2>1. /\ flush # None /\ flush' # None
        /\ flush'.events = flush.events /\ flush'.todo = flush.todo
        /\ flush'.step = "writing" /\ UNCHANGED <<pending, parts, manifests, accepted>>
    BY <1>5, CountsEffect
  <2> QED  BY <1>1, <2>1, KeptStays DEF EvidenceInv, FlushFits, OnlyAccepted, Held
<1>6. CASE PlacePart
  <2>1. /\ flush # None /\ flush' # None
        /\ flush'.events = flush.events /\ flush'.todo = flush.todo
        /\ parts' = parts \cup {Rows} /\ UNCHANGED <<pending, manifests, accepted>>
        /\ Rows' = Rows
    BY <1>6, PlaceEffect
  <2>2. FlushFits'
    BY <1>1, <2>1, KeptStays DEF FlushFits
  <2>3. Rows \subseteq accepted
    BY <1>1, <2>1, WritingFits DEF OnlyAccepted, Held
  <2>4. OnlyAccepted'
    <3> HIDE DEF Rows
    <3> QED  BY <1>1, <2>1, <2>3 DEF OnlyAccepted, Held
  <2> QED  BY <2>2, <2>4 DEF EvidenceInv
<1>7. CASE WriteManifest
  <2>1. Kept' = Kept \cup Rows /\ Rows \in parts
    BY <1>1, <1>7, KeptGrows, ManifestEffect DEF FlushFits
  <2>2. FlushFits'
    <3>1. CASE flush' = None
      BY <3>1 DEF FlushFits
    <3>2. CASE flush' # None
      <4>1. /\ flush # None /\ flush.todo # {Writing} /\ flush'.todo = flush.todo \ {Writing}
            /\ flush'.events = flush.events /\ pending' = pending
            /\ flush'.step = "writing"
        BY <1>1, <1>7, <3>2, ManifestEffect
      <4>2. Writing \in flush.todo
        BY <1>1, <4>1, WritingFits
      <4>3. \A e \in flush.events : PartitionOf[e] = Writing => e \in Rows
        BY DEF Rows, EventsIn
      <4> HIDE DEF Rows, Writing
      <4> QED  BY <1>1, <2>1, <4>1, <4>2, <4>3 DEF FlushFits
    <3> QED  BY <3>1, <3>2
  <2>3. OnlyAccepted'
    <3>1. /\ \A m \in manifests' : m \in manifests \/ m.rows = Rows
          /\ UNCHANGED <<pending, parts, accepted>>
      BY <1>1, <1>7, ManifestEffect
    <3>2. Held' \subseteq Held
      BY <1>1, <1>7, ManifestEffect DEF Held
    <3> HIDE DEF Rows
    <3> QED  BY <1>1, <2>1, <3>1, <3>2 DEF OnlyAccepted
  <2> QED  BY <2>2, <2>3 DEF EvidenceInv
<1>8. CASE FlushFails
  <2>1. /\ flush # None /\ flush' = None /\ pending' = pending \cup flush.events
        /\ parts' \subseteq parts /\ UNCHANGED <<manifests, accepted>>
        /\ ~HasManifest(Rows) => parts \ {Rows} \subseteq parts'
        /\ HasManifest(Rows) => parts' = parts
    BY <1>8, FailureEffect
  <2>2. FlushFits'
    BY <2>1 DEF FlushFits
  <2>3. OnlyAccepted'
    <3> HIDE DEF Rows
    <3> QED  BY <1>1, <2>1 DEF OnlyAccepted, Held, HasManifest
  <2> QED  BY <2>2, <2>3 DEF EvidenceInv
<1>9. CASE Leaves
  <2>1. pending' = {} /\ flush' = None /\ UNCHANGED <<parts, manifests, accepted>>
    BY <1>9, GoDownType DEF Leaves
  <2> QED  BY <1>1, <2>1 DEF EvidenceInv, FlushFits, OnlyAccepted, Held
<1> QED
  BY <1>2, <1>3, <1>4, <1>5, <1>6, <1>7, <1>8, <1>9, Steps DEF FlushStep
-----------------------------------------------------------------------------
(* The archive *)

LEMMA RowsAreTodo ==
    ASSUME TypeOK, FlushFits, flush # None
    PROVE  /\ Rows \subseteq Todo
           /\ \A e \in Todo : PartitionOf[e] = Writing <=> e \in Rows
  BY WritingFits DEF Todo, Rows, EventsIn

LEMMA StepArchive ==
    ASSUME TypeOK, EvidenceInv, ArchiveInv, [Next]_vars
    PROVE  ArchiveInv'
<1>1. /\ FlushFits /\ OnlyAccepted /\ PlacedFits /\ WaitingIsNew
      /\ EveryPartHasManifest /\ NoEventTwice
  BY DEF EvidenceInv, ArchiveInv, ArchivedOnce
<1>2. CASE Untouched
  <2>1. UNCHANGED <<pending, flush, parts, manifests, torn, crashes, Rows, Todo>>
    BY <1>2 DEF Untouched, Rows, Writing, EventsIn, Todo
  <2>2. PlacedFits' /\ WaitingIsNew'
    BY <1>1, <2>1 DEF PlacedFits, WaitingIsNew, Placed, HasManifest
  <2>3. EveryPartHasManifest' /\ NoEventTwice'
    BY <1>1, <2>1 DEF EveryPartHasManifest, NoEventTwice
  <2> QED  BY <2>2, <2>3 DEF ArchiveInv, ArchivedOnce
<1>3. ASSUME NEW s \in Streams, NEW e \in Events, Accept(s, e)
      PROVE  ArchiveInv'
  <2>1. /\ UNCHANGED <<flush, parts, manifests, torn, crashes, Rows, Todo>>
        /\ pending' = pending \cup {e}
    BY <1>3, AcceptEffect DEF Rows, Writing, EventsIn, Todo
  <2>2. \A rows \in parts : e \notin rows
    BY <1>1, <1>3, AcceptEffect DEF OnlyAccepted
  <2>3. PlacedFits' /\ WaitingIsNew'
    BY <1>1, <2>1, <2>2 DEF PlacedFits, WaitingIsNew, Placed, HasManifest
  <2>4. EveryPartHasManifest' /\ NoEventTwice'
    BY <1>1, <2>1 DEF EveryPartHasManifest, NoEventTwice
  <2> QED  BY <2>3, <2>4 DEF ArchiveInv, ArchivedOnce
<1>4. ASSUME NEW t \in Tasks, Takes(t)
      PROVE  ArchiveInv'
  <2>1. /\ flush = None /\ flush'.step = "taken" /\ pending' = {}
        /\ flush'.events = pending /\ UNCHANGED <<parts, manifests, torn, crashes>>
    BY <1>4, TakesEffect
  <2>2. Todo' \subseteq pending
    BY <2>1 DEF Todo
  <2>3. PlacedFits' /\ WaitingIsNew'
    BY <1>1, <2>1, <2>2 DEF PlacedFits, WaitingIsNew, Placed
  <2>4. EveryPartHasManifest' /\ NoEventTwice'
    BY <1>1, <2>1 DEF EveryPartHasManifest, NoEventTwice
  <2> QED  BY <2>3, <2>4 DEF ArchiveInv, ArchivedOnce
<1>5. CASE TakeCounts
  <2>1. /\ flush # None /\ flush' # None
        /\ flush'.step = "writing" /\ flush.step = "taken"
        /\ flush'.events = flush.events /\ flush'.todo = flush.todo
        /\ UNCHANGED <<pending, parts, manifests, torn, crashes>>
    BY <1>5, CountsEffect
  <2>2. Todo' = Todo
    BY <2>1 DEF Todo
  <2>3. PlacedFits' /\ WaitingIsNew'
    BY <1>1, <2>1, <2>2 DEF PlacedFits, WaitingIsNew, Placed
  <2>4. EveryPartHasManifest' /\ NoEventTwice'
    BY <1>1, <2>1 DEF EveryPartHasManifest, NoEventTwice
  <2> QED  BY <2>3, <2>4 DEF ArchiveInv, ArchivedOnce
<1>6. CASE PlacePart
  <2>1. /\ flush # None /\ flush' # None
        /\ flush'.step = "placed" /\ flush.step = "writing"
        /\ flush'.events = flush.events /\ flush'.todo = flush.todo
        /\ flush'.created = (Rows \notin parts)
        /\ parts' = parts \cup {Rows} /\ Rows' = Rows
        /\ UNCHANGED <<pending, manifests, torn, crashes>>
    BY <1>6, PlaceEffect
  <2>2. Todo' = Todo /\ Rows \subseteq Todo /\ Rows # {}
    BY <1>1, <2>1, RowsAreTodo, WritingFits DEF Todo
  <2> HIDE DEF Rows
  <2>3. ~torn => \A e \in pending \cup Todo, rows \in parts : e \notin rows
    BY <1>1, <2>1 DEF WaitingIsNew, Placed
  <2>4. PlacedFits'
    <3>1. Rows \notin parts => ~HasManifest(Rows)
      BY <1>1 DEF OnlyAccepted, HasManifest
    <3>2. Rows \in parts /\ crashes = 0 => HasManifest(Rows)
      BY <1>1, <2>1 DEF EveryPartHasManifest, HasManifest
    <3>3. ~torn => Rows \notin parts
      BY <2>2, <2>3
    <3> QED  BY <2>1, <3>1, <3>2, <3>3 DEF PlacedFits, Placed, HasManifest
  <2>5. WaitingIsNew'
    BY <2>1, <2>2, <2>3 DEF WaitingIsNew, Placed
  <2>6. EveryPartHasManifest'
    BY <1>1, <2>1 DEF EveryPartHasManifest
  <2>7. NoEventTwice'
    BY <1>1, <2>1, <2>2, <2>3 DEF NoEventTwice
  <2> QED  BY <2>4, <2>5, <2>6, <2>7 DEF ArchiveInv, ArchivedOnce
<1>7. CASE WriteManifest
  <2>1. /\ flush # None /\ flush.step = "placed"
        /\ manifests \subseteq manifests' /\ \E m \in manifests' : m.rows = Rows
        /\ UNCHANGED <<pending, parts, torn, crashes>>
        /\ ~Placed'
    BY <1>1, <1>7, ManifestEffect DEF Placed
  <2>2. Todo' \subseteq Todo \ Rows
    <3>1. CASE flush' = None
      BY <3>1 DEF Todo
    <3>2. CASE flush' # None
      <4>1. flush'.todo = flush.todo \ {Writing} /\ flush'.events = flush.events
        BY <1>1, <1>7, <3>2, ManifestEffect
      <4>2. \A e \in Todo : e \in Rows => PartitionOf[e] = Writing
        BY <1>1, <2>1, RowsAreTodo
      <4> HIDE DEF Rows, Writing
      <4> QED  BY <2>1, <3>2, <4>1, <4>2 DEF Todo
    <3> QED  BY <3>1, <3>2
  <2>3. pending \cap Rows = {}
    BY <1>1, <2>1, WritingFits DEF FlushFits
  <2> HIDE DEF Rows
  <2>4. PlacedFits' /\ WaitingIsNew'
    BY <1>1, <2>1, <2>2, <2>3 DEF PlacedFits, WaitingIsNew
  <2>5. EveryPartHasManifest' /\ NoEventTwice'
    BY <1>1, <2>1 DEF EveryPartHasManifest, NoEventTwice
  <2> QED  BY <2>4, <2>5 DEF ArchiveInv, ArchivedOnce
<1>8. CASE FlushFails
  <2>1. /\ flush # None /\ flush' = None /\ pending' = pending \cup flush.events
        /\ parts' = IF Placed /\ flush.created /\ ~HasManifest(Rows)
                    THEN parts \ {Rows} ELSE parts
        /\ torn' = (torn \/ WrittenBefore # {}) /\ UNCHANGED <<manifests, crashes>>
    BY <1>8, FailureEffect
  <2>2. torn \in BOOLEAN
    BY DEF TypeOK
  <2>3. ~torn' => ~torn /\ flush.events = Todo
    BY <2>1, <2>2 DEF WrittenBefore, Todo
  <2> HIDE DEF Rows
  <2>4. ~Placed' /\ Todo' = {}
    BY <2>1 DEF Placed, Todo
  <2>5. PlacedFits'
    BY <2>4 DEF PlacedFits
  <2>6. WaitingIsNew'
    <3>1. CASE torn'
      BY <3>1 DEF WaitingIsNew
    <3>2. CASE ~torn' /\ ~Placed
      BY <1>1, <2>1, <2>3, <2>4, <3>2 DEF WaitingIsNew
    <3>3. CASE ~torn' /\ Placed
      <4>1. parts' = parts \ {Rows}
        BY <1>1, <2>1, <2>3, <3>3 DEF PlacedFits
      <4> QED  BY <1>1, <2>1, <2>3, <2>4, <3>3, <4>1 DEF WaitingIsNew
    <3> QED  BY <3>1, <3>2, <3>3
  <2>7. EveryPartHasManifest'
    BY <1>1, <2>1 DEF EveryPartHasManifest, PlacedFits, Placed, HasManifest
  <2>8. NoEventTwice'
    <3>1. parts' \subseteq parts
      BY <2>1
    <3> QED  BY <1>1, <2>3, <3>1 DEF NoEventTwice
  <2> QED  BY <2>5, <2>6, <2>7, <2>8 DEF ArchiveInv, ArchivedOnce
<1>9. CASE Leaves
  <2>1. /\ pending' = {} /\ flush' = None /\ UNCHANGED <<parts, manifests, torn>>
        /\ (flush = None /\ crashes' = crashes) \/ crashes' = crashes + 1
    BY <1>9, GoDownType DEF Leaves
  <2>2. Todo' = {} /\ ~Placed'
    BY <2>1 DEF Todo, Placed
  <2>3. crashes \in Nat
    BY DEF TypeOK
  <2>4. PlacedFits' /\ WaitingIsNew'
    BY <2>1, <2>2 DEF PlacedFits, WaitingIsNew
  <2>5. EveryPartHasManifest' /\ NoEventTwice'
    BY <1>1, <2>1, <2>3 DEF EveryPartHasManifest, NoEventTwice
  <2> QED  BY <2>4, <2>5 DEF ArchiveInv, ArchivedOnce
<1> QED
  BY <1>2, <1>3, <1>4, <1>5, <1>6, <1>7, <1>8, <1>9, Steps DEF FlushStep
-----------------------------------------------------------------------------
(* The tasks *)

LEMMA TaskNames ==
    /\ Final \in Tasks /\ Periodic \in Tasks /\ Final # Periodic
    /\ Streams \subseteq Tasks /\ Final \notin Streams /\ Periodic \notin Streams
  BY BufferAssumption DEF Tasks, Final, Periodic

(* A task that is at work, so that the final flush has not begun.          *)
LEMMA WorkingTask ==
    ASSUME TypeOK, TasksInv, NEW t \in Tasks, t # Final, tasks[t] \in {"idle", "waiting"},
           tasks' \in [Tasks -> TaskStates], \A u \in Tasks \ {t} : tasks'[u] = tasks[u],
           tasks'[t] # "failed", flush' = flush
    PROVE  TasksInv'
<1>1. FlusherWaits /\ FinalIsAlone /\ FinalIsEmpty
  BY DEF TasksInv
<1>2. flush # None => flush.by \in Tasks /\ flush.by # t
  BY <1>1, FlushType DEF FlusherWaits
<1>3. tasks[Periodic] = "failed" \/ tasks[Final] = "idle"
  BY <1>1 DEF FinalIsAlone
<1>4. FlusherWaits'
  BY <1>1, <1>2 DEF FlusherWaits
<1>5. FinalIsAlone'
  BY <1>1, <1>3, TaskNames DEF FinalIsAlone
<1>6. FinalIsEmpty'
  <2>1. CASE tasks[Periodic] = "failed"
    BY <2>1, TaskNames DEF FinalIsEmpty
  <2>2. CASE tasks[Final] = "idle"
    BY <1>4, <2>2, TaskNames DEF FinalIsEmpty, FlusherWaits
  <2> QED  BY <1>3, <2>1, <2>2
<1> QED  BY <1>4, <1>5, <1>6 DEF TasksInv

(* The task whose flush has returned.                                      *)
LEMMA ReturningTask ==
    ASSUME TypeOK, TasksInv, NEW t \in Tasks, tasks[t] = "flushing",
           tasks' = [tasks EXCEPT ![t] = Returned(t)], flush' = None,
           t = Final /\ tasks[Periodic] # "failed" => pending' = {},
           t # Final => pending' = pending
    PROVE  TasksInv'
<1>1. FlusherWaits /\ FinalIsAlone /\ FinalIsEmpty /\ tasks \in [Tasks -> TaskStates]
  BY DEF TasksInv, TypeOK
<1>2. /\ \A u \in Tasks \ {t} : tasks'[u] = tasks[u]
      /\ tasks'[t] = IF t = Final THEN "done" ELSE "idle"
  BY <1>1 DEF Returned
<1>3. t = Periodic => tasks'[Periodic] # "failed" /\ tasks[Periodic] # "failed"
  BY <1>2, TaskNames
<1>4. FinalIsAlone'
  BY <1>1, <1>2, TaskNames DEF FinalIsAlone
<1>5. FinalIsEmpty'
  BY <1>1, <1>2, <1>3, TaskNames DEF FinalIsEmpty
<1> QED  BY <1>4, <1>5 DEF TasksInv, FlusherWaits

LEMMA StepTasks ==
    ASSUME TypeOK, FlushFits, TasksInv, [Next]_vars
    PROVE  TasksInv'
<1> USE DEF disk, memory, history, bounds
<1>1. /\ FlusherWaits /\ FinalIsAlone /\ FinalIsEmpty
      /\ tasks \in [Tasks -> TaskStates] /\ tasks' \in [Tasks -> TaskStates]
  BY StepType DEF TasksInv, TypeOK
<1>2. ASSUME NEW s \in Streams, Receive(s)
      PROVE  TasksInv'
  <2>1. flush' = flush /\ tasks[s] \in {"idle", "waiting"}
    BY <1>2 DEF Receive, Accept, Duplicate, OutOfOrder, Disconnect, Reconnect, Reading
  <2>2. /\ tasks'[s] \in {"idle", "waiting", "flushing"}
        /\ \A t \in Tasks \ {s} : tasks'[t] = tasks[t]
    <3>1. CASE AfterMessage(s)
      BY <2>1, <3>1, AfterMessageType
    <3>2. CASE Disconnect(s) \/ Reconnect(s)
      BY <1>1, <3>2, TaskNames DEF Disconnect, Reconnect
    <3> QED  BY <1>2, <3>1, <3>2 DEF Receive, Accept, Duplicate, OutOfOrder
  <2>3. s \in Tasks /\ s # Final
    BY TaskNames
  <2> QED  BY <1>1, <2>1, <2>2, <2>3, WorkingTask
<1>3. CASE PeriodicFlush
  <2>1. /\ flush' = flush /\ tasks[Periodic] = "idle"
        /\ tasks' = [tasks EXCEPT ![Periodic] = "flushing"]
    BY <1>3 DEF PeriodicFlush
  <2> QED  BY <1>1, <2>1, TaskNames, WorkingTask
<1>4. ASSUME NEW t \in Tasks, TaskEnds(t)
      PROVE  TasksInv'
  <2>1. /\ flush' = flush /\ tasks[t] \in {"idle", "waiting"} /\ t # Final
        /\ tasks' = [tasks EXCEPT ![t] = "done"]
    BY <1>4 DEF TaskEnds
  <2> QED  BY <1>1, <2>1, WorkingTask
<1>5. CASE FinalFlush
  <2>1. /\ tasks[Final] = "idle" /\ Gathered /\ UNCHANGED <<flush, pending>>
        /\ tasks' = [tasks EXCEPT ![Final] = "flushing"]
    BY <1>5 DEF FinalFlush
  <2>2. \A t \in Tasks \ {Final} : tasks'[t] = tasks[t]
    BY <1>1, <2>1
  <2>3. flush # None => flush.by \in Tasks \ {Final}
    BY <1>1, <2>1, FlushType DEF FlusherWaits
  <2>4. FlusherWaits' /\ FinalIsEmpty'
    BY <1>1, <2>1, <2>2, <2>3, TaskNames DEF FlusherWaits, FinalIsEmpty
  <2>5. FinalIsAlone'
    BY <2>1, <2>2, TaskNames DEF FinalIsAlone, Gathered
  <2> QED  BY <2>4, <2>5 DEF TasksInv
<1>6. CASE RequestStop \/ Start \/ UNCHANGED vars
  <2>1. UNCHANGED <<tasks, flush, pending>>
    BY <1>6 DEF RequestStop, Start, vars
  <2> QED  BY <1>1, <2>1 DEF TasksInv, FlusherWaits, FinalIsAlone, FinalIsEmpty
<1>7. ASSUME NEW t \in Tasks, TakeEvents(t)
      PROVE  TasksInv'
  <2>1. CASE pending = {}
    <3>1. /\ tasks[t] = "flushing" /\ tasks' = [tasks EXCEPT ![t] = Returned(t)]
          /\ flush = None /\ UNCHANGED <<pending, flush>>
      BY <1>7, <2>1 DEF TakeEvents
    <3> QED  BY <2>1, <3>1, ReturningTask
  <2>2. CASE pending # {}
    <3>1. Takes(t)
      BY <1>7, <2>2 DEF Takes
    <3>2. flush'.by = t /\ tasks[t] = "flushing" /\ pending' = {} /\ tasks' = tasks
      BY <3>1, TakesEffect
    <3> QED  BY <1>1, <3>2 DEF TasksInv, FlusherWaits, FinalIsAlone, FinalIsEmpty
  <2> QED  BY <2>1, <2>2
<1>8. CASE TakeCounts \/ PlacePart
  <2>1. flush # None /\ flush'.by = flush.by /\ UNCHANGED <<pending, tasks>>
    BY <1>8, CountsEffect, PlaceEffect
  <2> QED  BY <1>1, <2>1 DEF TasksInv, FlusherWaits, FinalIsAlone, FinalIsEmpty
<1>9. CASE WriteManifest
  <2>1. flush # None /\ flush.by \in Tasks /\ tasks[flush.by] = "flushing" /\ pending' = pending
    BY <1>1, <1>9, ManifestEffect, FlushType DEF FlusherWaits
  <2>2. CASE flush' = None /\ tasks' = [tasks EXCEPT ![flush.by] = Returned(flush.by)]
    <3>1. flush.by = Final /\ tasks[Periodic] # "failed" => pending' = {}
      BY <1>1, <2>1 DEF FinalIsEmpty
    <3> QED  BY <2>1, <2>2, <3>1, ReturningTask
  <2>3. CASE flush' # None /\ flush'.by = flush.by /\ UNCHANGED tasks
    BY <1>1, <2>1, <2>3 DEF TasksInv, FlusherWaits, FinalIsAlone, FinalIsEmpty
  <2> QED  BY <1>9, <2>2, <2>3, ManifestEffect
<1>10. CASE FlushFails
  <2>1. /\ flush # None /\ flush' = None /\ flush.by \in Tasks
        /\ tasks[flush.by] = "flushing"
    BY <1>1, <1>10, FailureEffect, FlushType DEF FlusherWaits
  <2>2. \A t \in Tasks \ {flush.by} : tasks'[t] = tasks[t]
    BY <1>1, <1>10, <2>1, FailureEffect
  <2>3. CASE flush.by \in Streams
    <3>1. tasks[Periodic] = "failed" \/ tasks[Final] = "idle"
      BY <1>1, <2>1, <2>3, TaskNames DEF FinalIsAlone
    <3>2. tasks'[Periodic] = tasks[Periodic] /\ tasks'[Final] = tasks[Final]
      BY <2>2, <2>3, TaskNames
    <3> QED  BY <2>1, <3>1, <3>2 DEF TasksInv, FlusherWaits, FinalIsAlone, FinalIsEmpty
  <2>4. CASE flush.by = Periodic
    <3>1. tasks'[Periodic] = "failed"
      BY <1>1, <1>10, <2>1, <2>4, FailureEffect, TaskNames
    <3> QED  BY <2>1, <3>1 DEF TasksInv, FlusherWaits, FinalIsAlone, FinalIsEmpty
  <2>5. CASE flush.by = Final
    <3>1. tasks'[Final] = "failed" /\ tasks'[Periodic] = tasks[Periodic]
      BY <1>10, <2>2, <2>5, FailureEffect, TaskNames
    <3>2. FinalIsAlone'
      BY <1>1, <2>1, <2>2, <2>5, <3>1, TaskNames DEF FinalIsAlone
    <3> QED  BY <2>1, <3>1, <3>2 DEF TasksInv, FlusherWaits, FinalIsEmpty
  <2> QED  BY <2>1, <2>3, <2>4, <2>5 DEF Tasks
<1>11. CASE End \/ Crash
  <2>1. GoDown
    BY <1>11 DEF End, Crash
  <2>2. flush' = None /\ \A t \in Tasks : tasks'[t] = "idle"
    BY <2>1, GoDownType
  <2> QED  BY <2>2, TaskNames DEF TasksInv, FlusherWaits, FinalIsAlone, FinalIsEmpty
<1> QED
  BY <1>2, <1>3, <1>4, <1>5, <1>6, <1>7, <1>8, <1>9, <1>10, <1>11 DEF Next, FlushStep
-----------------------------------------------------------------------------
(* Sums *)

(* The counts of a manifest, as functions.                                 *)
GapCount == [m \in Manifests |-> m.gap]
DupCount == [m \in Manifests |-> m.dup]

GapSum(S) == MapThenSumSet(LAMBDA m : m.gap, S)
DupSum(S) == MapThenSumSet(LAMBDA m : m.dup, S)

(* A sum over a finite set takes out one element after the other.  What it *)
(* is does not depend on their order, as shown from a smallest set for     *)
(* which it would.                                                         *)
Pick(S) == CHOOSE x \in S : TRUE

Follows(g, fn, S) ==
    g = [s \in SUBSET S |-> IF s = {} THEN 0 ELSE fn[Pick(s)] + g[s \ {Pick(s)}]]

Partial(fn, S) == CHOOSE g : Follows(g, fn, S)
Total(fn, S) == Partial(fn, S)[S]

LEMMA MinimalSet ==
    ASSUME NEW S, IsFiniteSet(S), NEW Bad \in SUBSET SUBSET S, Bad # {}
    PROVE  \E U \in Bad : \A V \in Bad : V \subseteq U => V = U
<1> DEFINE Sizes == {Cardinality(U) : U \in Bad}
<1>1. \A U \in Bad : IsFiniteSet(U) /\ Cardinality(U) \in Nat
  BY FS_Subset, FS_CardinalityType
<1>2. IsWellFoundedOn(OpToRel(<, Nat), Nat)
  BY NatLessThanWellFounded
<1>3. Sizes \subseteq Nat /\ Sizes # {}
  BY <1>1
<1> HIDE DEF Sizes
<1>4. PICK n \in Sizes : \A m \in Sizes : ~(<<m, n>> \in OpToRel(<, Nat))
  BY <1>2, <1>3, WFMin
<1>5. \A m \in Sizes : ~(m < n)
  BY <1>3, <1>4 DEF OpToRel
<1>6. PICK U \in Bad : n = Cardinality(U)
  BY DEF Sizes
<1>7. ASSUME NEW V \in Bad, V \subseteq U, V # U
      PROVE  FALSE
  <2>1. IsFiniteSet(U) /\ Cardinality(V) <= Cardinality(U)
        /\ (Cardinality(U) = Cardinality(V) => U = V)
    BY <1>1, <1>7, FS_Subset
  <2>2. Cardinality(V) \in Sizes
    BY DEF Sizes
  <2>3. Cardinality(V) \in Nat /\ Cardinality(U) \in Nat
    BY <1>1
  <2>4. ~(Cardinality(V) < Cardinality(U))
    BY <2>2, <1>5, <1>6
  <2> QED  BY <2>1, <2>3, <2>4, <1>7
<1> QED  BY <1>6, <1>7

LEMMA PickIn == ASSUME NEW S, S # {} PROVE Pick(S) \in S
BY DEF Pick

LEMMA PartialsAgree ==
    ASSUME NEW fn, NEW S, NEW T, NEW g, NEW h, Follows(g, fn, S), Follows(h, fn, T),
           NEW V, IsFiniteSet(V), V \subseteq S, V \subseteq T
    PROVE  g[V] = h[V]
<1> DEFINE Bad == {U \in SUBSET V : g[U] # h[U]}
<1>1. ASSUME Bad # {} PROVE FALSE
  <2>1. PICK U \in Bad : \A W \in Bad : W \subseteq U => W = U
    <3>1. Bad \in SUBSET SUBSET V
      OBVIOUS
    <3> HIDE DEF Bad
    <3> QED  BY <1>1, <3>1, MinimalSet
  <2>2. \A W \in SUBSET V : W \in SUBSET S /\ W \in SUBSET T
    OBVIOUS
  <2>3. \A W \in SUBSET V : g[W] = IF W = {} THEN 0 ELSE fn[Pick(W)] + g[W \ {Pick(W)}]
    BY <2>2 DEF Follows
  <2>4. \A W \in SUBSET V : h[W] = IF W = {} THEN 0 ELSE fn[Pick(W)] + h[W \ {Pick(W)}]
    BY <2>2 DEF Follows
  <2>5. U # {}
    BY <2>3, <2>4
  <2>6. Pick(U) \in U
    BY <2>5, PickIn
  <2>7. U \ {Pick(U)} \in SUBSET V /\ U \ {Pick(U)} # U
    BY <2>6
  <2>8. g[U \ {Pick(U)}] = h[U \ {Pick(U)}]
    BY <2>1, <2>7
  <2> QED  BY <2>3, <2>4, <2>5, <2>8
<1>2. V \in SUBSET V
  OBVIOUS
<1> QED  BY <1>1, <1>2

LEMMA PartialFollows ==
    ASSUME NEW fn, NEW S, IsFiniteSet(S)
    PROVE  Follows(Partial(fn, S), fn, S)
<1> DEFINE Bad == {U \in SUBSET S : ~ \E g : Follows(g, fn, U)}
<1>1. ASSUME Bad # {} PROVE FALSE
  <2>1. PICK U \in Bad : \A W \in Bad : W \subseteq U => W = U
    <3>1. Bad \in SUBSET SUBSET S
      OBVIOUS
    <3> HIDE DEF Bad
    <3> QED  BY <1>1, <3>1, MinimalSet
  <2>2. \A W \in SUBSET U : W # U => Follows(Partial(fn, W), fn, W)
    BY <2>1 DEF Partial
  <2> DEFINE E(V) == Partial(fn, V)[V]
             G == [s \in SUBSET U |-> IF s = {} THEN 0 ELSE fn[Pick(s)] + E(s \ {Pick(s)})]
  <2>3. ASSUME NEW s \in SUBSET U, s # {}
        PROVE  G[s \ {Pick(s)}] = E(s \ {Pick(s)})
    <3> DEFINE v == s \ {Pick(s)}
    <3>1. Pick(s) \in s
      BY <2>3, PickIn
    <3>2. v \in SUBSET U /\ v # U
      BY <3>1
    <3>3. Follows(Partial(fn, v), fn, v)
      BY <2>2, <3>2
    <3>4. E(v) = IF v = {} THEN 0 ELSE fn[Pick(v)] + Partial(fn, v)[v \ {Pick(v)}]
      <4>1. v \in SUBSET v
        OBVIOUS
      <4> HIDE DEF v
      <4> QED  BY <3>3, <4>1 DEF Follows
    <3>5. ASSUME v # {} PROVE Partial(fn, v)[v \ {Pick(v)}] = E(v \ {Pick(v)})
      <4>1. v \ {Pick(v)} \in SUBSET U /\ v \ {Pick(v)} # U
        BY <3>2
      <4>2. Follows(Partial(fn, v \ {Pick(v)}), fn, v \ {Pick(v)})
        BY <2>2, <4>1
      <4>3. IsFiniteSet(v \ {Pick(v)})
        BY <4>1, FS_Subset
      <4> HIDE DEF v
      <4> QED  BY <3>3, <4>2, <4>3, PartialsAgree
    <3>6. G[v] = IF v = {} THEN 0 ELSE fn[Pick(v)] + E(v \ {Pick(v)})
      BY <3>2
    <3> HIDE DEF v, E, G
    <3>7. G[v] = E(v)
      BY <3>4, <3>5, <3>6
    <3> QED  BY <3>7 DEF v
  <2>4. Follows(G, fn, U)
    <3>1. \A s \in SUBSET U : (IF s = {} THEN 0 ELSE fn[Pick(s)] + E(s \ {Pick(s)}))
                               = (IF s = {} THEN 0 ELSE fn[Pick(s)] + G[s \ {Pick(s)}])
      <4> HIDE DEF G, E
      <4> QED  BY <2>3
    <3> HIDE DEF E
    <3>2. G = [s \in SUBSET U |-> IF s = {} THEN 0 ELSE fn[Pick(s)] + G[s \ {Pick(s)}]]
      BY <3>1
    <3> HIDE DEF G
    <3> QED  BY <3>2 DEF Follows
  <2> HIDE DEF G
  <2> QED  BY <2>1, <2>4
<1>2. S \in SUBSET S
  OBVIOUS
<1>3. \E g : Follows(g, fn, S)
  BY <1>1, <1>2
<1> QED  BY <1>3 DEF Partial

(* The sum of no values, and of some.                                      *)
LEMMA SumOfNone == ASSUME NEW fn PROVE Total(fn, {}) = 0
<1>1. Follows(Partial(fn, {}), fn, {})
  BY PartialFollows, FS_EmptySet
<1>2. Partial(fn, {})[{}] = 0
  BY <1>1 DEF Follows
<1> QED  BY <1>2 DEF Total

LEMMA SumByPick ==
    ASSUME NEW fn, NEW S, IsFiniteSet(S), S # {}
    PROVE  Total(fn, S) = fn[Pick(S)] + Total(fn, S \ {Pick(S)})
<1>1. Follows(Partial(fn, S), fn, S)
  BY PartialFollows
<1>2. S \in SUBSET S
  OBVIOUS
<1>3. Partial(fn, S)[S] = fn[Pick(S)] + Partial(fn, S)[S \ {Pick(S)}]
  BY <1>1, <1>2 DEF Follows
<1>4. IsFiniteSet(S \ {Pick(S)})
  BY FS_Subset
<1>5. Follows(Partial(fn, S \ {Pick(S)}), fn, S \ {Pick(S)})
  BY <1>4, PartialFollows
<1>6. Partial(fn, S)[S \ {Pick(S)}] = Partial(fn, S \ {Pick(S)})[S \ {Pick(S)}]
  BY <1>1, <1>4, <1>5, PartialsAgree
<1> QED  BY <1>3, <1>6 DEF Total

LEMMA SumType ==
    ASSUME NEW S, IsFiniteSet(S), NEW fn, \A x \in S : fn[x] \in Nat
    PROVE  Total(fn, S) \in Nat
<1> DEFINE Bad == {U \in SUBSET S : Total(fn, U) \notin Nat}
<1>1. ASSUME Bad # {} PROVE FALSE
  <2>1. PICK U \in Bad : \A W \in Bad : W \subseteq U => W = U
    <3>1. Bad \in SUBSET SUBSET S
      OBVIOUS
    <3> HIDE DEF Bad
    <3> QED  BY <1>1, <3>1, MinimalSet
  <2>2. U # {}
    BY SumOfNone
  <2>3. Pick(U) \in U
    BY <2>2, PickIn
  <2>4. IsFiniteSet(U)
    BY FS_Subset
  <2>5. Total(fn, U \ {Pick(U)}) \in Nat
    BY <2>1, <2>3
  <2> QED  BY <2>2, <2>3, <2>4, <2>5, SumByPick
<1> QED  BY <1>1

(* Any value can be taken out first.                                       *)

LEMMA SumByPart ==
    ASSUME NEW S, IsFiniteSet(S), NEW fn, \A x \in S : fn[x] \in Nat, NEW x \in S
    PROVE  Total(fn, S) = fn[x] + Total(fn, S \ {x})
<1> DEFINE Sum(U) == Total(fn, U)
           Bad == {U \in SUBSET S : \E y \in U : Sum(U) # fn[y] + Sum(U \ {y})}
<1>0. \A U \in SUBSET S : IsFiniteSet(U) /\ Sum(U) \in Nat
  BY FS_Subset, SumType
<1>1. \A U \in SUBSET S : U # {} => Sum(U) = fn[Pick(U)] + Sum(U \ {Pick(U)})
  BY <1>0, SumByPick
<1>2. Bad \in SUBSET SUBSET S
  OBVIOUS
<1>3. ASSUME Bad # {} PROVE FALSE
  <2>1. PICK U \in Bad : \A W \in Bad : W \subseteq U => W = U
    <3> HIDE DEF Bad
    <3> QED  BY <1>2, <1>3, MinimalSet
  <2>2. PICK y \in U : Sum(U) # fn[y] + Sum(U \ {y})
    OBVIOUS
  <2> DEFINE p == Pick(U)
  <2>3. p \in U /\ Sum(U) = fn[p] + Sum(U \ {p})
    BY <1>1, PickIn
  <2> HIDE DEF p
  <2>4. p # y
    BY <2>2, <2>3
  <2>5. Sum(U \ {p}) = fn[y] + Sum((U \ {p}) \ {y})
    BY <2>1, <2>3, <2>4
  <2>6. Sum(U \ {y}) = fn[p] + Sum((U \ {y}) \ {p})
    BY <2>1, <2>3, <2>4
  <2>7. (U \ {p}) \ {y} = (U \ {y}) \ {p}
    OBVIOUS
  <2>8. (U \ {p}) \ {y} \in SUBSET S /\ p \in S /\ y \in S
    BY <2>3
  <2> HIDE DEF Sum
  <2>9. Sum((U \ {p}) \ {y}) \in Nat /\ fn[p] \in Nat /\ fn[y] \in Nat
    BY <1>0, <2>8
  <2> QED  BY <2>2, <2>3, <2>5, <2>6, <2>7, <2>9
<1> QED  BY <1>3

LEMMA SumWithNew ==
    ASSUME NEW S, IsFiniteSet(S), NEW x, x \notin S,
           NEW fn, \A y \in S \cup {x} : fn[y] \in Nat
    PROVE  Total(fn, S \cup {x}) = fn[x] + Total(fn, S)
<1>1. IsFiniteSet(S \cup {x}) /\ (S \cup {x}) \ {x} = S /\ x \in S \cup {x}
  BY FS_AddElement
<1> QED  BY <1>1, SumByPart

(* What the manifests of a partition count together.                       *)
LEMMA GapsAreSummed ==
    ASSUME NEW S \in SUBSET Manifests, IsFiniteSet(S)
    PROVE  GapSum(S) = Total(GapCount, S)
<1> DEFINE Adds(g) == g = [s \in SUBSET S |-> IF s = {} THEN 0
                                              ELSE Pick(s).gap + g[s \ {Pick(s)}]]
           sum == CHOOSE g : Adds(g)
<1>1. GapSum(S) = sum[S]
  BY DEF GapSum, MapThenSumSet, MapThenFoldSet, Pick
<1>2. ASSUME NEW g PROVE Adds(g) <=> Follows(g, GapCount, S)
  <2>1. \A s \in SUBSET S : s # {} => GapCount[Pick(s)] = Pick(s).gap
    BY PickIn DEF GapCount
  <2>2. [s \in SUBSET S |-> IF s = {} THEN 0 ELSE Pick(s).gap + g[s \ {Pick(s)}]]
        = [s \in SUBSET S |-> IF s = {} THEN 0 ELSE GapCount[Pick(s)] + g[s \ {Pick(s)}]]
    BY <2>1
  <2> QED  BY <2>2, Zenon DEF Follows
<1>3. Follows(Partial(GapCount, S), GapCount, S)
  BY PartialFollows
<1>4. Adds(sum)
  <2> HIDE DEF Adds
  <2>1. \E g : Adds(g)
    BY <1>2, <1>3
  <2> QED  BY <2>1
<1> HIDE DEF sum, Adds
<1>5. Follows(sum, GapCount, S)
  BY <1>2, <1>4
<1>6. sum[S] = Partial(GapCount, S)[S]
  BY <1>3, <1>5, PartialsAgree
<1> QED  BY <1>1, <1>6, Zenon DEF Total

LEMMA DuplicatesAreSummed ==
    ASSUME NEW S \in SUBSET Manifests, IsFiniteSet(S)
    PROVE  DupSum(S) = Total(DupCount, S)
<1> DEFINE Adds(g) == g = [s \in SUBSET S |-> IF s = {} THEN 0
                                              ELSE Pick(s).dup + g[s \ {Pick(s)}]]
           sum == CHOOSE g : Adds(g)
<1>1. DupSum(S) = sum[S]
  BY DEF DupSum, MapThenSumSet, MapThenFoldSet, Pick
<1>2. ASSUME NEW g PROVE Adds(g) <=> Follows(g, DupCount, S)
  <2>1. \A s \in SUBSET S : s # {} => DupCount[Pick(s)] = Pick(s).dup
    BY PickIn DEF DupCount
  <2>2. [s \in SUBSET S |-> IF s = {} THEN 0 ELSE Pick(s).dup + g[s \ {Pick(s)}]]
        = [s \in SUBSET S |-> IF s = {} THEN 0 ELSE DupCount[Pick(s)] + g[s \ {Pick(s)}]]
    BY <2>1
  <2> QED  BY <2>2, Zenon DEF Follows
<1>3. Follows(Partial(DupCount, S), DupCount, S)
  BY PartialFollows
<1>4. Adds(sum)
  <2> HIDE DEF Adds
  <2>1. \E g : Adds(g)
    BY <1>2, <1>3
  <2> QED  BY <2>1
<1> HIDE DEF sum, Adds
<1>5. Follows(sum, DupCount, S)
  BY <1>2, <1>4
<1>6. sum[S] = Partial(DupCount, S)[S]
  BY <1>3, <1>5, PartialsAgree
<1> QED  BY <1>1, <1>6, Zenon DEF Total
-----------------------------------------------------------------------------
(* The counts *)

(* A flush takes counts of the partitions of its events only.              *)
TakenFits ==
    flush # None =>
        /\ flush.step = "taken" => flush.counts = NoCounts
        /\ \A p \in Partitions : \/ flush.counts[p] = NoCounts[p]
                                 \/ \E e \in flush.events : PartitionOf[e] = p

(* The gaps that the manifests will tell once the part with the event is   *)
(* there.  Counts still in the buffer come with it only as long as its     *)
(* flush has not taken any.                                                *)
WithItsCounts(e) == e \in pending \/ (flush # None /\ flush.step = "taken")
Coming(e) ==
    LET p == PartitionOf[e]
    IN  Gaps(p) + Taken(p).gap + IF WithItsCounts(e) THEN counts[p].gap ELSE 0

WaitingCovered == \A e \in pending \cup Todo : gapsBefore[e] <= Coming(e)

CountsInv ==
    /\ IsFiniteSet(manifests)
    /\ TakenFits
    /\ ~torn => WaitingCovered /\ GapsCovered /\ CountedOnce

LEMMA GapsOfPartition == \A p : Gaps(p) = GapSum(ManifestsOf(p))
  BY Zenon DEF Gaps, GapSum

LEMMA GapsOfPartitionThen == \A p : Gaps(p)' = GapSum(ManifestsOf(p)')
<1>1. (\A p : Gaps(p) = GapSum(ManifestsOf(p)))'
  BY GapsOfPartition, PTL
<1> QED  BY <1>1

LEMMA DuplicatesOfPartition == \A p : Duplicates(p) = DupSum(ManifestsOf(p))
  BY Zenon DEF Duplicates, DupSum

LEMMA DuplicatesOfPartitionThen == \A p : Duplicates(p)' = DupSum(ManifestsOf(p)')
<1>1. (\A p : Duplicates(p) = DupSum(ManifestsOf(p)))'
  BY DuplicatesOfPartition, PTL
<1> QED  BY <1>1

LEMMA ManifestSums ==
    ASSUME TypeOK, IsFiniteSet(manifests), NEW p
    PROVE  /\ Gaps(p) = Total(GapCount, ManifestsOf(p)) /\ Gaps(p) \in Nat
           /\ Duplicates(p) = Total(DupCount, ManifestsOf(p)) /\ Duplicates(p) \in Nat
<1>1. ManifestsOf(p) \in SUBSET Manifests /\ IsFiniteSet(ManifestsOf(p))
  BY FS_Subset DEF TypeOK, ManifestsOf
<1>2. \A m \in ManifestsOf(p) : GapCount[m] \in Nat /\ DupCount[m] \in Nat
  BY <1>1 DEF GapCount, DupCount, Manifests
<1>3. /\ Total(GapCount, ManifestsOf(p)) \in Nat
      /\ Total(DupCount, ManifestsOf(p)) \in Nat
  BY <1>1, <1>2, SumType
<1>4. Gaps(p) = Total(GapCount, ManifestsOf(p))
  BY <1>1, GapsAreSummed, GapsOfPartition
<1>5. Duplicates(p) = Total(DupCount, ManifestsOf(p))
  BY <1>1, DuplicatesAreSummed, DuplicatesOfPartition
<1> QED  BY <1>3, <1>4, <1>5

LEMMA ManifestSumsThen ==
    ASSUME TypeOK', IsFiniteSet(manifests'), NEW p
    PROVE  /\ Gaps(p)' = Total(GapCount, ManifestsOf(p)')
           /\ Duplicates(p)' = Total(DupCount, ManifestsOf(p)')
<1>1. ManifestsOf(p)' \in SUBSET Manifests /\ IsFiniteSet(ManifestsOf(p)')
  BY FS_Subset DEF TypeOK, ManifestsOf
<1>2. Gaps(p)' = Total(GapCount, ManifestsOf(p)')
  BY <1>1, GapsAreSummed, GapsOfPartitionThen
<1>3. Duplicates(p)' = Total(DupCount, ManifestsOf(p)')
  BY <1>1, DuplicatesAreSummed, DuplicatesOfPartitionThen
<1> QED  BY <1>2, <1>3

LEMMA SumsStay ==
    ASSUME TypeOK, TypeOK', IsFiniteSet(manifests), UNCHANGED manifests, NEW p
    PROVE  Gaps(p)' = Gaps(p) /\ Duplicates(p)' = Duplicates(p)
<1>1. ManifestsOf(p)' = ManifestsOf(p) /\ IsFiniteSet(manifests')
  BY DEF ManifestsOf
<1> QED  BY <1>1, ManifestSums, ManifestSumsThen

(* A manifest that was not there adds its counts to those of its partition.*)
LEMMA SumsGrow ==
    ASSUME TypeOK, TypeOK', FlushFits, IsFiniteSet(manifests), WriteManifest,
           ~HasManifest(Rows), NEW w, w = Writing, NEW p
    PROVE  /\ Gaps(p)' = Gaps(p) + IF p = w THEN flush.counts[w].gap ELSE 0
           /\ Duplicates(p)' = Duplicates(p) + IF p = w THEN flush.counts[w].dup ELSE 0
<1> DEFINE new == [rows |-> Rows, dup |-> flush.counts[w].dup, gap |-> flush.counts[w].gap]
<1>1. flush # None /\ w \in flush.todo /\ Rows # {} /\ Rows \subseteq flush.events
      /\ \A e \in Rows : PartitionOf[e] = w
  BY WritingFits DEF WriteManifest, Flushing
<1>2. w \in Partitions /\ flush.counts[w] \in Counts /\ Rows \subseteq Events
  BY <1>1, FlushType
<1>3. manifests' = manifests \cup {new} /\ new \notin manifests
  BY DEF WriteManifest, HasManifest
<1>4. new \in Manifests /\ new.rows = Rows
  BY <1>2 DEF Manifests, Counts
<1>5. GapCount[new] = flush.counts[w].gap /\ DupCount[new] = flush.counts[w].dup
  BY <1>4 DEF GapCount, DupCount
<1>6. IsFiniteSet(manifests')
  BY <1>3, FS_AddElement
<1>7. /\ Gaps(p) = Total(GapCount, ManifestsOf(p)) /\ Gaps(p) \in Nat
      /\ Duplicates(p) = Total(DupCount, ManifestsOf(p)) /\ Duplicates(p) \in Nat
      /\ Gaps(p)' = Total(GapCount, ManifestsOf(p)')
      /\ Duplicates(p)' = Total(DupCount, ManifestsOf(p)')
  BY <1>6, ManifestSums, ManifestSumsThen
<1> HIDE DEF new, Rows
<1>8. CASE p = w
  <2>1. ManifestsOf(p)' = ManifestsOf(p) \cup {new} /\ new \notin ManifestsOf(p)
    BY <1>1, <1>3, <1>4, <1>8 DEF ManifestsOf
  <2>2. IsFiniteSet(ManifestsOf(p)) /\ ManifestsOf(p) \subseteq Manifests
    BY FS_Subset DEF ManifestsOf, TypeOK
  <2>3. \A m \in ManifestsOf(p) \cup {new} : GapCount[m] \in Nat /\ DupCount[m] \in Nat
    BY <1>4, <2>2 DEF GapCount, DupCount, Manifests
  <2>4. /\ Total(GapCount, ManifestsOf(p) \cup {new})
             = GapCount[new] + Total(GapCount, ManifestsOf(p))
        /\ Total(DupCount, ManifestsOf(p) \cup {new})
             = DupCount[new] + Total(DupCount, ManifestsOf(p))
    BY <2>1, <2>2, <2>3, SumWithNew
  <2>5. GapCount[new] \in Nat /\ DupCount[new] \in Nat
    BY <2>3
  <2> QED  BY <1>5, <1>7, <1>8, <2>1, <2>4, <2>5
<1>9. CASE p # w
  <2>1. ManifestsOf(p)' = ManifestsOf(p)
    BY <1>1, <1>3, <1>4, <1>9 DEF ManifestsOf
  <2> QED  BY <1>7, <1>9, <2>1
<1> QED  BY <1>8, <1>9

LEMMA CountsType ==
    ASSUME TypeOK, NEW p \in Partitions
    PROVE  /\ counts[p] \in Counts /\ counts[p].gap \in Nat /\ counts[p].dup \in Nat
           /\ Taken(p) \in Counts /\ Taken(p).gap \in Nat /\ Taken(p).dup \in Nat
           /\ recorded[p].gap \in Int /\ recorded[p].dup \in Int
<1>1. Taken(p) \in Counts
  BY FlushType DEF Taken, NoCounts, Counts
<1> QED  BY <1>1 DEF TypeOK, Counts

LEMMA NothingTaken ==
    ASSUME TypeOK, TakenFits, flush = None \/ flush.step = "taken", NEW p \in Partitions
    PROVE  Taken(p).gap = 0 /\ Taken(p).dup = 0
  BY DEF TakenFits, Taken, NoCounts

LEMMA SameBalance ==
    ASSUME NEW c \in Int, NEW t \in Int, NEW r \in Int, NEW m \in Int,
           NEW cc \in Int, NEW tt \in Int, NEW rr \in Int,
           c + t + m = r, cc + tt - rr = c + t - r
    PROVE  cc + tt + m = rr
  OBVIOUS

(* A step that leaves the manifests alone, and moves counts between buffer *)
(* and flush only, or records what it adds to the buffer.                  *)
LEMMA Balanced ==
    ASSUME TypeOK, TypeOK', IsFiniteSet(manifests), UNCHANGED manifests,
           \A p \in Partitions :
             /\ counts'[p].gap + Taken(p)'.gap - recorded'[p].gap
                  = counts[p].gap + Taken(p).gap - recorded[p].gap
             /\ counts'[p].dup + Taken(p)'.dup - recorded'[p].dup
                  = counts[p].dup + Taken(p).dup - recorded[p].dup,
           CountedOnce
    PROVE  CountedOnce'
<1> SUFFICES ASSUME NEW p \in Partitions
             PROVE  /\ counts'[p].gap + Taken(p)'.gap + Gaps(p)' = recorded'[p].gap
                    /\ counts'[p].dup + Taken(p)'.dup + Duplicates(p)' = recorded'[p].dup
  BY Zenon DEF CountedOnce
<1>1. /\ counts[p].gap + Taken(p).gap + Gaps(p) = recorded[p].gap
      /\ counts[p].dup + Taken(p).dup + Duplicates(p) = recorded[p].dup
  BY Zenon DEF CountedOnce
<1>2. /\ Gaps(p)' = Gaps(p) /\ Duplicates(p)' = Duplicates(p)
      /\ Gaps(p) \in Nat /\ Duplicates(p) \in Nat
  BY SumsStay, ManifestSums
<1>3. /\ counts[p].gap \in Nat /\ counts[p].dup \in Nat
      /\ Taken(p).gap \in Nat /\ Taken(p).dup \in Nat
      /\ recorded[p].gap \in Int /\ recorded[p].dup \in Int
  BY CountsType
<1>4. /\ counts'[p].gap \in Nat /\ counts'[p].dup \in Nat
      /\ Taken(p)'.gap \in Nat /\ Taken(p)'.dup \in Nat
      /\ recorded'[p].gap \in Int /\ recorded'[p].dup \in Int
  <2>1. Taken(p)' \in Counts
    <3>1. flush' # None => flush'.counts \in [Partitions -> Counts]
      BY DEF TypeOK, Flushes
    <3> QED  BY <3>1 DEF Taken, NoCounts, Counts
  <2> QED  BY <2>1 DEF TypeOK, Counts
<1>5. /\ counts'[p].gap + Taken(p)'.gap - recorded'[p].gap
           = counts[p].gap + Taken(p).gap - recorded[p].gap
      /\ counts'[p].dup + Taken(p)'.dup - recorded'[p].dup
           = counts[p].dup + Taken(p).dup - recorded[p].dup
  OBVIOUS
<1>6. counts'[p].gap + Taken(p)'.gap + Gaps(p)' = recorded'[p].gap
  <2>1. /\ counts[p].gap + Taken(p).gap + Gaps(p) = recorded[p].gap /\ Gaps(p) \in Int
        /\ counts'[p].gap + Taken(p)'.gap - recorded'[p].gap
             = counts[p].gap + Taken(p).gap - recorded[p].gap
    BY <1>1, <1>2, <1>5
  <2>2. /\ counts[p].gap \in Int /\ Taken(p).gap \in Int /\ recorded[p].gap \in Int
        /\ counts'[p].gap \in Int /\ Taken(p)'.gap \in Int /\ recorded'[p].gap \in Int
    BY <1>3, <1>4
  <2>3. counts'[p].gap + Taken(p)'.gap + Gaps(p) = recorded'[p].gap
    BY <2>1, <2>2, SameBalance
  <2> QED  BY <1>2, <2>3
<1>7. counts'[p].dup + Taken(p)'.dup + Duplicates(p)' = recorded'[p].dup
  <2>1. /\ counts[p].dup + Taken(p).dup + Duplicates(p) = recorded[p].dup /\ Duplicates(p) \in Int
        /\ counts'[p].dup + Taken(p)'.dup - recorded'[p].dup
             = counts[p].dup + Taken(p).dup - recorded[p].dup
    BY <1>1, <1>2, <1>5
  <2>2. /\ counts[p].dup \in Int /\ Taken(p).dup \in Int /\ recorded[p].dup \in Int
        /\ counts'[p].dup \in Int /\ Taken(p)'.dup \in Int /\ recorded'[p].dup \in Int
    BY <1>3, <1>4
  <2>3. counts'[p].dup + Taken(p)'.dup + Duplicates(p) = recorded'[p].dup
    BY <2>1, <2>2, SameBalance
  <2> QED  BY <1>2, <2>3
<1> QED  BY <1>6, <1>7

LEMMA CoveredStays ==
    ASSUME TypeOK, TypeOK', IsFiniteSet(manifests), UNCHANGED manifests, GapsCovered,
           \A e \in Kept : gapsBefore'[e] = gapsBefore[e]
    PROVE  GapsCovered'
<1>1. Kept' = Kept
  BY KeptStays
<1>2. \A e \in Kept : Gaps(PartitionOf[e])' = Gaps(PartitionOf[e])
  BY SumsStay
<1>3. \A e \in Kept : Gaps(PartitionOf[e]) >= gapsBefore[e]
  BY Zenon DEF GapsCovered
<1>4. \A e \in Kept : Gaps(PartitionOf[e])' >= gapsBefore'[e]
  BY <1>2, <1>3
<1> QED  BY <1>1, <1>4, Zenon DEF GapsCovered

LEMMA ComingThen ==
    ASSUME TypeOK, TypeOK', IsFiniteSet(manifests), UNCHANGED manifests, NEW e \in Events,
           NEW p, p = PartitionOf[e]
    PROVE  Coming(e)' = Gaps(p) + Taken(p)'.gap
                          + IF WithItsCounts(e)' THEN counts'[p].gap ELSE 0
<1>1. Gaps(p)' = Gaps(p)
  BY SumsStay
<1> QED  BY <1>1 DEF Coming

LEMMA WaitingEvents ==
    ASSUME TypeOK PROVE pending \cup Todo \subseteq Events
  BY FlushType DEF TypeOK, Todo

(* Nothing is counted, taken or told.                                      *)
LEMMA QuietCounts ==
    ASSUME TypeOK, TypeOK', CountsInv,
           UNCHANGED <<pending, counts, flush, manifests, recorded, gapsBefore, torn>>
    PROVE  CountsInv'
<1>1. IsFiniteSet(manifests') /\ TakenFits'
  BY DEF CountsInv, TakenFits
<1>2. ASSUME ~torn PROVE CountedOnce'
  <2>1. CountedOnce /\ IsFiniteSet(manifests)
    BY <1>2 DEF CountsInv
  <2>2. \A p \in Partitions :
          /\ counts'[p].gap + Taken(p)'.gap - recorded'[p].gap
               = counts[p].gap + Taken(p).gap - recorded[p].gap
          /\ counts'[p].dup + Taken(p)'.dup - recorded'[p].dup
               = counts[p].dup + Taken(p).dup - recorded[p].dup
    BY DEF Taken
  <2> QED  BY <2>1, <2>2, Balanced
<1>3. ASSUME ~torn PROVE GapsCovered'
  BY <1>3, CoveredStays DEF CountsInv
<1>4. ASSUME ~torn PROVE WaitingCovered'
  <2>1. WaitingCovered /\ IsFiniteSet(manifests)
    BY <1>4 DEF CountsInv
  <2>2. (pending \cup Todo)' = pending \cup Todo
    BY DEF Todo
  <2>3. \A e \in pending \cup Todo : Gaps(PartitionOf[e])' = Gaps(PartitionOf[e])
    BY <2>1, SumsStay
  <2>4. \A e \in pending \cup Todo : Coming(e)' = Coming(e)
    BY <2>3 DEF Coming, Taken, WithItsCounts
  <2> QED  BY <2>1, <2>2, <2>4 DEF WaitingCovered
<1> QED  BY <1>1, <1>2, <1>3, <1>4 DEF CountsInv

LEMMA AcceptCounts ==
    ASSUME TypeOK, TypeOK', OnlyAccepted, CountsInv, NEW s \in Streams, NEW e \in Events,
           Accept(s, e)
    PROVE  CountsInv'
<1> DEFINE p0 == PartitionOf[e]
           u == unattributed[s]
<1>1. /\ counts' = AddCounts(counts, p0, 0, u) /\ recorded' = AddCounts(recorded, p0, 0, u)
      /\ gapsBefore' = [gapsBefore EXCEPT ![e] = recorded'[p0].gap]
      /\ pending' = pending \cup {e} /\ UNCHANGED <<flush, manifests, torn>>
      /\ e \notin accepted
  BY DEF Accept, disk
<1>2. p0 \in Partitions /\ u \in Nat /\ counts \in [Partitions -> Counts]
      /\ recorded \in [Partitions -> [dup : Int, gap : Int]]
      /\ gapsBefore \in [Events -> Int]
  BY PartitionType DEF TypeOK
<1> HIDE DEF p0, u
<1>3. \A p \in Partitions :
        /\ counts'[p] = IF p = p0 THEN [dup |-> counts[p].dup + 0, gap |-> counts[p].gap + u]
                        ELSE counts[p]
        /\ recorded'[p] = IF p = p0
                          THEN [dup |-> recorded[p].dup + 0, gap |-> recorded[p].gap + u]
                          ELSE recorded[p]
  BY <1>1, <1>2 DEF AddCounts
<1>4. \A p \in Partitions :
        /\ counts[p].gap \in Nat /\ counts[p].dup \in Nat
        /\ Taken(p).gap \in Nat /\ Taken(p).dup \in Nat
        /\ recorded[p].gap \in Int /\ recorded[p].dup \in Int
        /\ Taken(p)' = Taken(p)
  BY <1>1, CountsType DEF Taken
<1>5. \A p \in Partitions :
        /\ counts'[p].gap = counts[p].gap + (IF p = p0 THEN u ELSE 0)
        /\ recorded'[p].gap = recorded[p].gap + (IF p = p0 THEN u ELSE 0)
        /\ counts'[p].dup = counts[p].dup /\ recorded'[p].dup = recorded[p].dup
  <2> SUFFICES ASSUME NEW p \in Partitions
               PROVE  /\ counts'[p].gap = counts[p].gap + (IF p = p0 THEN u ELSE 0)
                      /\ recorded'[p].gap = recorded[p].gap + (IF p = p0 THEN u ELSE 0)
                      /\ counts'[p].dup = counts[p].dup /\ recorded'[p].dup = recorded[p].dup
    OBVIOUS
  <2>1. CASE p = p0
    <3>1. /\ counts'[p] = [dup |-> counts[p].dup + 0, gap |-> counts[p].gap + u]
          /\ recorded'[p] = [dup |-> recorded[p].dup + 0, gap |-> recorded[p].gap + u]
      BY <1>3, <2>1
    <3> QED  BY <1>4, <2>1, <3>1
  <2>2. CASE p # p0
    <3>1. counts'[p] = counts[p] /\ recorded'[p] = recorded[p]
      BY <1>3, <2>2
    <3> QED  BY <1>4, <2>2, <3>1
  <2> QED  BY <2>1, <2>2
<1>6. e \notin Kept /\ e \notin pending /\ e \notin Todo
  BY <1>1 DEF OnlyAccepted, Held, Kept, RowsOf, Todo
<1>7. \A f \in Events \ {e} : gapsBefore'[f] = gapsBefore[f]
  BY <1>1, <1>2
<1>8. IsFiniteSet(manifests) /\ IsFiniteSet(manifests') /\ TakenFits'
  BY <1>1 DEF CountsInv, TakenFits
<1>9. ASSUME ~torn PROVE CountedOnce'
  <2>1. \A p \in Partitions :
          /\ counts'[p].gap + Taken(p)'.gap - recorded'[p].gap
               = counts[p].gap + Taken(p).gap - recorded[p].gap
          /\ counts'[p].dup + Taken(p)'.dup - recorded'[p].dup
               = counts[p].dup + Taken(p).dup - recorded[p].dup
    BY <1>2, <1>4, <1>5
  <2> QED  BY <1>1, <1>8, <1>9, <2>1, Balanced DEF CountsInv
<1>10. ASSUME ~torn PROVE GapsCovered'
  <2>1. \A f \in Kept : gapsBefore'[f] = gapsBefore[f]
    <3>1. Kept \subseteq Events
      BY DEF Kept, RowsOf, TypeOK, Manifests
    <3> QED  BY <1>6, <1>7, <3>1
  <2> QED  BY <1>1, <1>8, <1>10, <2>1, CoveredStays DEF CountsInv
<1>11. ASSUME ~torn PROVE WaitingCovered'
  <2>1. (pending \cup Todo)' = pending \cup Todo \cup {e} /\ pending \cup Todo \subseteq Events
    BY <1>1, WaitingEvents DEF Todo
  <2>2. gapsBefore'[e] <= Coming(e)'
    <3>1. Coming(e)' = Gaps(p0) + Taken(p0)'.gap + counts'[p0].gap
      BY <1>1, <1>8, ComingThen DEF WithItsCounts, p0
    <3>2. counts'[p0].gap + Taken(p0)'.gap + Gaps(p0)' = recorded'[p0].gap
      BY <1>2, <1>9, <1>11 DEF CountedOnce
    <3>3. Gaps(p0)' = Gaps(p0) /\ Gaps(p0) \in Nat
      BY <1>1, <1>8, SumsStay, ManifestSums
    <3>4. Taken(p0)'.gap \in Nat /\ counts'[p0].gap \in Nat
      BY <1>2, <1>4, <1>5
    <3>5. gapsBefore'[e] = recorded'[p0].gap
      BY <1>1, <1>2
    <3> QED  BY <3>1, <3>2, <3>3, <3>4, <3>5
  <2>3. ASSUME NEW f \in pending \cup Todo PROVE gapsBefore'[f] <= Coming(f)'
    <3> DEFINE p == PartitionOf[f]
    <3>1. f \in Events /\ p \in Partitions /\ f # e
      BY <1>6, <2>1, PartitionType
    <3>2. gapsBefore[f] <= Coming(f) /\ gapsBefore'[f] = gapsBefore[f]
      BY <1>7, <1>11, <3>1 DEF CountsInv, WaitingCovered
    <3>3. Coming(f) = Gaps(p) + Taken(p).gap + IF WithItsCounts(f) THEN counts[p].gap ELSE 0
      BY DEF Coming
    <3>4. Coming(f)' = Gaps(p) + Taken(p)'.gap
                         + IF WithItsCounts(f)' THEN counts'[p].gap ELSE 0
      BY <1>1, <1>8, <3>1, ComingThen
    <3>5. WithItsCounts(f)' = WithItsCounts(f)
      BY <1>1, <3>1 DEF WithItsCounts
    <3>6. Gaps(p) \in Nat
      BY <1>8, ManifestSums
    <3>7. gapsBefore[f] \in Int
      BY <1>2, <3>1
    <3> HIDE DEF p
    <3>8. Taken(p)'.gap = Taken(p).gap /\ Taken(p).gap \in Nat
          /\ counts[p].gap \in Nat /\ counts'[p].gap \in Nat /\ counts[p].gap <= counts'[p].gap
      BY <1>2, <1>4, <1>5, <3>1
    <3> QED  BY <3>2, <3>3, <3>4, <3>5, <3>6, <3>7, <3>8
  <2> QED  BY <2>1, <2>2, <2>3 DEF WaitingCovered
<1> QED  BY <1>1, <1>8, <1>9, <1>10, <1>11 DEF CountsInv

LEMMA DuplicateCounts ==
    ASSUME TypeOK, TypeOK', CountsInv, NEW s \in Streams, NEW e \in Events, Duplicate(s, e)
    PROVE  CountsInv'
<1> DEFINE p0 == PartitionOf[e]
<1>1. /\ counts' = AddCounts(counts, p0, 1, 0) /\ recorded' = AddCounts(recorded, p0, 1, 0)
      /\ UNCHANGED <<pending, gapsBefore, flush, manifests, torn>>
  BY DEF Duplicate, disk
<1>2. p0 \in Partitions /\ counts \in [Partitions -> Counts]
      /\ recorded \in [Partitions -> [dup : Int, gap : Int]]
  BY PartitionType DEF TypeOK
<1> HIDE DEF p0
<1>3. \A p \in Partitions :
        /\ counts'[p] = IF p = p0 THEN [dup |-> counts[p].dup + 1, gap |-> counts[p].gap + 0]
                        ELSE counts[p]
        /\ recorded'[p] = IF p = p0
                          THEN [dup |-> recorded[p].dup + 1, gap |-> recorded[p].gap + 0]
                          ELSE recorded[p]
  BY <1>1, <1>2 DEF AddCounts
<1>4. \A p \in Partitions :
        /\ counts[p].gap \in Nat /\ counts[p].dup \in Nat
        /\ Taken(p).gap \in Nat /\ Taken(p).dup \in Nat
        /\ recorded[p].gap \in Int /\ recorded[p].dup \in Int
        /\ Taken(p)' = Taken(p)
  BY <1>1, CountsType DEF Taken
<1>5. \A p \in Partitions :
        /\ counts'[p].dup = counts[p].dup + (IF p = p0 THEN 1 ELSE 0)
        /\ recorded'[p].dup = recorded[p].dup + (IF p = p0 THEN 1 ELSE 0)
        /\ counts'[p].gap = counts[p].gap /\ recorded'[p].gap = recorded[p].gap
  <2> SUFFICES ASSUME NEW p \in Partitions
               PROVE  /\ counts'[p].dup = counts[p].dup + (IF p = p0 THEN 1 ELSE 0)
                      /\ recorded'[p].dup = recorded[p].dup + (IF p = p0 THEN 1 ELSE 0)
                      /\ counts'[p].gap = counts[p].gap /\ recorded'[p].gap = recorded[p].gap
    OBVIOUS
  <2>1. CASE p = p0
    <3>1. /\ counts'[p] = [dup |-> counts[p].dup + 1, gap |-> counts[p].gap + 0]
          /\ recorded'[p] = [dup |-> recorded[p].dup + 1, gap |-> recorded[p].gap + 0]
      BY <1>3, <2>1
    <3> QED  BY <1>4, <2>1, <3>1
  <2>2. CASE p # p0
    <3>1. counts'[p] = counts[p] /\ recorded'[p] = recorded[p]
      BY <1>3, <2>2
    <3> QED  BY <1>4, <2>2, <3>1
  <2> QED  BY <2>1, <2>2
<1>6. IsFiniteSet(manifests) /\ IsFiniteSet(manifests') /\ TakenFits'
  BY <1>1 DEF CountsInv, TakenFits
<1>7. ASSUME ~torn PROVE CountedOnce' /\ GapsCovered'
  <2>1. \A p \in Partitions :
          /\ counts'[p].gap + Taken(p)'.gap - recorded'[p].gap
               = counts[p].gap + Taken(p).gap - recorded[p].gap
          /\ counts'[p].dup + Taken(p)'.dup - recorded'[p].dup
               = counts[p].dup + Taken(p).dup - recorded[p].dup
    BY <1>4, <1>5
  <2> QED  BY <1>1, <1>6, <1>7, <2>1, Balanced, CoveredStays DEF CountsInv
<1>8. ASSUME ~torn PROVE WaitingCovered'
  <2>1. (pending \cup Todo)' = pending \cup Todo /\ pending \cup Todo \subseteq Events
    BY <1>1, WaitingEvents DEF Todo
  <2>2. ASSUME NEW f \in pending \cup Todo PROVE Coming(f)' = Coming(f)
    <3>1. f \in Events /\ PartitionOf[f] \in Partitions
      BY <2>1, PartitionType
    <3>2. Gaps(PartitionOf[f])' = Gaps(PartitionOf[f])
      BY <1>1, <1>6, SumsStay
    <3>3. counts'[PartitionOf[f]].gap = counts[PartitionOf[f]].gap
          /\ Taken(PartitionOf[f])' = Taken(PartitionOf[f])
      BY <1>4, <1>5, <3>1
    <3>4. WithItsCounts(f)' = WithItsCounts(f)
      BY <1>1 DEF WithItsCounts
    <3> QED  BY <3>2, <3>3, <3>4 DEF Coming
  <2> QED  BY <1>1, <1>8, <2>1, <2>2 DEF WaitingCovered, CountsInv
<1> QED  BY <1>1, <1>6, <1>7, <1>8 DEF CountsInv

(* A flush takes the events, and what is counted for them comes after.     *)
LEMMA TakesCounts ==
    ASSUME TypeOK, TypeOK', CountsInv, NEW t \in Tasks, Takes(t)
    PROVE  CountsInv'
<1>1. /\ flush = None /\ flush' # None /\ pending' = {} /\ flush'.step = "taken"
      /\ flush'.events = pending /\ flush'.todo = {PartitionOf[e] : e \in pending}
      /\ UNCHANGED <<manifests, torn>>
  BY TakesEffect
<1>2. flush'.counts = NoCounts /\ UNCHANGED <<counts, recorded, gapsBefore>>
  <2> HIDE DEF NoCounts
  <2> QED  BY DEF Takes, TakeEvents, history
<1>3. IsFiniteSet(manifests) /\ IsFiniteSet(manifests')
  BY <1>1 DEF CountsInv
<1>4. TakenFits'
  BY <1>1, <1>2 DEF TakenFits
<1>5. \A p \in Partitions : Taken(p) = NoCounts[p] /\ Taken(p)' = NoCounts[p]
  BY <1>1, <1>2 DEF Taken
<1>6. ASSUME ~torn PROVE CountedOnce' /\ GapsCovered'
  <2>1. \A p \in Partitions :
          /\ counts'[p].gap + Taken(p)'.gap - recorded'[p].gap
               = counts[p].gap + Taken(p).gap - recorded[p].gap
          /\ counts'[p].dup + Taken(p)'.dup - recorded'[p].dup
               = counts[p].dup + Taken(p).dup - recorded[p].dup
    BY <1>2, <1>5
  <2> QED  BY <1>1, <1>2, <1>3, <1>6, <2>1, Balanced, CoveredStays DEF CountsInv
<1>7. ASSUME ~torn PROVE WaitingCovered'
  <2>1. (pending \cup Todo)' = pending /\ pending \subseteq Events
    BY <1>1 DEF Todo, TypeOK
  <2>2. ASSUME NEW f \in pending PROVE Coming(f)' = Coming(f)
    <3>1. f \in Events /\ PartitionOf[f] \in Partitions
      BY <2>1, PartitionType
    <3>2. Gaps(PartitionOf[f])' = Gaps(PartitionOf[f])
      BY <1>1, <1>3, SumsStay
    <3>3. Taken(PartitionOf[f])' = Taken(PartitionOf[f])
      BY <1>5, <3>1
    <3>4. WithItsCounts(f)' /\ WithItsCounts(f)
      BY <1>1 DEF WithItsCounts
    <3> QED  BY <1>2, <3>2, <3>3, <3>4 DEF Coming
  <2> QED  BY <1>2, <1>7, <2>1, <2>2 DEF WaitingCovered, CountsInv
<1> QED  BY <1>1, <1>3, <1>4, <1>6, <1>7 DEF CountsInv

(* The counts move from the buffer to the flush.                           *)
LEMMA TakeCountsCounts ==
    ASSUME TypeOK, TypeOK', FlushFits, CountsInv, TakeCounts
    PROVE  CountsInv'
<1> DEFINE taken == [p \in Partitions |-> IF p \in flush.todo THEN counts[p]
                                          ELSE NoCounts[p]]
<1>1. /\ flush # None /\ flush' # None /\ flush'.step = "writing" /\ flush.step = "taken"
      /\ flush'.events = flush.events /\ flush'.todo = flush.todo
      /\ UNCHANGED <<pending, manifests, torn>>
  BY CountsEffect
<1>2. /\ UNCHANGED <<recorded, gapsBefore>>
      /\ counts' = [p \in Partitions |-> IF p \in flush.todo THEN NoCounts[p] ELSE counts[p]]
      /\ flush' = [flush EXCEPT !.step = "writing", !.counts = taken]
  BY DEF TakeCounts, history
<1>3. flush'.counts = taken
  <2>1. flush \in Flushes
    BY <1>1, FlushType
  <2> HIDE DEF taken
  <2> QED  BY <1>2, <2>1 DEF Flushes
<1>4. IsFiniteSet(manifests) /\ IsFiniteSet(manifests') /\ TakenFits
  BY <1>1 DEF CountsInv
<1>5. \A p \in Partitions :
        /\ Taken(p).gap = 0 /\ Taken(p).dup = 0
        /\ p \in flush.todo => Taken(p)' = counts[p] /\ counts'[p].gap = 0 /\ counts'[p].dup = 0
        /\ p \notin flush.todo => Taken(p)' = NoCounts[p] /\ counts'[p] = counts[p]
  <2>1. \A p \in Partitions : Taken(p).gap = 0 /\ Taken(p).dup = 0
    BY <1>1, <1>4, NothingTaken
  <2>2. \A p \in Partitions : NoCounts[p].gap = 0 /\ NoCounts[p].dup = 0
    BY DEF NoCounts
  <2> HIDE DEF NoCounts
  <2>3. \A p \in Partitions :
          /\ p \in flush.todo => Taken(p)' = counts[p] /\ counts'[p] = NoCounts[p]
          /\ p \notin flush.todo => Taken(p)' = NoCounts[p] /\ counts'[p] = counts[p]
    BY <1>1, <1>2, <1>3 DEF Taken
  <2> QED  BY <2>1, <2>2, <2>3
<1>6. \A p \in Partitions : /\ counts[p].gap \in Nat /\ counts[p].dup \in Nat
                            /\ recorded[p].gap \in Int /\ recorded[p].dup \in Int
                            /\ NoCounts[p].gap = 0 /\ NoCounts[p].dup = 0
  BY CountsType DEF NoCounts
<1>7. \A p \in Partitions :
        /\ counts'[p].gap + Taken(p)'.gap = counts[p].gap
        /\ counts'[p].dup + Taken(p)'.dup = counts[p].dup
  BY <1>5, <1>6
<1>8. TakenFits'
  <2> SUFFICES ASSUME NEW p \in Partitions
               PROVE  \/ flush'.counts[p] = NoCounts[p]
                      \/ \E e \in flush.events : PartitionOf[e] = p
    BY <1>1 DEF TakenFits
  <2>1. CASE p \in flush.todo
    BY <1>1, <2>1 DEF FlushFits
  <2>2. CASE p \notin flush.todo
    BY <1>3, <2>2
  <2> QED  BY <2>1, <2>2
<1>9. ASSUME ~torn PROVE CountedOnce' /\ GapsCovered'
  <2>1. \A p \in Partitions :
          /\ counts'[p].gap + Taken(p)'.gap - recorded'[p].gap
               = counts[p].gap + Taken(p).gap - recorded[p].gap
          /\ counts'[p].dup + Taken(p)'.dup - recorded'[p].dup
               = counts[p].dup + Taken(p).dup - recorded[p].dup
    BY <1>2, <1>5, <1>6, <1>7
  <2> QED  BY <1>1, <1>2, <1>4, <1>9, <2>1, Balanced, CoveredStays DEF CountsInv
<1>10. ASSUME ~torn PROVE WaitingCovered'
  <2>1. (pending \cup Todo)' = pending \cup Todo /\ pending \cup Todo \subseteq Events
    BY <1>1, WaitingEvents DEF Todo
  <2>2. ASSUME NEW f \in pending \cup Todo PROVE Coming(f)' = Coming(f)
    <3> DEFINE p == PartitionOf[f]
    <3>1. f \in Events /\ p \in Partitions /\ Gaps(p) \in Nat
      BY <1>4, <2>1, PartitionType, ManifestSums
    <3>2. Coming(f) = Gaps(p) + counts[p].gap
      <4>1. WithItsCounts(f)
        BY <1>1 DEF WithItsCounts
      <4> QED  BY <1>5, <3>1, <4>1 DEF Coming
    <3>3. Coming(f)' = Gaps(p) + Taken(p)'.gap + IF WithItsCounts(f)' THEN counts'[p].gap ELSE 0
      BY <1>1, <1>4, <3>1, ComingThen
    <3>4. CASE f \in pending
      <4>1. WithItsCounts(f)'
        BY <1>1, <3>4 DEF WithItsCounts
      <4>2. counts'[p].gap + Taken(p)'.gap = counts[p].gap
        BY <1>7, <3>1
      <4>3. counts'[p].gap \in Nat /\ Taken(p)'.gap \in Nat
        BY <1>5, <1>6, <3>1
      <4> HIDE DEF p
      <4> QED  BY <3>1, <3>2, <3>3, <4>1, <4>2, <4>3
    <3>5. CASE f \in Todo
      <4>1. p \in flush.todo
        BY <1>1, <3>5 DEF Todo
      <4>2. Taken(p)' = counts[p] /\ counts'[p].gap = 0
        BY <1>5, <3>1, <4>1
      <4> HIDE DEF p
      <4> QED  BY <1>6, <3>1, <3>2, <3>3, <4>2
    <3> QED  BY <3>4, <3>5
  <2> QED  BY <1>2, <1>10, <2>1, <2>2 DEF WaitingCovered, CountsInv
<1> QED  BY <1>1, <1>4, <1>8, <1>9, <1>10 DEF CountsInv

LEMMA PlaceCounts ==
    ASSUME TypeOK, TypeOK', CountsInv, PlacePart
    PROVE  CountsInv'
<1>1. /\ flush # None /\ flush' # None /\ flush'.step = "placed" /\ flush.step = "writing"
      /\ flush'.events = flush.events /\ flush'.todo = flush.todo
      /\ UNCHANGED <<pending, manifests, torn>>
  BY PlaceEffect
<1>2. /\ UNCHANGED <<counts, recorded, gapsBefore>> /\ flush'.counts = flush.counts
  <2> DEFINE new == Rows \notin parts
  <2>1. flush \in Flushes /\ flush' = [flush EXCEPT !.step = "placed", !.created = new]
    BY <1>1, FlushType DEF PlacePart
  <2> HIDE DEF new
  <2> QED  BY <2>1 DEF PlacePart, Flushes, memory, history
<1>3. IsFiniteSet(manifests) /\ IsFiniteSet(manifests') /\ TakenFits /\ TakenFits'
  BY <1>1, <1>2 DEF CountsInv, TakenFits
<1>4. \A p \in Partitions : Taken(p)' = Taken(p)
  BY <1>1, <1>2 DEF Taken
<1>5. ASSUME ~torn PROVE CountedOnce' /\ GapsCovered'
  <2>1. \A p \in Partitions :
          /\ counts'[p].gap + Taken(p)'.gap - recorded'[p].gap
               = counts[p].gap + Taken(p).gap - recorded[p].gap
          /\ counts'[p].dup + Taken(p)'.dup - recorded'[p].dup
               = counts[p].dup + Taken(p).dup - recorded[p].dup
    BY <1>2, <1>4
  <2> QED  BY <1>1, <1>2, <1>3, <1>5, <2>1, Balanced, CoveredStays DEF CountsInv
<1>6. ASSUME ~torn PROVE WaitingCovered'
  <2>1. (pending \cup Todo)' = pending \cup Todo /\ pending \cup Todo \subseteq Events
    BY <1>1, WaitingEvents DEF Todo
  <2>2. ASSUME NEW f \in pending \cup Todo PROVE Coming(f)' = Coming(f)
    <3>1. f \in Events /\ PartitionOf[f] \in Partitions
      BY <2>1, PartitionType
    <3>2. Gaps(PartitionOf[f])' = Gaps(PartitionOf[f])
      BY <1>1, <1>3, SumsStay
    <3>3. WithItsCounts(f)' = WithItsCounts(f)
      BY <1>1 DEF WithItsCounts
    <3> QED  BY <1>2, <1>4, <3>1, <3>2, <3>3 DEF Coming
  <2> QED  BY <1>2, <1>6, <2>1, <2>2 DEF WaitingCovered, CountsInv
<1> QED  BY <1>1, <1>3, <1>5, <1>6 DEF CountsInv

(* A manifest takes the counts of its partition from the flush.  As no     *)
(* flush has failed half-way, the part is new and the manifest is written. *)
LEMMA ManifestCounts ==
    ASSUME TypeOK, TypeOK', FlushFits, PlacedFits, CountsInv, WriteManifest
    PROVE  CountsInv'
<1>1. /\ flush # None /\ flush.step = "placed" /\ UNCHANGED <<pending, torn>>
      /\ \/ flush.todo = {Writing} /\ flush' = None
         \/ /\ flush.todo # {Writing} /\ flush' # None /\ flush'.step = "writing"
            /\ flush'.todo = flush.todo \ {Writing} /\ flush'.events = flush.events
  BY ManifestEffect
<1>2. PICK w : w = Writing
  OBVIOUS
<1>3. /\ w \in flush.todo /\ w \in Partitions /\ \A e \in Rows : PartitionOf[e] = w
      /\ flush.counts \in [Partitions -> Counts]
  BY <1>1, <1>2, WritingFits, FlushType
<1>4. UNCHANGED <<counts, recorded, gapsBefore>>
  BY DEF WriteManifest, memory, history
<1>5. flush' # None => flush'.counts = flush.counts
  <2> DEFINE rest == flush.todo \ {Writing}
  <2>1. flush' = None \/ flush' = [flush EXCEPT !.step = "writing", !.todo = rest]
    BY DEF WriteManifest
  <2>2. flush \in Flushes
    BY <1>1, FlushType
  <2> HIDE DEF rest
  <2> QED  BY <2>1, <2>2 DEF Flushes
<1>6. IsFiniteSet(manifests) /\ IsFiniteSet(manifests') /\ TakenFits /\ TakenFits'
  <2>1. IsFiniteSet(manifests) /\ TakenFits
    BY DEF CountsInv
  <2>2. \E m : manifests' = manifests \/ manifests' = manifests \cup {m}
    BY DEF WriteManifest
  <2>3. IsFiniteSet(manifests')
    BY <2>1, <2>2, FS_AddElement
  <2> QED  BY <1>1, <1>5, <2>1, <2>3 DEF TakenFits
<1>7. Kept' = Kept \cup Rows
  BY KeptGrows
<1> SUFFICES ASSUME ~torn PROVE WaitingCovered' /\ GapsCovered' /\ CountedOnce'
  BY <1>1, <1>6 DEF CountsInv
<1>8. WaitingCovered /\ GapsCovered /\ CountedOnce /\ ~HasManifest(Rows)
  BY <1>1 DEF CountsInv, PlacedFits, Placed
<1>9. \A p \in Partitions :
        /\ Gaps(p)' = Gaps(p) + (IF p = w THEN flush.counts[w].gap ELSE 0)
        /\ Duplicates(p)' = Duplicates(p) + (IF p = w THEN flush.counts[w].dup ELSE 0)
        /\ Gaps(p) \in Nat /\ Duplicates(p) \in Nat
  BY <1>2, <1>6, <1>8, SumsGrow, ManifestSums
<1>10. \A p \in Partitions :
        /\ p = w => /\ Taken(p) = flush.counts[w]
                    /\ Taken(p)'.gap = 0 /\ Taken(p)'.dup = 0
        /\ p # w => Taken(p)' = Taken(p)
  <2>1. Taken(w) = flush.counts[w]
    BY <1>1, <1>3 DEF Taken
  <2>2. Taken(w)' = NoCounts[w] /\ NoCounts[w].gap = 0 /\ NoCounts[w].dup = 0
    BY <1>1, <1>2, <1>3 DEF Taken, NoCounts
  <2>3. \A p \in Partitions : p # w => Taken(p)' = Taken(p)
    BY <1>1, <1>2, <1>5 DEF Taken
  <2> QED  BY <2>1, <2>2, <2>3
<1>11. \A p \in Partitions : /\ counts[p].gap \in Nat /\ counts[p].dup \in Nat
                             /\ Taken(p).gap \in Nat /\ Taken(p).dup \in Nat
                             /\ recorded[p].gap \in Int /\ recorded[p].dup \in Int
  BY CountsType
<1>12. \A p \in Partitions :
        /\ Gaps(p)' + Taken(p)'.gap = Gaps(p) + Taken(p).gap
        /\ Duplicates(p)' + Taken(p)'.dup = Duplicates(p) + Taken(p).dup
        /\ Gaps(p)' \in Nat /\ Taken(p)'.gap \in Nat /\ Gaps(p) <= Gaps(p)'
        /\ Duplicates(p)' \in Nat /\ Taken(p)'.dup \in Nat
  <2> SUFFICES ASSUME NEW p \in Partitions
               PROVE  /\ Gaps(p)' + Taken(p)'.gap = Gaps(p) + Taken(p).gap
                      /\ Duplicates(p)' + Taken(p)'.dup = Duplicates(p) + Taken(p).dup
                      /\ Gaps(p)' \in Nat /\ Taken(p)'.gap \in Nat /\ Gaps(p) <= Gaps(p)'
                      /\ Duplicates(p)' \in Nat /\ Taken(p)'.dup \in Nat
    OBVIOUS
  <2>1. CASE p = w
    <3>1. /\ Gaps(p)' = Gaps(p) + Taken(p).gap /\ Taken(p)'.gap = 0
          /\ Duplicates(p)' = Duplicates(p) + Taken(p).dup /\ Taken(p)'.dup = 0
      BY <1>9, <1>10, <2>1
    <3> QED  BY <1>9, <1>11, <3>1
  <2>2. CASE p # w
    <3>1. /\ Gaps(p)' = Gaps(p) + 0 /\ Taken(p)' = Taken(p)
          /\ Duplicates(p)' = Duplicates(p) + 0
      BY <1>9, <1>10, <2>2
    <3> QED  BY <1>9, <1>11, <3>1
  <2> QED  BY <2>1, <2>2
<1>13. CountedOnce'
  <2> SUFFICES ASSUME NEW p \in Partitions
               PROVE  /\ counts'[p].gap + Taken(p)'.gap + Gaps(p)' = recorded'[p].gap
                      /\ counts'[p].dup + Taken(p)'.dup + Duplicates(p)' = recorded'[p].dup
    BY Zenon DEF CountedOnce
  <2>1. /\ counts[p].gap + Taken(p).gap + Gaps(p) = recorded[p].gap
        /\ counts[p].dup + Taken(p).dup + Duplicates(p) = recorded[p].dup
    BY <1>8, Zenon DEF CountedOnce
  <2>2. counts'[p].gap + Taken(p)'.gap + Gaps(p)' = recorded'[p].gap
    BY <1>4, <1>9, <1>11, <1>12, <2>1
  <2>3. counts'[p].dup + Taken(p)'.dup + Duplicates(p)' = recorded'[p].dup
    BY <1>4, <1>9, <1>11, <1>12, <2>1
  <2> QED  BY <2>2, <2>3
<1>14. gapsBefore \in [Events -> Int] /\ Kept \subseteq Events /\ Rows \subseteq Todo
  BY <1>1, <1>2, <1>3, WritingFits DEF TypeOK, Kept, RowsOf, Manifests, Todo
<1>15. GapsCovered'
  <2>1. ASSUME NEW e \in Kept PROVE Gaps(PartitionOf[e])' >= gapsBefore'[e]
    <3>1. PartitionOf[e] \in Partitions /\ gapsBefore[e] \in Int
      BY <1>14, PartitionType
    <3>2. Gaps(PartitionOf[e]) >= gapsBefore[e]
      BY <1>8, Zenon DEF GapsCovered
    <3>3. gapsBefore'[e] = gapsBefore[e]
      BY <1>4
    <3> QED  BY <1>9, <1>12, <3>1, <3>2, <3>3
  <2>2. ASSUME NEW e \in Rows PROVE Gaps(PartitionOf[e])' >= gapsBefore'[e]
    <3>1. PartitionOf[e] = w /\ gapsBefore[e] \in Int /\ e \in Todo
      BY <1>3, <1>14, FlushType, <1>1 DEF Todo
    <3>2. gapsBefore[e] <= Coming(e)
      BY <1>8, <3>1 DEF WaitingCovered
    <3>3. Coming(e) = Gaps(w) + Taken(w).gap
      <4>1. ~WithItsCounts(e)
        BY <1>1, <3>1 DEF WithItsCounts, FlushFits, Todo
      <4>2. Gaps(w) \in Nat /\ Taken(w).gap \in Nat
        BY <1>3, <1>9, <1>11
      <4> QED  BY <3>1, <4>1, <4>2 DEF Coming
    <3>4. Gaps(w)' + Taken(w)'.gap = Gaps(w) + Taken(w).gap /\ Taken(w)'.gap = 0
          /\ Gaps(w)' \in Nat
      BY <1>3, <1>10, <1>12
    <3>5. gapsBefore'[e] = gapsBefore[e]
      BY <1>4
    <3> QED  BY <3>1, <3>2, <3>3, <3>4, <3>5
  <2> QED  BY <1>7, <2>1, <2>2 DEF GapsCovered
<1>16. WaitingCovered'
  <2>1. (pending \cup Todo)' \subseteq pending \cup Todo /\ pending \cup Todo \subseteq Events
    BY <1>1, WaitingEvents DEF Todo
  <2>2. ASSUME NEW f \in pending \cup Todo PROVE Coming(f)' = Coming(f)
    <3>1. f \in Events /\ PartitionOf[f] \in Partitions
      BY <2>1, PartitionType
    <3>2. WithItsCounts(f)' = WithItsCounts(f)
      BY <1>1 DEF WithItsCounts
    <3>3. Gaps(PartitionOf[f])' + Taken(PartitionOf[f])'.gap
            = Gaps(PartitionOf[f]) + Taken(PartitionOf[f]).gap
      BY <1>12, <3>1
    <3> QED  BY <1>4, <3>2, <3>3 DEF Coming
  <2>3. \A f \in (pending \cup Todo)' : gapsBefore[f] <= Coming(f)'
    BY <1>8, <2>1, <2>2 DEF WaitingCovered
  <2> QED  BY <1>4, <2>3 DEF WaitingCovered
<1> QED  BY <1>13, <1>15, <1>16

(* The counts go back with the events.  As nothing of the flush is on disk *)
(* (or the failure tears it), they are those of the partitions still on    *)
(* its list.                                                               *)
LEMMA FailureCounts ==
    ASSUME TypeOK, TypeOK', CountsInv, FlushFails
    PROVE  CountsInv'
<1>1. /\ flush # None /\ flush' = None /\ flush.step \in {"writing", "placed"}
      /\ pending' = pending \cup flush.events
      /\ torn' = (torn \/ WrittenBefore # {}) /\ UNCHANGED manifests
  BY FailureEffect
<1>2. /\ UNCHANGED <<recorded, gapsBefore>>
      /\ counts' = [p \in Partitions |-> [dup |-> counts[p].dup + flush.counts[p].dup,
                                          gap |-> counts[p].gap + flush.counts[p].gap]]
  BY DEF FlushFails, SocketFlushFails, OtherFlushFails, WriteFails, Restore
<1>3. IsFiniteSet(manifests) /\ IsFiniteSet(manifests') /\ TakenFits /\ TakenFits'
  BY <1>1 DEF CountsInv, TakenFits
<1> SUFFICES ASSUME ~torn, WrittenBefore = {}
             PROVE  WaitingCovered' /\ GapsCovered' /\ CountedOnce'
  BY <1>1, <1>3 DEF CountsInv
<1>4. WaitingCovered /\ GapsCovered /\ CountedOnce
  BY DEF CountsInv
<1>5. \A p \in Partitions : /\ counts[p].gap \in Nat /\ counts[p].dup \in Nat
                            /\ Taken(p).gap \in Nat /\ Taken(p).dup \in Nat
                            /\ recorded[p].gap \in Int /\ recorded[p].dup \in Int
  BY CountsType
<1>6. \A p \in Partitions : /\ flush.counts[p].gap = Taken(p).gap
                            /\ flush.counts[p].dup = Taken(p).dup
  <2> SUFFICES ASSUME NEW p \in Partitions
               PROVE  /\ flush.counts[p].gap = Taken(p).gap
                      /\ flush.counts[p].dup = Taken(p).dup
    OBVIOUS
  <2>1. CASE p \in flush.todo
    BY <1>1, <2>1 DEF Taken
  <2>2. CASE p \notin flush.todo
    <3>1. Taken(p) = NoCounts[p]
      BY <2>2 DEF Taken
    <3>2. \A e \in flush.events : PartitionOf[e] # p
      BY <2>2 DEF WrittenBefore
    <3>3. flush.counts[p] = NoCounts[p]
      BY <1>1, <1>3, <3>2 DEF TakenFits
    <3> QED  BY <3>1, <3>3
  <2> QED  BY <2>1, <2>2
<1>7. \A p \in Partitions : /\ counts'[p].gap = counts[p].gap + Taken(p).gap
                            /\ counts'[p].dup = counts[p].dup + Taken(p).dup
                            /\ Taken(p)'.gap = 0 /\ Taken(p)'.dup = 0
  <2>1. \A p \in Partitions : Taken(p)'.gap = 0 /\ Taken(p)'.dup = 0
    BY <1>1 DEF Taken, NoCounts
  <2> QED  BY <1>2, <1>6, <2>1
<1>8. CountedOnce' /\ GapsCovered'
  <2>1. \A p \in Partitions :
          /\ counts'[p].gap + Taken(p)'.gap - recorded'[p].gap
               = counts[p].gap + Taken(p).gap - recorded[p].gap
          /\ counts'[p].dup + Taken(p)'.dup - recorded'[p].dup
               = counts[p].dup + Taken(p).dup - recorded[p].dup
    BY <1>2, <1>5, <1>7
  <2> QED  BY <1>1, <1>2, <1>3, <1>4, <2>1, Balanced, CoveredStays
<1>9. WaitingCovered'
  <2>1. (pending \cup Todo)' = pending \cup Todo /\ pending \cup Todo \subseteq Events
    BY <1>1, WaitingEvents DEF Todo, WrittenBefore
  <2>2. ASSUME NEW f \in pending \cup Todo PROVE gapsBefore'[f] <= Coming(f)'
    <3> DEFINE p == PartitionOf[f]
    <3>1. f \in Events /\ p \in Partitions /\ Gaps(p) \in Nat /\ gapsBefore[f] \in Int
      BY <1>3, <2>1, PartitionType, ManifestSums DEF TypeOK
    <3>2. gapsBefore[f] <= Coming(f) /\ gapsBefore'[f] = gapsBefore[f]
      BY <1>2, <1>4 DEF WaitingCovered
    <3>3. Coming(f) = Gaps(p) + Taken(p).gap + IF WithItsCounts(f) THEN counts[p].gap ELSE 0
      BY DEF Coming
    <3>4. Coming(f)' = Gaps(p) + Taken(p)'.gap + counts'[p].gap
      <4>1. WithItsCounts(f)'
        BY <2>1, <1>1 DEF WithItsCounts, Todo
      <4> QED  BY <1>1, <1>3, <3>1, <4>1, ComingThen
    <3> HIDE DEF p
    <3>5. /\ counts'[p].gap = counts[p].gap + Taken(p).gap /\ Taken(p)'.gap = 0
          /\ counts[p].gap \in Nat /\ Taken(p).gap \in Nat
      BY <1>5, <1>7, <3>1
    <3>6. Coming(f) <= Coming(f)' /\ Coming(f) \in Int /\ Coming(f)' \in Int
      BY <3>1, <3>3, <3>4, <3>5
    <3> QED  BY <3>1, <3>2, <3>6
  <2> QED  BY <2>1, <2>2 DEF WaitingCovered
<1> QED  BY <1>8, <1>9

(* What is forgotten is taken off the record.                              *)
LEMMA GoDownCounts ==
    ASSUME TypeOK, TypeOK', CountsInv, GoDown
    PROVE  CountsInv'
<1>1. pending' = {} /\ flush' = None /\ UNCHANGED <<manifests, gapsBefore, torn>>
  BY GoDownType
<1>2. /\ counts' = NoCounts
      /\ recorded' = [p \in Partitions |->
           [dup |-> recorded[p].dup - counts[p].dup - Taken(p).dup,
            gap |-> recorded[p].gap - counts[p].gap - Taken(p).gap]]
  <2> HIDE DEF Taken, NoCounts
  <2> QED  BY DEF GoDown
<1>3. IsFiniteSet(manifests) /\ IsFiniteSet(manifests') /\ TakenFits'
  BY <1>1 DEF CountsInv, TakenFits
<1>4. \A p \in Partitions : /\ counts[p].gap \in Nat /\ counts[p].dup \in Nat
                            /\ Taken(p).gap \in Nat /\ Taken(p).dup \in Nat
                            /\ recorded[p].gap \in Int /\ recorded[p].dup \in Int
  BY CountsType
<1>5. \A p \in Partitions :
        /\ counts'[p].gap = 0 /\ counts'[p].dup = 0
        /\ Taken(p)'.gap = 0 /\ Taken(p)'.dup = 0
  BY <1>1, <1>2 DEF Taken, NoCounts
<1>6. \A p \in Partitions :
        /\ recorded'[p].gap = recorded[p].gap - counts[p].gap - Taken(p).gap
        /\ recorded'[p].dup = recorded[p].dup - counts[p].dup - Taken(p).dup
  BY <1>2
<1>7. ASSUME ~torn PROVE CountedOnce' /\ GapsCovered'
  <2>1. \A p \in Partitions :
          /\ counts'[p].gap + Taken(p)'.gap - recorded'[p].gap
               = counts[p].gap + Taken(p).gap - recorded[p].gap
          /\ counts'[p].dup + Taken(p)'.dup - recorded'[p].dup
               = counts[p].dup + Taken(p).dup - recorded[p].dup
    BY <1>4, <1>5, <1>6
  <2> QED  BY <1>1, <1>3, <1>7, <2>1, Balanced, CoveredStays DEF CountsInv
<1>8. WaitingCovered'
  BY <1>1 DEF WaitingCovered, Todo
<1> QED  BY <1>1, <1>3, <1>7, <1>8 DEF CountsInv

LEMMA StepCounts ==
    ASSUME TypeOK, EvidenceInv, ArchiveInv, CountsInv, [Next]_vars
    PROVE  CountsInv'
<1> USE DEF disk, memory, history, bounds
<1>1. TypeOK' /\ FlushFits /\ OnlyAccepted /\ PlacedFits
  BY StepType DEF EvidenceInv, ArchiveInv
<1>2. ASSUME NEW s \in Streams, Receive(s)
      PROVE  CountsInv'
  <2>1. CASE OutOfOrder(s) \/ Disconnect(s) \/ Reconnect(s)
    <3>1. UNCHANGED <<pending, counts, flush, manifests, recorded, gapsBefore, torn>>
      BY <2>1 DEF OutOfOrder, Disconnect, Reconnect
    <3> QED  BY <1>1, <3>1, QuietCounts
  <2>2. ASSUME NEW e \in Events, Accept(s, e) \/ Duplicate(s, e)
        PROVE  CountsInv'
    BY <1>1, <2>2, AcceptCounts, DuplicateCounts
  <2> QED  BY <1>2, <2>1, <2>2 DEF Receive
<1>3. CASE PeriodicFlush \/ RequestStop \/ FinalFlush \/ Start \/ UNCHANGED vars
  <2>1. UNCHANGED <<pending, counts, flush, manifests, recorded, gapsBefore, torn>>
    BY <1>3 DEF PeriodicFlush, RequestStop, FinalFlush, Start, vars
  <2> QED  BY <1>1, <2>1, QuietCounts
<1>4. ASSUME NEW t \in Tasks, TakeEvents(t) \/ TaskEnds(t)
      PROVE  CountsInv'
  <2>1. CASE Takes(t)
    BY <1>1, <2>1, TakesCounts
  <2>2. CASE ~Takes(t)
    <3>1. UNCHANGED <<pending, counts, flush, manifests, recorded, gapsBefore, torn>>
      BY <1>4, <2>2 DEF Takes, TakeEvents, TaskEnds
    <3> QED  BY <1>1, <3>1, QuietCounts
  <2> QED  BY <2>1, <2>2
<1>5. CASE FlushStep
  BY <1>1, <1>5, TakeCountsCounts, PlaceCounts, ManifestCounts DEF FlushStep
<1>6. CASE FlushFails
  BY <1>1, <1>6, FailureCounts
<1>7. CASE End \/ Crash
  <2>1. GoDown
    BY <1>7 DEF End, Crash
  <2> QED  BY <1>1, <2>1, GoDownCounts
<1> QED  BY <1>2, <1>3, <1>4, <1>5, <1>6, <1>7 DEF Next

LEMMA InitCounts == Init => CountsInv
<1> SUFFICES ASSUME Init PROVE CountsInv
  OBVIOUS
<1>1. /\ flush = None /\ pending = {} /\ manifests = {} /\ counts = NoCounts
      /\ recorded = NoCounts
  BY DEF Init
<1>2. IsFiniteSet(manifests) /\ TakenFits /\ WaitingCovered /\ GapsCovered
  BY <1>1, FS_EmptySet DEF TakenFits, WaitingCovered, GapsCovered, Todo, Kept, RowsOf
<1>3. ASSUME NEW p \in Partitions
      PROVE  /\ counts[p].gap + Taken(p).gap + Gaps(p) = recorded[p].gap
             /\ counts[p].dup + Taken(p).dup + Duplicates(p) = recorded[p].dup
  <2>1. ManifestsOf(p) = {}
    BY <1>1 DEF ManifestsOf
  <2>2. Gaps(p) = 0 /\ Duplicates(p) = 0
    <3>1. {} \in SUBSET Manifests /\ IsFiniteSet({})
      BY FS_EmptySet
    <3>2. GapSum({}) = 0 /\ DupSum({}) = 0
      BY <3>1, GapsAreSummed, DuplicatesAreSummed, SumOfNone
    <3> QED  BY <2>1, <3>2, GapsOfPartition, DuplicatesOfPartition
  <2>3. /\ Taken(p).gap = 0 /\ Taken(p).dup = 0 /\ NoCounts[p].gap = 0 /\ NoCounts[p].dup = 0
    BY <1>1 DEF Taken, NoCounts
  <2> QED  BY <1>1, <2>2, <2>3
<1>4. CountedOnce
  BY <1>3, Zenon DEF CountedOnce
<1> QED  BY <1>2, <1>4 DEF CountsInv
-----------------------------------------------------------------------------
LEMMA InitHolds == Init => TypeOK /\ EvidenceInv /\ ArchiveInv /\ TasksInv
<1> SUFFICES ASSUME Init PROVE TypeOK /\ EvidenceInv /\ ArchiveInv /\ TasksInv
  OBVIOUS
<1>1. TypeOK
  <2>1. NoCounts \in [Partitions -> Counts] /\ NoCounts \in [Partitions -> [dup : Int, gap : Int]]
    BY DEF NoCounts, Counts
  <2> HIDE DEF NoCounts
  <2>2. counts \in [Partitions -> Counts] /\ recorded \in [Partitions -> [dup : Int, gap : Int]]
    BY <2>1 DEF Init
  <2>3. /\ unattributed \in [Streams -> Nat] /\ gapsBefore \in [Events -> Int]
        /\ tasks \in [Tasks -> TaskStates]
    BY DEF Init, TaskStates
  <2>4. /\ up \in BOOLEAN /\ stop \in BOOLEAN /\ torn \in BOOLEAN
        /\ flush = None
        /\ pending \subseteq Events /\ accepted \subseteq Events
        /\ parts \subseteq SUBSET Events /\ manifests \subseteq Manifests
        /\ gaps \in Nat /\ duplicates \in Nat /\ failures \in Nat /\ crashes \in Nat
    BY DEF Init
  <2> QED  BY <2>2, <2>3, <2>4 DEF TypeOK
<1>2. /\ flush = None /\ pending = {} /\ parts = {} /\ manifests = {}
      /\ \A t \in Tasks : tasks[t] = "idle"
  BY DEF Init
<1>3. EvidenceInv
  BY <1>2 DEF EvidenceInv, FlushFits, OnlyAccepted, Held
<1>4. ArchiveInv
  BY <1>2 DEF ArchiveInv, PlacedFits, Placed, WaitingIsNew, ArchivedOnce,
              EveryPartHasManifest, NoEventTwice
<1>5. TasksInv
  BY <1>2, TaskNames DEF TasksInv, FlusherWaits, FinalIsAlone, FinalIsEmpty
<1> QED  BY <1>1, <1>3, <1>4, <1>5

(* The buffer, the running flush, the files and the tasks stay well typed. *)
THEOREM BufferTypes == Spec => []TypeOK
<1>1. TypeOK /\ EvidenceInv /\ [Next]_vars => TypeOK' /\ EvidenceInv'
  BY StepType, StepEvidence DEF EvidenceInv
<1> QED  BY <1>1, InitHolds, PTL DEF Spec

(* ArchivedOnce for every value of the constants: flush writes a part that *)
(* has its manifest, and an event that is in no other part, unless a crash *)
(* or a flush that failed half-way came between.                           *)
THEOREM EventsArchivedOnce == Spec => []ArchivedOnce
<1>1. TypeOK /\ EvidenceInv /\ ArchiveInv /\ [Next]_vars
        => TypeOK' /\ EvidenceInv' /\ ArchiveInv'
  BY StepType, StepEvidence, StepArchive DEF EvidenceInv
<1>2. ArchiveInv => ArchivedOnce
  BY DEF ArchiveInv
<1> QED  BY <1>1, <1>2, InitHolds, PTL DEF Spec

(* CountsKept for every value of the constants: unless a flush failed      *)
(* half-way, the manifests tell every gap declared before an event by the  *)
(* time it can be read, and no count is lost or told twice on its way from *)
(* the buffer through a flush, failed or not, to a manifest.               *)
THEOREM CountsAreKept == Spec => []CountsKept
<1>1. TypeOK /\ EvidenceInv /\ ArchiveInv /\ CountsInv /\ [Next]_vars
        => TypeOK' /\ EvidenceInv' /\ ArchiveInv' /\ CountsInv'
  BY StepType, StepEvidence, StepArchive, StepCounts DEF EvidenceInv
<1>2. CountsInv => CountsKept
  BY DEF CountsInv, CountsKept
<1> QED  BY <1>1, <1>2, InitHolds, InitCounts, PTL DEF Spec

(* ReturnsEmpty for every value of the constants: collect_forever returns  *)
(* with nothing in its buffer, unless its periodic flush has failed.       *)
THEOREM CollectorReturnsEmpty == Spec => []ReturnsEmpty
<1>1. TypeOK /\ EvidenceInv /\ TasksInv /\ [Next]_vars
        => TypeOK' /\ EvidenceInv' /\ TasksInv'
  BY StepType, StepEvidence, StepTasks DEF EvidenceInv
<1>2. TasksInv => ReturnsEmpty
  BY DEF TasksInv, FinalIsEmpty, ReturnsEmpty
<1> QED  BY <1>1, <1>2, InitHolds, PTL DEF Spec
-----------------------------------------------------------------------------
(* The promise *)

LEMMA StepKeeps ==
    ASSUME TypeOK, EvidenceInv, [Next]_vars
    PROVE  [Log!Next]_Log!vars
<1> DEFINE held == Held \ Kept
<1>1. FlushFits /\ OnlyAccepted
  BY DEF EvidenceInv
<1>2. Kept \subseteq accepted
  BY <1>1 DEF OnlyAccepted, Kept, RowsOf
<1>3. ASSUME UNCHANGED <<up, Held, Kept>> PROVE UNCHANGED Log!vars
  BY <1>3 DEF Log!vars
<1>4. ASSUME NEW s \in Streams, NEW e \in Events, Accept(s, e)
      PROVE  Log!Next
  <2>1. /\ up /\ e \notin accepted /\ pending' = pending \cup {e}
        /\ UNCHANGED <<up, flush, manifests>>
    BY <1>4, AcceptEffect
  <2>2. e \notin Held \cup Kept /\ Held' = Held \cup {e} /\ Kept' = Kept
    BY <1>1, <1>2, <2>1, KeptStays DEF OnlyAccepted, Held
  <2> QED  BY <2>1, <2>2 DEF Log!Next, Log!Accept
<1>5. ASSUME NEW t \in Tasks, Takes(t)
      PROVE  UNCHANGED Log!vars
  <2>1. /\ flush = None /\ flush' # None /\ pending' = {} /\ flush'.events = pending
        /\ UNCHANGED <<manifests, up>>
    BY <1>5, TakesEffect DEF Takes, TakeEvents
  <2> QED  BY <1>3, <2>1, KeptStays DEF Held
<1>6. CASE TakeCounts \/ PlacePart
  <2>1. /\ flush # None /\ flush' # None /\ flush'.events = flush.events
        /\ UNCHANGED <<pending, manifests, up>>
    BY <1>6, CountsEffect, PlaceEffect
  <2> QED  BY <1>3, <2>1, KeptStays DEF Held
<1>7. CASE WriteManifest
  <2>1. /\ flush # None /\ UNCHANGED <<up, pending>> /\ up
        /\ Kept' = Kept \cup Rows /\ Rows \subseteq flush.events
    BY <1>1, <1>7, ManifestEffect, KeptGrows, WritingFits DEF WriteManifest, Flushing
  <2>2. Held' \subseteq Held /\ Held \subseteq Held' \cup Kept'
    <3>1. CASE flush' # None
      BY <1>1, <1>7, <2>1, <3>1, ManifestEffect DEF Held
    <3>2. CASE flush' = None
      <4>1. flush.todo = {Writing}
        BY <1>1, <1>7, <3>2, ManifestEffect
      <4>2. \A e \in flush.events : e \in Kept \/ e \in Rows
        BY <1>1, <2>1, <4>1 DEF FlushFits, Rows, EventsIn
      <4> QED  BY <2>1, <3>2, <4>2 DEF Held
    <3> QED  BY <3>1, <3>2
  <2>3. Rows \ Kept \in SUBSET held /\ Rows \subseteq Held
    BY <2>1 DEF Held
  <2> HIDE DEF Rows
  <2>4. held' = held \ (Rows \ Kept) /\ Kept' = Kept \cup (Rows \ Kept)
    BY <2>1, <2>2, <2>3
  <2> QED  BY <2>1, <2>3, <2>4 DEF Log!Next, Log!Keep
<1>8. CASE FlushFails
  <2>1. /\ flush # None /\ flush' = None /\ pending' = pending \cup flush.events
        /\ UNCHANGED <<up, manifests>>
    BY <1>8, FailureEffect
  <2> QED  BY <1>3, <2>1, KeptStays DEF Held
<1>9. CASE Leaves
  <2>1. /\ up = TRUE /\ up' = FALSE /\ pending' = {} /\ flush' = None /\ manifests' = manifests
    BY <1>9, GoDownType DEF Leaves, TypeOK
  <2>2. held' = {} /\ Kept' = Kept
    BY <2>1, KeptStays DEF Held
  <2> QED  BY <2>1, <2>2 DEF Log!Next, Log!GoDown
<1>10. CASE Start
  <2>1. ~up /\ up' = TRUE /\ UNCHANGED <<pending, flush, manifests>>
    BY <1>10 DEF Start, memory, disk
  <2>2. held' = held /\ Kept' = Kept
    BY <2>1, KeptStays DEF Held
  <2> QED  BY <2>1, <2>2 DEF Log!Next, Log!ComeUp
<1>11. CASE Untouched /\ up' = up
  BY <1>3, <1>11, KeptStays DEF Untouched, Held
<1> QED
  BY <1>4, <1>5, <1>6, <1>7, <1>8, <1>9, <1>10, <1>11, Steps DEF FlushStep

(* The buffer implements EvidenceLog: an accepted event is held until its  *)
(* part and manifest are there, and forgotten only by going down.          *)
THEOREM EvidenceIsKept == Spec => KeepsEvidence
<1>1. Init => Log!Init
  BY DEF Init, Log!Init, Held, Kept, RowsOf
<1>2. TypeOK /\ EvidenceInv /\ [Next]_vars => TypeOK' /\ EvidenceInv'
  BY StepType, StepEvidence DEF EvidenceInv
<1>3. TypeOK /\ EvidenceInv /\ [Next]_vars => [Log!Next]_Log!vars
  BY StepKeeps
<1> QED  BY <1>1, <1>2, <1>3, InitHolds, PTL DEF Spec, KeepsEvidence, Log!Spec
=============================================================================
