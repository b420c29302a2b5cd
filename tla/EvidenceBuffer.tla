--------------------------- MODULE EvidenceBuffer ---------------------------
(***************************************************************************)
(* The buffer of BtcForwardCollector (btc_short_horizon/data/forward.py):  *)
(* _ingest on the event loop, flush in worker threads, the tasks that      *)
(* collect_forever gathers, and what PartitionedRawEventWriter             *)
(* (data/collector.py) and ImmutableParquetStore (data/storage.py) leave   *)
(* on disk.                                                                *)
(*                                                                         *)
(* The handlers run one at a time on the event loop; a flush runs in a     *)
(* thread beside them and takes the buffer's lock twice, so its steps are  *)
(* actions of their own.                                                   *)
(*                                                                         *)
(* What the validator decides about a message is left open here            *)
(* (ClobStream has it).  A socket carries one stream, a message one event. *)
(* A part is named by its content, so it is the set of its rows.           *)
(***************************************************************************)
EXTENDS Integers, FiniteSetsExt

CONSTANTS
    Streams,           \* one socket each
    Events,            \* what the streams bring, in the order of their numbers
    StreamOf,          \* Events -> Streams
    PartitionOf,       \* Events -> Nat: source, instrument, date and hour
    FlushSize,
    None,
    MaxGaps,           \* bound: gaps declared
    MaxDuplicates,     \* bound: duplicates received
    MaxWriteFailures,  \* bound: writes that fail
    MaxCrashes         \* bound: crashes

Periodic == "periodic"
Final == "final"
Tasks == Streams \cup {Periodic, Final}
Partitions == {PartitionOf[e] : e \in Events}

ASSUME BufferAssumption ==
    /\ IsFiniteSet(Streams) /\ Streams \cap {Periodic, Final} = {}
    /\ Events \subseteq Nat /\ IsFiniteSet(Events)
    /\ StreamOf \in [Events -> Streams] /\ PartitionOf \in [Events -> Nat]
    /\ FlushSize \in Nat \ {0}
    /\ MaxGaps \in Nat /\ MaxDuplicates \in Nat
    /\ MaxWriteFailures \in Nat /\ MaxCrashes \in Nat

VARIABLES
    up,                \* is a collector running?
    stop,              \* stop_event
    tasks,             \* what collect_forever's tasks are doing
    pending,           \* _pending
    counts,            \* _pending_quality_counts
    unattributed,      \* _unattributed_gaps
    flush,             \* the flush that holds _flush_lock, or None
    parts,             \* part files
    manifests,         \* manifest files
    accepted,          \* history: every event ever accepted
    recorded,          \* history: the counts recorded for each partition
    gapsBefore,        \* history: recorded gaps of its partition as an event came
    torn,              \* history: has a write failed with some partitions of its
                       \* flush written?
    gaps, duplicates, failures, crashes    \* counted for the bounds

memory == <<pending, counts, unattributed>>
disk == <<parts, manifests>>
history == <<accepted, recorded, gapsBefore, torn>>
bounds == <<gaps, duplicates, failures, crashes>>
vars == <<up, stop, tasks, memory, flush, disk, history, bounds>>
-----------------------------------------------------------------------------
Counts == [dup : Nat, gap : Nat]
NoCounts == [p \in Partitions |-> [dup |-> 0, gap |-> 0]]
Manifests == [rows : SUBSET Events, dup : Nat, gap : Nat]
TaskStates == {"idle", "flushing", "waiting", "done", "failed"}
Flushes ==
    [by : Tasks, step : {"taken", "writing", "placed"}, events : SUBSET Events,
     counts : [Partitions -> Counts], todo : SUBSET Partitions, created : BOOLEAN]

ASSUME NoneAssumption == None \notin Flushes

TypeOK ==
    /\ up \in BOOLEAN /\ stop \in BOOLEAN
    /\ tasks \in [Tasks -> TaskStates]
    /\ pending \subseteq Events
    /\ counts \in [Partitions -> Counts]
    /\ unattributed \in [Streams -> Nat]
    /\ flush \in Flushes \cup {None}
    /\ parts \subseteq SUBSET Events
    /\ manifests \subseteq Manifests
    /\ accepted \subseteq Events
    /\ recorded \in [Partitions -> [dup : Int, gap : Int]]
    /\ gapsBefore \in [Events -> Int]
    /\ torn \in BOOLEAN
    /\ gaps \in Nat /\ duplicates \in Nat /\ failures \in Nat /\ crashes \in Nat

(* A new collector: __init__ and the start of collect_forever.             *)
Init ==
    /\ up = TRUE /\ stop = FALSE
    /\ tasks = [t \in Tasks |-> "idle"]
    /\ pending = {} /\ counts = NoCounts /\ unattributed = [s \in Streams |-> 0]
    /\ flush = None
    /\ parts = {} /\ manifests = {}
    /\ accepted = {} /\ recorded = NoCounts /\ gapsBefore = [e \in Events |-> 0]
    /\ torn = FALSE
    /\ gaps = 0 /\ duplicates = 0 /\ failures = 0 /\ crashes = 0

RowsOf(files) == UNION {m.rows : m \in files}
Kept == RowsOf(manifests)
Held == pending \cup (IF flush = None THEN {} ELSE flush.events)
EventsIn(events, p) == {e \in events : PartitionOf[e] = p}
ManifestsOf(p) == {m \in manifests : \E e \in m.rows : PartitionOf[e] = p}
-----------------------------------------------------------------------------
(* _ingest, and the check for a full buffer that follows every message *)

Reading(s) == up /\ tasks[s] = "idle"

AfterMessage(s) ==
    tasks' = IF Cardinality(pending') >= FlushSize
             THEN [tasks EXCEPT ![s] = "flushing"] ELSE tasks

AddCounts(table, p, dup, gap) ==
    [table EXCEPT ![p] = [dup |-> @.dup + dup, gap |-> @.gap + gap]]

Attributed(s) == [unattributed EXCEPT ![s] = 0]

(* The gaps declared since the stream's last event are attributed to the   *)
(* partition of this one.                                                  *)
Accept(s, e) ==
    /\ Reading(s) /\ StreamOf[e] = s
    /\ e \notin accepted
    /\ \A f \in Events : StreamOf[f] = s /\ f < e => f \in accepted
    /\ LET p == PartitionOf[e] IN
        /\ counts' = AddCounts(counts, p, 0, unattributed[s])
        /\ recorded' = AddCounts(recorded, p, 0, unattributed[s])
        /\ gapsBefore' = [gapsBefore EXCEPT ![e] = recorded'[p].gap]
    /\ unattributed' = Attributed(s)
    /\ pending' = pending \cup {e}
    /\ accepted' = accepted \cup {e}
    /\ AfterMessage(s)
    /\ UNCHANGED <<up, stop, flush, disk, torn, bounds>>

(* _record_partition_quality: the event e again.                           *)
Duplicate(s, e) ==
    /\ Reading(s) /\ StreamOf[e] = s /\ e \in accepted
    /\ duplicates < MaxDuplicates
    /\ duplicates' = duplicates + 1
    /\ counts' = AddCounts(counts, PartitionOf[e], 1, 0)
    /\ recorded' = AddCounts(recorded, PartitionOf[e], 1, 0)
    /\ UNCHANGED pending
    /\ AfterMessage(s)
    /\ UNCHANGED <<up, stop, unattributed, flush, disk, accepted, gapsBefore, torn,
                   gaps, failures, crashes>>

DeclareGap(s) ==
    /\ gaps < MaxGaps
    /\ gaps' = gaps + 1
    /\ unattributed' = [unattributed EXCEPT ![s] = @ + 1]

OutOfOrder(s) ==
    /\ Reading(s)
    /\ DeclareGap(s)
    /\ UNCHANGED pending
    /\ AfterMessage(s)
    /\ UNCHANGED <<up, stop, counts, flush, disk, history, duplicates, failures,
                   crashes>>

(* The socket fails: on_error declares a gap and the loop waits before it  *)
(* connects again.                                                         *)
Disconnect(s) ==
    /\ Reading(s)
    /\ DeclareGap(s)
    /\ tasks' = [tasks EXCEPT ![s] = "waiting"]
    /\ UNCHANGED <<up, stop, pending, counts, flush, disk, history, duplicates,
                   failures, crashes>>

Reconnect(s) ==
    /\ up /\ tasks[s] = "waiting" /\ ~stop
    /\ tasks' = [tasks EXCEPT ![s] = "idle"]
    /\ UNCHANGED <<up, stop, memory, flush, disk, history, bounds>>
-----------------------------------------------------------------------------
(* flush *)

(* Mutant of PeriodicFlush: it leaves a small buffer for later.            *)
PeriodicFlushWhenOver ==
    /\ up /\ tasks[Periodic] = "idle" /\ ~stop /\ Cardinality(pending) > FlushSize
    /\ tasks' = [tasks EXCEPT ![Periodic] = "flushing"]
    /\ UNCHANGED <<up, stop, memory, flush, disk, history, bounds>>

(* _flush_periodically wakes up and finds something to write.              *)
PeriodicFlush ==
    /\ up /\ tasks[Periodic] = "idle" /\ ~stop /\ pending # {}
    /\ tasks' = [tasks EXCEPT ![Periodic] = "flushing"]
    /\ UNCHANGED <<up, stop, memory, flush, disk, history, bounds>>

(* Where a task goes on once its flush has returned.                       *)
Returned(t) == IF t = Final THEN "done" ELSE "idle"

(* The first locked section, with _flush_lock held from here on.           *)
TakeEvents(t) ==
    /\ up /\ tasks[t] = "flushing" /\ flush = None
    /\ IF pending = {}
       THEN /\ tasks' = [tasks EXCEPT ![t] = Returned(t)]
            /\ UNCHANGED <<pending, flush>>
       ELSE /\ flush' = [by |-> t, step |-> "taken", events |-> pending,
                         counts |-> NoCounts, created |-> FALSE,
                         todo |-> {PartitionOf[e] : e \in pending}]
            /\ pending' = {}
            /\ UNCHANGED tasks
    /\ UNCHANGED <<up, stop, counts, unattributed, disk, history, bounds>>

Flushing(step) == up /\ flush # None /\ flush.step = step

(* The second locked section takes the counts of the events' partitions.   *)
TakeCounts ==
    /\ Flushing("taken")
    /\ flush' = [flush EXCEPT !.step = "writing",
         !.counts = [p \in Partitions |-> IF p \in flush.todo THEN counts[p]
                                          ELSE NoCounts[p]]]
    /\ counts' = [p \in Partitions |-> IF p \in flush.todo THEN NoCounts[p]
                                       ELSE counts[p]]
    /\ UNCHANGED <<up, stop, tasks, pending, unattributed, disk, history, bounds>>

(* write sorts the partitions and writes one after the other.              *)
Writing == Min(flush.todo)
Rows == EventsIn(flush.events, Writing)

(* The temporary file becomes the part; one with this content may be there.*)
PlacePart ==
    /\ Flushing("writing")
    /\ flush' = [flush EXCEPT !.step = "placed", !.created = Rows \notin parts]
    /\ parts' = parts \cup {Rows}
    /\ UNCHANGED <<up, stop, tasks, memory, manifests, history, bounds>>

(* The manifest follows, unless this content has one; the last one ends    *)
(* the flush.                                                              *)
WriteManifest ==
    /\ Flushing("placed")
    /\ manifests' = IF \E m \in manifests : m.rows = Rows THEN manifests
                    ELSE manifests \cup {[rows |-> Rows,
                                          dup |-> flush.counts[Writing].dup,
                                          gap |-> flush.counts[Writing].gap]}
    /\ LET rest == flush.todo \ {Writing} IN
        IF rest = {}
        THEN /\ flush' = None
             /\ tasks' = [tasks EXCEPT ![flush.by] = Returned(flush.by)]
        ELSE /\ flush' = [flush EXCEPT !.step = "writing", !.todo = rest]
             /\ UNCHANGED tasks
    /\ UNCHANGED <<up, stop, memory, parts, history, bounds>>

(* Mutants of Restore: one half is forgotten.                              *)
RestoreEventsOnly == pending' = pending \cup flush.events /\ UNCHANGED counts
RestoreCountsOnly ==
    /\ UNCHANGED pending
    /\ counts' = [p \in Partitions |->
                    [dup |-> counts[p].dup + flush.counts[p].dup,
                     gap |-> counts[p].gap + flush.counts[p].gap]]

(* Everything goes back, also what is already on disk.                     *)
Restore ==
    /\ pending' = pending \cup flush.events
    /\ counts' = [p \in Partitions |->
                    [dup |-> counts[p].dup + flush.counts[p].dup,
                     gap |-> counts[p].gap + flush.counts[p].gap]]

(* What the running flush has already written.                             *)
WrittenBefore == {e \in flush.events : PartitionOf[e] \notin flush.todo}

(* Mutant of WriteFails: the part stays.                                   *)
WriteFailsLeavesPart ==
    /\ Flushing("writing") \/ Flushing("placed")
    /\ failures < MaxWriteFailures
    /\ failures' = failures + 1
    /\ UNCHANGED parts
    /\ Restore
    /\ flush' = None
    /\ torn' = (torn \/ WrittenBefore # {})

(* A part is removed again if this write created it.                       *)
WriteFails ==
    /\ Flushing("writing") \/ Flushing("placed")
    /\ failures < MaxWriteFailures
    /\ failures' = failures + 1
    /\ parts' = IF flush.step = "placed" /\ flush.created
                   /\ ~\E m \in manifests : m.rows = Rows
                THEN parts \ {Rows} ELSE parts
    /\ Restore
    /\ flush' = None
    /\ torn' = (torn \/ WrittenBefore # {})

(* To a socket the failure is an error of its connection.                  *)
SocketFlushFails ==
    /\ WriteFails
    /\ flush.by \in Streams
    /\ tasks' = [tasks EXCEPT ![flush.by] = "waiting"]
    /\ unattributed' = [unattributed EXCEPT ![flush.by] = @ + 1]
    /\ gaps' = gaps + 1
    /\ UNCHANGED <<up, stop, manifests, accepted, recorded, gapsBefore, duplicates,
                   crashes>>

OtherFlushFails ==
    /\ WriteFails
    /\ flush.by \in {Periodic, Final}
    /\ tasks' = [tasks EXCEPT ![flush.by] = "failed"]
    /\ UNCHANGED <<up, stop, unattributed, manifests, accepted, recorded, gapsBefore,
                   gaps, duplicates, crashes>>
-----------------------------------------------------------------------------
(* The end of collect_forever *)

(* The operator, or the rotation to the next market window.                *)
RequestStop ==
    /\ up /\ ~stop
    /\ stop' = TRUE
    /\ UNCHANGED <<up, tasks, memory, flush, disk, history, bounds>>

TaskEnds(t) ==
    /\ up /\ stop /\ t # Final /\ tasks[t] \in {"idle", "waiting"}
    /\ tasks' = [tasks EXCEPT ![t] = "done"]
    /\ UNCHANGED <<up, stop, memory, flush, disk, history, bounds>>

(* Mutant of Gathered: the sockets are not waited for.                     *)
GatheredSoon == tasks[Periodic] \in {"done", "failed"}

(* gather returns once every task has, or raises at once what the periodic *)
(* flush raised, leaving the sockets at work.                              *)
Gathered == \/ \A t \in Tasks \ {Final} : tasks[t] = "done"
            \/ tasks[Periodic] = "failed"

FinalFlush ==
    /\ up /\ tasks[Final] = "idle"
    /\ Gathered
    /\ tasks' = [tasks EXCEPT ![Final] = "flushing"]
    /\ UNCHANGED <<up, stop, memory, flush, disk, history, bounds>>

(* The counts the running flush still has to write.                        *)
Taken(p) == IF flush # None /\ p \in flush.todo THEN flush.counts[p] ELSE NoCounts[p]

(* What the process had in memory is gone, and is taken off the history.   *)
GoDown ==
    /\ up' = FALSE /\ stop' = FALSE
    /\ tasks' = [t \in Tasks |-> "idle"]
    /\ pending' = {} /\ counts' = NoCounts /\ unattributed' = [s \in Streams |-> 0]
    /\ flush' = None
    /\ recorded' = [p \in Partitions |->
         [dup |-> recorded[p].dup - counts[p].dup - Taken(p).dup,
          gap |-> recorded[p].gap - counts[p].gap - Taken(p).gap]]
    /\ UNCHANGED <<disk, accepted, gapsBefore, torn>>

(* The threads still flushing are waited for.                              *)
End ==
    /\ up /\ tasks[Final] \in {"done", "failed"}
    /\ flush = None /\ \A t \in Tasks : tasks[t] # "flushing"
    /\ GoDown
    /\ UNCHANGED bounds

Crash ==
    /\ up /\ crashes < MaxCrashes
    /\ crashes' = crashes + 1
    /\ GoDown
    /\ UNCHANGED <<gaps, duplicates, failures>>

(* The next window's collector, or the restarted process.                  *)
Start ==
    /\ ~up /\ up' = TRUE
    /\ UNCHANGED <<stop, tasks, memory, flush, disk, history, bounds>>
-----------------------------------------------------------------------------
Receive(s) ==
    \/ \E e \in Events : Accept(s, e) \/ Duplicate(s, e)
    \/ OutOfOrder(s) \/ Disconnect(s) \/ Reconnect(s)

FlushStep == TakeCounts \/ PlacePart \/ WriteManifest
FlushFails == SocketFlushFails \/ OtherFlushFails

Next ==
    \/ \E s \in Streams : Receive(s)
    \/ PeriodicFlush \/ FlushStep \/ FlushFails
    \/ \E t \in Tasks : TakeEvents(t) \/ TaskEnds(t)
    \/ RequestStop \/ FinalFlush \/ End \/ Crash \/ Start

Spec == Init /\ [][Next]_vars

(* Threads run, the periodic task wakes up, and after a stop the sockets   *)
(* and then collect_forever return; none of this depends on the outside.   *)
Fairness ==
    /\ WF_vars(PeriodicFlush) /\ WF_vars(FlushStep) /\ WF_vars(FinalFlush)
    /\ WF_vars(\E t \in Tasks : TakeEvents(t))
    /\ \A t \in Tasks : WF_vars(TaskEnds(t))
    /\ WF_vars(End)

FairSpec == Spec /\ Fairness
-----------------------------------------------------------------------------
(* Properties *)

Gaps(p) == MapThenSumSet(LAMBDA m : m.gap, ManifestsOf(p))
Duplicates(p) == MapThenSumSet(LAMBDA m : m.dup, ManifestsOf(p))

(* An accepted event stays in the buffer or in a flush until a part with   *)
(* its manifest holds it, whatever flushes overlap, fail or are retried    *)
(* meanwhile (flush: "without dropping concurrent ingress").               *)
Log == INSTANCE EvidenceLog WITH
    up <- up, held <- Held \ Kept, kept <- Kept

KeepsEvidence == Log!Spec

(* A part file has its manifest, but for the part just being written,      *)
(* whatever writes fail, unless the process crashes between the two.       *)
EveryPartHasManifest ==
    crashes = 0 => \A rows \in parts :
        \/ \E m \in manifests : m.rows = rows
        \/ flush # None /\ flush.step = "placed" /\ rows = Rows

(* No event is in two part files, whatever flushes are retried, as long as *)
(* none fails with some of its partitions written (such a flush puts back  *)
(* what it has written as well).                                           *)
NoEventTwice == ~torn => \A a, b \in parts : a = b \/ a \cap b = {}

(* The archive holds an event once, in a part that its manifest describes  *)
(* (flush, ImmutableParquetStore.write).                                    *)
ArchivedOnce == EveryPartHasManifest /\ NoEventTwice

(* Whoever reads an event finds, in the manifests of its partition, every  *)
(* gap declared for it before the event was accepted: the counts never     *)
(* trail the events, although the flush takes them later.  After a torn    *)
(* write an identical part may keep its older manifest.                    *)
GapsCovered == \A e \in Kept : Gaps(PartitionOf[e]) >= gapsBefore[e]

(* Every gap and duplicate recorded for a partition is counted once: in a  *)
(* manifest, in the running flush or still in the buffer.                  *)
CountedOnce == \A p \in Partitions :
    /\ counts[p].gap + Taken(p).gap + Gaps(p) = recorded[p].gap
    /\ counts[p].dup + Taken(p).dup + Duplicates(p) = recorded[p].dup

(* Both (flush, mark_gap): what the manifests say of the evidence is true  *)
(* and in time.                                                            *)
CountsKept == ~torn => GapsCovered /\ CountedOnce

(* Nothing is left in memory when collect_forever returns: the final flush *)
(* starts after every socket has stopped, unless the periodic one failed.  *)
ReturnsEmpty ==
    tasks[Final] = "done" /\ tasks[Periodic] # "failed" => pending = {}

(* An accepted event reaches the disk without another event arriving and   *)
(* without a stop (the periodic flush), and also when a stop intervenes or *)
(* a write fails, unless the process goes down or the periodic task died.  *)
EvidenceReachesDisk ==
    \A e \in Events :
        e \in pending ~> e \in Kept \/ ~up \/ tasks[Periodic] = "failed"
=============================================================================
