--------------------------- MODULE TelonexDownload ---------------------------
(***************************************************************************)
(* The Telonex downloader (scripts/_telonex_data_download.py): the store   *)
(* of Parquet parts with its DuckDB manifest, and a run over it, which is  *)
(* a dispatcher of downloads in the event loop, a bounded queue, a writer  *)
(* thread that ingests what was downloaded in batches, and the close of    *)
(* the store.                                                              *)
(*                                                                         *)
(* A day stands for one (channel, market, outcome, day); the days of one   *)
(* channel and month share an open part file, and their manifest rows are  *)
(* committed when it is closed.  A file is abstracted to the days it holds *)
(* and whether it has its footer.  What the store does under its lock is a *)
(* step per file or transaction, so that it may fail or be killed between  *)
(* two of them.                                                            *)
(***************************************************************************)
EXTENDS Integers, Sequences, FiniteSets

CONSTANTS
    Days, Months,
    Month,          \* the month (and channel) of a day
    Workers,        \* downloads in flight
    QueueLimit,     \* writer_queue_limit
    PendingLimit,   \* pending_commit_limit
    RollDays,       \* _TARGET_PART_PENDING_DAYS
    MaxFaults       \* bound: failures, crashes, signals and overwriting runs

ASSUME DownloadAssumption ==
    /\ Month \in [Days -> Months]
    /\ {Workers, QueueLimit, PendingLimit, RollDays} \subseteq Nat \ {0}
    /\ MaxFaults \in Nat

VARIABLES
    run,        \* its phase, the events stop and writer_failed, the hourly drain
    jobs,       \* the days still to be downloaded
    flight,     \* the days being downloaded
    queue,      \* result_queue
    held,       \* pending_for_commit
    work,       \* what the holder of the store's lock has left to do
    open,       \* the open part of every month: its name and pending days
    flushing,   \* the part being closed and committed
    files,      \* the part files on disk
    manifest,   \* the tables completed_days and empty_days
    got,        \* downloaded_days
    rewritten,  \* history: completed days an overwriting run set out to fetch
    faults      \* history: the faults so far

thread == <<jobs, flight, queue, held>>
store == <<work, open, flushing, files, manifest>>
vars == <<run, thread, store, got, rewritten, faults>>

NoPart == <<>>
NoOpen == [part |-> NoPart, days |-> {}]
NoFlush == [part |-> NoPart, days |-> {}, step |-> "none"]
Kinds == {"rows", "bare", "missing", "none"}
Items == [kind : Kinds, day : Days] \cup {[kind |-> "drain"]}

(* The work of ingest_batch.                                               *)
OfKind(results, kind) == {r.day : r \in {q \in results : q.kind = kind}}

Batch(by, results) ==
    [by |-> by, rows |-> OfKind(results, "rows"), bare |-> OfKind(results, "bare"),
     gone |-> OfKind(results, "missing"),
     ok |-> OfKind(results, "rows") \cup OfKind(results, "bare")]

NoWork == Batch("none", {})

Init ==
    /\ run = [phase |-> "off", stop |-> FALSE, failed |-> FALSE, drain |-> "no"]
    /\ jobs = {} /\ flight = {} /\ queue = <<>> /\ held = {}
    /\ work = NoWork /\ open = [m \in Months |-> NoOpen] /\ flushing = NoFlush
    /\ files = [p \in {} |-> {}]
    /\ manifest = [completed |-> {}, part |-> [d \in Days |-> NoPart], empty |-> {}]
    /\ got = {} /\ rewritten = {} /\ faults = 0

Suffers == faults < MaxFaults /\ faults' = faults + 1
-----------------------------------------------------------------------------
(* A run begins *)

Referenced == {manifest.part[d] : d \in manifest.completed} \ {NoPart}

(* _remove_orphan_parts *)
Swept == [p \in DOMAIN files \cap Referenced |-> files[p]]

(* Mutant of Pruned: only the empty days are skipped.                      *)
PrunedEmpty(stale) == Days \ (manifest.empty \ stale)

(* _prune_jobs_against_manifest: empty days are checked again when stale.  *)
Pruned(stale) == Days \ (manifest.completed \cup (manifest.empty \ stale))

(* The store opens, and the manifest tells what is left to do.             *)
Start ==
    /\ run.phase = "off"
    /\ \/ \E stale \in {{}, manifest.empty} : jobs' = Pruned(stale)
          /\ UNCHANGED <<rewritten, faults>>
       \/ /\ Suffers /\ jobs' = Days
          /\ rewritten' = rewritten \cup manifest.completed
    /\ run' = [phase |-> "running", stop |-> FALSE, failed |-> FALSE, drain |-> "no"]
    /\ files' = Swept /\ got' = {}
    /\ UNCHANGED <<flight, queue, held, work, open, flushing, manifest>>
-----------------------------------------------------------------------------
(* The dispatcher *)

Dispatching == run.phase = "running" /\ (run.drain = "no" \/ run.failed)

Launch(d) ==
    /\ Dispatching /\ ~run.stop
    /\ d \in jobs /\ Cardinality(flight) < Workers
    /\ jobs' = jobs \ {d} /\ flight' = flight \cup {d}
    /\ UNCHANGED <<run, queue, held, store, got, rewritten, faults>>

(* _handoff_item *)
HasRoom == run.failed \/ Len(queue) < QueueLimit

HandOff(item) == queue' = IF run.failed THEN queue ELSE Append(queue, item)

(* _do_one_async: rows, a day without rows, a 404, or nothing (failed or   *)
(* cancelled); the drain is due once an hour.                              *)
Download(d, kind) ==
    /\ Dispatching /\ d \in flight /\ HasRoom
    /\ flight' = flight \ {d}
    /\ HandOff([kind |-> kind, day |-> d])
    /\ IF kind = "none" /\ ~run.stop THEN Suffers ELSE UNCHANGED faults
    /\ run' \in {run} \cup {[run EXCEPT !.drain = IF run.failed THEN @ ELSE "due"]}
    /\ UNCHANGED <<jobs, held, store, got, rewritten>>

(* _drain_writer_queue, which waits until the writer has answered.         *)
SendDrain ==
    /\ run.phase = "running" /\ run.drain = "due" /\ ~run.failed /\ HasRoom
    /\ HandOff([kind |-> "drain"])
    /\ run' = [run EXCEPT !.drain = "sent"]
    /\ UNCHANGED <<jobs, flight, held, store, got, rewritten, faults>>

(* A task cancelled while its rows are parsed, or still at it after 15 s.  *)
Strand(d) ==
    /\ Dispatching /\ run.stop /\ d \in flight
    /\ flight' = flight \ {d}
    /\ UNCHANGED <<run, jobs, queue, held, store, got, rewritten, faults>>

Finish ==
    /\ Dispatching /\ flight = {} /\ (run.stop \/ jobs = {})
    /\ run' = [run EXCEPT !.phase = "joining"] /\ jobs' = {}
    /\ UNCHANGED <<flight, queue, held, store, got, rewritten, faults>>

(* _async_stop_signal *)
Signal ==
    /\ Suffers /\ run.phase = "running" /\ ~run.stop
    /\ run' = [run EXCEPT !.stop = TRUE]
    /\ UNCHANGED <<thread, store, got, rewritten>>
-----------------------------------------------------------------------------
(* The writer thread *)

Writing == run.phase # "off" /\ ~run.failed /\ work.by = "none"

(* _writer takes an item; _flush_pending runs when enough rows, results or *)
(* seconds have come together.                                             *)
TakeResult ==
    /\ Writing /\ queue # <<>> /\ Head(queue).kind # "drain"
    /\ queue' = Tail(queue)
    /\ LET results == held \cup IF Head(queue).kind = "none" THEN {} ELSE {Head(queue)} IN
       \/ /\ Cardinality(results) < PendingLimit
          /\ held' = results /\ UNCHANGED work
       \/ /\ Head(queue).kind # "none"
          /\ held' = {} /\ work' = Batch("writer", results)
    /\ UNCHANGED <<run, jobs, flight, open, flushing, files, manifest, got,
                   rewritten, faults>>

TakeDrain ==
    /\ Writing /\ queue # <<>> /\ Head(queue).kind = "drain"
    /\ queue' = Tail(queue) /\ held' = {} /\ work' = Batch("drain", held)
    /\ UNCHANGED <<run, jobs, flight, open, flushing, files, manifest, got,
                   rewritten, faults>>

(* Nothing came for a while, or nothing will.                              *)
FlushWhenIdle ==
    /\ Writing /\ queue = <<>> /\ held # {}
    /\ held' = {} /\ work' = Batch("writer", held)
    /\ UNCHANGED <<run, jobs, flight, queue, open, flushing, files, manifest, got,
                   rewritten, faults>>
-----------------------------------------------------------------------------
(* The store, under its lock *)

Ingesting == work.by \in {"writer", "drain"} /\ flushing = NoFlush

Numbers(m) == {p[2] : p \in {q \in DOMAIN files : q[1] = m}}

(* Mutant of NextParts: as many as there are.                              *)
NextPartsByCount(m) == {<<m, Cardinality(Numbers(m))>>}

(* _next_part_number: the one after the last.                              *)
NextParts(m) ==
    {<<m, n>> : n \in {k \in {0} \cup {i + 1 : i \in Numbers(m)} :
                          \A i \in Numbers(m) : i < k}}

(* The part open for the month, or a new one.                              *)
Target(m) == IF open[m].part = NoPart THEN NextParts(m) ELSE {open[m].part}

RowsIn(p) == IF p \in DOMAIN files THEN files[p].rows ELSE {}

WithFile(p, rows, whole) ==
    [q \in DOMAIN files \cup {p} |->
        IF q = p THEN [rows |-> rows, whole |-> whole] ELSE files[q]]

Roll(part, days, m) ==
    /\ flushing' = [part |-> part, days |-> days, step |-> "close"]
    /\ open' = [open EXCEPT ![m] = NoOpen]

SameRun == UNCHANGED <<run, thread, got, rewritten, faults>>

(* _write_partition_table_locked: the part is rolled when it is full, of   *)
(* days or of bytes.                                                       *)
Write(d) ==
    /\ Ingesting /\ d \in work.rows
    /\ work' = [work EXCEPT !.rows = @ \ {d}]
    /\ \E p \in Target(Month[d]) :
        LET days == open[Month[d]].days \cup {d} IN
        /\ files' = WithFile(p, RowsIn(p) \cup {d}, FALSE)
        /\ \/ Roll(p, days, Month[d])
           \/ /\ Cardinality(days) < RollDays
              /\ open' = [open EXCEPT ![Month[d]] = [part |-> p, days |-> days]]
              /\ UNCHANGED flushing
    /\ UNCHANGED manifest /\ SameRun

(* Rows of a new schema do not fit the open part.                          *)
Evolve(d) ==
    /\ Ingesting /\ d \in work.rows /\ open[Month[d]].part # NoPart
    /\ Roll(open[Month[d]].part, open[Month[d]].days, Month[d])
    /\ UNCHANGED <<work, files, manifest>> /\ SameRun

(* _flush_open_part_locked: an empty part is removed, another one gets its *)
(* footer, then its manifest rows.                                         *)
CloseFile ==
    /\ flushing.step = "close"
    /\ IF flushing.days = {}
       THEN /\ files' = [q \in DOMAIN files \ {flushing.part} |-> files[q]]
            /\ flushing' = NoFlush
       ELSE /\ files' = WithFile(flushing.part, RowsIn(flushing.part), TRUE)
            /\ flushing' = [flushing EXCEPT !.step = "commit"]
    /\ UNCHANGED <<work, open, manifest>> /\ SameRun

Completed(days, part) ==
    [completed |-> manifest.completed \cup days,
     part |-> [d \in Days |-> IF d \in days THEN part ELSE manifest.part[d]],
     empty |-> manifest.empty \ days]

CommitPart ==
    /\ flushing.step = "commit"
    /\ manifest' = Completed(flushing.days, flushing.part)
    /\ flushing' = NoFlush
    /\ UNCHANGED <<work, open, files>> /\ SameRun

RecordBare ==
    /\ Ingesting /\ work.rows = {} /\ work.bare # {}
    /\ manifest' = Completed(work.bare, NoPart)
    /\ work' = [work EXCEPT !.bare = {}]
    /\ UNCHANGED <<open, flushing, files>> /\ SameRun

RecordMissing ==
    /\ Ingesting /\ work.rows = {} /\ work.bare = {} /\ work.gone # {}
    /\ manifest' = [manifest EXCEPT !.completed = @ \ work.gone, !.empty = @ \cup work.gone]
    /\ work' = [work EXCEPT !.gone = {}]
    /\ UNCHANGED <<open, flushing, files>> /\ SameRun

(* The batch is counted; a drain goes on with flush_all.                   *)
EndBatch ==
    /\ Ingesting /\ work.rows = {} /\ work.bare = {} /\ work.gone = {}
    /\ got' = got \cup work.ok
    /\ work' = Batch(IF work.by = "drain" THEN "parts" ELSE "none", {})
    /\ UNCHANGED <<run, thread, open, flushing, files, manifest, rewritten, faults>>

FlushPart(m) ==
    /\ work.by \in {"parts", "close"} /\ flushing = NoFlush
    /\ open[m].part # NoPart
    /\ Roll(open[m].part, open[m].days, m)
    /\ UNCHANGED <<work, files, manifest>> /\ SameRun

AllFlushed == flushing = NoFlush /\ \A m \in Months : open[m].part = NoPart

Acknowledge ==
    /\ work.by = "parts" /\ AllFlushed
    /\ work' = NoWork /\ run' = [run EXCEPT !.drain = "no"]
    /\ UNCHANGED <<thread, open, flushing, files, manifest, got, rewritten, faults>>
-----------------------------------------------------------------------------
(* The end of a run *)

(* Mutant of WriterDone: what is held is not flushed at the end.           *)
WriterDoneEarly == work.by = "none" /\ (run.failed \/ queue = <<>>)

(* Until then FlushWhenIdle has something to do.                           *)
WriterDone == work.by = "none" /\ (run.failed \/ (queue = <<>> /\ held = {}))

(* The writer is joined; after 60 s, or an interrupt, no longer.           *)
Join ==
    /\ run.phase = "joining"
    /\ IF WriterDone THEN UNCHANGED faults ELSE Suffers
    /\ run' = [run EXCEPT !.phase = "closing"]
    /\ UNCHANGED <<thread, store, got, rewritten>>

(* close, once it has the lock.                                            *)
Close ==
    /\ run.phase = "closing" /\ work.by = "none"
    /\ work' = Batch("close", {})
    /\ UNCHANGED <<open, flushing, files, manifest>> /\ SameRun

Forgotten ==
    /\ jobs' = {} /\ flight' = {} /\ queue' = <<>> /\ held' = {} /\ work' = NoWork
    /\ open' = [m \in Months |-> NoOpen] /\ flushing' = NoFlush

(* The run returns its summary.                                            *)
Closed ==
    /\ work.by = "close" /\ AllFlushed
    /\ files' = Swept /\ run' = [run EXCEPT !.phase = "off", !.drain = "no"]
    /\ Forgotten /\ UNCHANGED <<manifest, got, rewritten, faults>>

(* The process is gone, without a summary.                                 *)
Dies ==
    /\ run' = [run EXCEPT !.phase = "off", !.drain = "no"] /\ got' = {}
    /\ Forgotten /\ UNCHANGED <<manifest, rewritten>>

Crash == Suffers /\ run.phase # "off" /\ Dies /\ UNCHANGED files
-----------------------------------------------------------------------------
(* Failures of the store.  A batch that fails stops the run, and so does   *)
(* flush_all; an error of close leaves the program.                        *)

(* Mutant of Failing: it is logged, and the run goes on.                   *)
FailingQuietly(newOpen) ==
    IF work.by = "close" THEN Dies
    ELSE /\ work' = Batch(IF work.by = "drain" THEN "parts" ELSE "none", {})
         /\ open' = newOpen /\ flushing' = NoFlush
         /\ run' = [run EXCEPT !.drain = IF work.by = "parts" THEN "no" ELSE @]
         /\ UNCHANGED <<thread, manifest, got, rewritten>>

Failing(newOpen) ==
    IF work.by = "close" THEN Dies
    ELSE /\ work' = Batch(IF work.by = "drain" THEN "parts" ELSE "none", {})
         /\ open' = newOpen /\ flushing' = NoFlush
         /\ run' = [run EXCEPT !.stop = TRUE, !.failed = TRUE,
                               !.drain = IF work.by = "parts" THEN "no" ELSE @]
         /\ UNCHANGED <<thread, manifest, got, rewritten>>

(* Mutant of WriteFails: the rows are in the file all the same.            *)
WriteFailsLate(d) ==
    /\ Suffers /\ Ingesting /\ d \in work.rows
    /\ \E p \in Target(Month[d]) :
        /\ files' = WithFile(p, RowsIn(p) \cup {d}, FALSE)
        /\ Failing([open EXCEPT ![Month[d]].part = p])

(* Before the part could be opened, or after.  A failed write adds no rows *)
(* to it.                                                                  *)
WriteFails(d) ==
    /\ Suffers /\ Ingesting /\ d \in work.rows
    /\ \/ Failing(open) /\ UNCHANGED files
       \/ \E p \in Target(Month[d]) :
            /\ files' = WithFile(p, RowsIn(p), FALSE)
            /\ Failing([open EXCEPT ![Month[d]].part = p])

(* The half-written file is removed, and its days are forgotten.           *)
CloseFails ==
    /\ Suffers /\ flushing.step = "close"
    /\ files' = [q \in DOMAIN files \ {flushing.part} |-> files[q]]
    /\ Failing(open)

(* The transaction is rolled back; the part is an orphan.                  *)
CommitFails ==
    /\ Suffers
    /\ \/ flushing.step = "commit"
       \/ Ingesting /\ work.rows = {} /\ work.bare \cup work.gone # {}
    /\ Failing(open) /\ UNCHANGED files
-----------------------------------------------------------------------------
Dispatcher ==
    \/ \E d \in Days : Launch(d) \/ Strand(d) \/ \E kind \in Kinds : Download(d, kind)
    \/ SendDrain \/ Finish

Writer ==
    \/ TakeResult \/ TakeDrain \/ FlushWhenIdle
    \/ \E d \in Days : Write(d) \/ Evolve(d)
    \/ CloseFile \/ CommitPart \/ RecordBare \/ RecordMissing \/ EndBatch
    \/ \E m \in Months : FlushPart(m)
    \/ Acknowledge

Main == Start \/ Join \/ Close \/ Closed

Fault ==
    \/ Signal \/ Crash \/ CloseFails \/ CommitFails \/ \E d \in Days : WriteFails(d)

Next == Dispatcher \/ Writer \/ Main \/ Fault

(* Every thread goes on, requests time out, and the program is run again.  *)
Fairness == WF_vars(Dispatcher) /\ WF_vars(Writer) /\ WF_vars(Main)

Spec == Init /\ [][Next]_vars /\ Fairness
-----------------------------------------------------------------------------
Parts == Months \X Nat

TypeOK ==
    /\ run \in [phase : {"off", "running", "joining", "closing"}, stop : BOOLEAN,
                failed : BOOLEAN, drain : {"no", "due", "sent"}]
    /\ jobs \subseteq Days /\ flight \subseteq Days
    /\ queue \in Seq(Items) /\ held \subseteq [kind : Kinds, day : Days]
    /\ work \in [by : {"none", "writer", "drain", "parts", "close"}, rows : SUBSET Days,
                 bare : SUBSET Days, gone : SUBSET Days, ok : SUBSET Days]
    /\ open \in [Months -> [part : Parts \cup {NoPart}, days : SUBSET Days]]
    /\ flushing \in [part : Parts \cup {NoPart}, days : SUBSET Days,
                     step : {"none", "close", "commit"}]
    /\ DOMAIN files \subseteq Parts
    /\ \A p \in DOMAIN files : files[p] \in [rows : SUBSET Days, whole : BOOLEAN]
    /\ manifest \in [completed : SUBSET Days, part : [Days -> Parts \cup {NoPart}],
                     empty : SUBSET Days]
    /\ got \subseteq Days /\ rewritten \subseteq Days /\ faults \in Nat

(* Whatever was killed or failed in between, a day the manifest calls      *)
(* completed is in the part it names, with its footer, and is not an empty *)
(* day as well ("crash-safe resume", docs/data-vendors.md).                *)
ManifestIsTrue ==
    /\ \A d \in manifest.completed :
        LET p == manifest.part[d] IN
        p # NoPart => p \in DOMAIN files /\ files[p].whole /\ d \in files[p].rows
    /\ manifest.completed \cap manifest.empty = {}

(* The reader scans every part that one of the days asked for is in, so a  *)
(* day may be in no other part the manifest names.  Only an overwriting    *)
(* run can leave its rows behind.                                          *)
ReadOnce ==
    \A d \in Days \ rewritten, p \in Referenced :
        d \in files[p].rows => d \in manifest.completed /\ manifest.part[d] = p

(* What a summary without a writer failure counts as downloaded is in the  *)
(* manifest, though it was counted before its part was closed.             *)
SummaryIsDurable ==
    run.phase = "off" /\ ~run.failed => got \subseteq manifest.completed

(* A completed day stays where it is unless it is overwritten.             *)
CompletedStays ==
    [][\A d \in manifest.completed \ rewritten :
          d \in manifest'.completed /\ manifest'.part[d] = manifest.part[d]]_vars

(* Once nothing fails any more, every run ends, also when the writer had   *)
(* failed with the queue full and a drain on its way, and reruns record    *)
(* every day (_dispatcher, _prune_jobs_against_manifest).                  *)
EveryDayRecorded ==
    \A d \in Days : <>(d \in manifest.completed \cup manifest.empty)
=============================================================================
