------------------------ MODULE TelonexDownload_proofs ------------------------
(***************************************************************************)
(* The store keeps what it has recorded, for any days, months, workers,    *)
(* queues, faults and crashes: what the manifest calls completed is in the *)
(* files, in one of them only, and stays there, and a summary counts       *)
(* nothing else.                                                           *)
(*                                                                         *)
(* Three facts carry the proof.  A part that is open or being closed is in *)
(* no manifest row, holds exactly its pending days, and is no other such   *)
(* part, because a new one is numbered after all of its month.  A day is   *)
(* in one place of a run at a time: to be downloaded, in flight, queued,   *)
(* held, in the batch, or pending in a part.  And a day that is in one of  *)
(* them while it is completed is being overwritten.                        *)
(***************************************************************************)
EXTENDS TelonexDownload, TLAPS

(* Where a day can be in a run.                                            *)
Results == {i \in DOMAIN queue : queue[i].kind # "drain"}
Queued == {queue[i].day : i \in Results}
Gathered == {r.day : r \in held}
Upstream == jobs \cup flight \cup Queued \cup Gathered
InBatch == work.rows \cup work.bare \cup work.gone
Pending == flushing.days \cup {d \in Days : \E m \in Months : d \in open[m].days}

(* A process that does not run holds nothing.                              *)
OffHoldsNothing ==
    run.phase = "off" =>
        /\ jobs = {} /\ flight = {} /\ queue = <<>> /\ held = {} /\ work = NoWork
        /\ open = [m \in Months |-> NoOpen] /\ flushing = NoFlush

(* Without a batch there is nothing left of one.                           *)
NoBatchLeft ==
    work.by \notin {"writer", "drain"} =>
        work.rows = {} /\ work.bare = {} /\ work.gone = {} /\ work.ok = {}

(* The part open for a month, if there is one, holds its pending days.     *)
FitsIn(parts, disk) ==
    \A m \in Months :
        /\ \A d \in parts[m].days : Month[d] = m
        /\ parts[m].part = NoPart => parts[m].days = {}
        /\ parts[m].part # NoPart =>
            /\ parts[m].part \in DOMAIN disk /\ parts[m].part[1] = m
            /\ parts[m].part \notin Referenced
            /\ disk[parts[m].part].rows = parts[m].days

OpenFits == FitsIn(open, files)

(* So does the part being closed, which no month has open any more.        *)
FlushFits ==
    /\ flushing.step = "none" => flushing = NoFlush
    /\ flushing.step # "none" =>
        /\ flushing.part \in DOMAIN files
        /\ flushing.part \notin Referenced
        /\ files[flushing.part].rows = flushing.days
        /\ \A m \in Months : open[m].part # flushing.part
    /\ flushing.step = "commit" => files[flushing.part].whole

(* A day is in one place at a time.                                        *)
QueuedOnce == \A i, j \in Results : queue[i].day = queue[j].day => i = j
HeldOnce == \A r, s \in held : r.day = s.day => r = s

UpstreamApart ==
    /\ jobs \cap (flight \cup Queued \cup Gathered) = {}
    /\ flight \cap (Queued \cup Gathered) = {}
    /\ Queued \cap Gathered = {}
    /\ Upstream \cap (InBatch \cup work.ok \cup Pending \cup got) = {}

BatchApart ==
    /\ work.rows \cap work.bare = {}
    /\ work.gone \cap (work.rows \cup work.bare \cup work.ok \cup got) = {}
    /\ InBatch \cap Pending = {}
    /\ \A m \in Months : flushing.days \cap open[m].days = {}

OnePlace == QueuedOnce /\ HeldOnce /\ UpstreamApart /\ BatchApart

(* Only an overwriting run fetches a completed day.                        *)
OnlyOverwritten ==
    (Upstream \cup InBatch \cup Pending) \cap manifest.completed \subseteq rewritten

(* While nothing failed, what is counted is recorded or about to be.       *)
CountedIsKept ==
    ~run.failed =>
        got \cup work.ok \subseteq
            manifest.completed \cup work.rows \cup work.bare \cup Pending

IInv ==
    /\ OffHoldsNothing /\ NoBatchLeft /\ OpenFits /\ FlushFits /\ OnePlace
    /\ OnlyOverwritten /\ CountedIsKept /\ ManifestIsTrue /\ ReadOnce
-----------------------------------------------------------------------------
(* Types *)

(* A part has a month and a number, so it is not NoPart.                   *)
LEMMA PartsAreParts == NoPart \notin Parts
  BY DEF NoPart, Parts

(* _next_part_number names no part that is there, and one of its month.    *)
LEMMA NextIsFresh ==
    ASSUME DOMAIN files \subseteq Parts, NEW m \in Months, NEW p \in NextParts(m)
    PROVE  p \in Parts /\ p[1] = m /\ p \notin DOMAIN files
<1>1. Numbers(m) \subseteq Nat
  BY DEF Numbers, Parts
<1>2. PICK n \in {0} \cup {i + 1 : i \in Numbers(m)} :
        p = <<m, n>> /\ \A i \in Numbers(m) : i < n
  BY DEF NextParts
<1>3. n \in Nat /\ p \in Parts /\ p[1] = m /\ p[2] = n
  BY <1>1, <1>2 DEF Parts
<1>4. p \in DOMAIN files => n \in Numbers(m)
  BY <1>3 DEF Numbers
<1> QED  BY <1>1, <1>2, <1>3, <1>4

(* What ingest_batch makes of well-typed results.                          *)
LEMMA BatchTypes ==
    ASSUME NEW by \in {"none", "writer", "drain", "parts", "close"},
           NEW results \in SUBSET [kind : Kinds, day : Days]
    PROVE  Batch(by, results) \in
             [by : {"none", "writer", "drain", "parts", "close"}, rows : SUBSET Days,
              bare : SUBSET Days, gone : SUBSET Days, ok : SUBSET Days]
<1>1. \A kind : OfKind(results, kind) \subseteq Days
  BY DEF OfKind
<1> QED  BY <1>1 DEF Batch

LEMMA WithFileTypes ==
    ASSUME TypeOK, NEW p \in Parts, NEW rows \in SUBSET Days, NEW whole \in BOOLEAN,
           files' = WithFile(p, rows, whole)
    PROVE  /\ DOMAIN files' = DOMAIN files \cup {p}
           /\ files'[p] = [rows |-> rows, whole |-> whole]
           /\ \A q \in DOMAIN files : q # p => files'[q] = files[q]
           /\ DOMAIN files' \subseteq Parts
           /\ \A q \in DOMAIN files' : files'[q] \in [rows : SUBSET Days, whole : BOOLEAN]
  BY DEF WithFile, TypeOK

LEMMA RowsTypes ==
    ASSUME TypeOK, NEW p
    PROVE  RowsIn(p) \subseteq Days
  BY DEF TypeOK, RowsIn

LEMMA TargetTypes ==
    ASSUME TypeOK, NEW m \in Months, NEW p \in Target(m)
    PROVE  p \in Parts
  BY NextIsFresh DEF TypeOK, Target

FilesTyped ==
    /\ DOMAIN files \subseteq Parts
    /\ \A p \in DOMAIN files : files[p] \in [rows : SUBSET Days, whole : BOOLEAN]

WorkTyped ==
    work \in [by : {"none", "writer", "drain", "parts", "close"}, rows : SUBSET Days,
              bare : SUBSET Days, gone : SUBSET Days, ok : SUBSET Days]

OpenTyped == open \in [Months -> [part : Parts \cup {NoPart}, days : SUBSET Days]]

FlushTyped ==
    flushing \in [part : Parts \cup {NoPart}, days : SUBSET Days,
                  step : {"none", "close", "commit"}]

RunTyped ==
    run \in [phase : {"off", "running", "joining", "closing"}, stop : BOOLEAN,
             failed : BOOLEAN, drain : {"no", "due", "sent"}]

ThreadTyped ==
    /\ jobs \subseteq Days /\ flight \subseteq Days
    /\ queue \in Seq(Items) /\ held \subseteq [kind : Kinds, day : Days]

ManifestTyped ==
    manifest \in [completed : SUBSET Days, part : [Days -> Parts \cup {NoPart}],
                  empty : SUBSET Days]

HistoryTyped == got \subseteq Days /\ rewritten \subseteq Days /\ faults \in Nat

LEMMA TypeParts ==
    TypeOK <=> /\ FilesTyped /\ WorkTyped /\ OpenTyped /\ FlushTyped /\ RunTyped
               /\ ThreadTyped /\ ManifestTyped /\ HistoryTyped
  BY DEF TypeOK, FilesTyped, WorkTyped, OpenTyped, FlushTyped, RunTyped, ThreadTyped,
         ManifestTyped, HistoryTyped

LEMMA NothingTypes ==
    /\ NoOpen \in [part : Parts \cup {NoPart}, days : SUBSET Days]
    /\ NoFlush \in [part : Parts \cup {NoPart}, days : SUBSET Days,
                    step : {"none", "close", "commit"}]
    /\ NoWork \in [by : {"none", "writer", "drain", "parts", "close"}, rows : SUBSET Days,
                   bare : SUBSET Days, gone : SUBSET Days, ok : SUBSET Days]
  BY BatchTypes DEF NoOpen, NoFlush, NoWork

LEMMA InitTypes == Init => TypeOK
<1> SUFFICES ASSUME Init PROVE TypeOK
  OBVIOUS
<1>1. WorkTyped /\ OpenTyped /\ FlushTyped
  BY NothingTypes DEF Init, WorkTyped, OpenTyped, FlushTyped
<1>2. FilesTyped /\ RunTyped /\ ThreadTyped /\ ManifestTyped /\ HistoryTyped
  BY DEF Init, FilesTyped, RunTyped, ThreadTyped, ManifestTyped, HistoryTyped
<1> QED  BY <1>1, <1>2, TypeParts

(* The dispatcher's steps leave the store alone.                           *)
LEMMA DispatcherTypes ==
    ASSUME TypeOK, Dispatcher
    PROVE  TypeOK'
<1> USE DEF TypeOK
<1>1. ASSUME NEW d \in Days, Launch(d) PROVE TypeOK'
  BY <1>1 DEF Launch, store
<1>2. ASSUME NEW d \in Days, Strand(d) PROVE TypeOK'
  BY <1>2 DEF Strand, store
<1>3. ASSUME NEW d \in Days, NEW kind \in Kinds, Download(d, kind) PROVE TypeOK'
  <2>1. [kind |-> kind, day |-> d] \in Items
    BY DEF Items
  <2>2. queue' \in Seq(Items) /\ flight' \subseteq Days
    BY <1>3, <2>1 DEF Download, HandOff
  <2>3. run' \in [phase : {"off", "running", "joining", "closing"}, stop : BOOLEAN,
                  failed : BOOLEAN, drain : {"no", "due", "sent"}]
    BY <1>3 DEF Download
  <2>4. faults' \in Nat
    BY <1>3 DEF Download, Suffers
  <2>5. UNCHANGED <<jobs, held, work, open, flushing, files, manifest, got, rewritten>>
    BY <1>3 DEF Download, store
  <2> QED  BY <2>2, <2>3, <2>4, <2>5
<1>4. ASSUME SendDrain PROVE TypeOK'
  <2>1. [kind |-> "drain"] \in Items
    BY DEF Items
  <2>2. queue' \in Seq(Items)
    BY <1>4, <2>1 DEF SendDrain, HandOff
  <2>3. run' = [run EXCEPT !.drain = "sent"]
    BY <1>4 DEF SendDrain
  <2>4. UNCHANGED <<jobs, flight, held, work, open, flushing, files, manifest, got,
                    rewritten, faults>>
    BY <1>4 DEF SendDrain, store
  <2> QED  BY <2>2, <2>3, <2>4
<1>5. ASSUME Finish PROVE TypeOK'
  BY <1>5 DEF Finish, store
<1> QED  BY <1>1, <1>2, <1>3, <1>4, <1>5 DEF Dispatcher

(* What the writer takes from its queue is a result or a drain.            *)
LEMMA HeadTypes ==
    ASSUME TypeOK, queue # <<>>
    PROVE  /\ Head(queue) \in Items /\ Tail(queue) \in Seq(Items)
           /\ Head(queue).kind # "drain" => Head(queue) \in [kind : Kinds, day : Days]
<1>1. Head(queue) \in Items /\ Tail(queue) \in Seq(Items)
  BY DEF TypeOK
<1>2. Head(queue) \notin [kind : Kinds, day : Days] => Head(queue).kind = "drain"
  BY <1>1 DEF Items
<1> QED  BY <1>1, <1>2

LEMMA TakeTypes ==
    ASSUME TypeOK, TakeResult \/ TakeDrain \/ FlushWhenIdle
    PROVE  TypeOK'
<1>1. held' \subseteq [kind : Kinds, day : Days] /\ WorkTyped' /\ queue' \in Seq(Items)
  <2>1. CASE TakeResult
    <3> DEFINE results == held \cup IF Head(queue).kind = "none" THEN {} ELSE {Head(queue)}
    <3>1. results \in SUBSET [kind : Kinds, day : Days]
      BY <2>1, HeadTypes DEF TakeResult, TypeOK
    <3>2. Batch("writer", results) \in
             [by : {"none", "writer", "drain", "parts", "close"}, rows : SUBSET Days,
              bare : SUBSET Days, gone : SUBSET Days, ok : SUBSET Days]
      BY <3>1, BatchTypes
    <3>3. \/ held' = results /\ UNCHANGED work
          \/ held' = {} /\ work' = Batch("writer", results)
      BY <2>1 DEF TakeResult
    <3> HIDE DEF results
    <3> QED  BY <2>1, <3>1, <3>2, <3>3, HeadTypes DEF TakeResult, TypeOK, WorkTyped
  <2>2. CASE TakeDrain \/ FlushWhenIdle
    <3>1. Batch("drain", held) \in
             [by : {"none", "writer", "drain", "parts", "close"}, rows : SUBSET Days,
              bare : SUBSET Days, gone : SUBSET Days, ok : SUBSET Days]
      BY BatchTypes DEF TypeOK
    <3>2. Batch("writer", held) \in
             [by : {"none", "writer", "drain", "parts", "close"}, rows : SUBSET Days,
              bare : SUBSET Days, gone : SUBSET Days, ok : SUBSET Days]
      BY BatchTypes DEF TypeOK
    <3> QED  BY <2>2, <3>1, <3>2, HeadTypes
             DEF TakeDrain, FlushWhenIdle, TypeOK, WorkTyped
  <2> QED  BY <2>1, <2>2
<1>2. UNCHANGED <<run, jobs, flight, open, flushing, files, manifest, got, rewritten,
                  faults>>
  BY DEF TakeResult, TakeDrain, FlushWhenIdle
<1> QED  BY <1>1, <1>2 DEF TypeOK, WorkTyped

(* What a step of the store leaves alone, when nothing fails.              *)
LEMMA SameRunTypes ==
    ASSUME TypeOK, SameRun, FilesTyped', WorkTyped', OpenTyped', FlushTyped',
           ManifestTyped'
    PROVE  TypeOK'
  BY DEF TypeOK, SameRun, thread, FilesTyped, WorkTyped, OpenTyped, FlushTyped,
         ManifestTyped

LEMMA RollTypes ==
    ASSUME TypeOK, NEW part \in Parts, NEW days \in SUBSET Days, NEW m \in Months,
           Roll(part, days, m)
    PROVE  OpenTyped' /\ FlushTyped'
  BY NothingTypes DEF Roll, TypeOK, OpenTyped, FlushTyped

LEMMA CompletedTypes ==
    ASSUME TypeOK, NEW days \in SUBSET Days, NEW part \in Parts \cup {NoPart},
           manifest' = Completed(days, part)
    PROVE  ManifestTyped'
  BY DEF TypeOK, Completed, ManifestTyped

LEMMA StoreTypes ==
    ASSUME TypeOK, FlushFits,
           \/ \E d \in Days : Write(d) \/ Evolve(d)
           \/ CloseFile \/ CommitPart \/ RecordBare \/ RecordMissing
           \/ \E m \in Months : FlushPart(m)
    PROVE  TypeOK'
<1>1. Month \in [Days -> Months]
  BY DownloadAssumption
<1>2. FilesTyped /\ WorkTyped /\ OpenTyped /\ FlushTyped /\ ManifestTyped
  BY TypeParts
<1>3. ASSUME NEW d \in Days, Write(d) PROVE TypeOK'
  <2>1. PICK p \in Target(Month[d]) :
          /\ files' = WithFile(p, RowsIn(p) \cup {d}, FALSE)
          /\ \/ Roll(p, open[Month[d]].days \cup {d}, Month[d])
             \/ /\ open' = [open EXCEPT ![Month[d]] =
                              [part |-> p, days |-> open[Month[d]].days \cup {d}]]
                /\ UNCHANGED flushing
    BY <1>3 DEF Write
  <2>2. p \in Parts /\ Month[d] \in Months
    BY <1>1, <2>1, TargetTypes
  <2>3. FilesTyped'
    <3>1. RowsIn(p) \cup {d} \in SUBSET Days
      BY RowsTypes
    <3> QED  BY <2>1, <2>2, <3>1, WithFileTypes DEF FilesTyped
  <2>4. OpenTyped' /\ FlushTyped'
    <3>1. open[Month[d]].days \cup {d} \in SUBSET Days
      BY <1>2, <2>2 DEF OpenTyped
    <3>2. CASE Roll(p, open[Month[d]].days \cup {d}, Month[d])
      BY <2>2, <3>1, <3>2, RollTypes
    <3>3. CASE /\ open' = [open EXCEPT ![Month[d]] =
                             [part |-> p, days |-> open[Month[d]].days \cup {d}]]
               /\ UNCHANGED flushing
      BY <1>2, <2>2, <3>1, <3>3 DEF OpenTyped, FlushTyped
    <3> QED  BY <2>1, <3>2, <3>3
  <2>5. WorkTyped' /\ ManifestTyped' /\ SameRun
    BY <1>2, <1>3 DEF Write, WorkTyped, ManifestTyped
  <2> QED  BY <2>3, <2>4, <2>5, SameRunTypes
<1>4. ASSUME NEW m \in Months, open[m].part # NoPart, Roll(open[m].part, open[m].days, m),
             UNCHANGED <<work, files, manifest>>, SameRun
      PROVE  TypeOK'
  <2>1. open[m].part \in Parts /\ open[m].days \in SUBSET Days
    BY <1>2, <1>4 DEF OpenTyped
  <2>2. OpenTyped' /\ FlushTyped'
    BY <1>4, <2>1, RollTypes
  <2> QED  BY <1>2, <1>4, <2>2, SameRunTypes DEF FilesTyped, WorkTyped, ManifestTyped
<1>5. ASSUME NEW d \in Days, Evolve(d) PROVE TypeOK'
  BY <1>1, <1>4, <1>5 DEF Evolve
<1>6. ASSUME NEW m \in Months, FlushPart(m) PROVE TypeOK'
  BY <1>4, <1>6 DEF FlushPart
<1>7. ASSUME CloseFile PROVE TypeOK'
  <2>1. flushing.part \in Parts
    BY <1>2, <1>7 DEF CloseFile, FlushFits, FilesTyped
  <2>2. FilesTyped' /\ FlushTyped'
    <3>1. CASE flushing.days = {}
      BY <1>2, <1>7, <3>1, NothingTypes DEF CloseFile, FilesTyped, FlushTyped
    <3>2. CASE flushing.days # {}
      <4>1. files' = WithFile(flushing.part, RowsIn(flushing.part), TRUE)
        BY <1>7, <3>2 DEF CloseFile
      <4>2. FilesTyped'
        BY <2>1, <4>1, RowsTypes, WithFileTypes DEF FilesTyped
      <4>3. FlushTyped'
        BY <1>2, <1>7, <3>2 DEF CloseFile, FlushTyped
      <4> QED  BY <4>2, <4>3
    <3> QED  BY <3>1, <3>2
  <2>3. WorkTyped' /\ OpenTyped' /\ ManifestTyped' /\ SameRun
    BY <1>2, <1>7 DEF CloseFile, WorkTyped, OpenTyped, ManifestTyped
  <2> QED  BY <2>2, <2>3, SameRunTypes
<1>8. ASSUME CommitPart PROVE TypeOK'
  <2>1. ManifestTyped'
    <3>1. flushing.days \in SUBSET Days /\ flushing.part \in Parts \cup {NoPart}
      BY <1>2 DEF FlushTyped
    <3> QED  BY <1>8, <3>1, CompletedTypes DEF CommitPart
  <2>2. FilesTyped' /\ WorkTyped' /\ OpenTyped' /\ FlushTyped' /\ SameRun
    BY <1>2, <1>8, NothingTypes
    DEF CommitPart, FilesTyped, WorkTyped, OpenTyped, FlushTyped
  <2> QED  BY <2>1, <2>2, SameRunTypes
<1>9. ASSUME RecordBare PROVE TypeOK'
  <2>1. ManifestTyped'
    <3>1. work.bare \in SUBSET Days /\ NoPart \in Parts \cup {NoPart}
      BY <1>2 DEF WorkTyped
    <3> QED  BY <1>9, <3>1, CompletedTypes DEF RecordBare
  <2>2. FilesTyped' /\ WorkTyped' /\ OpenTyped' /\ FlushTyped' /\ SameRun
    BY <1>2, <1>9 DEF RecordBare, FilesTyped, WorkTyped, OpenTyped, FlushTyped
  <2> QED  BY <2>1, <2>2, SameRunTypes
<1>10. ASSUME RecordMissing PROVE TypeOK'
  <2>1. ManifestTyped' /\ WorkTyped'
    BY <1>2, <1>10 DEF RecordMissing, ManifestTyped, WorkTyped
  <2>2. FilesTyped' /\ OpenTyped' /\ FlushTyped' /\ SameRun
    BY <1>2, <1>10 DEF RecordMissing, FilesTyped, OpenTyped, FlushTyped
  <2> QED  BY <2>1, <2>2, SameRunTypes
<1> QED  BY <1>3, <1>5, <1>6, <1>7, <1>8, <1>9, <1>10

LEMMA ForgottenTypes ==
    ASSUME TypeOK, Forgotten
    PROVE  ThreadTyped' /\ WorkTyped' /\ OpenTyped' /\ FlushTyped'
  BY NothingTypes DEF Forgotten, ThreadTyped, WorkTyped, OpenTyped, FlushTyped

LEMMA DiesTypes ==
    ASSUME TypeOK, Dies, FilesTyped', faults' \in Nat
    PROVE  TypeOK'
<1>1. RunTyped' /\ ManifestTyped' /\ HistoryTyped'
  BY DEF Dies, TypeOK, RunTyped, ManifestTyped, HistoryTyped
<1>2. ThreadTyped' /\ WorkTyped' /\ OpenTyped' /\ FlushTyped'
  BY ForgottenTypes DEF Dies
<1> QED  BY <1>1, <1>2, TypeParts
    DEF TypeOK, FilesTyped, WorkTyped, OpenTyped, FlushTyped, RunTyped,
        ThreadTyped, ManifestTyped, HistoryTyped

LEMMA FailingTypes ==
    ASSUME TypeOK, NEW newOpen, Failing(newOpen), FilesTyped', faults' \in Nat,
           newOpen \in [Months -> [part : Parts \cup {NoPart}, days : SUBSET Days]]
    PROVE  TypeOK'
<1>1. CASE work.by = "close"
  BY <1>1, DiesTypes DEF Failing
<1>2. CASE work.by # "close"
  <2>1. WorkTyped'
    <3>1. Batch("parts", {}) \in
             [by : {"none", "writer", "drain", "parts", "close"}, rows : SUBSET Days,
              bare : SUBSET Days, gone : SUBSET Days, ok : SUBSET Days]
      BY BatchTypes
    <3>2. Batch("none", {}) \in
             [by : {"none", "writer", "drain", "parts", "close"}, rows : SUBSET Days,
              bare : SUBSET Days, gone : SUBSET Days, ok : SUBSET Days]
      BY BatchTypes
    <3> QED  BY <1>2, <3>1, <3>2 DEF Failing, WorkTyped
  <2>2. OpenTyped' /\ FlushTyped'
    BY <1>2, NothingTypes DEF Failing, OpenTyped, FlushTyped
  <2>3. RunTyped'
    <3>1. PICK drain \in {"no", "due", "sent"} :
            run' = [run EXCEPT !.stop = TRUE, !.failed = TRUE, !.drain = drain]
      BY <1>2 DEF Failing, TypeOK
    <3> QED  BY <3>1 DEF TypeOK, RunTyped
  <2>4. UNCHANGED <<jobs, flight, queue, held, manifest, got, rewritten>>
    BY <1>2 DEF Failing, thread
  <2> QED  BY <2>1, <2>2, <2>3, <2>4
      DEF TypeOK, FilesTyped, WorkTyped, OpenTyped, FlushTyped, RunTyped
<1> QED  BY <1>1, <1>2

LEMMA FaultTypes ==
    ASSUME TypeOK, Fault
    PROVE  TypeOK'
<1>1. FilesTyped /\ OpenTyped /\ WorkTyped
  BY TypeParts
<1>2. Suffers => faults' \in Nat
  BY DEF Suffers, TypeOK
<1>3. ASSUME Signal PROVE TypeOK'
  BY <1>2, <1>3 DEF Signal, TypeOK, thread, store
<1>4. ASSUME Crash PROVE TypeOK'
  BY <1>1, <1>2, <1>4, DiesTypes DEF Crash, FilesTyped
<1>5. ASSUME CloseFails PROVE TypeOK'
  <2>1. FilesTyped'
    BY <1>1, <1>5 DEF CloseFails, FilesTyped
  <2> QED  BY <1>1, <1>2, <1>5, <2>1, FailingTypes DEF CloseFails, OpenTyped
<1>6. ASSUME CommitFails PROVE TypeOK'
  <2>1. FilesTyped'
    BY <1>1, <1>6 DEF CommitFails, FilesTyped
  <2> QED  BY <1>1, <1>2, <1>6, <2>1, FailingTypes DEF CommitFails, OpenTyped
<1>7. ASSUME NEW d \in Days, WriteFails(d) PROVE TypeOK'
  <2>1. CASE Failing(open) /\ UNCHANGED files
    <3>1. FilesTyped'
      BY <1>1, <2>1 DEF FilesTyped
    <3> QED  BY <1>1, <1>2, <1>7, <2>1, <3>1, FailingTypes DEF WriteFails, OpenTyped
  <2>2. ASSUME NEW p \in Target(Month[d]), files' = WithFile(p, RowsIn(p), FALSE),
               Failing([open EXCEPT ![Month[d]].part = p])
        PROVE  TypeOK'
    <3>1. Month[d] \in Months /\ p \in Parts
      BY DownloadAssumption, TargetTypes
    <3>2. FilesTyped'
      BY <2>2, <3>1, RowsTypes, WithFileTypes DEF FilesTyped
    <3>3. [open EXCEPT ![Month[d]].part = p]
            \in [Months -> [part : Parts \cup {NoPart}, days : SUBSET Days]]
      BY <1>1, <3>1 DEF OpenTyped
    <3>4. faults' \in Nat
      BY <1>2, <1>7 DEF WriteFails
    <3> QED  BY <2>2, <3>2, <3>3, <3>4, FailingTypes
  <2> QED  BY <1>7, <2>1, <2>2 DEF WriteFails
<1> QED  BY <1>3, <1>4, <1>5, <1>6, <1>7 DEF Fault

LEMMA MainTypes ==
    ASSUME TypeOK, Main \/ EndBatch \/ Acknowledge
    PROVE  TypeOK'
<1>1. \A by \in {"none", "writer", "drain", "parts", "close"} :
        Batch(by, {}) \in
             [by : {"none", "writer", "drain", "parts", "close"}, rows : SUBSET Days,
              bare : SUBSET Days, gone : SUBSET Days, ok : SUBSET Days]
  BY BatchTypes
<1>2. FilesTyped => Swept \in [DOMAIN Swept -> [rows : SUBSET Days, whole : BOOLEAN]]
                    /\ DOMAIN Swept \subseteq Parts
  BY DEF FilesTyped, Swept
<1>3. ASSUME Start PROVE TypeOK'
  <2>1. FilesTyped'
    BY <1>2, <1>3, TypeParts DEF Start, FilesTyped
  <2>2. jobs' \subseteq Days /\ rewritten' \subseteq Days /\ faults' \in Nat
    BY <1>3 DEF Start, Pruned, Suffers, TypeOK
  <2>3. RunTyped' /\ got' = {}
    BY <1>3 DEF Start, RunTyped
  <2>4. UNCHANGED <<flight, queue, held, work, open, flushing, manifest>>
    BY <1>3 DEF Start
  <2> QED  BY <2>1, <2>2, <2>3, <2>4 DEF TypeOK, FilesTyped, RunTyped
<1>4. ASSUME Join PROVE TypeOK'
  <2>1. RunTyped' /\ faults' \in Nat
    BY <1>4 DEF Join, Suffers, TypeOK, RunTyped
  <2>2. UNCHANGED <<jobs, flight, queue, held, work, open, flushing, files, manifest,
                    got, rewritten>>
    BY <1>4 DEF Join, thread, store
  <2> QED  BY <2>1, <2>2 DEF TypeOK, RunTyped
<1>5. ASSUME Close PROVE TypeOK'
  <2>1. WorkTyped'
    BY <1>1, <1>5 DEF Close, WorkTyped
  <2> QED  BY <1>5, <2>1 DEF Close, SameRun, thread, TypeOK, WorkTyped
<1>6. ASSUME Closed PROVE TypeOK'
  <2>1. FilesTyped' /\ RunTyped'
    BY <1>2, <1>6, TypeParts DEF Closed, FilesTyped, RunTyped
  <2>2. ThreadTyped' /\ WorkTyped' /\ OpenTyped' /\ FlushTyped'
    BY <1>6, ForgottenTypes DEF Closed
  <2>3. UNCHANGED <<manifest, got, rewritten, faults>>
    BY <1>6 DEF Closed
  <2> QED  BY <2>1, <2>2, <2>3
      DEF TypeOK, FilesTyped, RunTyped, ThreadTyped, WorkTyped, OpenTyped, FlushTyped
<1>7. ASSUME EndBatch PROVE TypeOK'
  <2>1. WorkTyped' /\ got' \subseteq Days
    BY <1>1, <1>7, TypeParts DEF EndBatch, WorkTyped, TypeOK
  <2> QED  BY <1>7, <2>1 DEF EndBatch, thread, TypeOK, WorkTyped
<1>8. ASSUME Acknowledge PROVE TypeOK'
  <2>1. WorkTyped' /\ RunTyped'
    BY <1>8, NothingTypes DEF Acknowledge, WorkTyped, RunTyped, TypeOK
  <2> QED  BY <1>8, <2>1 DEF Acknowledge, thread, TypeOK, WorkTyped, RunTyped
<1> QED  BY <1>3, <1>4, <1>5, <1>6, <1>7, <1>8 DEF Main
-----------------------------------------------------------------------------
(* The dispatcher and the queue *)

LEMMA AppendedResult ==
    ASSUME queue \in Seq(Items), NEW item \in Items, queue' = Append(queue, item)
    PROVE  /\ item.kind = "drain" => Queued' = Queued
           /\ item.kind # "drain" => Queued' = Queued \cup {item.day}
           /\ QueuedOnce /\ (item.kind # "drain" => item.day \notin Queued) => QueuedOnce'
<1> DEFINE n == Len(queue) + 1
<1>1. /\ n \in Nat /\ DOMAIN queue = 1 .. n - 1 /\ DOMAIN queue' = 1 .. n
      /\ queue'[n] = item /\ \A i \in 1 .. n - 1 : queue'[i] = queue[i]
  OBVIOUS
<1>2. Results' = Results \cup (IF item.kind = "drain" THEN {} ELSE {n})
  BY <1>1 DEF Results
<1>3. \A i \in Results : queue'[i] = queue[i] /\ i # n
  BY <1>1 DEF Results
<1> HIDE DEF n
<1>4. CASE item.kind = "drain"
  <2>1. Results' = Results
    BY <1>2, <1>4
  <2>2. Queued' = Queued
    BY <1>3, <2>1 DEF Queued
  <2>3. QueuedOnce => QueuedOnce'
    <3> SUFFICES ASSUME QueuedOnce, NEW i \in Results, NEW j \in Results,
                        queue'[i].day = queue'[j].day
                 PROVE  i = j
      BY <2>1, Zenon DEF QueuedOnce
    <3>1. queue[i].day = queue[j].day
      BY <1>3, Zenon
    <3> QED  BY <3>1, Zenon DEF QueuedOnce
  <2> QED  BY <1>4, <2>2, <2>3
<1>5. CASE item.kind # "drain"
  <2>1. Results' = Results \cup {n} /\ queue'[n].day = item.day
    BY <1>1, <1>2, <1>5
  <2>2. Queued' = Queued \cup {item.day}
    BY <1>3, <2>1 DEF Queued
  <2>3. ASSUME QueuedOnce, item.day \notin Queued PROVE QueuedOnce'
    <3>1. \A i \in Results : queue[i].day \in Queued
      BY DEF Queued
    <3>2. \A i \in Results : queue'[i].day # item.day
      BY <1>3, <2>3, <3>1
    <3> SUFFICES ASSUME NEW i \in Results', NEW j \in Results',
                        queue'[i].day = queue'[j].day
                 PROVE  i = j
      BY Zenon DEF QueuedOnce
    <3>3. i \in Results /\ j \in Results => i = j
      BY <1>3, <2>3, Zenon DEF QueuedOnce
    <3> QED  BY <2>1, <3>2, <3>3, Zenon
  <2> QED  BY <1>5, <2>2, <2>3
<1> QED  BY <1>4, <1>5

LEMMA TakenResult ==
    ASSUME queue \in Seq(Items), queue # <<>>, queue' = Tail(queue)
    PROVE  /\ Queued' \subseteq Queued
           /\ QueuedOnce => QueuedOnce'
           /\ Head(queue).kind # "drain" =>
                /\ Head(queue).day \in Queued
                /\ QueuedOnce => Head(queue).day \notin Queued'
<1>1. /\ Len(queue) \in Nat \ {0} /\ DOMAIN queue = 1 .. Len(queue)
      /\ DOMAIN queue' = 1 .. Len(queue) - 1 /\ Head(queue) = queue[1]
      /\ \A i \in 1 .. Len(queue) - 1 : queue'[i] = queue[i + 1]
  OBVIOUS
<1>2. \A i \in Results' : i + 1 \in Results /\ queue'[i] = queue[i + 1] /\ i + 1 # 1
  BY <1>1 DEF Results
<1>3. Head(queue).kind # "drain" => 1 \in Results
  BY <1>1 DEF Results
<1>4. Queued' \subseteq Queued
  BY <1>2 DEF Queued
<1>5. ASSUME QueuedOnce PROVE QueuedOnce'
  <2> SUFFICES ASSUME NEW i \in Results', NEW j \in Results', queue'[i].day = queue'[j].day
               PROVE  i = j
    BY Zenon DEF QueuedOnce
  <2>1. i + 1 \in Results /\ queue'[i] = queue[i + 1]
    BY <1>2, Zenon
  <2>2. j + 1 \in Results /\ queue'[j] = queue[j + 1]
    BY <1>2, Zenon
  <2>3. \A m, n \in Results : queue[m].day = queue[n].day => m = n
    BY <1>5, Zenon DEF QueuedOnce
  <2>4. queue[i + 1].day = queue[j + 1].day
    BY <2>1, <2>2, Zenon
  <2>5. i + 1 = j + 1
    BY <2>1, <2>2, <2>3, <2>4, Zenon
  <2>6. i \in Nat /\ j \in Nat
    BY <1>1, SMT DEF Results
  <2> QED  BY <2>5, <2>6, SMT
<1>6. ASSUME Head(queue).kind # "drain"
      PROVE  Head(queue).day \in Queued /\ (QueuedOnce => Head(queue).day \notin Queued')
  <2>1. 1 \in Results /\ Head(queue) = queue[1]
    BY <1>1, <1>3, <1>6
  <2>2. \A i \in Results' : QueuedOnce => queue'[i].day # queue[1].day
    <3> SUFFICES ASSUME NEW i \in Results', QueuedOnce, queue'[i].day = queue[1].day
                 PROVE  FALSE
      OBVIOUS
    <3>1. i + 1 \in Results /\ queue[i + 1].day = queue[1].day /\ i + 1 # 1
      BY <1>2
    <3>2. i + 1 = 1
      BY <2>1, <3>1, Zenon DEF QueuedOnce
    <3> QED  BY <3>1, <3>2
  <2> QED  BY <2>1, <2>2 DEF Queued
<1> QED  BY <1>4, <1>5, <1>6

(* Days that only move between the dispatcher, the queue and the writer's  *)
(* hands disturb nothing but the places they are in.                       *)
LEMMA DaysMove ==
    ASSUME IInv, UNCHANGED <<open, flushing, files, manifest, got, rewritten>>,
           run'.phase # "off", run'.failed = run.failed,
           UNCHANGED work, QueuedOnce', HeldOnce', Upstream' \subseteq Upstream,
           jobs' \cap (flight' \cup Queued' \cup Gathered') = {},
           flight' \cap (Queued' \cup Gathered') = {},
           Queued' \cap Gathered' = {}
    PROVE  IInv'
<1>1. InBatch' = InBatch /\ Pending' = Pending /\ Referenced' = Referenced
  BY DEF InBatch, Pending, Referenced
<1>2. OffHoldsNothing' /\ NoBatchLeft'
  BY DEF IInv, OffHoldsNothing, NoBatchLeft
<1>3. OpenFits' /\ FlushFits'
  BY <1>1 DEF IInv, OpenFits, FitsIn, FlushFits
<1>4. UpstreamApart' /\ BatchApart'
  BY <1>1 DEF IInv, OnePlace, UpstreamApart, BatchApart
<1>5. OnlyOverwritten' /\ CountedIsKept'
  BY <1>1 DEF IInv, OnlyOverwritten, CountedIsKept
<1>6. ManifestIsTrue' /\ ReadOnce'
  BY <1>1 DEF IInv, ManifestIsTrue, ReadOnce
<1> QED  BY <1>2, <1>3, <1>4, <1>5, <1>6 DEF IInv, OnePlace

LEMMA DispatcherKeeps ==
    ASSUME TypeOK, IInv, Dispatcher
    PROVE  IInv'
<1> USE DEF Upstream
<1>1. /\ QueuedOnce /\ HeldOnce
      /\ jobs \cap (flight \cup Queued \cup Gathered) = {}
      /\ flight \cap (Queued \cup Gathered) = {} /\ Queued \cap Gathered = {}
  BY DEF IInv, OnePlace, UpstreamApart
<1>2. /\ UNCHANGED queue => UNCHANGED Queued /\ QueuedOnce'
      /\ UNCHANGED held => UNCHANGED Gathered /\ HeldOnce'
  BY <1>1 DEF Queued, Gathered, Results, QueuedOnce, HeldOnce
<1>3. run \in [phase : {"off", "running", "joining", "closing"}, stop : BOOLEAN,
               failed : BOOLEAN, drain : {"no", "due", "sent"}]
  BY DEF TypeOK
<1>4. ASSUME NEW d \in Days, Launch(d) PROVE IInv'
  <2>1. run'.phase # "off" /\ UNCHANGED <<run, queue, held, work, open, flushing, files,
                                          manifest, got, rewritten>>
    BY <1>4 DEF Launch, Dispatching, store
  <2>2. d \in jobs /\ jobs' = jobs \ {d} /\ flight' = flight \cup {d}
    BY <1>4 DEF Launch
  <2> QED  BY <1>1, <1>2, <2>1, <2>2, DaysMove
<1>5. ASSUME NEW d \in Days, Strand(d) PROVE IInv'
  <2>1. run'.phase # "off" /\ UNCHANGED <<run, jobs, queue, held, work, open, flushing,
                                          files, manifest, got, rewritten>>
    BY <1>5 DEF Strand, Dispatching, store
  <2>2. flight' = flight \ {d}
    BY <1>5 DEF Strand
  <2> QED  BY <1>1, <1>2, <2>1, <2>2, DaysMove
<1>6. ASSUME NEW d \in Days, NEW kind \in Kinds, Download(d, kind) PROVE IInv'
  <2>1. run'.phase # "off" /\ run'.failed = run.failed
    BY <1>3, <1>6 DEF Download, Dispatching
  <2>2. UNCHANGED <<jobs, held, work, open, flushing, files, manifest, got, rewritten>>
    BY <1>6 DEF Download, store
  <2>3. d \in flight /\ flight' = flight \ {d}
    BY <1>6 DEF Download
  <2>4. Queued' \subseteq Queued \cup {d} /\ QueuedOnce'
    <3>1. CASE UNCHANGED queue
      BY <1>2, <3>1
    <3>2. CASE queue' = Append(queue, [kind |-> kind, day |-> d])
      <4>1. [kind |-> kind, day |-> d] \in Items /\ kind # "drain" /\ queue \in Seq(Items)
        BY DEF Items, Kinds, TypeOK
      <4> QED  BY <1>1, <2>3, <3>2, <4>1, AppendedResult
    <3> QED  BY <1>6, <3>1, <3>2 DEF Download, HandOff
  <2> QED  BY <1>1, <1>2, <2>1, <2>2, <2>3, <2>4, DaysMove
<1>7. ASSUME SendDrain PROVE IInv'
  <2>1. run'.phase # "off" /\ run'.failed = run.failed
    BY <1>3, <1>7 DEF SendDrain
  <2>2. UNCHANGED <<jobs, flight, held, work, open, flushing, files, manifest, got,
                    rewritten>>
    BY <1>7 DEF SendDrain, store
  <2>3. Queued' = Queued /\ QueuedOnce'
    <3>1. [kind |-> "drain"] \in Items /\ queue \in Seq(Items)
      BY DEF Items, TypeOK
    <3>2. queue' = Append(queue, [kind |-> "drain"])
      BY <1>7 DEF SendDrain, HandOff
    <3> QED  BY <1>1, <3>1, <3>2, AppendedResult
  <2> QED  BY <1>1, <1>2, <2>1, <2>2, <2>3, DaysMove
<1>8. ASSUME Finish PROVE IInv'
  <2>1. run'.phase # "off" /\ run'.failed = run.failed
    BY <1>3, <1>8 DEF Finish
  <2>2. UNCHANGED <<flight, queue, held, work, open, flushing, files, manifest, got,
                    rewritten>>
    BY <1>8 DEF Finish, store
  <2>3. jobs' = {}
    BY <1>8 DEF Finish
  <2> QED  BY <1>1, <1>2, <2>1, <2>2, <2>3, DaysMove
<1> QED  BY <1>4, <1>5, <1>6, <1>7, <1>8 DEF Dispatcher

LEMMA BatchIsApart ==
    ASSUME NEW results, NEW by, \A r, s \in results : r.day = s.day => r = s
    PROVE  LET b == Batch(by, results) IN
           /\ b.rows \cup b.bare \cup b.gone \subseteq {r.day : r \in results}
           /\ b.rows \cap b.bare = {} /\ b.gone \cap (b.rows \cup b.bare) = {}
           /\ b.ok = b.rows \cup b.bare /\ b.by = by
<1>1. \A kind : OfKind(results, kind) \subseteq {r.day : r \in results}
  BY DEF OfKind
<1>2. \A k, l : k # l => OfKind(results, k) \cap OfKind(results, l) = {}
  BY DEF OfKind
<1> HIDE DEF OfKind
<1> QED  BY <1>1, <1>2 DEF Batch

LEMMA NoBatch ==
    \A by : LET b == Batch(by, {}) IN
        b.by = by /\ b.rows = {} /\ b.bare = {} /\ b.gone = {} /\ b.ok = {}
  BY DEF Batch, OfKind

(* What the writer holds, and perhaps the next result, becomes the batch.  *)
LEMMA BatchKeeps ==
    ASSUME TypeOK, IInv, Writing, NEW by \in {"writer", "drain"}, NEW results,
           \A r, s \in results : r.day = s.day => r = s,
           {r.day : r \in results} \subseteq Queued \cup Gathered,
           {r.day : r \in results} \cap Queued' = {},
           Queued' \subseteq Queued, QueuedOnce',
           held' = {}, work' = Batch(by, results),
           UNCHANGED <<run, jobs, flight, open, flushing, files, manifest, got, rewritten>>
    PROVE  IInv'
<1>1. /\ work'.rows \cup work'.bare \cup work'.gone \subseteq {r.day : r \in results}
      /\ work'.rows \cap work'.bare = {}
      /\ work'.gone \cap (work'.rows \cup work'.bare) = {}
      /\ work'.ok = work'.rows \cup work'.bare /\ work'.by = by
  BY BatchIsApart
<1>2. work.rows = {} /\ work.bare = {} /\ work.gone = {} /\ work.ok = {}
  BY DEF IInv, NoBatchLeft, Writing
<1>3. Gathered' = {} /\ HeldOnce'
  BY DEF Gathered, HeldOnce
<1>4. Pending' = Pending /\ Referenced' = Referenced
  BY DEF Pending, Referenced
<1> DEFINE days == {r.day : r \in results}
<1>5. /\ InBatch' \subseteq days /\ work'.ok \subseteq days
      /\ days \subseteq Queued \cup Gathered /\ days \cap Queued' = {}
  BY <1>1 DEF InBatch
<1> HIDE DEF days
<1>6. OffHoldsNothing' /\ NoBatchLeft'
  BY <1>1 DEF OffHoldsNothing, NoBatchLeft, Writing
<1>7. OpenFits' /\ FlushFits' /\ ManifestIsTrue' /\ ReadOnce'
  BY <1>4 DEF IInv, OpenFits, FitsIn, FlushFits, ManifestIsTrue, ReadOnce
<1>8. UpstreamApart'
  <2>1. /\ jobs \cap (flight \cup Queued \cup Gathered) = {}
        /\ flight \cap (Queued \cup Gathered) = {} /\ Queued \cap Gathered = {}
        /\ (jobs \cup flight \cup Queued \cup Gathered) \cap (Pending \cup got) = {}
    BY DEF IInv, OnePlace, UpstreamApart, Upstream
  <2> QED  BY <1>3, <1>4, <1>5, <2>1 DEF UpstreamApart, Upstream
<1>9. BatchApart'
  <2>1. (Queued \cup Gathered) \cap (Pending \cup got) = {}
    BY DEF IInv, OnePlace, UpstreamApart, Upstream
  <2>2. \A m \in Months : flushing.days \cap open[m].days = {}
    BY DEF IInv, OnePlace, BatchApart
  <2>3. InBatch' \cap Pending' = {} /\ work'.gone \cap got' = {}
    BY <1>4, <1>5, <2>1 DEF InBatch
  <2> QED  BY <1>1, <2>2, <2>3 DEF BatchApart
<1>10. OnlyOverwritten'
  BY <1>3, <1>4, <1>5 DEF IInv, OnlyOverwritten, Upstream
<1>11. CountedIsKept'
  BY <1>1, <1>2, <1>4 DEF IInv, CountedIsKept
<1> QED  BY <1>3, <1>6, <1>7, <1>8, <1>9, <1>10, <1>11 DEF IInv, OnePlace

LEMMA TakeKeeps ==
    ASSUME TypeOK, IInv, TakeResult \/ TakeDrain \/ FlushWhenIdle
    PROVE  IInv'
<1>1. /\ QueuedOnce /\ HeldOnce
      /\ jobs \cap (flight \cup Queued \cup Gathered) = {}
      /\ flight \cap (Queued \cup Gathered) = {} /\ Queued \cap Gathered = {}
  BY DEF IInv, OnePlace, UpstreamApart
<1>2. queue \in Seq(Items)
  BY DEF TypeOK
<1>3. ASSUME TakeResult PROVE IInv'
  <2> DEFINE results == held \cup IF Head(queue).kind = "none" THEN {} ELSE {Head(queue)}
  <2>1. /\ Writing /\ queue # <<>> /\ queue' = Tail(queue) /\ Head(queue).kind # "drain"
        /\ UNCHANGED <<run, jobs, flight, open, flushing, files, manifest, got, rewritten>>
    BY <1>3 DEF TakeResult
  <2>2. /\ Queued' \subseteq Queued /\ QueuedOnce' /\ Head(queue).day \in Queued
        /\ Head(queue).day \notin Queued'
    BY <1>1, <1>2, <2>1, TakenResult
  <2>3. \A r, s \in results : r.day = s.day => r = s
    BY <1>1, <2>2 DEF HeldOnce, Gathered
  <2>4. {r.day : r \in results} \subseteq Gathered \cup {Head(queue).day}
    BY DEF Gathered
  <2>5. \/ held' = results /\ UNCHANGED work
        \/ held' = {} /\ work' = Batch("writer", results)
    BY <1>3 DEF TakeResult
  <2> HIDE DEF results
  <2>6. CASE held' = results /\ UNCHANGED work
    <3>1. HeldOnce' /\ Gathered' \subseteq Gathered \cup {Head(queue).day}
      BY <2>3, <2>4, <2>6 DEF HeldOnce, Gathered
    <3>2. run'.phase # "off" /\ run'.failed = run.failed
      BY <2>1 DEF Writing
    <3> QED  BY <1>1, <2>1, <2>2, <2>6, <3>1, <3>2, DaysMove DEF Upstream
  <2>7. CASE held' = {} /\ work' = Batch("writer", results)
    <3>1. /\ {r.day : r \in results} \subseteq Queued \cup Gathered
          /\ {r.day : r \in results} \cap Queued' = {}
      BY <1>1, <2>2, <2>4
    <3> QED  BY <2>1, <2>2, <2>3, <2>7, <3>1, BatchKeeps
  <2> QED  BY <2>5, <2>6, <2>7
<1>4. ASSUME NEW by \in {"writer", "drain"}, Writing, held' = {}, work' = Batch(by, held),
             Queued' \subseteq Queued, QueuedOnce',
             UNCHANGED <<run, jobs, flight, open, flushing, files, manifest, got, rewritten>>
      PROVE  IInv'
  <2>1. /\ \A r, s \in held : r.day = s.day => r = s
        /\ {r.day : r \in held} \subseteq Queued \cup Gathered
        /\ {r.day : r \in held} \cap Queued' = {}
    BY <1>1, <1>4 DEF HeldOnce, Gathered
  <2> QED  BY <1>4, <2>1, BatchKeeps
<1>5. ASSUME TakeDrain PROVE IInv'
  <2>1. Queued' \subseteq Queued /\ QueuedOnce'
    BY <1>1, <1>2, <1>5, TakenResult DEF TakeDrain
  <2> QED  BY <1>4, <1>5, <2>1 DEF TakeDrain
<1>6. ASSUME FlushWhenIdle PROVE IInv'
  <2>1. Queued' \subseteq Queued /\ QueuedOnce'
    BY <1>1, <1>6 DEF FlushWhenIdle, Queued, QueuedOnce, Results
  <2> QED  BY <1>4, <1>6, <2>1 DEF FlushWhenIdle
<1> QED  BY <1>3, <1>5, <1>6
-----------------------------------------------------------------------------
(* The store *)

(* The parts of the invariant that a step of the store which fails nothing *)
(* leaves alone: the places before the batch.                              *)
LEMMA SameUpstream ==
    ASSUME UNCHANGED thread
    PROVE  /\ Upstream' = Upstream
           /\ QueuedOnce /\ HeldOnce => QueuedOnce' /\ HeldOnce'
           /\ Queued' = Queued /\ Gathered' = Gathered
           /\ jobs' = jobs /\ flight' = flight
<1>1. Queued' = Queued /\ Gathered' = Gathered
  BY DEF Queued, Results, Gathered, thread
<1>2. QueuedOnce /\ HeldOnce => QueuedOnce' /\ HeldOnce'
  BY DEF QueuedOnce, Results, HeldOnce, thread
<1> QED  BY <1>1, <1>2 DEF thread, Upstream

(* A step at a day in one of the places beyond them.                       *)
LEMMA StoreKeeps ==
    ASSUME IInv, SameRun, run.phase # "off",
           NoBatchLeft', OpenFits', FlushFits', BatchApart', OnlyOverwritten',
           CountedIsKept', ManifestIsTrue', ReadOnce',
           InBatch' \cup work'.ok \cup Pending' \subseteq
               InBatch \cup work.ok \cup Pending \cup got
    PROVE  IInv'
<1>1. OffHoldsNothing'
  BY DEF SameRun, OffHoldsNothing
<1>2. /\ Upstream' = Upstream /\ QueuedOnce' /\ HeldOnce' /\ Queued' = Queued
      /\ Gathered' = Gathered /\ jobs' = jobs /\ flight' = flight /\ got' = got
  BY SameUpstream DEF SameRun, IInv, OnePlace
<1>3. UpstreamApart'
  BY <1>2 DEF IInv, OnePlace, UpstreamApart
<1> QED  BY <1>1, <1>2, <1>3 DEF IInv, OnePlace

(* What the manifest names is on disk, and stays true if it is not touched.*)
LEMMA ReferencedIsThere ==
    ASSUME ManifestIsTrue
    PROVE  \A p \in Referenced : p \in DOMAIN files
  BY DEF ManifestIsTrue, Referenced

LEMMA UntouchedFiles ==
    ASSUME ManifestIsTrue, ReadOnce, UNCHANGED manifest, rewritten \subseteq rewritten',
           \A p \in Referenced : p \in DOMAIN files' /\ files'[p] = files[p]
    PROVE  ManifestIsTrue' /\ ReadOnce' /\ Referenced' = Referenced
<1>1. Referenced' = Referenced
  BY DEF Referenced
<1>2. \A d \in manifest.completed :
        manifest.part[d] # NoPart => manifest.part[d] \in Referenced
  BY DEF Referenced
<1>3. ManifestIsTrue'
  BY <1>2 DEF ManifestIsTrue
<1>4. ReadOnce'
  BY <1>1 DEF ReadOnce
<1> QED  BY <1>1, <1>3, <1>4

(* The part a day is written to holds the pending days of its month, is no *)
(* other month's, and no manifest row names it.                            *)
LEMMA TargetFits ==
    ASSUME TypeOK, OpenFits, ManifestIsTrue, NEW m \in Months, NEW p \in Target(m)
    PROVE  /\ p \in Parts /\ p[1] = m /\ p \notin Referenced
           /\ RowsIn(p) = open[m].days
           /\ \A n \in Months : n # m => open[n].part # p
<1>1. DOMAIN files \subseteq Parts
  BY DEF TypeOK
<1>2. CASE open[m].part = NoPart
  <2>1. p \in Parts /\ p[1] = m /\ p \notin DOMAIN files
    BY <1>1, <1>2, NextIsFresh DEF Target
  <2>2. p # NoPart
    BY <2>1, PartsAreParts
  <2>3. p \notin Referenced
    BY <2>1, ReferencedIsThere
  <2>4. \A n \in Months : open[n].part # p
    BY <2>1, <2>2 DEF OpenFits, FitsIn
  <2>5. RowsIn(p) = open[m].days
    BY <1>2, <2>1 DEF OpenFits, FitsIn, RowsIn
  <2> QED  BY <2>1, <2>3, <2>4, <2>5
<1>3. CASE open[m].part # NoPart
  <2>1. p = open[m].part
    BY <1>3 DEF Target
  <2>2. /\ p \in DOMAIN files /\ p[1] = m /\ p \notin Referenced
        /\ files[p].rows = open[m].days
    BY <1>3, <2>1 DEF OpenFits, FitsIn
  <2>3. \A n \in Months : open[n].part # NoPart => open[n].part[1] = n
    BY DEF OpenFits, FitsIn
  <2> QED  BY <1>1, <1>3, <2>1, <2>2, <2>3 DEF RowsIn
<1> QED  BY <1>2, <1>3

LEMMA WriteKeeps ==
    ASSUME TypeOK, IInv, NEW d \in Days, Write(d)
    PROVE  IInv'
<1> DEFINE m == Month[d]
           days == open[m].days \cup {d}
<1>1. m \in Months
  BY DownloadAssumption
<1>2. PICK p \in Target(m) :
        /\ files' = WithFile(p, RowsIn(p) \cup {d}, FALSE)
        /\ \/ Roll(p, days, m)
           \/ /\ open' = [open EXCEPT ![m] = [part |-> p, days |-> days]]
              /\ UNCHANGED flushing
  BY DEF Write
<1>3. /\ p \in Parts /\ p[1] = m /\ p \notin Referenced /\ RowsIn(p) = open[m].days
      /\ \A n \in Months : n # m => open[n].part # p
  BY <1>1, TargetFits DEF IInv
<1>4. /\ work.by \in {"writer", "drain"} /\ flushing = NoFlush /\ d \in work.rows
      /\ work' = [work EXCEPT !.rows = @ \ {d}] /\ UNCHANGED manifest /\ SameRun
  BY DEF Write, Ingesting
<1>5. /\ work'.rows = work.rows \ {d} /\ work'.bare = work.bare /\ work'.gone = work.gone
      /\ work'.ok = work.ok /\ work'.by = work.by
  BY <1>4 DEF TypeOK
<1>6. run.phase # "off"
  <2>1. NoWork.by = "none"
    BY NoBatch DEF NoWork
  <2> QED  BY <1>4, <2>1 DEF IInv, OffHoldsNothing
<1>7. days \in SUBSET Days /\ open \in [Months -> [part : Parts \cup {NoPart}, days : SUBSET Days]]
  BY <1>1 DEF TypeOK
<1>8. /\ DOMAIN files' = DOMAIN files \cup {p} /\ files'[p].rows = days
      /\ \A q \in DOMAIN files : q # p => files'[q] = files[q]
  <2>1. RowsIn(p) \cup {d} = days
    BY <1>3
  <2>2. files' = WithFile(p, days, FALSE)
    BY <1>2, <2>1
  <2>3. days \in SUBSET Days /\ FALSE \in BOOLEAN
    BY <1>7
  <2> HIDE DEF days
  <2>4. /\ DOMAIN files' = DOMAIN files \cup {p}
        /\ files'[p] = [rows |-> days, whole |-> FALSE]
        /\ \A q \in DOMAIN files : q # p => files'[q] = files[q]
    BY <1>3, <2>2, <2>3, WithFileTypes, Zenon
  <2> QED  BY <2>4
<1>9. /\ p # NoPart /\ flushing.days = {}
      /\ NoFlush.step = "none" /\ NoOpen.part = NoPart /\ NoOpen.days = {}
  BY <1>3, <1>4, PartsAreParts DEF NoFlush, NoOpen
<1>10. ManifestIsTrue' /\ ReadOnce' /\ Referenced' = Referenced
  <2>1. \A q \in Referenced : q \in DOMAIN files' /\ files'[q] = files[q]
    BY <1>3, <1>8, ReferencedIsThere DEF IInv
  <2>2. UNCHANGED <<manifest, rewritten>>
    BY <1>4 DEF SameRun
  <2> QED  BY <2>1, <2>2, UntouchedFiles DEF IInv
<1>11. /\ \A x \in days : Month[x] = m
       /\ \A n \in Months : /\ \A x \in open[n].days : Month[x] = n
                            /\ open[n].part = NoPart => open[n].days = {}
                            /\ n # m /\ open[n].part # NoPart =>
                                 /\ open[n].part \in DOMAIN files' /\ open[n].part[1] = n
                                 /\ open[n].part \notin Referenced'
                                 /\ files'[open[n].part].rows = open[n].days
  BY <1>1, <1>3, <1>8, <1>10 DEF IInv, OpenFits, FitsIn
<1>12. /\ OpenFits' /\ FlushFits' /\ Pending' = Pending \cup {d}
       /\ \A n \in Months : flushing'.days \cap open'[n].days = {}
  <2>1. CASE Roll(p, days, m)
    <3>1. /\ flushing' = [part |-> p, days |-> days, step |-> "close"]
          /\ open' = [open EXCEPT ![m] = NoOpen]
      BY <2>1 DEF Roll
    <3>2. /\ flushing'.part = p /\ flushing'.days = days /\ flushing'.step = "close"
          /\ open'[m] = NoOpen /\ \A n \in Months : n # m => open'[n] = open[n]
      BY <1>1, <1>7, <3>1
    <3> HIDE DEF days
    <3>3. OpenFits'
      BY <1>9, <1>11, <3>2 DEF OpenFits, FitsIn
    <3>4. \A n \in Months : open'[n].part # p
      BY <1>3, <1>9, <3>2
    <3>5. FlushFits'
      BY <1>3, <1>8, <1>9, <1>10, <3>2, <3>4 DEF FlushFits
    <3>6. \A n \in Months : flushing'.days \cap open'[n].days = {}
      BY <1>9, <1>11, <3>2
    <3>7. Pending' = Pending \cup {d}
      BY <1>1, <1>7, <1>9, <3>2 DEF Pending, days
    <3> QED  BY <3>3, <3>5, <3>6, <3>7
  <2>2. CASE /\ open' = [open EXCEPT ![m] = [part |-> p, days |-> days]]
             /\ UNCHANGED flushing
    <3>1. /\ open'[m].part = p /\ open'[m].days = days /\ flushing' = flushing
          /\ \A n \in Months : n # m => open'[n] = open[n]
      BY <1>1, <1>7, <2>2
    <3> HIDE DEF days
    <3>2. OpenFits'
      BY <1>3, <1>8, <1>9, <1>10, <1>11, <3>1 DEF OpenFits, FitsIn
    <3>3. FlushFits'
      BY <1>4, <1>9, <3>1 DEF FlushFits
    <3>4. Pending' = Pending \cup {d}
      BY <1>1, <1>7, <1>9, <3>1 DEF Pending, days
    <3> QED  BY <1>9, <3>1, <3>2, <3>3, <3>4
  <2> QED  BY <1>2, <2>1, <2>2
<1> HIDE DEF m, days
<1>13. /\ d \in InBatch /\ InBatch' = InBatch \ {d} /\ d \notin work.bare \cup work.gone
  BY <1>4, <1>5 DEF InBatch, IInv, OnePlace, BatchApart
<1>14. BatchApart'
  BY <1>4, <1>5, <1>12, <1>13 DEF IInv, OnePlace, BatchApart, SameRun
<1>15. OnlyOverwritten'
  <2>1. Upstream' = Upstream
    BY <1>4, SameUpstream DEF SameRun
  <2> QED  BY <1>4, <1>12, <1>13, <2>1 DEF IInv, OnlyOverwritten, SameRun
<1>16. CountedIsKept'
  BY <1>4, <1>5, <1>12 DEF IInv, CountedIsKept, SameRun
<1>17. NoBatchLeft'
  BY <1>4, <1>5 DEF NoBatchLeft
<1> QED  BY <1>4, <1>5, <1>6, <1>10, <1>12, <1>13, <1>14, <1>15, <1>16, <1>17, StoreKeeps

(* A part is rolled: its pending days wait for its manifest rows.          *)
LEMMA RollKeeps ==
    ASSUME TypeOK, IInv, NEW m \in Months, open[m].part # NoPart, flushing = NoFlush,
           Roll(open[m].part, open[m].days, m), UNCHANGED <<work, files, manifest>>,
           SameRun, run.phase # "off"
    PROVE  IInv'
<1>1. /\ flushing'.part = open[m].part /\ flushing'.days = open[m].days
      /\ flushing'.step = "close" /\ open'[m] = NoOpen
      /\ \A n \in Months : n # m => open'[n] = open[n]
  BY DEF Roll, TypeOK
<1>2. NoOpen.part = NoPart /\ NoOpen.days = {} /\ NoFlush.days = {}
  BY DEF NoOpen, NoFlush
<1>3. Referenced' = Referenced
  BY DEF Referenced
<1>4. OpenFits'
  BY <1>1, <1>2, <1>3 DEF IInv, OpenFits, FitsIn
<1>5. \A n \in Months : open'[n].part # open[m].part
  BY <1>1, <1>2 DEF IInv, OpenFits, FitsIn
<1>6. FlushFits'
  BY <1>1, <1>3, <1>5 DEF IInv, OpenFits, FitsIn, FlushFits
<1>7. Pending' = Pending
  <2>1. flushing.days = {}
    BY <1>2
  <2>2. \A d : d \in Pending' <=> d \in Pending
    BY <1>1, <1>2, <2>1 DEF Pending, TypeOK
  <2> QED  BY <2>2
<1>8. InBatch' = InBatch
  BY DEF InBatch
<1>9. BatchApart'
  <2>1. \A n \in Months : flushing'.days \cap open'[n].days = {}
    BY <1>1, <1>2 DEF IInv, OpenFits, FitsIn
  <2> QED  BY <1>7, <1>8, <2>1 DEF IInv, OnePlace, BatchApart, SameRun
<1>10. OnlyOverwritten' /\ CountedIsKept' /\ NoBatchLeft'
  <2>1. Upstream' = Upstream
    BY SameUpstream DEF SameRun
  <2> QED  BY <1>7, <1>8, <2>1
      DEF IInv, OnlyOverwritten, CountedIsKept, NoBatchLeft, SameRun
<1>11. ManifestIsTrue' /\ ReadOnce'
  BY <1>3 DEF IInv, ManifestIsTrue, ReadOnce, SameRun
<1> QED  BY <1>4, <1>6, <1>7, <1>8, <1>9, <1>10, <1>11, StoreKeeps

LEMMA BusyIsRunning ==
    ASSUME IInv, work.by # "none" \/ flushing.step # "none"
    PROVE  run.phase # "off"
<1>1. NoWork.by = "none" /\ NoFlush.step = "none"
  BY NoBatch DEF NoWork, NoFlush
<1> QED  BY <1>1 DEF IInv, OffHoldsNothing

LEMMA FlushKeeps ==
    ASSUME TypeOK, IInv, \/ \E d \in Days : Evolve(d)
                         \/ \E m \in Months : FlushPart(m)
    PROVE  IInv'
<1>1. ASSUME NEW d \in Days, Evolve(d) PROVE IInv'
  <2>1. Month[d] \in Months
    BY DownloadAssumption
  <2>2. run.phase # "off"
    BY <1>1, BusyIsRunning DEF Evolve, Ingesting
  <2> QED  BY <1>1, <2>1, <2>2, RollKeeps DEF Evolve, Ingesting
<1>2. ASSUME NEW m \in Months, FlushPart(m) PROVE IInv'
  <2>1. run.phase # "off"
    BY <1>2, BusyIsRunning DEF FlushPart
  <2> QED  BY <1>2, <2>1, RollKeeps DEF FlushPart
<1> QED  BY <1>1, <1>2

LEMMA CloseFileKeeps ==
    ASSUME TypeOK, IInv, CloseFile
    PROVE  IInv'
<1>1. /\ flushing.step = "close" /\ flushing.part \in DOMAIN files
      /\ flushing.part \notin Referenced /\ files[flushing.part].rows = flushing.days
      /\ \A m \in Months : open[m].part # flushing.part
  BY DEF CloseFile, IInv, FlushFits
<1>2. run.phase # "off"
  BY <1>1, BusyIsRunning
<1>3. UNCHANGED <<work, open, manifest>> /\ SameRun
  BY DEF CloseFile
<1>4. /\ flushing'.days = flushing.days
      /\ \A q \in DOMAIN files : q # flushing.part =>
            q \in DOMAIN files' /\ files'[q] = files[q]
      /\ flushing'.step # "none" =>
            /\ flushing'.part = flushing.part /\ flushing'.part \in DOMAIN files'
            /\ files'[flushing.part] = [rows |-> flushing.days, whole |-> TRUE]
      /\ flushing'.step = "none" => flushing' = NoFlush
  <2>1. CASE flushing.days = {}
    <3>1. /\ files' = [q \in DOMAIN files \ {flushing.part} |-> files[q]]
          /\ flushing' = NoFlush
      BY <2>1 DEF CloseFile
    <3> QED  BY <2>1, <3>1 DEF NoFlush
  <2>2. CASE flushing.days # {}
    <3>1. /\ files' = WithFile(flushing.part, RowsIn(flushing.part), TRUE)
          /\ flushing' = [flushing EXCEPT !.step = "commit"]
      BY <2>2 DEF CloseFile
    <3>2. RowsIn(flushing.part) = flushing.days
      BY <1>1 DEF RowsIn
    <3>3. files' = WithFile(flushing.part, flushing.days, TRUE)
      BY <3>1, <3>2
    <3>4. flushing.part \in Parts /\ flushing.days \in SUBSET Days /\ TRUE \in BOOLEAN
      BY <1>1 DEF TypeOK
    <3>5. /\ DOMAIN files' = DOMAIN files \cup {flushing.part}
          /\ files'[flushing.part] = [rows |-> flushing.days, whole |-> TRUE]
          /\ \A q \in DOMAIN files : q # flushing.part => files'[q] = files[q]
      BY <3>3, <3>4, WithFileTypes, Zenon
    <3>6. /\ flushing'.part = flushing.part /\ flushing'.days = flushing.days
          /\ flushing'.step = "commit"
      BY <3>1 DEF TypeOK
    <3> QED  BY <3>5, <3>6
  <2> QED  BY <2>1, <2>2
<1>5. ManifestIsTrue' /\ ReadOnce' /\ Referenced' = Referenced
  <2>1. \A q \in Referenced : q \in DOMAIN files' /\ files'[q] = files[q]
    BY <1>1, <1>4, ReferencedIsThere DEF IInv
  <2>2. UNCHANGED <<manifest, rewritten>>
    BY <1>3 DEF SameRun
  <2> QED  BY <2>1, <2>2, UntouchedFiles DEF IInv
<1>6. OpenFits'
  BY <1>1, <1>3, <1>4, <1>5 DEF IInv, OpenFits, FitsIn
<1>7. FlushFits'
  BY <1>1, <1>3, <1>4, <1>5 DEF FlushFits
<1>8. Pending' = Pending /\ InBatch' = InBatch
  BY <1>3, <1>4 DEF Pending, InBatch
<1>9. BatchApart' /\ OnlyOverwritten' /\ CountedIsKept' /\ NoBatchLeft'
  <2>1. Upstream' = Upstream
    BY <1>3, SameUpstream DEF SameRun
  <2> QED  BY <1>3, <1>4, <1>8, <2>1
      DEF IInv, OnePlace, BatchApart, OnlyOverwritten, CountedIsKept, NoBatchLeft, SameRun
<1> QED  BY <1>2, <1>3, <1>5, <1>6, <1>7, <1>8, <1>9, StoreKeeps

(* The manifest rows of days that no other place of the run holds.         *)
LEMMA CompletedFacts ==
    ASSUME TypeOK, NEW days \in SUBSET Days, NEW part \in Parts \cup {NoPart},
           manifest' = Completed(days, part)
    PROVE  /\ manifest'.completed = manifest.completed \cup days
           /\ manifest'.empty = manifest.empty \ days
           /\ \A d \in days : manifest'.part[d] = part
           /\ \A d \in Days \ days : manifest'.part[d] = manifest.part[d]
           /\ Referenced' \subseteq Referenced \cup {part}
<1>1. /\ manifest'.completed = manifest.completed \cup days
      /\ manifest'.empty = manifest.empty \ days
      /\ manifest'.part = [d \in Days |-> IF d \in days THEN part ELSE manifest.part[d]]
  BY DEF Completed
<1>2. manifest.completed \subseteq Days
  BY DEF TypeOK
<1>3. Referenced' \subseteq Referenced \cup {part}
  BY <1>1, <1>2 DEF Referenced
<1> QED  BY <1>1, <1>3

LEMMA CommitKeeps ==
    ASSUME TypeOK, IInv, CommitPart
    PROVE  IInv'
<1>1. /\ flushing.step = "commit" /\ flushing.part \in DOMAIN files
      /\ flushing.part \notin Referenced /\ files[flushing.part].rows = flushing.days
      /\ files[flushing.part].whole
      /\ \A m \in Months : open[m].part # flushing.part
  BY DEF CommitPart, IInv, FlushFits
<1>2. run.phase # "off"
  BY <1>1, BusyIsRunning
<1>3. UNCHANGED <<work, open, files>> /\ SameRun /\ flushing' = NoFlush
  BY DEF CommitPart
<1>4. flushing.days \in SUBSET Days /\ flushing.part \in Parts
  BY <1>1 DEF TypeOK
<1>5. /\ manifest'.completed = manifest.completed \cup flushing.days
      /\ manifest'.empty = manifest.empty \ flushing.days
      /\ \A d \in flushing.days : manifest'.part[d] = flushing.part
      /\ \A d \in Days \ flushing.days : manifest'.part[d] = manifest.part[d]
      /\ Referenced' \subseteq Referenced \cup {flushing.part}
  BY <1>4, CompletedFacts DEF CommitPart
<1>6. manifest.completed \subseteq Days
  BY DEF TypeOK
<1>7. flushing.days \cap manifest.completed \subseteq rewritten
  BY DEF IInv, OnlyOverwritten, Pending
<1>8. ManifestIsTrue'
  BY <1>1, <1>3, <1>5, <1>6 DEF IInv, ManifestIsTrue
<1>9. ReadOnce'
  <2> SUFFICES ASSUME NEW d \in Days \ rewritten, NEW p \in Referenced', d \in files[p].rows
               PROVE  d \in manifest'.completed /\ manifest'.part[d] = p
    BY <1>3 DEF ReadOnce, SameRun
  <2>1. CASE p = flushing.part
    BY <1>1, <1>5, <2>1
  <2>2. CASE p \in Referenced
    <3>1. d \in manifest.completed /\ manifest.part[d] = p
      BY <2>2 DEF IInv, ReadOnce
    <3> QED  BY <1>5, <1>7, <3>1
  <2> QED  BY <1>5, <2>1, <2>2
<1>10. NoFlush.days = {} /\ NoFlush.step = "none"
  BY DEF NoFlush
<1>11. OpenFits' /\ FlushFits'
  BY <1>1, <1>3, <1>5, <1>10 DEF IInv, OpenFits, FitsIn, FlushFits
<1>12. /\ Pending' = Pending \ flushing.days /\ flushing.days \subseteq Pending
       /\ InBatch' = InBatch
  <2>1. \A m \in Months : flushing.days \cap open[m].days = {}
    BY DEF IInv, OnePlace, BatchApart
  <2> QED  BY <1>3, <1>10, <2>1 DEF Pending, InBatch
<1>13. BatchApart'
  BY <1>3, <1>10, <1>12 DEF IInv, OnePlace, BatchApart, SameRun
<1>14. OnlyOverwritten'
  <2>1. Upstream' = Upstream
    BY <1>3, SameUpstream DEF SameRun
  <2>2. (Upstream \cup InBatch) \cap flushing.days = {}
    BY <1>12 DEF IInv, OnePlace, UpstreamApart, BatchApart
  <2> QED  BY <1>3, <1>5, <1>12, <2>1, <2>2 DEF IInv, OnlyOverwritten, SameRun
<1>15. CountedIsKept' /\ NoBatchLeft'
  BY <1>3, <1>5, <1>12 DEF IInv, CountedIsKept, NoBatchLeft, SameRun
<1> QED  BY <1>2, <1>3, <1>8, <1>9, <1>11, <1>12, <1>13, <1>14, <1>15, StoreKeeps

LEMMA RecordBareKeeps ==
    ASSUME TypeOK, IInv, RecordBare
    PROVE  IInv'
<1>1. work.by \in {"writer", "drain"} /\ run.phase # "off"
  BY BusyIsRunning DEF RecordBare, Ingesting
<1>2. /\ UNCHANGED <<open, flushing, files>> /\ SameRun
      /\ work'.rows = work.rows /\ work'.bare = {} /\ work'.gone = work.gone
      /\ work'.ok = work.ok /\ work'.by = work.by
  BY DEF RecordBare, TypeOK
<1>3. work.bare \in SUBSET Days /\ NoPart \in Parts \cup {NoPart}
  BY DEF TypeOK
<1>4. /\ manifest'.completed = manifest.completed \cup work.bare
      /\ manifest'.empty = manifest.empty \ work.bare
      /\ \A d \in work.bare : manifest'.part[d] = NoPart
      /\ \A d \in Days \ work.bare : manifest'.part[d] = manifest.part[d]
      /\ Referenced' \subseteq Referenced \cup {NoPart}
  BY <1>3, CompletedFacts DEF RecordBare
<1>5. Referenced' \subseteq Referenced
  BY <1>4 DEF Referenced
<1>6. manifest.completed \subseteq Days
  BY DEF TypeOK
<1>7. work.bare \cap manifest.completed \subseteq rewritten
  BY DEF IInv, OnlyOverwritten, InBatch
<1>8. ManifestIsTrue'
  BY <1>2, <1>4, <1>6 DEF IInv, ManifestIsTrue
<1>9. ReadOnce'
  BY <1>2, <1>4, <1>5, <1>7 DEF IInv, ReadOnce, SameRun
<1>10. OpenFits' /\ FlushFits'
  BY <1>2, <1>5 DEF IInv, OpenFits, FitsIn, FlushFits
<1>11. Pending' = Pending /\ InBatch' = InBatch \ work.bare /\ work.bare \subseteq InBatch
  <2>1. work.bare \cap (work.rows \cup work.gone) = {}
    BY DEF IInv, OnePlace, BatchApart
  <2> QED  BY <1>2, <2>1 DEF Pending, InBatch
<1>12. BatchApart'
  BY <1>2, <1>11 DEF IInv, OnePlace, BatchApart, SameRun
<1>13. OnlyOverwritten'
  <2>1. Upstream' = Upstream
    BY <1>2, SameUpstream DEF SameRun
  <2>2. (Upstream \cup Pending) \cap work.bare = {}
    BY <1>11 DEF IInv, OnePlace, UpstreamApart, BatchApart
  <2> QED  BY <1>2, <1>4, <1>11, <2>1, <2>2 DEF IInv, OnlyOverwritten, SameRun
<1>14. CountedIsKept' /\ NoBatchLeft'
  BY <1>1, <1>2, <1>4, <1>11 DEF IInv, CountedIsKept, NoBatchLeft, SameRun
<1> QED  BY <1>1, <1>2, <1>8, <1>9, <1>10, <1>11, <1>12, <1>13, <1>14, StoreKeeps

LEMMA RecordMissingKeeps ==
    ASSUME TypeOK, IInv, RecordMissing
    PROVE  IInv'
<1>1. work.by \in {"writer", "drain"} /\ run.phase # "off"
  BY BusyIsRunning DEF RecordMissing, Ingesting
<1>2. /\ UNCHANGED <<open, flushing, files>> /\ SameRun
      /\ work'.rows = work.rows /\ work'.bare = work.bare /\ work'.gone = {}
      /\ work'.ok = work.ok /\ work'.by = work.by
  BY DEF RecordMissing, TypeOK
<1>3. /\ manifest'.completed = manifest.completed \ work.gone
      /\ manifest'.empty = manifest.empty \cup work.gone
      /\ manifest'.part = manifest.part
  BY DEF RecordMissing, TypeOK
<1>4. Referenced' \subseteq Referenced
  BY <1>3 DEF Referenced
<1>5. work.gone \cap manifest.completed \subseteq rewritten
  BY DEF IInv, OnlyOverwritten, InBatch
<1>6. ManifestIsTrue'
  BY <1>2, <1>3 DEF IInv, ManifestIsTrue
<1>7. ReadOnce'
  BY <1>2, <1>3, <1>4, <1>5 DEF IInv, ReadOnce, SameRun
<1>8. OpenFits' /\ FlushFits'
  BY <1>2, <1>4 DEF IInv, OpenFits, FitsIn, FlushFits
<1>9. Pending' = Pending /\ InBatch' \subseteq InBatch
  BY <1>2 DEF Pending, InBatch
<1>10. BatchApart'
  BY <1>2, <1>9 DEF IInv, OnePlace, BatchApart, SameRun
<1>11. OnlyOverwritten'
  <2>1. Upstream' = Upstream
    BY <1>2, SameUpstream DEF SameRun
  <2> QED  BY <1>2, <1>3, <1>9, <2>1 DEF IInv, OnlyOverwritten, SameRun
<1>12. CountedIsKept' /\ NoBatchLeft'
  <2>1. work.gone \cap (work.ok \cup got) = {}
    BY DEF IInv, OnePlace, BatchApart
  <2> QED  BY <1>1, <1>2, <1>3, <1>9, <2>1 DEF IInv, CountedIsKept, NoBatchLeft, SameRun
<1> QED  BY <1>1, <1>2, <1>6, <1>7, <1>8, <1>9, <1>10, <1>11, <1>12, StoreKeeps

(* The batch is counted, or the drain is over: no batch is left.           *)
LEMMA EndKeeps ==
    ASSUME TypeOK, IInv, EndBatch \/ Acknowledge
    PROVE  IInv'
<1>1. /\ run.phase # "off" /\ run'.phase = run.phase /\ run'.failed = run.failed
      /\ work.rows = {} /\ work.bare = {} /\ work.gone = {}
      /\ got' = got \cup work.ok
  <2>1. CASE EndBatch
    BY <2>1, BusyIsRunning DEF EndBatch, Ingesting
  <2>2. CASE Acknowledge
    BY <2>2, BusyIsRunning DEF Acknowledge, IInv, NoBatchLeft, TypeOK
  <2> QED  BY <2>1, <2>2
<1>2. /\ work'.rows = {} /\ work'.bare = {} /\ work'.gone = {} /\ work'.ok = {}
  BY NoBatch DEF EndBatch, Acknowledge, NoWork
<1>3. UNCHANGED <<thread, open, flushing, files, manifest, rewritten>>
  BY DEF EndBatch, Acknowledge
<1>4. /\ Upstream' = Upstream /\ QueuedOnce' /\ HeldOnce' /\ Queued' = Queued
      /\ Gathered' = Gathered /\ jobs' = jobs /\ flight' = flight
  BY <1>3, SameUpstream DEF IInv, OnePlace
<1>5. /\ Pending' = Pending /\ InBatch = {} /\ InBatch' = {} /\ Referenced' = Referenced
  BY <1>1, <1>2, <1>3 DEF Pending, InBatch, Referenced
<1>6. OffHoldsNothing' /\ NoBatchLeft'
  BY <1>1, <1>2 DEF OffHoldsNothing, NoBatchLeft
<1>7. OpenFits' /\ FlushFits' /\ ManifestIsTrue' /\ ReadOnce'
  BY <1>3, <1>5 DEF IInv, OpenFits, FitsIn, FlushFits, ManifestIsTrue, ReadOnce
<1>8. UpstreamApart' /\ BatchApart'
  BY <1>1, <1>2, <1>3, <1>4, <1>5 DEF IInv, OnePlace, UpstreamApart, BatchApart
<1>9. OnlyOverwritten' /\ CountedIsKept'
  BY <1>1, <1>2, <1>3, <1>4, <1>5 DEF IInv, OnlyOverwritten, CountedIsKept
<1> QED  BY <1>4, <1>6, <1>7, <1>8, <1>9 DEF IInv, OnePlace
-----------------------------------------------------------------------------
(* The beginning and the end of a run, and its failures *)

(* A process that starts, ends or dies holds nothing of the days.          *)
LEMMA EmptyKeeps ==
    ASSUME ManifestIsTrue', ReadOnce', ~run'.failed => got' \subseteq manifest'.completed,
           flight' = {}, queue' = <<>>, held' = {}, work' = NoWork,
           open' = [m \in Months |-> NoOpen], flushing' = NoFlush,
           jobs' \cap (manifest'.completed \ rewritten') = {}, jobs' \cap got' = {},
           run'.phase = "off" => jobs' = {}
    PROVE  IInv'
<1>1. /\ NoFlush.days = {} /\ NoFlush.step = "none"
      /\ NoOpen.part = NoPart /\ NoOpen.days = {}
  BY DEF NoFlush, NoOpen
<1>2. work'.rows = {} /\ work'.bare = {} /\ work'.gone = {} /\ work'.ok = {}
  BY NoBatch DEF NoWork
<1>3. Queued' = {} /\ Gathered' = {} /\ QueuedOnce' /\ HeldOnce'
  BY DEF Queued, Results, Gathered, QueuedOnce, HeldOnce
<1>4. Upstream' = jobs' /\ InBatch' = {} /\ Pending' = {}
  BY <1>1, <1>2, <1>3 DEF Upstream, InBatch, Pending
<1>5. OffHoldsNothing' /\ NoBatchLeft'
  BY <1>2 DEF OffHoldsNothing, NoBatchLeft
<1>6. OpenFits' /\ FlushFits'
  BY <1>1 DEF OpenFits, FitsIn, FlushFits
<1>7. UpstreamApart' /\ BatchApart'
  BY <1>1, <1>2, <1>3, <1>4 DEF UpstreamApart, BatchApart
<1>8. OnlyOverwritten' /\ CountedIsKept'
  BY <1>2, <1>4 DEF OnlyOverwritten, CountedIsKept
<1> QED  BY <1>3, <1>5, <1>6, <1>7, <1>8 DEF IInv, OnePlace

(* _remove_orphan_parts removes no part that a manifest row names.         *)
LEMMA SweptKeeps ==
    ASSUME ManifestIsTrue, ReadOnce, files' = Swept, UNCHANGED manifest,
           rewritten \subseteq rewritten'
    PROVE  ManifestIsTrue' /\ ReadOnce'
<1>1. \A p \in Referenced : p \in DOMAIN files' /\ files'[p] = files[p]
  BY ReferencedIsThere DEF Swept
<1> QED  BY <1>1, UntouchedFiles

LEMMA MainKeeps ==
    ASSUME TypeOK, IInv, Main
    PROVE  IInv'
<1>1. ASSUME Start PROVE IInv'
  <2>1. /\ flight' = {} /\ queue' = <<>> /\ held' = {} /\ work' = NoWork /\ got' = {}
        /\ open' = [m \in Months |-> NoOpen] /\ flushing' = NoFlush
        /\ UNCHANGED manifest /\ run'.phase # "off"
    BY <1>1 DEF Start, IInv, OffHoldsNothing
  <2>2. /\ rewritten \subseteq rewritten'
        /\ jobs' \cap (manifest'.completed \ rewritten') = {}
    BY <1>1 DEF Start, Pruned
  <2>3. ManifestIsTrue' /\ ReadOnce'
    BY <1>1, <2>1, <2>2, SweptKeeps DEF Start, IInv
  <2> QED  BY <2>1, <2>2, <2>3, EmptyKeeps
<1>2. ASSUME Join PROVE IInv'
  <2>1. /\ UNCHANGED <<thread, work, open, flushing, files, manifest, got, rewritten>>
        /\ run'.phase # "off" /\ run'.failed = run.failed
    BY <1>2 DEF Join, store, TypeOK
  <2>2. /\ Upstream' = Upstream /\ QueuedOnce' /\ HeldOnce' /\ Queued' = Queued
        /\ Gathered' = Gathered /\ jobs' = jobs /\ flight' = flight
    BY <2>1, SameUpstream DEF IInv, OnePlace
  <2>3. /\ jobs \cap (flight \cup Queued \cup Gathered) = {}
        /\ flight \cap (Queued \cup Gathered) = {} /\ Queued \cap Gathered = {}
    BY DEF IInv, OnePlace, UpstreamApart
  <2> QED  BY <2>1, <2>2, <2>3, DaysMove
<1>3. ASSUME Close PROVE IInv'
  <2>1. /\ UNCHANGED <<open, flushing, files, manifest>> /\ SameRun /\ run.phase # "off"
        /\ work.by = "none" /\ work' = Batch("close", {})
    BY <1>3 DEF Close
  <2>2. /\ work.rows = {} /\ work.bare = {} /\ work.gone = {} /\ work.ok = {}
        /\ work'.rows = {} /\ work'.bare = {} /\ work'.gone = {} /\ work'.ok = {}
    BY <2>1, NoBatch DEF IInv, NoBatchLeft
  <2>3. /\ InBatch = {} /\ InBatch' = {} /\ Pending' = Pending /\ Upstream' = Upstream
        /\ Referenced' = Referenced
    BY <2>1, <2>2, SameUpstream DEF InBatch, Pending, Referenced, SameRun
  <2>4. NoBatchLeft' /\ OpenFits' /\ FlushFits' /\ ManifestIsTrue' /\ ReadOnce'
    BY <2>1, <2>2, <2>3
    DEF NoBatchLeft, IInv, OpenFits, FitsIn, FlushFits, ManifestIsTrue, ReadOnce, SameRun
  <2>5. BatchApart' /\ OnlyOverwritten' /\ CountedIsKept'
    BY <2>1, <2>2, <2>3
    DEF IInv, OnePlace, BatchApart, OnlyOverwritten, CountedIsKept, SameRun
  <2> QED  BY <2>1, <2>2, <2>3, <2>4, <2>5, StoreKeeps
<1>4. ASSUME Closed PROVE IInv'
  <2>1. /\ work.rows = {} /\ work.bare = {} /\ Pending = {}
    BY <1>4 DEF Closed, AllFlushed, IInv, NoBatchLeft, OpenFits, FitsIn, Pending, NoFlush
  <2>2. /\ jobs' = {} /\ flight' = {} /\ queue' = <<>> /\ held' = {} /\ work' = NoWork
        /\ open' = [m \in Months |-> NoOpen] /\ flushing' = NoFlush
        /\ UNCHANGED <<manifest, got, rewritten>>
    BY <1>4 DEF Closed, Forgotten
  <2>3. run'.failed = run.failed
    BY <1>4 DEF Closed, TypeOK
  <2>4. ~run'.failed => got' \subseteq manifest'.completed
    BY <2>1, <2>2, <2>3 DEF IInv, CountedIsKept
  <2>5. ManifestIsTrue' /\ ReadOnce'
    BY <1>4, <2>2, SweptKeeps DEF Closed, IInv
  <2> QED  BY <2>2, <2>4, <2>5, EmptyKeeps
<1> QED  BY <1>1, <1>2, <1>3, <1>4 DEF Main

LEMMA DiesKeeps ==
    ASSUME ManifestIsTrue', ReadOnce', Dies
    PROVE  IInv'
<1>1. /\ jobs' = {} /\ flight' = {} /\ queue' = <<>> /\ held' = {} /\ work' = NoWork
      /\ open' = [m \in Months |-> NoOpen] /\ flushing' = NoFlush /\ got' = {}
  BY DEF Dies, Forgotten
<1> QED  BY <1>1, EmptyKeeps

(* Whatever fails forgets its batch and the part it was about to close.    *)
LEMMA FailingKeeps ==
    ASSUME TypeOK, IInv, NEW newOpen, Failing(newOpen), run.phase # "off",
           ManifestIsTrue', ReadOnce', Referenced' = Referenced,
           UNCHANGED <<manifest, rewritten>>, FitsIn(newOpen, files'),
           \A m \in Months : newOpen[m].days = open[m].days
    PROVE  IInv'
<1>1. CASE work.by = "close"
  BY <1>1, DiesKeeps DEF Failing
<1>2. CASE work.by # "close"
  <2>1. /\ open' = newOpen /\ flushing' = NoFlush /\ UNCHANGED <<thread, got>>
        /\ run'.phase = run.phase /\ run'.failed = TRUE
        /\ \/ work' = Batch("parts", {})
           \/ work' = Batch("none", {})
    BY <1>2 DEF Failing, TypeOK
  <2>2. /\ work'.rows = {} /\ work'.bare = {} /\ work'.gone = {} /\ work'.ok = {}
        /\ InBatch' = {}
    BY <2>1, NoBatch DEF InBatch
  <2>3. /\ NoFlush.days = {} /\ NoFlush.step = "none"
    BY DEF NoFlush
  <2>4. /\ Upstream' = Upstream /\ QueuedOnce' /\ HeldOnce' /\ Queued' = Queued
        /\ Gathered' = Gathered /\ jobs' = jobs /\ flight' = flight
    BY <2>1, SameUpstream DEF IInv, OnePlace
  <2>5. Pending' \subseteq Pending
    BY <2>1, <2>3 DEF Pending
  <2>6. OpenFits'
    BY <2>1 DEF FitsIn, OpenFits
  <2>7. FlushFits' /\ NoBatchLeft' /\ OffHoldsNothing'
    BY <2>1, <2>2, <2>3 DEF FlushFits, NoBatchLeft, OffHoldsNothing
  <2>8. UpstreamApart' /\ BatchApart'
    BY <2>1, <2>2, <2>3, <2>4, <2>5 DEF IInv, OnePlace, UpstreamApart, BatchApart
  <2>9. OnlyOverwritten' /\ CountedIsKept'
    BY <2>1, <2>2, <2>4, <2>5 DEF IInv, OnlyOverwritten, CountedIsKept
  <2> QED  BY <2>4, <2>6, <2>7, <2>8, <2>9 DEF IInv, OnePlace
<1> QED  BY <1>1, <1>2

LEMMA FailingLeaves ==
    ASSUME NEW newOpen, Failing(newOpen)
    PROVE  UNCHANGED <<manifest, rewritten>>
  BY DEF Failing, Dies

LEMMA CloseFailsKeeps ==
    ASSUME TypeOK, IInv, CloseFails
    PROVE  IInv'
<1>1. /\ flushing.part \notin Referenced /\ \A m \in Months : open[m].part # flushing.part
  BY DEF CloseFails, IInv, FlushFits
<1>2. run.phase # "off"
  BY BusyIsRunning DEF CloseFails
<1>3. /\ files' = [q \in DOMAIN files \ {flushing.part} |-> files[q]]
      /\ Failing(open) /\ UNCHANGED <<manifest, rewritten>>
  BY FailingLeaves DEF CloseFails
<1>4. ManifestIsTrue' /\ ReadOnce' /\ Referenced' = Referenced
  <2>1. \A q \in Referenced : q \in DOMAIN files' /\ files'[q] = files[q]
    BY <1>1, <1>3, ReferencedIsThere DEF IInv
  <2> QED  BY <1>3, <2>1, UntouchedFiles DEF IInv
<1>5. FitsIn(open, files')
  BY <1>1, <1>3 DEF IInv, OpenFits, FitsIn
<1> QED  BY <1>2, <1>3, <1>4, <1>5, FailingKeeps

LEMMA CommitFailsKeeps ==
    ASSUME TypeOK, IInv, CommitFails
    PROVE  IInv'
<1>1. run.phase # "off"
  BY BusyIsRunning DEF CommitFails, Ingesting
<1>2. UNCHANGED files /\ Failing(open) /\ UNCHANGED <<manifest, rewritten>>
  BY FailingLeaves DEF CommitFails
<1>3. ManifestIsTrue' /\ ReadOnce' /\ Referenced' = Referenced
  BY <1>2, ReferencedIsThere, UntouchedFiles DEF IInv
<1>4. FitsIn(open, files')
  BY <1>2 DEF IInv, OpenFits
<1> QED  BY <1>1, <1>2, <1>3, <1>4, FailingKeeps

LEMMA WriteFailsKeeps ==
    ASSUME TypeOK, IInv, NEW d \in Days, WriteFails(d)
    PROVE  IInv'
<1>1. run.phase # "off"
  BY BusyIsRunning DEF WriteFails, Ingesting
<1>2. CASE Failing(open) /\ UNCHANGED files
  <2>1. UNCHANGED <<manifest, rewritten>>
    BY <1>2, FailingLeaves
  <2>2. ManifestIsTrue' /\ ReadOnce' /\ Referenced' = Referenced
    BY <1>2, <2>1, ReferencedIsThere, UntouchedFiles DEF IInv
  <2>3. FitsIn(open, files')
    BY <1>2 DEF IInv, OpenFits
  <2> QED  BY <1>1, <1>2, <2>1, <2>2, <2>3, FailingKeeps
<1>3. ASSUME NEW p \in Target(Month[d]), files' = WithFile(p, RowsIn(p), FALSE),
             Failing([open EXCEPT ![Month[d]].part = p])
      PROVE  IInv'
  <2> DEFINE m == Month[d]
             newOpen == [open EXCEPT ![m].part = p]
  <2>1. m \in Months
    BY DownloadAssumption
  <2>2. /\ p \in Parts /\ p[1] = m /\ p \notin Referenced /\ RowsIn(p) = open[m].days
        /\ \A n \in Months : n # m => open[n].part # p
    BY <1>3, <2>1, TargetFits DEF IInv
  <2>3. /\ DOMAIN files' = DOMAIN files \cup {p}
        /\ files'[p] = [rows |-> open[m].days, whole |-> FALSE]
        /\ \A q \in DOMAIN files : q # p => files'[q] = files[q]
    <3>1. open[m].days \in SUBSET Days /\ FALSE \in BOOLEAN
      BY <2>1 DEF TypeOK
    <3>2. files' = WithFile(p, open[m].days, FALSE)
      BY <1>3, <2>2
    <3> QED  BY <2>2, <3>1, <3>2, WithFileTypes, Zenon
  <2>4. /\ newOpen[m].part = p /\ \A n \in Months : newOpen[n].days = open[n].days
        /\ \A n \in Months : n # m => newOpen[n] = open[n]
    BY <2>1 DEF TypeOK
  <2>5. Failing(newOpen) /\ UNCHANGED <<manifest, rewritten>>
    BY <1>3, FailingLeaves
  <2> HIDE DEF m, newOpen
  <2>6. ManifestIsTrue' /\ ReadOnce' /\ Referenced' = Referenced
    <3>1. \A q \in Referenced : q \in DOMAIN files' /\ files'[q] = files[q]
      BY <2>2, <2>3, ReferencedIsThere DEF IInv
    <3> QED  BY <2>5, <3>1, UntouchedFiles DEF IInv
  <2>7. FitsIn(newOpen, files')
    <3>1. p # NoPart
      BY <2>2, PartsAreParts
    <3>2. files'[p].rows = open[m].days
      BY <2>3
    <3> QED  BY <2>1, <2>2, <2>3, <2>4, <3>1, <3>2 DEF IInv, OpenFits, FitsIn
  <2> QED  BY <1>1, <2>4, <2>5, <2>6, <2>7, FailingKeeps
<1> QED  BY <1>2, <1>3 DEF WriteFails

LEMMA FaultKeeps ==
    ASSUME TypeOK, IInv, Fault
    PROVE  IInv'
<1>1. ASSUME Signal PROVE IInv'
  <2>1. /\ UNCHANGED <<thread, work, open, flushing, files, manifest, got, rewritten>>
        /\ run'.phase # "off" /\ run'.failed = run.failed
    BY <1>1 DEF Signal, store, TypeOK
  <2>2. /\ Upstream' = Upstream /\ QueuedOnce' /\ HeldOnce' /\ Queued' = Queued
        /\ Gathered' = Gathered /\ jobs' = jobs /\ flight' = flight
    BY <2>1, SameUpstream DEF IInv, OnePlace
  <2>3. /\ jobs \cap (flight \cup Queued \cup Gathered) = {}
        /\ flight \cap (Queued \cup Gathered) = {} /\ Queued \cap Gathered = {}
    BY DEF IInv, OnePlace, UpstreamApart
  <2> QED  BY <2>1, <2>2, <2>3, DaysMove
<1>2. ASSUME Crash PROVE IInv'
  <2>1. UNCHANGED <<files, manifest, rewritten>> /\ Dies
    BY <1>2 DEF Crash, Dies
  <2>2. ManifestIsTrue' /\ ReadOnce'
    BY <2>1, ReferencedIsThere, UntouchedFiles DEF IInv
  <2> QED  BY <2>1, <2>2, DiesKeeps
<1> QED  BY <1>1, <1>2, CloseFailsKeeps, CommitFailsKeeps, WriteFailsKeeps DEF Fault
-----------------------------------------------------------------------------
(* The theorems *)

LEMMA InitHolds == Init => TypeOK /\ IInv
<1> SUFFICES ASSUME Init PROVE IInv
  BY InitTypes
<1>1. /\ NoFlush.days = {} /\ NoFlush.step = "none"
      /\ NoOpen.part = NoPart /\ NoOpen.days = {}
  BY DEF NoFlush, NoOpen
<1>2. work.rows = {} /\ work.bare = {} /\ work.gone = {} /\ work.ok = {}
  BY NoBatch DEF Init, NoWork
<1>3. /\ Queued = {} /\ Gathered = {} /\ QueuedOnce /\ HeldOnce
  BY DEF Init, Queued, Results, Gathered, QueuedOnce, HeldOnce
<1>4. Upstream = {} /\ InBatch = {} /\ Pending = {} /\ Referenced = {}
  BY <1>1, <1>2, <1>3 DEF Init, Upstream, InBatch, Pending, Referenced
<1>5. OffHoldsNothing /\ NoBatchLeft
  BY <1>2 DEF Init, OffHoldsNothing, NoBatchLeft
<1>6. OpenFits /\ FlushFits
  BY <1>1 DEF Init, OpenFits, FitsIn, FlushFits
<1>7. UpstreamApart /\ BatchApart
  BY <1>1, <1>2, <1>3, <1>4 DEF Init, UpstreamApart, BatchApart
<1>8. OnlyOverwritten /\ CountedIsKept /\ ManifestIsTrue /\ ReadOnce
  BY <1>2, <1>4 DEF Init, OnlyOverwritten, CountedIsKept, ManifestIsTrue, ReadOnce
<1> QED  BY <1>3, <1>5, <1>6, <1>7, <1>8 DEF IInv, OnePlace

LEMMA NextHolds ==
    ASSUME TypeOK, IInv, [Next]_vars
    PROVE  TypeOK' /\ IInv'
<1>1. CASE Dispatcher
  BY <1>1, DispatcherTypes, DispatcherKeeps
<1>2. CASE Writer
  <2>1. CASE TakeResult \/ TakeDrain \/ FlushWhenIdle
    BY <2>1, TakeTypes, TakeKeeps
  <2>2. CASE EndBatch \/ Acknowledge
    BY <2>2, MainTypes, EndKeeps
  <2>3. CASE \/ \E d \in Days : Write(d) \/ Evolve(d)
             \/ CloseFile \/ CommitPart \/ RecordBare \/ RecordMissing
             \/ \E m \in Months : FlushPart(m)
    <3>1. TypeOK'
      BY <2>3, StoreTypes DEF IInv
    <3>2. IInv'
      BY <2>3, WriteKeeps, FlushKeeps, CloseFileKeeps, CommitKeeps, RecordBareKeeps,
         RecordMissingKeeps
    <3> QED  BY <3>1, <3>2
  <2> QED  BY <1>2, <2>1, <2>2, <2>3 DEF Writer
<1>3. CASE Main
  BY <1>3, MainTypes, MainKeeps
<1>4. CASE Fault
  BY <1>4, FaultTypes, FaultKeeps
<1>5. CASE UNCHANGED vars
  <2>1. UNCHANGED <<run, jobs, flight, queue, held, work, open, flushing, files,
                    manifest, got, rewritten, faults>>
    BY <1>5 DEF vars, thread, store
  <2>2. TypeOK'
    BY <2>1 DEF TypeOK
  <2>3. /\ Results' = Results /\ Queued' = Queued /\ Gathered' = Gathered
        /\ Upstream' = Upstream /\ InBatch' = InBatch /\ Pending' = Pending
        /\ Referenced' = Referenced
    BY <2>1 DEF Results, Queued, Gathered, Upstream, InBatch, Pending, Referenced
  <2>4. OffHoldsNothing' /\ NoBatchLeft' /\ OpenFits' /\ FlushFits'
    BY <2>1, <2>3 DEF IInv, OffHoldsNothing, NoBatchLeft, OpenFits, FitsIn, FlushFits
  <2>5. QueuedOnce' /\ HeldOnce'
    BY <2>1, <2>3 DEF IInv, OnePlace, QueuedOnce, HeldOnce
  <2>6. UpstreamApart' /\ BatchApart'
    BY <2>1, <2>3 DEF IInv, OnePlace, UpstreamApart, BatchApart
  <2>7. OnlyOverwritten' /\ CountedIsKept' /\ ManifestIsTrue' /\ ReadOnce'
    BY <2>1, <2>3 DEF IInv, OnlyOverwritten, CountedIsKept, ManifestIsTrue, ReadOnce
  <2> QED  BY <2>2, <2>4, <2>5, <2>6, <2>7 DEF IInv, OnePlace
<1> QED  BY <1>1, <1>2, <1>3, <1>4, <1>5 DEF Next

LEMMA StoreInvariant == Spec => [](TypeOK /\ IInv)
<1>1. Init => TypeOK /\ IInv
  BY InitHolds
<1>2. (TypeOK /\ IInv) /\ [Next]_vars => (TypeOK /\ IInv)'
  BY NextHolds
<1> QED  BY <1>1, <1>2, PTL DEF Spec

(* The store, the queue and the manifest stay well typed for any days,     *)
(* months and limits.                                                      *)
THEOREM DownloadTypes == Spec => []TypeOK
  BY StoreInvariant, PTL

(* ManifestIsTrue for every value of the constants: what the manifest      *)
(* calls completed is in a whole part that is there, through crashes and   *)
(* failures at every step of ingest_batch and _flush_open_part_locked.     *)
THEOREM ManifestStaysTrue == Spec => []ManifestIsTrue
<1>1. IInv => ManifestIsTrue
  BY DEF IInv
<1> QED  BY <1>1, StoreInvariant, PTL

(* ReadOnce for every value of the constants: no two parts the manifest    *)
(* names hold the rows of a day that was never overwritten.                *)
THEOREM DayIsReadOnce == Spec => []ReadOnce
<1>1. IInv => ReadOnce
  BY DEF IInv
<1> QED  BY <1>1, StoreInvariant, PTL

(* SummaryIsDurable for every value of the constants: a run that ends      *)
(* without a writer failure has committed all it counted, because close    *)
(* flushes every open part before it returns.                              *)
THEOREM SummaryStaysDurable == Spec => []SummaryIsDurable
<1>1. IInv => SummaryIsDurable
  <2> SUFFICES ASSUME IInv, run.phase = "off", ~run.failed
               PROVE  got \subseteq manifest.completed
    BY DEF SummaryIsDurable
  <2>1. work.rows = {} /\ work.bare = {}
    BY NoBatch DEF IInv, OffHoldsNothing, NoWork
  <2>2. Pending = {}
    BY DEF IInv, OffHoldsNothing, Pending, NoFlush, NoOpen
  <2> QED  BY <2>1, <2>2 DEF IInv, CountedIsKept
<1> QED  BY <1>1, StoreInvariant, PTL

(* A step that takes a completed day away, or elsewhere, overwrites it.    *)
Stays == \A d \in manifest.completed \ rewritten :
            d \in manifest'.completed /\ manifest'.part[d] = manifest.part[d]

LEMMA StepStays ==
    ASSUME TypeOK, IInv, [Next]_vars
    PROVE  Stays
<1> USE DEF Stays
<1>1. CASE UNCHANGED manifest
  BY <1>1
<1>2. CASE CommitPart
  <2>1. flushing.days \in SUBSET Days /\ flushing.part \in Parts \cup {NoPart}
    BY DEF TypeOK
  <2>2. /\ manifest'.completed = manifest.completed \cup flushing.days
        /\ \A d \in Days \ flushing.days : manifest'.part[d] = manifest.part[d]
    BY <1>2, <2>1, CompletedFacts DEF CommitPart
  <2>3. flushing.days \cap manifest.completed \subseteq rewritten
    BY DEF IInv, OnlyOverwritten, Pending
  <2> QED  BY <2>2, <2>3 DEF TypeOK
<1>3. CASE RecordBare
  <2>1. work.bare \in SUBSET Days /\ NoPart \in Parts \cup {NoPart}
    BY DEF TypeOK
  <2>2. /\ manifest'.completed = manifest.completed \cup work.bare
        /\ \A d \in Days \ work.bare : manifest'.part[d] = manifest.part[d]
    BY <1>3, <2>1, CompletedFacts DEF RecordBare
  <2>3. work.bare \cap manifest.completed \subseteq rewritten
    BY DEF IInv, OnlyOverwritten, InBatch
  <2> QED  BY <2>2, <2>3 DEF TypeOK
<1>4. CASE RecordMissing
  <2>1. /\ manifest'.completed = manifest.completed \ work.gone
        /\ manifest'.part = manifest.part
    BY <1>4 DEF RecordMissing, TypeOK
  <2>2. work.gone \cap manifest.completed \subseteq rewritten
    BY DEF IInv, OnlyOverwritten, InBatch
  <2> QED  BY <2>1, <2>2
<1>5. CASE Dispatcher
  <2>1. UNCHANGED manifest
    BY <1>5 DEF Dispatcher, Launch, Strand, Download, SendDrain, Finish, store
  <2> QED  BY <1>1, <2>1
<1>6. CASE Main
  <2>1. UNCHANGED manifest
    BY <1>6 DEF Main, Start, Join, Close, Closed, store
  <2> QED  BY <1>1, <2>1
<1>7. CASE Fault
  <2>1. UNCHANGED manifest
    BY <1>7, FailingLeaves
    DEF Fault, Signal, Crash, Dies, CloseFails, CommitFails, WriteFails, store
  <2> QED  BY <1>1, <2>1
<1>8. CASE /\ Writer
           /\ ~CommitPart /\ ~RecordBare /\ ~RecordMissing
  <2>1. UNCHANGED manifest
    BY <1>8 DEF Writer, TakeResult, TakeDrain, FlushWhenIdle, Write, Evolve, CloseFile,
                EndBatch, FlushPart, Acknowledge
  <2> QED  BY <1>1, <2>1
<1>9. CASE UNCHANGED vars
  BY <1>1, <1>9 DEF vars, store
<1> HIDE DEF Stays
<1> QED  BY <1>2, <1>3, <1>4, <1>5, <1>6, <1>7, <1>8, <1>9 DEF Next

(* CompletedStays for every value of the constants: only an overwriting    *)
(* run has a completed day in any place from which it could be recorded    *)
(* again, as completed elsewhere or as empty.                              *)
THEOREM CompletedDaysStay == Spec => CompletedStays
<1>1. TypeOK /\ IInv /\ [Next]_vars => [Stays]_vars
  BY StepStays
<1> QED  BY <1>1, StoreInvariant, PTL DEF Spec, CompletedStays, Stays
===============================================================================
