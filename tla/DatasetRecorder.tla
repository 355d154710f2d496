---------------------------- MODULE DatasetRecorder ----------------------------
(***************************************************************************)
(* The 413GSV0 / companion dataset recorder: class DatasetRecorder in      *)
(* src/ui/main_window.cpp.  The capture thread queues camera frame sets    *)
(* and LiDAR batches, a writer thread moves them into chunk files and then *)
(* into an index, small streams are written under the mutex by whichever   *)
(* thread received them, and the GUI thread starts and stops sessions.     *)
(*                                                                         *)
(* Every action is one critical section of mutex_, or one stretch of code  *)
(* outside it.  Abstracted: a payload is its size in bytes, the records of *)
(* the small streams are not kept, and the text of write_error_ is only    *)
(* "there is one".  An append that finds the recorder inactive is left out. *)
(* The stretch of stop() before its join is one step: after its atomic     *)
(* store to active_ an append changes nothing, so nothing can happen       *)
(* between that store and the critical section that follows it.            *)
(***************************************************************************)
EXTENDS Naturals, Sequences, FiniteSets, SequencesExt, FiniteSetsExt, Totals

CONSTANTS
  Cameras,        \* the camera lanes (four in the product)
  Direct,         \* the streams written under the mutex, as they are appended
  Policies,       \* "received" (what the GUI starts) and "aligned" (the default)
  Modes,          \* "full" and "imuOnly"
  QueueFrames,    \* queue_frames_: frame jobs the queue holds
  QueueBatches,   \* kMaximumQueuedLidarBatches
  QueueBytes,     \* queue_bytes_ = kMaximumQueuedFrameBytes
  ChunkBytes,     \* kCameraChunkTargetBytes
  FrameSets,      \* the frame sets the device may send
  Batches,        \* the LiDAR batches it may send
  Times,          \* the timestamps a sample may carry; 0 is "no timestamp"
  MaxFrames,      \* bound: frame sets the device sends
  MaxBatches,     \* bound: LiDAR batches the device sends
  MaxSessions     \* bound: recordings that start successfully

ASSUME LimitsAssumption ==
  /\ {QueueFrames, QueueBatches, QueueBytes, ChunkBytes} \subseteq Nat \ {0}
  /\ {MaxFrames, MaxBatches, MaxSessions} \subseteq Nat
ASSUME StreamsAssumption ==
  /\ Cameras \subseteq Nat /\ IsFiniteSet(Cameras) /\ Cameras # {}
  /\ Direct \subseteq {"imu", "lidarImu", "timeSync", "rover", "base", "gnss"}
  /\ Policies \subseteq {"received", "aligned"} /\ Modes \subseteq {"full", "imuOnly"}
  /\ Times \subseteq Nat

VARIABLES
  active,      \* active_
  session,     \* session_open_, mode_ and received_policy_.enabled
  stopWriter,  \* stop_writer_
  failed,      \* write_failed_
  gate,        \* startup_gate_: the common start and the last time per stream
  queue,       \* frame_jobs_ and lidar_jobs_
  queuedBytes, \* queued_payload_bytes_
  tally,       \* the counters the manifest is written from
  file,        \* per payload kind: the last chunk's number (0 is none) and size
  disk,        \* per payload kind: its stream ("open", "bad" or "closed") and, for
               \* each chunk, how many of its bytes the file held when it was closed
  index,       \* per payload kind: the rows of its index files
  writer,      \* the writer thread: where it is and the job it holds
  capture,     \* the capture thread: the input that passed the unlocked checks
  gui,         \* the GUI thread: "idle", or "joining" the writer in stop()
  manifest,    \* complete= of the manifest on disk, or "none"
  sent         \* what the device and the user have done so far

vars == <<active, session, stopWriter, failed, gate, queue, queuedBytes, tally,
          file, disk, index, writer, capture, gui, manifest, sent>>

Kinds == {"frame", "lidar"}
Gated == {"imu", "frame", "lidar", "lidarImu"}

\* A job is a FrameSetJob, with the lanes that carry an image, or a LidarJob.
\* valid: the metadata belongs to the frame and has a plausible exposure;
\* synced: the timestamp is usable and, for a camera, is the trigger's own.
Job  == [kind : Kinds, at : Times, images : SUBSET Cameras, bytes : Nat,
         valid : BOOLEAN, synced : BOOLEAN]
Jobs == FrameSets \union Batches
NoJob   == [kind |-> "none", at |-> 0, images |-> {}, bytes |-> 0, valid |-> FALSE, synced |-> FALSE]
Failing == [NoJob EXCEPT !.kind = "failing"]

ASSUME InputsAssumption ==
  /\ Jobs \subseteq Job
  /\ \A f \in FrameSets : f.kind = "frame" /\ f.images # {} /\ (f.synced => f.at # 0)
  /\ \A b \in Batches : b.kind = "lidar" /\ b.images = {}
  /\ \A job \in Jobs : job.bytes > 0

BytesIn(jobs) == Total([i \in DOMAIN jobs |-> jobs[i].bytes])

FreshGate  == [ready |-> FALSE, start |-> 0, imuStarted |-> FALSE,
               last |-> [s \in Gated |-> 0]]
FreshTally == [received |-> [c \in Cameras |-> 0], dropped |-> [c \in Cameras |-> 0],
               images |-> [c \in Cameras |-> 0], droppedSets |-> 0, partialSets |-> 0,
               batches |-> 0, droppedBatches |-> 0, queuedBatches |-> 0,
               direct |-> {}, roverLost |-> FALSE]
FreshFile  == [chunk |-> 0, size |-> 0]
FreshDisk  == [stream |-> "closed", held |-> <<>>]

Receiving == session.open /\ active /\ ~failed
Aligned   == session.policy = "aligned"

--------------------------------------------------------------------------------
(***************************************************************************)
(* RecordingStartupGate::admit.  The first gated sample opens a gate that  *)
(* is not ready and is itself left out; a stream then starts after the     *)
(* common start and must move forward, otherwise admit throws and the      *)
(* caller turns the exception into write_failed_.                          *)
(***************************************************************************)
Opened(t)       == IF gate.ready THEN gate ELSE [gate EXCEPT !.ready = TRUE, !.start = t]
\* Fault: a repeated timestamp is let through.
Regresses_Fault(s, t) == t # 0 /\ gate.last[s] # 0 /\ t < gate.last[s]
Regresses(s, t) == t # 0 /\ gate.last[s] # 0 /\ t <= gate.last[s]
Boundary(s, t)  == t = 0 \/ (gate.last[s] = 0 /\ t <= Opened(t).start)
Admits(s, t)    == ~Boundary(s, t) /\ ~Regresses(s, t)
Admitted(s, t)  == IF t = 0 THEN gate
                   ELSE IF Admits(s, t) THEN [Opened(t) EXCEPT !.last[s] = t] ELSE Opened(t)

\* admitTimestamp: the gate decides only under the aligned policy.
LetsIn(s, t)    == Aligned => Admits(s, t)
Breaks(s, t)    == Aligned /\ Regresses(s, t)
GateAfter(s, t) == IF Aligned THEN Admitted(s, t) ELSE gate

--------------------------------------------------------------------------------
(***************************************************************************)
(* appendFrameSet.                                                         *)
(***************************************************************************)

\* The checks it makes before it takes the mutex.
CheckFrameSet(f) ==
  /\ capture = NoJob /\ sent.frames < MaxFrames
  /\ active /\ session.mode = "full"
  /\ sent' = [sent EXCEPT !.frames = @ + 1]
  /\ capture' = f
  /\ UNCHANGED <<active, session, stopWriter, failed, gate, queue, queuedBytes, tally,
                 file, disk, index, writer, gui, manifest>>

\* Fault: the set is counted, its images are not.
Lose_Fault(counts, jobs) == [counts EXCEPT !.droppedSets = @ + Len(jobs)]
\* drop(): every discarded frame set is counted, and each of its images.
Lose(counts, jobs) ==
  [counts EXCEPT !.droppedSets = @ + Len(jobs),
     !.dropped = [c \in Cameras |-> @[c] + Cardinality({i \in DOMAIN jobs : c \in jobs[i].images})]]

\* No room for f beside these queued frame sets and this many bytes.
Full(jobs, bytes, f) == Len(jobs) >= QueueFrames \/ bytes > QueueBytes - f.bytes

\* How many of the oldest frame sets are evicted to make room for f.
Oldest(n)  == SubSeq(queue.frames, 1, n)
Kept(n)    == SubSeq(queue.frames, n + 1, Len(queue.frames))
Evicted(f) == Min({n \in 0 .. Len(queue.frames) :
                     n < Len(queue.frames) => ~Full(Kept(n), queuedBytes - BytesIn(Oldest(n)), f)})

Received(f) == [tally EXCEPT !.received =
                 [c \in Cameras |-> @[c] + IF c \in f.images THEN 1 ELSE 0]]

\* The queue policy: an oversized frame set is dropped alone, older frame sets
\* make room for a new one, and bytes that LiDAR holds are never freed for it.
Enqueue(f) ==
  IF f.bytes > QueueBytes
  THEN /\ tally' = Lose(Received(f), <<f>>)
       /\ UNCHANGED <<queue, queuedBytes, failed>>
  ELSE LET n == Evicted(f)
           left == queuedBytes - BytesIn(Oldest(n))
           fits == left <= QueueBytes - f.bytes
       IN /\ queue' = [queue EXCEPT !.frames = Kept(n) \o IF fits THEN <<f>> ELSE <<>>]
          /\ queuedBytes' = left + IF fits THEN f.bytes ELSE 0
          /\ tally' = Lose(Received(f), Oldest(n) \o IF fits THEN <<>> ELSE <<f>>)
          /\ failed' = (failed \/ ~fits)

\* The critical section of appendFrameSet.
AppendFrameSet ==
  LET f == capture IN
  /\ f.kind = "frame" /\ capture' = NoJob
  /\ CASE ~Receiving -> UNCHANGED <<failed, gate, queue, queuedBytes, tally>>
       [] Receiving /\ (~f.valid \/ (Aligned /\ ~f.synced)) ->
            /\ tally' = [tally EXCEPT !.droppedSets = @ + 1]
            /\ UNCHANGED <<failed, gate, queue, queuedBytes>>
       [] Receiving /\ f.valid /\ (Aligned => f.synced) /\ ~LetsIn("frame", f.at) ->
            /\ failed' = Breaks("frame", f.at)
            /\ gate' = GateAfter("frame", f.at)
            /\ UNCHANGED <<queue, queuedBytes, tally>>
       [] OTHER -> gate' = GateAfter("frame", f.at) /\ Enqueue(f)
  /\ UNCHANGED <<active, session, stopWriter, file, disk, index, writer, gui, manifest, sent>>

\* An allocation fails while the frame set is copied, after room was made for
\* it.  The lock is released as the exception unwinds and is taken again by
\* markWriteFailedNoThrow.
AppendFrameSetThrows ==
  LET f == capture
      n == Evicted(f)
  IN /\ f.kind = "frame" /\ Receiving
     /\ f.valid /\ (Aligned => f.synced) /\ LetsIn("frame", f.at)
     /\ f.bytes <= QueueBytes /\ queuedBytes - BytesIn(Oldest(n)) <= QueueBytes - f.bytes
     /\ gate' = GateAfter("frame", f.at)
     /\ queue' = [queue EXCEPT !.frames = Kept(n)]
     /\ queuedBytes' = queuedBytes - BytesIn(Oldest(n))
     /\ tally' = Lose(Received(f), Oldest(n))
     /\ capture' = Failing
     /\ UNCHANGED <<active, session, stopWriter, failed, file, disk, index, writer, gui, manifest,
                    sent>>

\* markWriteFailedNoThrow, called by the capture thread.
MarkAppendFailed ==
  /\ capture.kind = "failing"
  /\ capture' = NoJob /\ failed' = TRUE
  /\ UNCHANGED <<active, session, stopWriter, gate, queue, queuedBytes, tally, file, disk,
                 index, writer, gui, manifest, sent>>

(***************************************************************************)
(* appendLidar: like appendFrameSet, but a batch that does not fit is      *)
(* dropped and the queue is left as it is.                                 *)
(***************************************************************************)
CheckLidar(b) ==
  /\ capture = NoJob /\ sent.batches < MaxBatches
  /\ active /\ session.mode = "full"
  /\ sent' = [sent EXCEPT !.batches = @ + 1]
  /\ capture' = b
  /\ UNCHANGED <<active, session, stopWriter, failed, gate, queue, queuedBytes, tally,
                 file, disk, index, writer, gui, manifest>>

LidarFits(b) == Len(queue.lidar) < QueueBatches /\ queuedBytes <= QueueBytes - b.bytes

AppendLidar ==
  LET b == capture IN
  /\ b.kind = "lidar" /\ capture' = NoJob
  /\ CASE ~Receiving -> UNCHANGED <<failed, gate, queue, queuedBytes, tally>>
       [] Receiving /\ Aligned /\ ~b.synced ->
            /\ tally' = [tally EXCEPT !.droppedBatches = @ + 1]
            /\ UNCHANGED <<failed, gate, queue, queuedBytes>>
       [] Receiving /\ (Aligned => b.synced) /\ ~LetsIn("lidar", b.at) ->
            /\ failed' = Breaks("lidar", b.at)
            /\ gate' = GateAfter("lidar", b.at)
            /\ UNCHANGED <<queue, queuedBytes, tally>>
       [] OTHER ->
            /\ gate' = GateAfter("lidar", b.at)
            /\ IF LidarFits(b)
               THEN /\ queue' = [queue EXCEPT !.lidar = Append(@, b)]
                    /\ queuedBytes' = queuedBytes + b.bytes
                    /\ tally' = [tally EXCEPT !.queuedBatches = @ + 1]
               ELSE /\ tally' = [tally EXCEPT !.droppedBatches = @ + 1]
                    /\ UNCHANGED <<queue, queuedBytes>>
            /\ UNCHANGED failed
  /\ UNCHANGED <<active, session, stopWriter, file, disk, index, writer, gui, manifest, sent>>

\* An allocation fails: while the job is built, before the mutex is taken, or in
\* push_back, after the batch's bytes were already added to the total.
AppendLidarThrows ==
  LET b == capture IN
  /\ b.kind = "lidar" /\ (Aligned => b.synced)
  /\ \/ UNCHANGED <<gate, queuedBytes>>
     \/ /\ Receiving /\ LetsIn("lidar", b.at) /\ LidarFits(b)
        /\ gate' = GateAfter("lidar", b.at)
        /\ queuedBytes' = queuedBytes + b.bytes
  /\ capture' = Failing
  /\ UNCHANGED <<active, session, stopWriter, failed, queue, tally, file, disk, index, writer, gui,
                 manifest, sent>>

--------------------------------------------------------------------------------
(***************************************************************************)
(* appendImu, appendLidarImu, appendRoverRtcm, appendBaseRtcm, appendGnss, *)
(* appendGnssRaw and appendTimeSync write their row while they hold the    *)
(* mutex.  Which stream refuses what:                                      *)
(*   imu       received: a gap or a bad sequence is kept and then fails;   *)
(*             aligned: the startup gate decides, a regression fails       *)
(*   lidarImu  aligned: unsynchronized samples are dropped, the gate       *)
(*             decides, a regression fails                                 *)
(*   timeSync  aligned: a change of the time domain fails                  *)
(*   rover     the Agent's own losses are remembered for validation        *)
(* and a stream whose file fails sets write_failed_.                       *)
(***************************************************************************)
\* Only the streams that validateRequiredStreams asks for are remembered.
Required == {"imu", "lidarImu", "timeSync"}
Recorded(s) == IF Aligned /\ s \in Required THEN [tally EXCEPT !.direct = @ \union {s}] ELSE tally

WriteRow(s) == tally' = Recorded(s) /\ UNCHANGED failed
LoseRow     == failed' = TRUE /\ UNCHANGED tally

AppendImuReceived ==
  /\ "imu" \in Direct /\ Receiving /\ ~Aligned
  /\ \/ WriteRow("imu") \/ LoseRow
     \/ tally' = Recorded("imu") /\ failed' = TRUE
  /\ UNCHANGED gate

\* The gate's 250 ms of continuity is the choice of the sample that starts it.
AppendImuAligned ==
  /\ "imu" \in Direct /\ Receiving /\ Aligned
  /\ \E t \in Times \ {0} :
       \/ /\ ~gate.imuStarted
          /\ gate' = [Opened(t) EXCEPT !.imuStarted = TRUE]
          /\ UNCHANGED <<tally, failed>>
       \/ /\ gate.imuStarted /\ gate' = Admitted("imu", t)
          /\ IF Regresses("imu", t) THEN LoseRow
             ELSE IF Admits("imu", t) THEN WriteRow("imu") \/ LoseRow
             ELSE UNCHANGED <<tally, failed>>

AppendLidarImu ==
  /\ "lidarImu" \in Direct /\ Receiving
  /\ \E t \in Times :
       /\ gate' = GateAfter("lidarImu", t)
       /\ IF Breaks("lidarImu", t) THEN LoseRow
          ELSE IF LetsIn("lidarImu", t) THEN WriteRow("lidarImu") \/ LoseRow
          ELSE UNCHANGED <<tally, failed>>

AppendTimeSync ==
  /\ "timeSync" \in Direct /\ Receiving
  /\ WriteRow("timeSync") \/ LoseRow
  /\ UNCHANGED gate

AppendRoverRtcm ==
  /\ "rover" \in Direct /\ Receiving
  /\ \/ LoseRow
     \/ /\ \E lost \in BOOLEAN :
             tally' = [Recorded("rover") EXCEPT !.roverLost = @ \/ lost]
        /\ UNCHANGED failed
  /\ UNCHANGED gate

AppendBaseRtcm ==
  /\ "base" \in Direct /\ Receiving
  /\ WriteRow("base") \/ LoseRow
  /\ UNCHANGED gate

\* appendGnss and appendGnssRaw ask for active_ alone, not for write_failed_.
AppendGnss ==
  /\ "gnss" \in Direct /\ active
  /\ WriteRow("gnss") \/ LoseRow
  /\ UNCHANGED gate

AppendDirect ==
  /\ \/ AppendImuReceived \/ AppendImuAligned \/ AppendLidarImu \/ AppendTimeSync
     \/ AppendRoverRtcm \/ AppendBaseRtcm \/ AppendGnss
  /\ UNCHANGED <<active, session, stopWriter, queue, queuedBytes, file, disk, index, writer,
                 capture, gui, manifest, sent>>

--------------------------------------------------------------------------------
(***************************************************************************)
(* The writer thread: writerLoopImpl, writeFrameJob and writeLidarJob.     *)
(***************************************************************************)

\* shouldTakeFrameJob: the queues are merged by timestamp, frames first.
TakesFrame ==
  /\ queue.frames # <<>>
  /\ queue.lidar # <<>> => Head(queue.frames).at <= Head(queue.lidar).at

\* Fault: the bytes of a job the writer takes stay in the total.
Released_Fault(job) == queuedBytes
Released(job) == IF queuedBytes >= job.bytes THEN queuedBytes - job.bytes ELSE 0

TakeJob ==
  /\ writer.pc = "idle" /\ (queue.frames # <<>> \/ queue.lidar # <<>>)
  /\ LET job == IF TakesFrame THEN Head(queue.frames) ELSE Head(queue.lidar)
     IN /\ writer' = [pc |-> "taken", job |-> job]
        /\ queue' = IF TakesFrame THEN [queue EXCEPT !.frames = Tail(@)]
                    ELSE [queue EXCEPT !.lidar = Tail(@)]
        /\ queuedBytes' = Released(job)
  /\ UNCHANGED <<active, session, stopWriter, failed, gate, tally, file, disk, index, capture,
                 gui, manifest, sent>>

\* The loop ends only once it was told to stop and both queues are empty.
Drained == queue.frames = <<>> /\ queue.lidar = <<>> /\ stopWriter
WriterStops ==
  /\ writer.pc = "idle" /\ Drained
  /\ writer' = [pc |-> "exited", job |-> NoJob]
  /\ UNCHANGED <<active, session, stopWriter, failed, gate, queue, queuedBytes, tally,
                 file, disk, index, capture, gui, manifest, sent>>

\* What a flush and close of the last chunk may come to.  What has been written
\* waits in the stream's 4 MiB buffer: a flush that succeeds hands all of it to
\* the file, a stream that is bad or a flush that fails leaves any part of it.
Closings(k) ==
  LET d == disk[k]
      Left(n) == [d.held EXCEPT ![file[k].chunk] = n]
      broken == {[ok |-> FALSE, held |-> Left(n)] : n \in 0 .. file[k].size}
  IN CASE d.stream = "closed" -> {[ok |-> TRUE, held |-> d.held]}
       [] d.stream = "open"   -> {[ok |-> TRUE, held |-> Left(file[k].size)]} \union broken
       [] d.stream = "bad"    -> broken

\* A payload that does not fit the last chunk, or finds none open, starts one.
Rolls(job) ==
  LET f == file[job.kind] IN
  disk[job.kind].stream = "closed" \/ (f.size # 0 /\ f.size + job.bytes > ChunkBytes)

\* Fault: the last chunk is closed without a look at its flush.
RollOver_Fault ==
  LET k == writer.job.kind IN
  /\ writer.pc = "taken" /\ Rolls(writer.job)
  /\ \E c \in Closings(k), opens \in BOOLEAN :
       /\ file' = [file EXCEPT ![k] = [chunk |-> @.chunk + 1, size |-> 0]]
       /\ disk' = [disk EXCEPT ![k] = [stream |-> IF opens THEN "open" ELSE "closed",
                                      held |-> Append(c.held, 0)]]
       /\ writer' = [writer EXCEPT !.pc = IF opens THEN @ ELSE "failing"]
  /\ UNCHANGED <<active, session, stopWriter, failed, gate, queue, queuedBytes, tally,
                 index, capture, gui, manifest, sent>>
\* openNextCameraChunk / openNextLidarChunk: the last chunk is flushed and closed
\* and, only if that succeeded, the next one is opened.
RollOver ==
  LET k == writer.job.kind IN
  /\ writer.pc = "taken" /\ Rolls(writer.job)
  /\ \E c \in Closings(k), opens \in BOOLEAN :
       /\ file' = IF c.ok THEN [file EXCEPT ![k] = [chunk |-> @.chunk + 1, size |-> 0]] ELSE file
       /\ disk' = [disk EXCEPT ![k] = [stream |-> IF c.ok /\ opens THEN "open" ELSE "closed",
                                      held |-> IF c.ok THEN Append(c.held, 0) ELSE c.held]]
       /\ writer' = [writer EXCEPT !.pc = IF c.ok /\ opens THEN @ ELSE "failing"]
  /\ UNCHANGED <<active, session, stopWriter, failed, gate, queue, queuedBytes, tally,
                 index, capture, gui, manifest, sent>>

\* The payload goes into the stream, outside the mutex.  A write that fails, the
\* buffer's overflow included, cuts it short and leaves the stream bad; a bad
\* stream takes nothing.
WritePayload ==
  LET job == writer.job
      k == job.kind
  IN
  /\ writer.pc = "taken" /\ ~Rolls(job)
  /\ \E n \in 0 .. job.bytes :
       /\ disk[k].stream = "bad" => n = 0
       /\ file' = [file EXCEPT ![k].size = @ + n]
       /\ disk' = [disk EXCEPT ![k].stream = IF n = job.bytes THEN @ ELSE "bad"]
       /\ writer' = [writer EXCEPT !.pc = IF n = job.bytes THEN "payload" ELSE "failing"]
  /\ UNCHANGED <<active, session, stopWriter, failed, gate, queue, queuedBytes, tally,
                 index, capture, gui, manifest, sent>>

\* markWriteFailedNoThrow by the writer, which then goes on with the queue.
MarkPayloadFailed ==
  /\ writer.pc = "failing"
  /\ failed' = TRUE /\ writer' = [pc |-> "idle", job |-> NoJob]
  /\ UNCHANGED <<active, session, stopWriter, gate, queue, queuedBytes, tally, file, disk,
                 index, capture, gui, manifest, sent>>

\* writerLoop's handler for an exception out of the loop: the thread ends.
WriterThrows ==
  /\ writer.pc \in {"taken", "payload"}
  /\ failed' = TRUE /\ writer' = [pc |-> "exited", job |-> NoJob]
  /\ UNCHANGED <<active, session, stopWriter, gate, queue, queuedBytes, tally, file, disk,
                 index, capture, gui, manifest, sent>>

\* A row of the index: where the payload of a job starts and how long it is.
Row(job) == [at |-> job.at, images |-> job.images, chunk |-> file[job.kind].chunk,
             offset |-> file[job.kind].size - job.bytes, bytes |-> job.bytes]

\* Indexed under the mutex, unless the recording has already failed.  When an
\* index file fails, the lanes before it are indexed and counted.
IndexFrameSet ==
  LET job == writer.job IN
  /\ writer.pc = "payload" /\ job.kind = "frame"
  /\ writer' = [pc |-> "idle", job |-> NoJob]
  /\ IF failed THEN UNCHANGED <<tally, index, failed>>
     ELSE \E ok \in {{c \in job.images : c < d} : d \in job.images} \union {job.images} :
            /\ tally' = [tally EXCEPT
                 !.partialSets = @ + IF job.images = Cameras THEN 0 ELSE 1,
                 !.images = [c \in Cameras |-> @[c] + IF c \in ok THEN 1 ELSE 0]]
            /\ index' = [index EXCEPT !.frame = Append(@, [Row(job) EXCEPT !.images = ok])]
            /\ failed' = (ok # job.images)
  /\ UNCHANGED <<active, session, stopWriter, gate, queue, queuedBytes, file, disk, capture,
                 gui, manifest, sent>>

IndexBatch ==
  LET job == writer.job IN
  /\ writer.pc = "payload" /\ job.kind = "lidar"
  /\ writer' = [pc |-> "idle", job |-> NoJob]
  /\ IF failed THEN UNCHANGED <<tally, index, failed>>
     ELSE \/ /\ tally' = [tally EXCEPT !.batches = @ + 1]
             /\ index' = [index EXCEPT !.lidar = Append(@, Row(job))]
             /\ UNCHANGED failed
          \/ failed' = TRUE /\ UNCHANGED <<tally, index>>
  /\ UNCHANGED <<active, session, stopWriter, gate, queue, queuedBytes, file, disk, capture,
                 gui, manifest, sent>>

--------------------------------------------------------------------------------
(***************************************************************************)
(* The GUI thread: start, stop and the rest of stop after its join.        *)
(***************************************************************************)

\* start(): the counters are reset, the files opened, complete=0 is committed
\* and, in full mode only, a writer thread is started.  Nothing is left open
\* when a file or the manifest cannot be written.
Start(policy, mode, opens) ==
  /\ gui = "idle" /\ ~session.open /\ sent.sessions < MaxSessions
  /\ sent' = [sent EXCEPT !.sessions = IF opens THEN @ + 1 ELSE @]
  /\ session' = [open |-> opens, mode |-> mode, policy |-> policy]
  /\ active' = opens /\ stopWriter' = FALSE /\ failed' = ~opens
  /\ gate' = FreshGate /\ tally' = FreshTally
  /\ queue' = [frames |-> <<>>, lidar |-> <<>>] /\ queuedBytes' = 0
  /\ file' = [k \in Kinds |-> FreshFile] /\ disk' = [k \in Kinds |-> FreshDisk]
  /\ index' = [k \in Kinds |-> <<>>]
  /\ writer' = [pc |-> IF opens /\ mode = "full" THEN "idle" ELSE "none", job |-> NoJob]
  /\ manifest' = IF opens THEN "incomplete" ELSE "none"
  /\ UNCHANGED <<capture, gui>>

\* Fault: the writer is not told to stop.
Stop_Fault ==
  /\ gui = "idle" /\ session.open
  /\ gui' = "joining" /\ active' = FALSE
  /\ UNCHANGED <<session, stopWriter, failed, gate, queue, queuedBytes, tally, file, disk, index,
                 writer, capture, manifest, sent>>
\* stop() up to its join.
Stop ==
  /\ gui = "idle" /\ session.open
  /\ gui' = "joining" /\ active' = FALSE /\ stopWriter' = TRUE
  /\ UNCHANGED <<session, failed, gate, queue, queuedBytes, tally, file, disk, index, writer,
                 capture, manifest, sent>>

\* validateRequiredStreams: what the recording lacks.
Lacks ==
  IF ~Aligned THEN tally.roverLost
  ELSE \/ session.mode = "full" /\ \E c \in Cameras : tally.images[c] = 0
       \/ session.mode = "full" /\ tally.batches = 0
       \/ \E s \in Required \intersect Direct : s \notin tally.direct
       \/ tally.roverLost
       \/ tally.partialSets # 0

\* stop() after its join, in one critical section: validateRequiredStreams,
\* closeFiles, where the flush of a chunk or of any other file (rest) may fail,
\* and writeManifest.  A manifest that cannot be committed leaves the previous one.
FinishStop ==
  /\ gui = "joining" /\ writer.pc \in {"exited", "none"}
  /\ gui' = "idle" /\ session' = [session EXCEPT !.open = FALSE]
  /\ writer' = [pc |-> "none", job |-> NoJob]
  /\ \E f \in Closings("frame"), l \in Closings("lidar"), rest \in BOOLEAN, committed \in BOOLEAN :
       LET closed == failed \/ Lacks \/ ~f.ok \/ ~l.ok \/ ~rest
       IN /\ disk' = [k \in Kinds |-> [stream |-> "closed",
                                      held |-> IF k = "frame" THEN f.held ELSE l.held]]
          /\ failed' = (closed \/ ~committed)
          /\ manifest' = IF committed THEN (IF closed THEN "incomplete" ELSE "complete") ELSE manifest
  /\ UNCHANGED <<active, stopWriter, gate, queue, queuedBytes, tally, file, index, capture, sent>>

Init ==
  /\ active = FALSE /\ session = [open |-> FALSE, mode |-> "full", policy |-> "received"]
  /\ stopWriter = FALSE /\ failed = FALSE /\ gate = FreshGate
  /\ queue = [frames |-> <<>>, lidar |-> <<>>] /\ queuedBytes = 0
  /\ tally = FreshTally /\ file = [k \in Kinds |-> FreshFile]
  /\ disk = [k \in Kinds |-> FreshDisk] /\ index = [k \in Kinds |-> <<>>]
  /\ writer = [pc |-> "none", job |-> NoJob] /\ capture = NoJob /\ gui = "idle"
  /\ manifest = "none"
  /\ sent = [frames |-> 0, batches |-> 0, sessions |-> 0]

Capture ==
  \/ \E f \in FrameSets : CheckFrameSet(f)
  \/ \E b \in Batches : CheckLidar(b)
  \/ AppendFrameSet \/ AppendFrameSetThrows \/ AppendLidar \/ AppendLidarThrows
  \/ MarkAppendFailed

Writer == TakeJob \/ RollOver \/ WritePayload \/ IndexFrameSet \/ IndexBatch \/ MarkPayloadFailed
          \/ WriterThrows \/ WriterStops

Gui ==
  \/ \E policy \in Policies, mode \in Modes, opens \in BOOLEAN : Start(policy, mode, opens)
  \/ Stop \/ FinishStop

Next == Capture \/ AppendDirect \/ Writer \/ Gui

\* The writer thread runs whenever it can, and the GUI thread leaves its join
\* once the writer has ended.
Spec == Init /\ [][Next]_vars /\ WF_vars(Writer) /\ WF_vars(FinishStop)

--------------------------------------------------------------------------------
TypeOK ==
  /\ active \in BOOLEAN /\ stopWriter \in BOOLEAN /\ failed \in BOOLEAN
  /\ session \in [open : BOOLEAN, mode : Modes \union {"full"}, policy : Policies \union {"received"}]
  /\ queue.frames \in Seq(FrameSets) /\ queue.lidar \in Seq(Batches)
  /\ queuedBytes \in 0 .. QueueBytes
  /\ tally.received \in [Cameras -> 0 .. MaxFrames] /\ tally.dropped \in [Cameras -> 0 .. MaxFrames]
  /\ tally.images \in [Cameras -> 0 .. MaxFrames] /\ tally.direct \subseteq Direct
  /\ writer.pc \in {"none", "idle", "taken", "payload", "failing", "exited"}
  /\ writer.job \in Jobs \union {NoJob}
  /\ capture \in Jobs \union {NoJob, Failing}
  /\ gui \in {"idle", "joining"}
  /\ manifest \in {"none", "incomplete", "complete"}

\* The memory the recorder may hold: the two queues together stay within the
\* byte budget and each within its job limit, and the running total is the sum
\* of what is queued, unless a failed allocation has already failed the session.
QueueBudget ==
  /\ TypeOK
  /\ Len(queue.frames) <= QueueFrames /\ Len(queue.lidar) <= QueueBatches
  /\ BytesIn(queue.frames) + BytesIn(queue.lidar) <= queuedBytes
  /\ ~failed /\ capture.kind # "failing" =>
       queuedBytes = BytesIn(queue.frames) + BytesIn(queue.lidar)

\* What complete=1 promises of a full recording: every image that reached the
\* queue policy is in the index or counted as dropped, every LiDAR batch that was
\* queued is in the index (LiDAR is never evicted), the index holds exactly the
\* counted images, and an aligned dataset has every lane and no partial set.
\* (FramesCompleteHasAll is about the append whose failure is not yet recorded.)
CompleteAccounts ==
  manifest = "complete" /\ session.mode = "full" /\ ~failed /\ capture.kind # "failing" =>
    /\ \A c \in Cameras :
         /\ tally.received[c] = tally.images[c] + tally.dropped[c]
         /\ tally.images[c] = Cardinality({i \in DOMAIN index.frame : c \in index.frame[i].images})
         /\ Aligned => tally.images[c] > 0
    /\ tally.queuedBatches = tally.batches /\ tally.batches = Len(index.lidar)
    /\ Aligned => \A i \in DOMAIN index.frame : index.frame[i].images = Cameras

\* The rows of an index in their chunks: no two share a byte, and a chunk passes
\* its target only with a single payload.
RowsLaidOut ==
  \A k \in Kinds :
    /\ \A i \in DOMAIN index[k] :
         LET r == index[k][i] IN
         /\ r.chunk = file[k].chunk => r.offset + r.bytes <= file[k].size
         /\ r.chunk \in 1 .. file[k].chunk
         /\ r.offset + r.bytes <= ChunkBytes \/ r.offset = 0
    /\ \A i, j \in DOMAIN index[k] :
         i < j => \/ index[k][i].chunk < index[k][j].chunk
                  \/ /\ index[k][i].chunk = index[k][j].chunk
                     /\ index[k][i].offset + index[k][i].bytes <= index[k][j].offset

\* Every payload an index names is in its chunk file.
PayloadsHeld ==
  \A k \in Kinds : \A i \in DOMAIN index[k] :
    index[k][i].offset + index[k][i].bytes <= disk[k].held[index[k][i].chunk]

\* complete=1 means that every row of the indexes points at bytes its container
\* holds, and at bytes of its own, although a row is committed while its payload
\* may still be in the stream's buffer: a flush that fails later, at a chunk
\* boundary or in closeFiles, must take the completeness away.
CompleteHasPayloads == RowsLaidOut /\ (manifest = "complete" => PayloadsHeld)

\* Under the aligned policy the rows of a stream are strictly later than the
\* common start and than each other, whatever the device sends.
AlignedOrder ==
  Aligned =>
    \A k \in Kinds : \A i \in DOMAIN index[k] :
      /\ index[k][i].at > gate.start
      /\ \A j \in DOMAIN index[k] : i < j => index[k][i].at < index[k][j].at

\* stop() comes back: the writer empties the queues, whatever fails on the way,
\* and ends, so the GUI thread does not stay in its join.
StopReturns == gui = "joining" ~> gui = "idle"

\* The manifest documents frames_complete=0 as the sign of a missing image, so a
\* complete recording with frames_complete=1 has every image it received.
FramesComplete == manifest = "complete" /\ tally.droppedSets = 0 /\ tally.partialSets = 0
FramesCompleteHasAll == FramesComplete => tally.received = tally.images

\* docs/dataset-format.md promises a row only after its JPEG has been written to
\* the container, so once the files are closed every row has its payload.
IndexedIsWritten == ~session.open => PayloadsHeld
===============================================================================
