---------------------------- MODULE Raw8Recorder ----------------------------
(***************************************************************************)
(* Raw8Recorder::Impl (src/src/dataset/raw8_recorder.cpp): the writer that *)
(* records the four-camera original RAW8 stream and the onboard IMU.       *)
(*                                                                         *)
(* Three kinds of thread meet in it.  The capture worker calls append and  *)
(* appendImu, any thread (capture worker, GUI, destructor) calls finish,   *)
(* and the recorder's own thread runs run().  Every critical section of    *)
(* the mutex is one action; what the code does between two sections is a   *)
(* separate action, so a call can slip in wherever the lock is free.       *)
(*                                                                         *)
(* Abstractions.  The counters transfers, received[], first[], last[],     *)
(* frames[], imu_received[] and imu_samples[] only ever count what entered *)
(* or left a stream, in the step that changes it: they are functions of    *)
(* the sequences accepted, rows, imuAccepted and imuFile.  The header, CRC *)
(* and timing checks on an image, and the sequence and timestamp checks on *)
(* an IMU sample, are one flag the environment chooses.  A failed disk     *)
(* call may happen wherever the code makes one.                            *)
(*                                                                         *)
(* A definition whose name ends in Fault is the definition after it with   *)
(* one deliberate mistake; nothing in the module uses it.  It is there to  *)
(* show that a property is able to fail.                                   *)
(***************************************************************************)
EXTENDS Integers, SequencesExt, Totals

CONSTANTS
  Cameras,            \* camera lanes (0..3 in the code)
  Sensors,            \* IMU sensors (0..1 in the code)
  Sizes,              \* encoded sizes of an image
  IdSpace,            \* transfer and frame ids are modulo IdSpace (2^32)
  Origins,            \* ids the device's counters may stand at on start
  QueueFrames,        \* Raw8RecordingOptions::queue_frames
  QueueBytes,         \* Raw8RecordingOptions::queue_bytes
  LimitBytes,         \* Raw8RecordingOptions::limit_bytes
  ImuQueueSamples,    \* Raw8RecordingOptions::imu_queue_samples
  ImuBatch,           \* samples the writer takes at once (256)
  RequiredSensors,    \* Raw8RecordingOptions::required_imu_mask
  RecordAnyImu,       \* Raw8RecordingOptions::record_any_imu
  RequireAllCameras,  \* Raw8RecordingOptions::require_all_cameras
  MaxSamples          \* bound of the model: IMU samples offered

NoError == "none"

(* The texts that finish() receives: "" from a normal stop, otherwise the  *)
(* reason of the capture worker or of the companion streams.               *)
FinishErrors == {NoError, "companion stream"}

Errors == FinishErrors \cup
          {"bad image", "allocation", "queue full", "bad sample",
           "IMU queue full", "camera missing", "writer"}

Ids == 0 .. IdSpace - 1

(* An image in the recorder; before is the number of drops its index row   *)
(* reports, fewer than the images counted, so fewer than IdSpace.          *)
Frames == [camera : Cameras, transfer : Ids, id : Ids, size : Sizes,
           before : Ids]

Samples == [sensor : Sensors, valid : BOOLEAN]

WriterStates == {"open", "wait", "frame", "imu", "sync", "cameras", "publish",
                 "check", "verify", "commit", "fail", "publish failed",
                 "clear", "stopped"}

ASSUME ConstantsAssumption ==
  /\ IsFiniteSet(Cameras)
  /\ Sizes \subseteq Nat
  /\ IdSpace \in Nat \ {0}
  /\ Origins \subseteq Ids
  /\ QueueFrames \in Nat \ {0}
  /\ QueueBytes \in Nat \ {0}
  /\ LimitBytes \in Nat
  /\ ImuQueueSamples \in Nat \ {0}
  /\ ImuBatch \in Nat \ {0}
  /\ RequiredSensors \subseteq Sensors
  /\ RecordAnyImu \in BOOLEAN
  /\ RequireAllCameras \in BOOLEAN
  /\ MaxSamples \in Nat

VARIABLES
  accepted,     \* images counted by append, in arrival order
  queue,        \* queue
  queuedBytes,  \* state.queued_bytes
  dropped,      \* state.dropped[]
  pending,      \* pending[]: drops to report with the camera's next image
  imuAccepted,  \* samples counted by appendImu
  imuQueue,     \* imu_queue
  closing,      \* state.closing
  done,         \* state.done
  complete,     \* state.complete
  error,        \* state.error
  raising,      \* error of an exception thrown by append, not yet recorded
  pc,           \* where run() stands
  item,         \* frame taken by run(): empty or one element
  batch,        \* imu_batch of run()
  rows,         \* index rows and stream bytes on disk
  imuFile,      \* imu_metadata.csv on disk
  manifest      \* dataset.info on disk

frameVars == <<accepted, queue, queuedBytes, dropped, pending>>
imuVars == <<imuAccepted, imuQueue>>
stateVars == <<closing, done, complete, error>>
diskVars == <<rows, imuFile, manifest>>
vars == <<frameVars, imuVars, stateVars, raising, pc, item, batch, diskVars>>

-----------------------------------------------------------------------------
(* Counters read off the sequences they count.                             *)

CountOf(seq, c) == Cardinality({i \in DOMAIN seq : seq[i].camera = c})
SamplesOf(seq, s) == Cardinality({i \in DOMAIN seq : seq[i].sensor = s})
LastIndex(c) == CHOOSE i \in DOMAIN accepted :
                  /\ accepted[i].camera = c
                  /\ \A j \in DOMAIN accepted : accepted[j].camera = c => j <= i
NextId(n) == (n + 1) % IdSpace
BytesOf(seq) == Total([i \in DOMAIN seq |-> seq[i].size])

(* The manifest publish() composes from the state under the mutex.         *)
ManifestNow(finalizing) ==
  [complete  |-> finalizing /\ error = NoError,
   error     |-> error,
   transfers |-> Len(accepted),
   received  |-> [c \in Cameras |-> CountOf(accepted, c)],
   images    |-> [c \in Cameras |-> CountOf(rows, c)],
   dropped   |-> dropped,
   tail      |-> pending,
   imu       |-> [s \in Sensors |-> SamplesOf(imuAccepted, s)]]

-----------------------------------------------------------------------------
(* The caller's side: append, appendImu, finish, fail.                     *)

(* Fault: the counter of images is not checked against its width. *)
Follows_Fault(img) ==
  IF accepted = <<>> THEN img.transfer \in Origins
  ELSE img.transfer = NextId(accepted[Len(accepted)].transfer)

Follows(img) ==
  /\ Len(accepted) < IdSpace - 1
  /\ IF accepted = <<>> THEN img.transfer \in Origins
     ELSE img.transfer = NextId(accepted[Len(accepted)].transfer)
  /\ IF CountOf(accepted, img.camera) = 0 THEN img.id \in Origins
     ELSE img.id = NextId(accepted[LastIndex(img.camera)].id)

(* Fault: one frame too many fits. *)
Overflows_Fault(img) == \/ Len(queue) > QueueFrames
                        \/ img.size > QueueBytes
                        \/ queuedBytes + img.size > QueueBytes

Overflows(img) == \/ Len(queue) >= QueueFrames
                  \/ img.size > QueueBytes
                  \/ queuedBytes + img.size > QueueBytes

Frame(img) == [camera |-> img.camera, transfer |-> img.transfer, id |-> img.id,
               size |-> img.size, before |-> pending[img.camera]]

(* Fault: a later error replaces the first one. *)
RecordError_Fault(e) == closing' = TRUE /\ error' = e

(* The common body of finish() and fail(): the first error is kept.        *)
RecordError(e) == /\ closing' = TRUE
                  /\ error' = IF error = NoError THEN e ELSE error

(* Fault: a closing recording still accepts. *)
MayAppend_Fault == raising = NoError /\ ~done

MayAppend == raising = NoError /\ ~closing /\ ~done

(* An invalid image or a gap in its transfer or frame ids: the exception   *)
(* leaves the critical section and is recorded by a later fail().          *)
AppendReject == /\ MayAppend
                /\ raising' = "bad image"
                /\ UNCHANGED <<frameVars, imuVars, stateVars, pc, item, batch,
                               diskVars>>

AppendEnqueue(img) ==
  /\ MayAppend
  /\ Follows(img)
  /\ ~Overflows(img)
  /\ accepted' = Append(accepted, Frame(img))
  /\ queue' = Append(queue, Frame(img))
  /\ queuedBytes' = queuedBytes + img.size
  /\ pending' = [pending EXCEPT ![img.camera] = 0]
  /\ UNCHANGED <<dropped, imuVars, stateVars, raising, pc, item, batch,
                 diskVars>>

(* Fault: the oldest queued image makes room for the new one. *)
AppendOverflow_Fault(img) ==
  /\ MayAppend
  /\ Follows(img)
  /\ Overflows(img)
  /\ queue # <<>>
  /\ accepted' = Append(accepted, Frame(img))
  /\ queue' = Append(Tail(queue), Frame(img))
  /\ queuedBytes' = queuedBytes - Head(queue).size + img.size
  /\ dropped' = [dropped EXCEPT ![Head(queue).camera] = @ + 1]
  /\ UNCHANGED <<pending, imuVars, stateVars, raising, pc, item, batch, diskVars>>

(* A full queue ends the recording; nothing queued is evicted.             *)
AppendOverflow(img) ==
  /\ MayAppend
  /\ Follows(img)
  /\ Overflows(img)
  /\ accepted' = Append(accepted, Frame(img))
  /\ dropped' = [dropped EXCEPT ![img.camera] = @ + 1]
  /\ pending' = [pending EXCEPT ![img.camera] = @ + 1]
  /\ closing' = TRUE
  /\ error' = "queue full"
  /\ UNCHANGED <<queue, queuedBytes, imuVars, done, complete, raising, pc, item,
                 batch, diskVars>>

(* Copying the image into the queue runs out of memory after the image was *)
(* counted.                                                                *)
AppendAllocationFailure(img) ==
  /\ MayAppend
  /\ Follows(img)
  /\ ~Overflows(img)
  /\ accepted' = Append(accepted, Frame(img))
  /\ raising' = "allocation"
  /\ UNCHANGED <<queue, queuedBytes, dropped, pending, imuVars, stateVars, pc,
                 item, batch, diskVars>>

Images == [camera : Cameras, transfer : Ids, id : Ids, size : Sizes]

AppendImage == \/ AppendReject
           \/ \E img \in Images : \/ AppendEnqueue(img)
                                  \/ AppendOverflow(img)
                                  \/ AppendAllocationFailure(img)

(* appendImu keeps an invalid sample as evidence and then stops; a sample  *)
(* of a sensor that is not recorded, a full queue, and a lack of memory    *)
(* for the copy throw before anything is counted.                          *)
AppendImu(s) ==
  /\ MayAppend
  /\ RequiredSensors # {} \/ RecordAnyImu
  /\ Len(imuAccepted) < MaxSamples
  /\ RecordAnyImu \/ s.sensor \in RequiredSensors
  /\ Len(imuQueue) < ImuQueueSamples
  /\ imuAccepted' = Append(imuAccepted, s)
  /\ imuQueue' = Append(imuQueue, s)
  /\ IF s.valid THEN UNCHANGED <<closing, error>>
     ELSE RecordError("bad sample")
  /\ UNCHANGED <<frameVars, done, complete, raising, pc, item, batch, diskVars>>

AppendImuReject(s) ==
  /\ MayAppend
  /\ RequiredSensors # {} \/ RecordAnyImu
  /\ raising' = IF \/ ~RecordAnyImu /\ s.sensor \notin RequiredSensors
                   \/ Len(imuQueue) >= ImuQueueSamples
                THEN "IMU queue full" ELSE "allocation"
  /\ UNCHANGED <<frameVars, imuVars, stateVars, pc, item, batch, diskVars>>

(* The handler of append's exception: fail() does not look at done.        *)
Fail == /\ raising # NoError
        /\ RecordError(raising)
        /\ raising' = NoError
        /\ UNCHANGED <<frameVars, imuVars, done, complete, pc, item, batch,
                       diskVars>>

Finish(e) == /\ ~done
             /\ RecordError(e)
             /\ UNCHANGED <<frameVars, imuVars, done, complete, raising, pc,
                            item, batch, diskVars>>

-----------------------------------------------------------------------------
(* run(): the recorder's own thread.                                       *)

OpenFiles == /\ pc = "open"
             /\ pc' = "wait"
             /\ UNCHANGED <<frameVars, imuVars, stateVars, raising, item, batch,
                            diskVars>>

(* The wait ends when something is queued or the recording is closing;     *)
(* IMU samples go first.                                                   *)
TakeSamples ==
  /\ pc = "wait"
  /\ imuQueue # <<>>
  /\ LET n == IF Len(imuQueue) < ImuBatch THEN Len(imuQueue) ELSE ImuBatch
     IN /\ batch' = SubSeq(imuQueue, 1, n)
        /\ imuQueue' = SubSeq(imuQueue, n + 1, Len(imuQueue))
  /\ pc' = "imu"
  /\ UNCHANGED <<frameVars, imuAccepted, stateVars, raising, item, diskVars>>

(* Fault: the newest image is written first. *)
TakeFrame_Fault ==
  /\ pc = "wait"
  /\ imuQueue = <<>>
  /\ queue # <<>>
  /\ item' = <<Last(queue)>>
  /\ queue' = Front(queue)
  /\ queuedBytes' = queuedBytes - Last(queue).size
  /\ pc' = "frame"
  /\ UNCHANGED <<accepted, dropped, pending, imuVars, stateVars, raising, batch,
                 diskVars>>

TakeFrame ==
  /\ pc = "wait"
  /\ imuQueue = <<>>
  /\ queue # <<>>
  /\ item' = <<Head(queue)>>
  /\ queue' = Tail(queue)
  /\ queuedBytes' = queuedBytes - Head(queue).size
  /\ pc' = "frame"
  /\ UNCHANGED <<accepted, dropped, pending, imuVars, stateVars, raising, batch,
                 diskVars>>

(* Fault: a failure does not wake the waiting writer. *)
Drained_Fault == /\ pc = "wait"
                 /\ closing /\ error = NoError
                 /\ imuQueue = <<>>
                 /\ queue = <<>>
                 /\ pc' = "sync"
                 /\ UNCHANGED <<frameVars, imuVars, stateVars, raising, item,
                                batch, diskVars>>

Drained == /\ pc = "wait"
           /\ closing
           /\ imuQueue = <<>>
           /\ queue = <<>>
           /\ pc' = "sync"
           /\ UNCHANGED <<frameVars, imuVars, stateVars, raising, item, batch,
                          diskVars>>

WriteSample == /\ pc = "imu"
               /\ imuFile' = Append(imuFile, Head(batch))
               /\ batch' = Tail(batch)
               /\ pc' = IF Tail(batch) = <<>> THEN "wait" ELSE "imu"
               /\ UNCHANGED <<frameVars, imuVars, stateVars, raising, item, rows,
                              manifest>>

WriteFrame == /\ pc = "frame"
              /\ BytesOf(rows) + item[1].size <= LimitBytes
              /\ rows' = Append(rows, item[1])
              /\ item' = <<>>
              /\ pc' = "wait"
              /\ UNCHANGED <<frameVars, imuVars, stateVars, raising, batch,
                             imuFile, manifest>>

(* The files are synced; the IMU files are read back against the digest of *)
(* what was received, and every required sensor must have samples.         *)
SyncFiles == /\ pc = "sync"
             /\ imuFile = imuAccepted
             /\ \A s \in RequiredSensors : SamplesOf(imuAccepted, s) > 0
             /\ pc' = "cameras"
             /\ UNCHANGED <<frameVars, imuVars, stateVars, raising, item, batch,
                            diskVars>>

CheckCameras ==
  /\ pc = "cameras"
  /\ error' = IF /\ RequireAllCameras
                 /\ error = NoError
                 /\ \E c \in Cameras : CountOf(accepted, c) = 0
              THEN "camera missing" ELSE error
  /\ pc' = "publish"
  /\ UNCHANGED <<frameVars, imuVars, closing, done, complete, raising, item,
                 batch, diskVars>>

PublishDrained == /\ pc = "publish"
                  /\ manifest' = ManifestNow(FALSE)
                  /\ pc' = "check"
                  /\ UNCHANGED <<frameVars, imuVars, stateVars, raising, item,
                                 batch, rows, imuFile>>

CheckError == /\ pc = "check"
              /\ pc' = IF error = NoError THEN "verify" ELSE "clear"
              /\ UNCHANGED <<frameVars, imuVars, stateVars, raising, item, batch,
                             diskVars>>

(* verifyUnpublishedRaw8Dataset: the published, still incomplete manifest  *)
(* against the index rows: counts per camera, no drop, and transfer ids    *)
(* that leave no gap and repeat none.                                      *)
ManifestMatchesDisk ==
  /\ ~manifest.complete
  /\ \A c \in Cameras :
       /\ manifest.dropped[c] = 0
       /\ manifest.images[c] = CountOf(rows, c)
       /\ manifest.received[c] = CountOf(rows, c)
       /\ RequireAllCameras => manifest.received[c] > 0
  /\ manifest.transfers = Len(rows)
  /\ \A i \in 2 .. Len(rows) : rows[i].transfer = NextId(rows[i - 1].transfer)

Verify == /\ pc = "verify"
          /\ ManifestMatchesDisk
          /\ pc' = "commit"
          /\ UNCHANGED <<frameVars, imuVars, stateVars, raising, item, batch,
                         diskVars>>

(* publish(true): error check, manifest and terminal state in one section. *)
PublishComplete == /\ pc = "commit"
                   /\ manifest' = ManifestNow(TRUE)
                   /\ complete' = (error = NoError)
                   /\ done' = TRUE
                   /\ closing' = TRUE
                   /\ pc' = "clear"
                   /\ UNCHANGED <<frameVars, imuVars, error, raising, item,
                                  batch, rows, imuFile>>

(* Any disk call may throw; so do the size limit, the IMU read-back and    *)
(* the verification when their condition fails, and the batch of samples   *)
(* for want of memory: those moved so far end with it, as do those queued. *)
WriterThrows ==
  /\ \/ pc \in {"open", "imu", "frame", "sync", "publish", "verify", "commit"}
     \/ pc = "wait" /\ imuQueue # <<>>
  /\ pc' = "fail"
  /\ UNCHANGED <<frameVars, imuVars, stateVars, raising, item, batch, diskVars>>

(* Fault: the writer ends without reporting why. *)
RecordWriterFailure_SilentFault ==
  /\ pc = "fail"
  /\ closing' = TRUE
  /\ pc' = "publish failed"
  /\ UNCHANGED <<frameVars, imuVars, done, complete, error, raising, item, batch,
                 diskVars>>

(* Fault: a failed writer leaves the recording open. *)
RecordWriterFailure_OpenFault ==
  /\ pc = "fail"
  /\ error' = IF error = NoError THEN "writer" ELSE error
  /\ pc' = "publish failed"
  /\ UNCHANGED <<frameVars, imuVars, closing, done, complete, raising, item,
                 batch, diskVars>>

RecordWriterFailure ==
  /\ pc = "fail"
  /\ RecordError("writer")
  /\ pc' = "publish failed"
  /\ UNCHANGED <<frameVars, imuVars, done, complete, raising, item, batch,
                 diskVars>>

(* The failed recording's manifest, unless the disk refuses that as well.  *)
PublishFailed == /\ pc = "publish failed"
                 /\ manifest' \in {manifest, ManifestNow(FALSE)}
                 /\ pc' = "clear"
                 /\ UNCHANGED <<frameVars, imuVars, stateVars, raising, item,
                                batch, rows, imuFile>>

Clear == /\ pc = "clear"
         /\ queue' = <<>>
         /\ queuedBytes' = 0
         /\ imuQueue' = <<>>
         /\ item' = <<>>
         /\ batch' = <<>>
         /\ done' = TRUE
         /\ closing' = TRUE
         /\ pc' = "stopped"
         /\ UNCHANGED <<accepted, dropped, pending, imuAccepted, complete, error,
                        raising, diskVars>>

Writer == \/ OpenFiles \/ TakeSamples \/ TakeFrame \/ Drained
          \/ WriteSample \/ WriteFrame \/ SyncFiles \/ CheckCameras
          \/ PublishDrained \/ CheckError \/ Verify \/ PublishComplete
          \/ WriterThrows \/ RecordWriterFailure \/ PublishFailed \/ Clear

-----------------------------------------------------------------------------
(* The constructor publishes an incomplete manifest and starts run().      *)
Init ==
  /\ accepted = <<>> /\ queue = <<>> /\ queuedBytes = 0
  /\ dropped = [c \in Cameras |-> 0]
  /\ pending = [c \in Cameras |-> 0]
  /\ imuAccepted = <<>> /\ imuQueue = <<>>
  /\ closing = FALSE /\ done = FALSE /\ complete = FALSE
  /\ error = NoError /\ raising = NoError
  /\ pc = "open" /\ item = <<>> /\ batch = <<>>
  /\ rows = <<>> /\ imuFile = <<>>
  /\ manifest = ManifestNow(FALSE)

(* The recording is over: its thread has ended and nobody is in a call.    *)
Over == pc = "stopped" /\ raising = NoError /\ UNCHANGED vars

Next == \/ AppendImage
        \/ \E s \in Samples : AppendImu(s) \/ AppendImuReject(s)
        \/ Fail
        \/ \E e \in FinishErrors : Finish(e)
        \/ Writer
        \/ Over

(* The operating system runs the recorder's thread, and a handler that was *)
(* entered runs to its end.  Nobody has to call finish or append.          *)
Fairness == WF_vars(Writer) /\ WF_vars(Fail)

Spec == Init /\ [][Next]_vars /\ Fairness

-----------------------------------------------------------------------------
(* Everything the recorder still holds, oldest first.                      *)
Held == rows \o item \o queue
ImuHeld == imuFile \o batch \o imuQueue

(* Type correctness of the recorder's state: Impl's members and the        *)
(* positions of run(); the count of images fits the width of a transfer id *)
(* (append's check of transfers against UINT32_MAX).                       *)
TypeOK ==
  /\ accepted \in Seq(Frames) /\ queue \in Seq(Frames)
  /\ Len(accepted) < IdSpace
  /\ queuedBytes \in Int
  /\ dropped \in [Cameras -> Nat] /\ pending \in [Cameras -> Nat]
  /\ imuAccepted \in Seq(Samples) /\ imuQueue \in Seq(Samples)
  /\ closing \in BOOLEAN /\ done \in BOOLEAN /\ complete \in BOOLEAN
  /\ error \in Errors /\ raising \in Errors
  /\ pc \in WriterStates
  /\ item \in Seq(Frames) /\ batch \in Seq(Samples)
  /\ rows \in Seq(Frames) /\ imuFile \in Seq(Samples)
  /\ manifest.complete \in BOOLEAN /\ manifest.error \in Errors
  /\ manifest.transfers \in Nat

(* The queues stay within their limits and queued_bytes is always exactly  *)
(* the size of what is queued: it is raised by append, lowered by run() and *)
(* reset at the end, each under its own lock.                              *)
QueueBudget == /\ Len(queue) <= QueueFrames
               /\ Len(imuQueue) <= ImuQueueSamples
               /\ queuedBytes = BytesOf(queue)
               /\ queuedBytes <= QueueBytes

(* Nothing queued is ever evicted or reordered: disk, writer and queue     *)
(* together hold the images in their order of arrival, and only the very   *)
(* last image may be missing - the one whose append failed.  While no      *)
(* failure is known or under way, none is missing (the header's "without   *)
(* evicting queued/in-flight data").                                       *)
NoEviction ==
  /\ IsPrefix(Held, accepted)
  /\ IsPrefix(ImuHeld, imuAccepted)
  /\ pc # "stopped" => /\ Len(accepted) <= Len(Held) + 1
                       /\ ImuHeld = imuAccepted
  /\ error = NoError /\ raising = NoError => Held = accepted

(* A manifest that says complete=1 describes a whole recording: every image *)
(* and sample that was ever counted is on disk, in order, none was dropped, *)
(* and no error was known when it was committed.                           *)
CompleteIsWhole ==
  manifest.complete => /\ rows = accepted
                       /\ imuFile = imuAccepted
                       /\ \A c \in Cameras : dropped[c] = 0
                       /\ manifest.error = NoError
                       /\ manifest.transfers = Len(rows)

(* The viewer announces "saved; verified" when the recording is done and   *)
(* shows no error (pollRawRecording): then the committed manifest must be  *)
(* the complete one.                                                       *)
NoErrorMeansComplete ==
  done /\ error = NoError => complete /\ manifest.complete

(* Once the recording is done, the manifest on disk counts every image ever *)
(* received and dropped, unless publishing it failed too: nothing is        *)
(* accepted after the counts were taken.                                   *)
ManifestCountsAreFinal ==
  pc = "stopped" /\ manifest.error # NoError =>
     /\ manifest.transfers = Len(accepted)
     /\ manifest.dropped = dropped

(* The first error is the one reported: no later failure, overflow or       *)
(* finish() replaces it.                                                   *)
FirstErrorKept == [][error # NoError => error' = error]_vars

(* A recording that is closing always reaches its end, whatever the disk    *)
(* and the callers do: no waiting writer misses the request.               *)
Finalizes == closing ~> (pc = "stopped" /\ done)

(* The recording promise: what is on disk is a growing copy of what was     *)
(* accepted, and "complete" is declared once, after closing, on a full copy.*)
Promise == INSTANCE RecordingPromise WITH
  Streams <- {"frames", "imu"},
  Items <- Frames \cup Samples,
  accepted <- [s \in {"frames", "imu"} |->
                 IF s = "frames" THEN accepted ELSE imuAccepted],
  stored <- [s \in {"frames", "imu"} |->
               IF s = "frames" THEN rows ELSE imuFile],
  sealed <- closing,
  verdict <- IF manifest.complete THEN "complete" ELSE "incomplete"

(* The recorder implements that promise.                                   *)
KeepsPromise == Promise!Spec

-----------------------------------------------------------------------------
(* What the repository says of the recorder and the code does not do.      *)

(* docs/dataset-format.md, "415RSV0 writer": a full queue evicts its oldest *)
(* pending image, the drop is accounted and the recording goes on.         *)
OverflowKeepsRecording ==
  [][dropped' # dropped /\ queue # <<>> => closing' = closing]_vars

(* publish(): "Serialize the final error check, manifest commit and         *)
(* terminal state": a recording that is done and complete has no error.    *)
CompleteHasNoError == done /\ complete => error = NoError
=============================================================================
