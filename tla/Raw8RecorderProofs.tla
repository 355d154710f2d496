------------------------- MODULE Raw8RecorderProofs -------------------------
(***************************************************************************)
(* Machine-checked proofs about Raw8Recorder, for every number of cameras  *)
(* and sensors, every queue limit and every width of the ids.              *)
(***************************************************************************)
EXTENDS Raw8Recorder, TotalsProofs

(* A failure is recorded only together with closing, and drops are only    *)
(* counted by the overflow that closes the recording.                      *)
ClosingInv == /\ error # NoError => closing
              /\ ~closing => /\ pending = [c \in Cameras |-> 0]
                             /\ dropped = [c \in Cameras |-> 0]

(* Where run() stands determines what it holds and what is still queued.   *)
DrainedStates == {"sync", "cameras", "publish", "check", "verify", "commit"}
EndStates == {"publish failed", "clear", "stopped"}

WriterInv ==
  /\ pc \in {"open", "wait", "imu"} => item = <<>>
  /\ pc = "frame" => Len(item) = 1
  /\ pc \in {"open", "wait", "frame"} => batch = <<>>
  /\ pc = "imu" => batch # <<>>
  /\ pc \in DrainedStates => /\ closing
                             /\ queue = <<>> /\ item = <<>>
                             /\ imuQueue = <<>> /\ batch = <<>>
  /\ pc \in EndStates => closing
  /\ pc = "publish failed" => error # NoError
  /\ pc = "clear" => done \/ error # NoError
  /\ done => pc \in {"clear", "stopped"}
  /\ pc = "stopped" => /\ queue = <<>> /\ item = <<>>
                       /\ imuQueue = <<>> /\ batch = <<>>

(* What the recorder holds, against what it accepted.                      *)
Copies(s, t) == /\ Len(s) <= Len(t)
                /\ \A i \in 1 .. Len(s) : s[i] = t[i]

OrderInv ==
  /\ Copies(Held, accepted)
  /\ Copies(ImuHeld, imuAccepted)
  /\ pc # "stopped" => /\ Len(accepted) <= Len(Held) + 1
                       /\ ImuHeld = imuAccepted
  /\ error = NoError /\ raising = NoError => Held = accepted

(* What the manifest on disk says, and what the writer checked of it.      *)
VerdictInv ==
  /\ pc \in {"check", "verify", "commit"} =>
       /\ manifest.transfers = Len(accepted)
       /\ manifest.dropped = dropped
  /\ pc \notin {"clear", "stopped"} => ~manifest.complete
  /\ pc = "commit" => /\ rows = accepted
                      /\ \A c \in Cameras : dropped[c] = 0
  /\ CompleteIsWhole
  /\ manifest.complete => /\ closing
                          /\ queue = <<>> /\ item = <<>>
                          /\ imuQueue = <<>> /\ batch = <<>>
  /\ NoErrorMeansComplete

IInv == TypeOK /\ ClosingInv /\ WriterInv /\ OrderInv /\ VerdictInv

-----------------------------------------------------------------------------
(* The four tuples of variables, for the steps that leave them alone.      *)
USE DEF frameVars, imuVars, stateVars, diskVars

(* Every action of Next by name: the cases of the proofs below.            *)
LEMMA NextCases ==
  ASSUME [Next]_vars
  PROVE  \/ AppendReject
         \/ \E img \in Images : \/ AppendEnqueue(img) \/ AppendOverflow(img)
                                \/ AppendAllocationFailure(img)
         \/ \E s \in Samples : AppendImu(s) \/ AppendImuReject(s)
         \/ Fail
         \/ \E e \in FinishErrors : Finish(e)
         \/ OpenFiles \/ TakeSamples \/ TakeFrame \/ Drained
         \/ WriteSample \/ WriteFrame \/ SyncFiles \/ CheckCameras
         \/ PublishDrained \/ CheckError \/ Verify \/ PublishComplete
         \/ WriterThrows \/ RecordWriterFailure \/ PublishFailed \/ Clear
         \/ UNCHANGED vars
  BY DEF Next, AppendImage, Writer, Over

(* A copied image is well-typed: it reports no drop, because drops close   *)
(* the recording.                                                          *)
LEMMA FrameType ==
  ASSUME ClosingInv, MayAppend, NEW img \in Images
  PROVE  Frame(img) \in Frames
<1>1. pending[img.camera] = 0
  BY DEF ClosingInv, MayAppend, Images
<1> QED
  BY <1>1, ConstantsAssumption DEF Frame, Frames, Images, Ids

LEMMA AcceptType ==
  ASSUME TypeOK, ClosingInv, MayAppend, NEW img \in Images, Follows(img),
         accepted' = Append(accepted, Frame(img))
  PROVE  /\ Frame(img) \in Frames
         /\ accepted' \in Seq(Frames)
         /\ Len(accepted') < IdSpace
         /\ Len(accepted') = Len(accepted) + 1
<1>1. Frame(img) \in Frames
  BY FrameType
<1> QED
  BY <1>1, ConstantsAssumption DEF TypeOK, Follows

LEMMA ManifestType ==
  ASSUME TypeOK, NEW b \in BOOLEAN
  PROVE  /\ ManifestNow(b).complete \in BOOLEAN
         /\ ManifestNow(b).error \in Errors
         /\ ManifestNow(b).transfers \in Nat
  BY DEF ManifestNow, TypeOK

LEMMA FrameSize ==
  ASSUME NEW f \in Frames
  PROVE  f.size \in Int
<1>1. f.size \in Sizes
  BY DEF Frames
<1>2. Sizes \subseteq Nat
  BY ConstantsAssumption
<1>3. f.size \in Nat
  BY <1>1, <1>2, Zenon
<1> QED
  BY <1>3

(* Three facts about sequences that the queues rest on.                    *)
LEMMA Singleton ==
  ASSUME NEW S, NEW s \in Seq(S), Len(s) = 1
  PROVE  s[1] \in S /\ s = <<s[1]>>
<1>1. s[1] \in S
  BY ElementOfSeq
<1>2. <<s[1]>> \in Seq(S) /\ Len(<<s[1]>>) = 1 /\ <<s[1]>>[1] = s[1]
  BY <1>1
<1> QED
  BY <1>1, <1>2, SeqEqual

LEMMA AppendToConcat ==
  ASSUME NEW S, NEW s \in Seq(S), NEW t \in Seq(S), NEW e \in S
  PROVE  s \o Append(t, e) = Append(s \o t, e)
<1>1. <<e>> \in Seq(S) /\ s \o t \in Seq(S)
  BY ConcatProperties
<1>2. s \o Append(t, e) = s \o (t \o <<e>>) /\ Append(s \o t, e) = (s \o t) \o <<e>>
  BY <1>1, AppendIsConcat
<1> QED
  BY <1>1, <1>2, ConcatAssociative

LEMMA HeadThenTail ==
  ASSUME NEW S, NEW s \in Seq(S), s # <<>>
  PROVE  s = <<Head(s)>> \o Tail(s)
<1>1. /\ Head(s) \in S /\ Tail(s) \in Seq(S) /\ Len(Tail(s)) = Len(s) - 1
      /\ \A i \in 1 .. Len(Tail(s)) : Tail(s)[i] = s[i + 1]
  BY HeadTailProperties
<1>2. <<Head(s)>> \in Seq(S) /\ Len(<<Head(s)>>) = 1
  BY <1>1
<1>3. /\ <<Head(s)>> \o Tail(s) \in Seq(S)
      /\ Len(<<Head(s)>> \o Tail(s)) = Len(s)
      /\ \A i \in 1 .. Len(s) : (<<Head(s)>> \o Tail(s))[i] =
                               IF i <= 1 THEN Head(s) ELSE Tail(s)[i - 1]
  BY <1>1, <1>2, ConcatProperties
<1>4. \A i \in 1 .. Len(s) : s[i] = (<<Head(s)>> \o Tail(s))[i]
  BY <1>1, <1>3
<1> QED
  BY <1>3, <1>4, SeqEqual

LEMMA TypeStep ==
  ASSUME TypeOK, ClosingInv, WriterInv, [Next]_vars
  PROVE  TypeOK'
<1> USE DEF TypeOK
<1>1. CASE AppendReject
  BY <1>1 DEF AppendReject, Errors, MayAppend
<1>2. ASSUME NEW img \in Images, AppendEnqueue(img) PROVE TypeOK'
  <2>1. MayAppend /\ Follows(img) /\ accepted' = Append(accepted, Frame(img))
    BY <1>2 DEF AppendEnqueue
  <2>2. /\ Frame(img) \in Frames /\ accepted' \in Seq(Frames)
        /\ Len(accepted') < IdSpace
    BY <2>1, AcceptType
  <2>3. queue' \in Seq(Frames)
    BY <1>2, <2>2, AppendProperties DEF AppendEnqueue
  <2>5. pending' \in [Cameras -> Nat]
    BY <1>2 DEF AppendEnqueue, Images
  <2>4. queuedBytes' \in Int
    BY <1>2, ConstantsAssumption DEF AppendEnqueue, Images
  <2> QED
    BY <1>2, <2>2, <2>3, <2>4, <2>5 DEF AppendEnqueue
<1>3. ASSUME NEW img \in Images, AppendOverflow(img) PROVE TypeOK'
  <2>1. MayAppend /\ Follows(img) /\ accepted' = Append(accepted, Frame(img))
    BY <1>3 DEF AppendOverflow
  <2>2. accepted' \in Seq(Frames) /\ Len(accepted') < IdSpace
    BY <2>1, AcceptType
  <2>4. img.camera \in Cameras
    BY DEF Images
  <2>5. dropped[img.camera] + 1 \in Nat /\ pending[img.camera] + 1 \in Nat
    BY <2>4, SMTT(30)
  <2>3. dropped' \in [Cameras -> Nat] /\ pending' \in [Cameras -> Nat]
    BY <1>3, <2>5 DEF AppendOverflow
  <2> QED
    BY <1>3, <2>2, <2>3 DEF AppendOverflow, Errors
<1>4. ASSUME NEW img \in Images, AppendAllocationFailure(img) PROVE TypeOK'
  <2>1. MayAppend /\ Follows(img) /\ accepted' = Append(accepted, Frame(img))
    BY <1>4 DEF AppendAllocationFailure
  <2>2. accepted' \in Seq(Frames) /\ Len(accepted') < IdSpace
    BY <2>1, AcceptType
  <2> QED
    <3>1. /\ raising' \in Errors
          /\ queue' = queue /\ queuedBytes' = queuedBytes /\ dropped' = dropped
          /\ pending' = pending /\ imuAccepted' = imuAccepted /\ imuQueue' = imuQueue
          /\ closing' = closing /\ done' = done /\ complete' = complete /\ error' = error
          /\ pc' = pc /\ item' = item /\ batch' = batch /\ rows' = rows /\ imuFile' = imuFile
          /\ manifest' = manifest
      BY <1>4 DEF AppendAllocationFailure, Errors
    <3> QED
      BY <2>2, <3>1
<1>5. ASSUME NEW s \in Samples, AppendImu(s) \/ AppendImuReject(s)
      PROVE  TypeOK'
  <2>1. CASE AppendImu(s)
    <3>1. imuAccepted' \in Seq(Samples) /\ imuQueue' \in Seq(Samples)
      BY <2>1, AppendProperties DEF AppendImu
    <3>2. closing' \in BOOLEAN /\ error' \in Errors
      BY <2>1 DEF AppendImu, RecordError, Errors
    <3> QED
      BY <2>1, <3>1, <3>2 DEF AppendImu
  <2>2. CASE AppendImuReject(s)
    <3>1. /\ raising' \in Errors
          /\ accepted' = accepted /\ queue' = queue /\ queuedBytes' = queuedBytes
          /\ dropped' = dropped /\ pending' = pending /\ imuAccepted' = imuAccepted
          /\ imuQueue' = imuQueue /\ closing' = closing /\ done' = done /\ complete' = complete
          /\ error' = error /\ pc' = pc /\ item' = item /\ batch' = batch /\ rows' = rows
          /\ imuFile' = imuFile /\ manifest' = manifest
      BY <2>2 DEF AppendImuReject, Errors
    <3> QED
      BY <3>1
  <2> QED
    BY <1>5, <2>1, <2>2
<1>6. CASE Fail \/ \E e \in FinishErrors : Finish(e)
  <2>1. closing' \in BOOLEAN /\ error' \in Errors /\ raising' \in Errors
    BY <1>6 DEF Fail, Finish, RecordError, Errors, FinishErrors
  <2>2. UNCHANGED <<frameVars, imuVars, done, complete, pc, item, batch, diskVars>>
    BY <1>6 DEF Fail, Finish
  <2> QED
    BY <2>1, <2>2
<1>7. CASE OpenFiles \/ Drained \/ SyncFiles \/ CheckError \/ Verify \/ WriterThrows
  BY <1>7 DEF OpenFiles, Drained, SyncFiles, CheckError, Verify, WriterThrows,
              WriterStates
<1>8. CASE TakeSamples
  <2>1. batch' \in Seq(Samples) /\ imuQueue' \in Seq(Samples)
    <3> DEFINE n == IF Len(imuQueue) < ImuBatch THEN Len(imuQueue) ELSE ImuBatch
    <3>1. batch' = SubSeq(imuQueue, 1, n) /\ imuQueue' = SubSeq(imuQueue, n + 1, Len(imuQueue))
      BY <1>8 DEF TakeSamples
    <3>2. n \in 0 .. Len(imuQueue) /\ imuQueue \in Seq(Samples)
      BY ConstantsAssumption
    <3>3. \A i \in 1 .. Len(imuQueue) : imuQueue[i] \in Samples
      BY <3>2
    <3> HIDE DEF n
    <3>4. SubSeq(imuQueue, 1, n) \in Seq(Samples)
      BY <3>2, <3>3, SubSeqProperties
    <3>5. SubSeq(imuQueue, n + 1, Len(imuQueue)) \in Seq(Samples)
      BY <3>2, <3>3, SubSeqProperties
    <3> QED
      BY <3>1, <3>4, <3>5
  <2> QED
    BY <1>8, <2>1 DEF TakeSamples, WriterStates
<1>9. CASE TakeFrame
  <2>1. Head(queue) \in Frames /\ Tail(queue) \in Seq(Frames)
    BY <1>9, HeadTailProperties DEF TakeFrame
  <2>2. Head(queue).size \in Int
    BY <2>1, FrameSize
  <2> QED
    <3>1. /\ pc' \in WriterStates /\ item' = <<Head(queue)>> /\ queue' = Tail(queue)
          /\ queuedBytes' = queuedBytes - Head(queue).size
          /\ accepted' = accepted /\ dropped' = dropped /\ pending' = pending
          /\ imuAccepted' = imuAccepted /\ imuQueue' = imuQueue /\ closing' = closing
          /\ done' = done /\ complete' = complete /\ error' = error /\ raising' = raising
          /\ batch' = batch /\ rows' = rows /\ imuFile' = imuFile /\ manifest' = manifest
      BY <1>9 DEF TakeFrame, WriterStates
    <3>2. queuedBytes' \in Int
      BY <2>2, <3>1
    <3> QED
      BY <2>1, <3>1, <3>2
<1>10. CASE WriteSample
  <2>1. Head(batch) \in Samples /\ Tail(batch) \in Seq(Samples)
    BY <1>10, HeadTailProperties DEF WriteSample, WriterInv
  <2>2. imuFile' \in Seq(Samples)
    BY <1>10, <2>1, AppendProperties DEF WriteSample
  <2> QED
    BY <1>10, <2>1, <2>2 DEF WriteSample, WriterStates
<1>11. CASE WriteFrame
  <2>3. Len(item) = 1
    BY <1>11 DEF WriteFrame, WriterInv
  <2>1. item[1] \in Frames
    BY <2>3, Singleton
  <2>2. rows' \in Seq(Frames)
    BY <1>11, <2>1, AppendProperties DEF WriteFrame
  <2> QED
    BY <1>11, <2>2 DEF WriteFrame, WriterStates
<1>12. CASE CheckCameras
  <2>1. pc' \in WriterStates /\ error' \in Errors
    BY <1>12 DEF CheckCameras, WriterStates, Errors
  <2>2. /\ accepted' = accepted /\ queue' = queue /\ queuedBytes' = queuedBytes
        /\ dropped' = dropped /\ pending' = pending /\ imuAccepted' = imuAccepted
        /\ imuQueue' = imuQueue /\ closing' = closing /\ done' = done /\ complete' = complete
        /\ raising' = raising /\ item' = item /\ batch' = batch /\ rows' = rows
        /\ imuFile' = imuFile /\ manifest' = manifest
    BY <1>12 DEF CheckCameras
  <2> QED
    BY <2>1, <2>2
<1>13. CASE PublishDrained \/ PublishComplete \/ PublishFailed
  BY <1>13, ManifestType DEF PublishDrained, PublishComplete, PublishFailed,
                             WriterStates
<1>14. CASE RecordWriterFailure
  BY <1>14 DEF RecordWriterFailure, RecordError, WriterStates, Errors
<1>15. CASE Clear
  BY <1>15 DEF Clear, WriterStates
<1>16. CASE UNCHANGED vars
  BY <1>16 DEF vars
<1> QED
  BY <1>1, <1>2, <1>3, <1>4, <1>5, <1>6, <1>7, <1>8, <1>9, <1>10, <1>11, <1>12,
     <1>13, <1>14, <1>15, <1>16, NextCases

LEMMA ClosingStep ==
  ASSUME TypeOK, ClosingInv, WriterInv, [Next]_vars
  PROVE  ClosingInv'
<1>1. ASSUME NEW img \in Images,
             \/ AppendEnqueue(img) \/ AppendOverflow(img)
             \/ AppendAllocationFailure(img)
      PROVE  ClosingInv'
  <2>1. CASE AppendEnqueue(img)
    <3>1. pending[img.camera] = 0 /\ pending' = pending
      BY <2>1 DEF AppendEnqueue, MayAppend, TypeOK, Images, ClosingInv
    <3> QED
      BY <2>1, <3>1 DEF ClosingInv, AppendEnqueue
  <2>2. CASE AppendOverflow(img)
    BY <2>2 DEF ClosingInv, AppendOverflow
  <2>3. CASE AppendAllocationFailure(img)
    BY <2>3 DEF ClosingInv, AppendAllocationFailure
  <2> QED
    BY <1>1, <2>1, <2>2, <2>3
<1>2. CASE AppendReject \/ \E s \in Samples : AppendImu(s) \/ AppendImuReject(s)
  BY <1>2 DEF ClosingInv, AppendReject, AppendImu, AppendImuReject, RecordError
<1>3. CASE Fail \/ \E e \in FinishErrors : Finish(e)
  BY <1>3 DEF ClosingInv, Fail, Finish, RecordError
<1>4. CASE \/ OpenFiles \/ TakeSamples \/ TakeFrame \/ Drained \/ WriteSample
           \/ WriteFrame \/ SyncFiles \/ PublishDrained \/ CheckError \/ Verify
           \/ WriterThrows \/ PublishFailed
  BY <1>4 DEF ClosingInv, OpenFiles, TakeSamples, TakeFrame, Drained, WriteSample,
              WriteFrame, SyncFiles, PublishDrained, CheckError, Verify,
              WriterThrows, PublishFailed
<1>5. CASE PublishComplete \/ RecordWriterFailure \/ Clear
  BY <1>5 DEF ClosingInv, PublishComplete, RecordWriterFailure, RecordError, Clear
<1>6. CASE CheckCameras
  BY <1>6 DEF ClosingInv, CheckCameras, WriterInv, DrainedStates
<1>7. CASE UNCHANGED vars
  BY <1>7 DEF ClosingInv, vars
<1> QED
  BY <1>1, <1>2, <1>3, <1>4, <1>5, <1>6, <1>7, NextCases

LEMMA WriterStep ==
  ASSUME TypeOK, ClosingInv, WriterInv, [Next]_vars
  PROVE  WriterInv'
<1>1. CASE \/ AppendReject
           \/ \E img \in Images : \/ AppendEnqueue(img) \/ AppendOverflow(img)
                                  \/ AppendAllocationFailure(img)
           \/ \E s \in Samples : AppendImu(s) \/ AppendImuReject(s)
  <2>1. ~closing /\ ~done
    BY <1>1 DEF AppendReject, AppendEnqueue, AppendOverflow, MayAppend,
                AppendAllocationFailure, AppendImu, AppendImuReject
  <2>2. pc \notin DrainedStates \cup EndStates
    BY <2>1 DEF WriterInv
  <2>3. UNCHANGED <<pc, item, batch, done>>
    BY <1>1 DEF AppendReject, AppendEnqueue, AppendOverflow,
                AppendAllocationFailure, AppendImu, AppendImuReject
  <2> QED
    BY <2>1, <2>2, <2>3 DEF WriterInv, DrainedStates, EndStates
<1>2. CASE Fail \/ \E e \in FinishErrors : Finish(e)
  <2>1. /\ UNCHANGED <<pc, item, batch, done, queue, imuQueue>>
        /\ closing' /\ (error # NoError => error' # NoError)
    BY <1>2 DEF Fail, Finish, RecordError
  <2> QED
    BY <2>1 DEF WriterInv
<1>3. CASE TakeSamples
  <2>1. batch' # <<>>
    <3> DEFINE n == IF Len(imuQueue) < ImuBatch THEN Len(imuQueue) ELSE ImuBatch
    <3>1. imuQueue \in Seq(Samples) /\ imuQueue # <<>> /\ batch' = SubSeq(imuQueue, 1, n)
      BY <1>3 DEF TypeOK, TakeSamples
    <3>2. Len(imuQueue) \in Nat \ {0}
      BY <3>1, EmptySeq
    <3>3. n \in 1 .. Len(imuQueue)
      BY <3>2, ConstantsAssumption
    <3>4. Len(batch') = n
      BY <3>1, <3>2, <3>3, ElementOfSeq, SubSeqProperties
    <3>5. Len(<<>>) = 0
      BY EmptySeq
    <3> QED
      BY <3>3, <3>4, <3>5
  <2> QED
    BY <1>3, <2>1 DEF WriterInv, TakeSamples, DrainedStates, EndStates
<1>4. CASE TakeFrame
  <2>1. Len(item') = 1
    BY <1>4 DEF TakeFrame
  <2> QED
    BY <1>4, <2>1 DEF WriterInv, TakeFrame, DrainedStates, EndStates
<1>5. CASE OpenFiles \/ WriteSample \/ WriteFrame
  <2>1. CASE OpenFiles
    BY <2>1 DEF WriterInv, OpenFiles, DrainedStates, EndStates
  <2>2. CASE WriteSample
    BY <2>2 DEF WriterInv, WriteSample, DrainedStates, EndStates
  <2>3. CASE WriteFrame
    BY <2>3 DEF WriterInv, WriteFrame, DrainedStates, EndStates
  <2> QED
    BY <1>5, <2>1, <2>2, <2>3
<1>6. CASE Drained
  BY <1>6 DEF WriterInv, Drained, DrainedStates, EndStates
<1>7. CASE SyncFiles \/ CheckCameras \/ PublishDrained \/ Verify
  <2>1. /\ pc \in DrainedStates /\ pc' \in DrainedStates
        /\ UNCHANGED <<item, batch, closing, queue, imuQueue, done>>
    BY <1>7 DEF SyncFiles, CheckCameras, PublishDrained, Verify, DrainedStates
  <2>2. ~done
    BY <2>1 DEF WriterInv, DrainedStates
  <2> QED
    BY <2>1, <2>2 DEF WriterInv, DrainedStates, EndStates
<1>8. CASE CheckError \/ PublishComplete \/ WriterThrows
  <2>1. CASE CheckError
    BY <2>1 DEF WriterInv, CheckError, DrainedStates, EndStates
  <2>2. CASE PublishComplete
    BY <2>2 DEF WriterInv, PublishComplete, DrainedStates, EndStates
  <2>3. CASE WriterThrows
    BY <2>3 DEF WriterInv, WriterThrows, DrainedStates, EndStates
  <2> QED
    BY <1>8, <2>1, <2>2, <2>3
<1>9. CASE RecordWriterFailure \/ PublishFailed \/ Clear
  <2>1. CASE RecordWriterFailure
    BY <2>1 DEF WriterInv, RecordWriterFailure, RecordError, DrainedStates,
                EndStates, NoError
  <2>2. CASE PublishFailed
    BY <2>2 DEF WriterInv, PublishFailed, DrainedStates, EndStates
  <2>3. CASE Clear
    BY <2>3 DEF WriterInv, Clear, DrainedStates, EndStates
  <2> QED
    BY <1>9, <2>1, <2>2, <2>3
<1>10. CASE UNCHANGED vars
  BY <1>10 DEF WriterInv, vars
<1> QED
  BY <1>1, <1>2, <1>3, <1>4, <1>5, <1>6, <1>7, <1>8, <1>9, <1>10,
     NextCases

-----------------------------------------------------------------------------
(* The order of what the recorder holds.                                   *)

(* Steps of frames that keep what is held, and steps that append to it.    *)
LEMMA HeldType ==
  ASSUME TypeOK
  PROVE  /\ Held \in Seq(Frames) /\ ImuHeld \in Seq(Samples)
         /\ rows \o item \in Seq(Frames) /\ imuFile \o batch \in Seq(Samples)
  BY ConcatProperties DEF TypeOK, Held, ImuHeld

LEMMA HeldEnqueue ==
  ASSUME TypeOK, ClosingInv, NEW img \in Images, AppendEnqueue(img)
  PROVE  Held' = Append(Held, Frame(img))
<1>1. Frame(img) \in Frames
  BY FrameType DEF AppendEnqueue
<1>2. Held' = (rows \o item) \o Append(queue, Frame(img))
  BY DEF AppendEnqueue, Held
<1>3. rows \o item \in Seq(Frames) /\ queue \in Seq(Frames)
  BY HeldType DEF TypeOK
<1> QED
  BY <1>1, <1>2, <1>3, AppendToConcat DEF Held

LEMMA HeldTakeFrame ==
  ASSUME TypeOK, WriterInv, TakeFrame
  PROVE  Held' = Held
<1>1. item = <<>> /\ queue # <<>> /\ rows \in Seq(Frames) /\ queue \in Seq(Frames)
  BY DEF TakeFrame, WriterInv, TypeOK
<1>2. Held' = (rows \o <<Head(queue)>>) \o Tail(queue)
  BY DEF TakeFrame, Held
<1>3. /\ queue = <<Head(queue)>> \o Tail(queue)
      /\ <<Head(queue)>> \in Seq(Frames) /\ Tail(queue) \in Seq(Frames)
  BY <1>1, HeadThenTail, HeadTailProperties
<1>4. Held' = rows \o queue
  BY <1>1, <1>2, <1>3, ConcatAssociative
<1>5. Held = rows \o queue
  BY <1>1, ConcatEmptySeq DEF Held
<1> QED
  BY <1>4, <1>5

LEMMA HeldWriteFrame ==
  ASSUME TypeOK, WriterInv, WriteFrame
  PROVE  Held' = Held
<1>1. Len(item) = 1 /\ item \in Seq(Frames) /\ rows \in Seq(Frames)
  BY DEF WriteFrame, WriterInv, TypeOK
<1>2. item[1] \in Frames /\ item = <<item[1]>>
  BY <1>1, Singleton
<1>3. rows' = rows \o item
  BY <1>1, <1>2, AppendIsConcat DEF WriteFrame
<1>4. Held' = ((rows \o item) \o <<>>) \o queue
  BY <1>3 DEF WriteFrame, Held
<1> QED
  BY <1>4, HeldType, ConcatEmptySeq DEF Held

LEMMA HeldSamples ==
  ASSUME TypeOK, WriterInv, TakeSamples \/ WriteSample
  PROVE  ImuHeld' = ImuHeld
<1>1. CASE TakeSamples
  <2> DEFINE n == IF Len(imuQueue) < ImuBatch THEN Len(imuQueue) ELSE ImuBatch
  <2>1. /\ imuQueue \in Seq(Samples) /\ imuFile \in Seq(Samples)
        /\ imuQueue # <<>> /\ batch = <<>> /\ imuFile' = imuFile
        /\ batch' = SubSeq(imuQueue, 1, n)
        /\ imuQueue' = SubSeq(imuQueue, n + 1, Len(imuQueue))
    BY <1>1 DEF TypeOK, TakeSamples, WriterInv
  <2>2. Len(imuQueue) \in Nat \ {0}
    BY <2>1, EmptySeq
  <2>3. n \in 1 .. Len(imuQueue)
    BY <2>2, ConstantsAssumption
  <2> HIDE DEF n
  <2>4. SubSeq(imuQueue, 1, n) \o SubSeq(imuQueue, n + 1, Len(imuQueue))
           = SubSeq(imuQueue, 1, Len(imuQueue))
    BY <2>1, <2>2, <2>3, ConcatAdjacentSubSeq
  <2>5. batch' \in Seq(Samples) /\ imuQueue' \in Seq(Samples)
    BY <2>1, <2>2, <2>3, ElementOfSeq, SubSeqProperties
  <2>6. batch' \o imuQueue' = imuQueue
    BY <2>1, <2>4, SubSeqFull
  <2>7. \A s, t, u \in Seq(Samples) : (s \o t) \o u = s \o (t \o u)
    BY ConcatAssociative, SMTT(30)
  <2>8. (imuFile \o batch') \o imuQueue' = imuFile \o (batch' \o imuQueue')
    BY <2>1, <2>5, <2>7
  <2>9. ImuHeld = imuFile \o imuQueue
    BY <2>1, ConcatEmptySeq DEF ImuHeld
  <2> QED
    BY <2>1, <2>6, <2>8, <2>9 DEF ImuHeld
<1>2. CASE WriteSample
  <2>1. /\ imuFile \in Seq(Samples) /\ batch \in Seq(Samples) /\ batch # <<>>
        /\ imuFile' = Append(imuFile, Head(batch)) /\ batch' = Tail(batch)
        /\ imuQueue' = imuQueue
    BY <1>2 DEF TypeOK, WriteSample, WriterInv
  <2>2. /\ Head(batch) \in Samples /\ Tail(batch) \in Seq(Samples)
        /\ <<Head(batch)>> \in Seq(Samples)
        /\ batch = <<Head(batch)>> \o Tail(batch)
    BY <2>1, HeadTailProperties, HeadThenTail
  <2>3. imuFile' = imuFile \o <<Head(batch)>>
    BY <2>1, <2>2, AppendIsConcat
  <2>4. imuFile' \o batch' = imuFile \o batch
    BY <2>1, <2>2, <2>3, ConcatAssociative
  <2> QED
    BY <2>1, <2>4 DEF ImuHeld
<1> QED
  BY <1>1, <1>2

LEMMA AppendGrowsCopy ==
  ASSUME NEW S, NEW s \in Seq(S), NEW e \in S
  PROVE  Copies(s, Append(s, e)) /\ Len(Append(s, e)) <= Len(s) + 1
  BY AppendProperties DEF Copies

LEMMA CopyOfSelf ==
  ASSUME NEW S, NEW s \in Seq(S)
  PROVE  Copies(s, s) /\ Len(s) <= Len(s) + 1
  BY DEF Copies

LEMMA FrontIsCopy ==
  ASSUME NEW S, NEW s \in Seq(S), NEW t \in Seq(S), NEW u \in Seq(S),
         Copies(s \o t, u)
  PROVE  Copies(s, u)
  BY ConcatProperties DEF Copies

LEMMA OrderStep ==
  ASSUME TypeOK, TypeOK', ClosingInv, WriterInv, OrderInv, VerdictInv, [Next]_vars
  PROVE  OrderInv'
<1>1. CASE \E img \in Images : \/ AppendEnqueue(img) \/ AppendOverflow(img)
                              \/ AppendAllocationFailure(img)
  <2>1. PICK img \in Images : \/ AppendEnqueue(img) \/ AppendOverflow(img)
                             \/ AppendAllocationFailure(img)
    BY <1>1
  <2>2. ~closing /\ ~done /\ raising = NoError /\ MayAppend
    BY <2>1 DEF AppendEnqueue, AppendOverflow, AppendAllocationFailure, MayAppend
  <2>3. Held = accepted
    BY <2>2 DEF ClosingInv, OrderInv
  <2>4. Frame(img) \in Frames /\ accepted' = Append(accepted, Frame(img))
    BY <2>1, <2>2, FrameType DEF AppendEnqueue, AppendOverflow,
                                 AppendAllocationFailure
  <2>5. pc # "stopped" /\ pc' = pc /\ ImuHeld' = ImuHeld /\ imuAccepted' = imuAccepted
    BY <2>1, <2>2 DEF AppendEnqueue, AppendOverflow, AppendAllocationFailure,
                      WriterInv, EndStates, ImuHeld
  <2>6. CASE AppendEnqueue(img)
    <3>1. Held' = accepted'
      BY <2>3, <2>4, <2>6, HeldEnqueue
    <3>2. Copies(Held', accepted') /\ Len(accepted') <= Len(Held') + 1
      BY <3>1, CopyOfSelf DEF TypeOK
    <3> QED
      BY <2>5, <3>1, <3>2 DEF OrderInv
  <2>7. CASE AppendOverflow(img) \/ AppendAllocationFailure(img)
    <3>1. Held' = accepted
      BY <2>3, <2>7 DEF AppendOverflow, AppendAllocationFailure, Held
    <3>2. Copies(Held', accepted') /\ Len(accepted') <= Len(Held') + 1
      BY <3>1, <2>4, AppendGrowsCopy DEF TypeOK
    <3>3. error' # NoError \/ raising' # NoError
      BY <2>7 DEF AppendOverflow, AppendAllocationFailure, NoError
    <3> QED
      BY <2>5, <3>2, <3>3 DEF OrderInv
  <2> QED
    BY <2>1, <2>6, <2>7
<1>2. CASE \E s \in Samples : AppendImu(s)
  <2>1. PICK s \in Samples : AppendImu(s)
    BY <1>2
  <2>2. ~closing /\ pc # "stopped" /\ pc' = pc
    BY <2>1 DEF AppendImu, MayAppend, WriterInv, EndStates
  <2>3. ImuHeld = imuAccepted
    BY <2>2 DEF OrderInv
  <2>4. ImuHeld' = (imuFile \o batch) \o Append(imuQueue, s)
    BY <2>1 DEF AppendImu, ImuHeld
  <2>5. ImuHeld' = Append(ImuHeld, s)
    <3>1. imuFile \o batch \in Seq(Samples) /\ imuQueue \in Seq(Samples)
      BY HeldType DEF TypeOK
    <3> QED
      BY <2>4, <3>1, AppendToConcat DEF ImuHeld
  <2>6. ImuHeld' = imuAccepted'
    BY <2>1, <2>3, <2>5 DEF AppendImu
  <2>7. Copies(ImuHeld', imuAccepted')
    BY <2>6, CopyOfSelf DEF TypeOK
  <2>8. Held' = Held /\ accepted' = accepted /\ raising' = raising
        /\ (error' = NoError => error = NoError)
    BY <2>1, <2>2 DEF AppendImu, Held, RecordError
  <2> QED
    BY <2>2, <2>6, <2>7, <2>8 DEF OrderInv
<1>3. CASE \/ AppendReject \/ \E s \in Samples : AppendImuReject(s)
           \/ Fail \/ \E e \in FinishErrors : Finish(e)
  <2>1. /\ Held' = Held /\ ImuHeld' = ImuHeld /\ pc' = pc
        /\ UNCHANGED <<accepted, imuAccepted>>
    BY <1>3 DEF AppendReject, AppendImuReject, Fail, Finish, Held, ImuHeld
  <2>2. error' = NoError /\ raising' = NoError => error = NoError /\ raising = NoError
    BY <1>3 DEF AppendReject, AppendImuReject, Fail, Finish, RecordError, NoError
  <2> QED
    BY <2>1, <2>2 DEF OrderInv
<1>4. CASE TakeSamples \/ WriteSample \/ TakeFrame \/ WriteFrame
  <2>1. Held' = Held /\ ImuHeld' = ImuHeld
    <3>1. CASE TakeSamples \/ WriteSample
      BY <3>1, HeldSamples DEF TakeSamples, WriteSample, Held
    <3>2. CASE TakeFrame \/ WriteFrame
      BY <3>2, HeldTakeFrame, HeldWriteFrame DEF TakeFrame, WriteFrame, ImuHeld
    <3> QED
      BY <1>4, <3>1, <3>2
  <2>2. /\ UNCHANGED <<accepted, imuAccepted, error, raising>>
        /\ pc # "stopped"
    BY <1>4 DEF TakeSamples, WriteSample, TakeFrame, WriteFrame
  <2> QED
    BY <2>1, <2>2 DEF OrderInv
<1>5. CASE \/ OpenFiles \/ Drained \/ SyncFiles \/ CheckCameras \/ PublishDrained
           \/ CheckError \/ Verify \/ PublishComplete \/ WriterThrows
           \/ RecordWriterFailure \/ PublishFailed
  <2>1. Held' = Held /\ ImuHeld' = ImuHeld
    BY <1>5 DEF OpenFiles, Drained, SyncFiles, CheckCameras, PublishDrained,
                CheckError, Verify, PublishComplete, WriterThrows,
                RecordWriterFailure, PublishFailed, Held, ImuHeld
  <2>2. /\ UNCHANGED <<accepted, imuAccepted, raising>> /\ pc # "stopped"
    BY <1>5 DEF OpenFiles, Drained, SyncFiles, CheckCameras, PublishDrained,
                CheckError, Verify, PublishComplete, WriterThrows,
                RecordWriterFailure, PublishFailed
  <2>3. error' = NoError => error = NoError
    BY <1>5 DEF OpenFiles, Drained, SyncFiles, CheckCameras, PublishDrained,
                CheckError, Verify, PublishComplete, WriterThrows,
                RecordWriterFailure, PublishFailed, RecordError, NoError
  <2> QED
    BY <2>1, <2>2, <2>3 DEF OrderInv
<1>6. CASE Clear
  <2>1. Held' = (rows \o <<>>) \o <<>> /\ ImuHeld' = (imuFile \o <<>>) \o <<>>
    BY <1>6 DEF Clear, Held, ImuHeld
  <2>2. Held' = rows /\ ImuHeld' = imuFile
    BY <2>1, ConcatEmptySeq DEF TypeOK
  <2>3. Copies(rows, accepted)
    <3>1. Copies(rows \o item, accepted)
      BY HeldType, FrontIsCopy DEF OrderInv, Held, TypeOK
    <3> QED
      BY <3>1, FrontIsCopy DEF TypeOK
  <2>4. Copies(imuFile, imuAccepted)
    <3>1. Copies(imuFile \o batch, imuAccepted)
      BY HeldType, FrontIsCopy DEF OrderInv, ImuHeld, TypeOK
    <3> QED
      BY <3>1, FrontIsCopy DEF TypeOK
  <2>5. UNCHANGED <<accepted, imuAccepted, error, raising>> /\ pc' = "stopped" /\ pc = "clear"
    BY <1>6 DEF Clear
  <2>6. error = NoError => rows = accepted
    BY <2>5 DEF WriterInv, VerdictInv, NoErrorMeansComplete, CompleteIsWhole
  <2> QED
    BY <2>2, <2>3, <2>4, <2>5, <2>6 DEF OrderInv
<1>7. CASE UNCHANGED vars
  BY <1>7 DEF OrderInv, Held, ImuHeld, Copies, vars
<1> QED
  BY <1>1, <1>2, <1>3, <1>4, <1>5, <1>6, <1>7, NextCases

-----------------------------------------------------------------------------
(* What "complete" means.                                                  *)

(* The verified manifest leaves no room between the disk and what was      *)
(* accepted: the disk is a copy of the beginning, and as long.             *)
LEMMA VerifiedIsWhole ==
  ASSUME TypeOK, WriterInv, OrderInv, VerdictInv, Verify
  PROVE  rows = accepted /\ \A c \in Cameras : dropped[c] = 0
<1>1. pc = "verify" /\ item = <<>> /\ queue = <<>>
  BY DEF Verify, WriterInv, DrainedStates
<1>2. Held = rows
  BY <1>1, ConcatEmptySeq DEF Held, TypeOK
<1>3. /\ manifest.transfers = Len(rows) /\ manifest.transfers = Len(accepted)
      /\ manifest.dropped = dropped /\ \A c \in Cameras : manifest.dropped[c] = 0
  BY <1>1 DEF Verify, ManifestMatchesDisk, VerdictInv
<1>4. \A i \in 1 .. Len(rows) : rows[i] = accepted[i]
  BY <1>2 DEF OrderInv, Copies
<1>5. rows = accepted
  BY <1>3, <1>4, SeqEqual DEF TypeOK
<1> QED
  BY <1>3, <1>5

LEMMA VerdictStep ==
  ASSUME TypeOK, ClosingInv, WriterInv, OrderInv, VerdictInv, [Next]_vars
  PROVE  VerdictInv'
<1> DEFINE Untouched == UNCHANGED <<accepted, dropped, rows, imuAccepted, imuFile,
                                    manifest>>
<1>1. CASE \/ AppendReject
           \/ \E img \in Images : \/ AppendEnqueue(img) \/ AppendOverflow(img)
                                  \/ AppendAllocationFailure(img)
           \/ \E s \in Samples : AppendImu(s) \/ AppendImuReject(s)
  <2>1. ~closing /\ ~done
    BY <1>1 DEF AppendReject, AppendEnqueue, AppendOverflow, MayAppend,
                AppendAllocationFailure, AppendImu, AppendImuReject
  <2>2. /\ pc \notin DrainedStates \cup EndStates
        /\ ~manifest.complete
    BY <2>1 DEF WriterInv, VerdictInv
  <2>3. UNCHANGED <<pc, done, manifest>>
    BY <1>1 DEF AppendReject, AppendEnqueue, AppendOverflow,
                AppendAllocationFailure, AppendImu, AppendImuReject
  <2> QED
    BY <2>1, <2>2, <2>3 DEF VerdictInv, CompleteIsWhole, NoErrorMeansComplete,
                            DrainedStates, EndStates
<1>2. CASE Fail \/ \E e \in FinishErrors : Finish(e)
  <2>1. /\ Untouched
        /\ UNCHANGED <<pc, item, batch, done, complete, queue, imuQueue>>
        /\ closing' /\ (error' = NoError => error = NoError)
    BY <1>2 DEF Fail, Finish, RecordError
  <2> QED
    BY <2>1 DEF VerdictInv, CompleteIsWhole, NoErrorMeansComplete
<1>3. CASE \/ OpenFiles \/ TakeSamples \/ TakeFrame \/ Drained \/ WriteSample
           \/ WriteFrame \/ SyncFiles \/ CheckCameras \/ WriterThrows
           \/ RecordWriterFailure
  <2>1. /\ pc \notin {"clear", "stopped"}
        /\ pc' \notin {"check", "verify", "commit", "clear", "stopped"}
        /\ UNCHANGED <<manifest, done>>
    BY <1>3 DEF OpenFiles, TakeSamples, TakeFrame, Drained, WriteSample, WriteFrame,
                SyncFiles, CheckCameras, WriterThrows, RecordWriterFailure
  <2>2. ~done /\ ~manifest.complete
    BY <2>1 DEF WriterInv, VerdictInv
  <2> QED
    BY <2>1, <2>2 DEF VerdictInv, CompleteIsWhole, NoErrorMeansComplete
<1>4. CASE PublishDrained \/ PublishFailed
  <2>1. /\ pc \notin {"clear", "stopped"} /\ done' = done
        /\ UNCHANGED <<accepted, dropped>>
        /\ manifest' \in {manifest, ManifestNow(FALSE)}
        /\ pc' = "check" => manifest' = ManifestNow(FALSE)
        /\ pc' \notin {"verify", "commit"}
    BY <1>4 DEF PublishDrained, PublishFailed
  <2>2. ~done' /\ ~manifest'.complete
    <3>1. ~ManifestNow(FALSE).complete
      BY DEF ManifestNow
    <3>2. ~done /\ ~manifest.complete
      BY <2>1 DEF WriterInv, VerdictInv
    <3> QED
      BY <2>1, <3>1, <3>2
  <2> QED
    BY <2>1, <2>2 DEF VerdictInv, CompleteIsWhole, NoErrorMeansComplete, ManifestNow
<1>5. CASE CheckError
  <2>1. /\ Untouched /\ pc = "check" /\ pc' \in {"verify", "clear"}
        /\ ~done /\ ~done' /\ ~manifest.complete
    BY <1>5 DEF CheckError, WriterInv, VerdictInv
  <2> QED
    BY <2>1 DEF VerdictInv, CompleteIsWhole, NoErrorMeansComplete
<1>6. CASE Verify
  <2>1. /\ Untouched /\ pc = "verify" /\ pc' = "commit"
        /\ ~done /\ ~done' /\ ~manifest.complete
    BY <1>6 DEF Verify, WriterInv, VerdictInv
  <2>2. rows = accepted /\ \A c \in Cameras : dropped[c] = 0
    BY <1>6, VerifiedIsWhole
  <2> QED
    BY <2>1, <2>2 DEF VerdictInv, CompleteIsWhole, NoErrorMeansComplete
<1>7. CASE PublishComplete
  <2>1. /\ UNCHANGED <<accepted, dropped, rows, imuAccepted, imuFile, error,
                       queue, imuQueue, item, batch>>
        /\ manifest' = ManifestNow(TRUE) /\ complete' = (error = NoError)
        /\ pc = "commit" /\ pc' = "clear" /\ closing'
    BY <1>7 DEF PublishComplete
  <2>2. /\ rows = accepted /\ \A c \in Cameras : dropped[c] = 0
        /\ queue = <<>> /\ item = <<>> /\ imuQueue = <<>> /\ batch = <<>>
    BY <2>1 DEF VerdictInv, WriterInv, DrainedStates
  <2>3. imuFile = imuAccepted
    <3>1. (imuFile \o <<>>) \o <<>> = imuAccepted
      BY <2>1, <2>2 DEF OrderInv, ImuHeld
    <3> QED
      BY <3>1, ConcatEmptySeq DEF TypeOK
  <2>4. /\ manifest'.complete = (error = NoError)
        /\ manifest'.error = error /\ manifest'.transfers = Len(accepted)
    BY <2>1 DEF ManifestNow
  <2> QED
    BY <2>1, <2>2, <2>3, <2>4 DEF VerdictInv, CompleteIsWhole, NoErrorMeansComplete
<1>8. CASE Clear
  <2>1. /\ Untouched /\ UNCHANGED <<complete, error>> /\ pc = "clear"
        /\ pc' = "stopped" /\ closing'
        /\ queue' = <<>> /\ item' = <<>> /\ imuQueue' = <<>> /\ batch' = <<>>
    BY <1>8 DEF Clear
  <2>2. error = NoError => done
    BY <2>1 DEF WriterInv
  <2> QED
    BY <2>1, <2>2 DEF VerdictInv, CompleteIsWhole, NoErrorMeansComplete
<1>9. CASE UNCHANGED vars
  BY <1>9 DEF VerdictInv, CompleteIsWhole, NoErrorMeansComplete, vars
<1> QED
  BY <1>1, <1>2, <1>3, <1>4, <1>5, <1>6, <1>7, <1>8, <1>9, NextCases

-----------------------------------------------------------------------------
LEMMA InitInv == Init => IInv
<1> SUFFICES ASSUME Init PROVE IInv
  OBVIOUS
<1>1. manifest.complete = FALSE /\ manifest.error = NoError /\ manifest.transfers = 0
  BY DEF Init, ManifestNow
<1>2. TypeOK
  <2>1. Len(accepted) < IdSpace
    BY ConstantsAssumption DEF Init
  <2>2. NoError \in Errors /\ "open" \in WriterStates
    BY DEF Errors, FinishErrors, WriterStates
  <2>3. /\ accepted \in Seq(Frames) /\ queue \in Seq(Frames)
        /\ item \in Seq(Frames) /\ rows \in Seq(Frames)
        /\ imuAccepted \in Seq(Samples) /\ imuQueue \in Seq(Samples)
        /\ batch \in Seq(Samples) /\ imuFile \in Seq(Samples)
    BY EmptySeq DEF Init
  <2>4. dropped \in [Cameras -> Nat] /\ pending \in [Cameras -> Nat]
    BY DEF Init
  <2>5. /\ queuedBytes \in Int /\ error \in Errors /\ raising \in Errors
        /\ pc \in WriterStates
    BY <2>2 DEF Init
  <2>6. /\ closing \in BOOLEAN /\ done \in BOOLEAN /\ complete \in BOOLEAN
        /\ manifest.complete \in BOOLEAN
    BY <1>1, Zenon DEF Init
  <2>7. manifest.error \in Errors /\ manifest.transfers \in Nat
    BY <1>1, <2>2
  <2> QED
    BY <2>1, <2>3, <2>4, <2>5, <2>6, <2>7, Zenon DEF TypeOK
<1>3. Held = <<>> /\ ImuHeld = <<>>
  BY ConcatEmptySeq DEF Init, Held, ImuHeld
<1>4. OrderInv
  BY <1>3 DEF Init, OrderInv, Copies
<1>5. ClosingInv /\ WriterInv
  BY DEF Init, ClosingInv, WriterInv, DrainedStates, EndStates
<1>6. VerdictInv
  BY <1>1 DEF Init, VerdictInv, CompleteIsWhole, NoErrorMeansComplete
<1> QED
  BY <1>2, <1>4, <1>5, <1>6 DEF IInv

LEMMA StepInv == IInv /\ [Next]_vars => IInv'
  BY TypeStep, ClosingStep, WriterStep, OrderStep, VerdictStep DEF IInv

THEOREM Invariance == Spec => []IInv
  BY InitInv, StepInv, PTL DEF Spec

(* Type correctness, for every number of cameras and every queue limit.    *)
THEOREM TypeCorrect == Spec => []TypeOK
<1>1. IInv => TypeOK
  BY DEF IInv
<1> QED
  BY <1>1, Invariance, PTL

(* A published complete=1 means the disk holds every image and sample ever *)
(* received (the manifest publish(true) commits).                          *)
THEOREM CompleteCorrect == Spec => []CompleteIsWhole
<1>1. IInv => CompleteIsWhole
  BY DEF IInv, VerdictInv
<1> QED
  BY <1>1, Invariance, PTL

(* The viewer's rule "done without an error means saved and verified" is   *)
(* sound: the recorder never ends silently incomplete.                     *)
THEOREM NoErrorCorrect == Spec => []NoErrorMeansComplete
<1>1. IInv => NoErrorMeansComplete
  BY DEF IInv, VerdictInv
<1> QED
  BY <1>1, Invariance, PTL

(* No queued or in-flight image or sample is evicted or reordered.         *)
LEMMA CopyIsPrefix ==
  ASSUME NEW S, NEW s \in Seq(S), NEW t \in Seq(S), Copies(s, t)
  PROVE  IsPrefix(s, t)
<1>1. Len(s) \in Nat /\ Len(t) \in Nat /\ Len(s) <= Len(t)
  BY DEF Copies
<1>2. SubSeq(t, 1, Len(s)) \in Seq(S) /\ Len(SubSeq(t, 1, Len(s))) = Len(s)
      /\ \A i \in 1 .. Len(s) : SubSeq(t, 1, Len(s))[i] = t[i]
  BY <1>1, ElementOfSeq, SubSeqProperties
<1>3. SubSeq(t, 1, Len(s)) = s
  BY <1>2, SeqEqual DEF Copies
<1>4. SubSeq(s, 1, Len(s)) = s
  BY SubSeqFull
<1> QED
  BY <1>1, <1>3, <1>4 DEF IsPrefix

THEOREM NoEvictionCorrect == Spec => []NoEviction
<1>1. IInv => NoEviction
  <2> SUFFICES ASSUME IInv PROVE NoEviction
    OBVIOUS
  <2>1. IsPrefix(Held, accepted) /\ IsPrefix(ImuHeld, imuAccepted)
    BY HeldType, CopyIsPrefix DEF IInv, OrderInv, TypeOK
  <2> QED
    BY <2>1 DEF IInv, OrderInv, NoEviction
<1> QED
  BY <1>1, Invariance, PTL

(* The first error stays: an overflow, which assigns the error without     *)
(* looking, happens only while the recording is open and without error.    *)
THEOREM FirstErrorCorrect == Spec => FirstErrorKept
<1>1. IInv /\ [Next]_vars => [error # NoError => error' = error]_vars
  <2> SUFFICES ASSUME IInv, [Next]_vars, error # NoError PROVE error' = error
    OBVIOUS
  <2>1. closing
    BY DEF IInv, ClosingInv
  <2>2. CASE \/ AppendReject
             \/ \E img \in Images : \/ AppendEnqueue(img) \/ AppendOverflow(img)
                                    \/ AppendAllocationFailure(img)
             \/ \E s \in Samples : AppendImu(s) \/ AppendImuReject(s)
    BY <2>1, <2>2 DEF AppendReject, AppendEnqueue, AppendOverflow, MayAppend,
                      AppendAllocationFailure, AppendImu, AppendImuReject
  <2>3. CASE Fail \/ \E e \in FinishErrors : Finish(e)
    BY <2>3 DEF Fail, Finish, RecordError
  <2>4. CASE \/ OpenFiles \/ TakeSamples \/ TakeFrame \/ Drained \/ WriteSample
             \/ WriteFrame \/ SyncFiles \/ CheckCameras \/ PublishDrained
             \/ CheckError
    BY <2>4 DEF OpenFiles, TakeSamples, TakeFrame, Drained, WriteSample, WriteFrame,
                SyncFiles, CheckCameras, PublishDrained, CheckError
  <2>5. CASE \/ Verify \/ PublishComplete \/ WriterThrows \/ RecordWriterFailure
             \/ PublishFailed \/ Clear
    BY <2>5 DEF Verify, PublishComplete, WriterThrows, RecordWriterFailure,
                RecordError, PublishFailed, Clear
  <2>6. CASE UNCHANGED vars
    BY <2>6 DEF vars
  <2> QED
    BY <2>2, <2>3, <2>4, <2>5, <2>6, NextCases
<1> QED
  BY <1>1, Invariance, PTL DEF Spec, FirstErrorKept

-----------------------------------------------------------------------------
(***************************************************************************)
(* Two further results, from the inductive invariant: the counts a failed  *)
(* recording leaves on disk are final, and the recorder implements         *)
(* RecordingPromise.                                                       *)
(***************************************************************************)
(* A manifest with an error was composed after closing, when the counts no *)
(* longer move: this, unlike ManifestCountsAreFinal, every step preserves. *)
FinalInv == manifest.error # NoError => /\ closing
                                        /\ manifest.transfers = Len(accepted)
                                        /\ manifest.dropped = dropped

LEMMA FinalStep ==
  ASSUME IInv, FinalInv, [Next]_vars
  PROVE  FinalInv'
<1>1. CASE \/ AppendReject
           \/ \E img \in Images : \/ AppendEnqueue(img) \/ AppendOverflow(img)
                                  \/ AppendAllocationFailure(img)
           \/ \E s \in Samples : AppendImu(s) \/ AppendImuReject(s)
  <2>1. ~closing /\ manifest' = manifest
    BY <1>1 DEF AppendReject, AppendEnqueue, AppendOverflow, MayAppend,
                AppendAllocationFailure, AppendImu, AppendImuReject
  <2> QED
    BY <2>1 DEF FinalInv
<1>2. CASE \/ Fail \/ (\E e \in FinishErrors : Finish(e)) \/ RecordWriterFailure
           \/ Clear
  <2>1. closing' /\ UNCHANGED <<accepted, dropped, manifest>>
    BY <1>2 DEF Fail, Finish, RecordWriterFailure, Clear, RecordError
  <2> QED
    BY <2>1 DEF FinalInv
<1>3. CASE \/ OpenFiles \/ TakeSamples \/ TakeFrame \/ Drained \/ WriteSample
           \/ WriteFrame \/ SyncFiles
  <2>1. UNCHANGED <<closing, accepted, dropped, manifest>>
    BY <1>3 DEF OpenFiles, TakeSamples, TakeFrame, Drained, WriteSample,
                WriteFrame, SyncFiles
  <2> QED
    BY <2>1 DEF FinalInv
<1>4. CASE CheckCameras \/ CheckError \/ Verify \/ WriterThrows
  <2>1. UNCHANGED <<closing, accepted, dropped, manifest>>
    BY <1>4 DEF CheckCameras, CheckError, Verify, WriterThrows
  <2> QED
    BY <2>1 DEF FinalInv
<1>5. CASE PublishDrained \/ PublishComplete \/ PublishFailed
  <2>1. /\ manifest' \in {manifest, ManifestNow(FALSE), ManifestNow(TRUE)}
        /\ UNCHANGED <<accepted, dropped>>
        /\ closing => closing'
    <3>1. CASE PublishDrained
      BY <3>1 DEF PublishDrained
    <3>2. CASE PublishComplete
      BY <3>2 DEF PublishComplete
    <3>3. CASE PublishFailed
      BY <3>3 DEF PublishFailed
    <3> QED
      BY <1>5, <3>1, <3>2, <3>3
  <2>2. ASSUME NEW b \in BOOLEAN, manifest' = ManifestNow(b)
        PROVE  FinalInv'
    <3>1. /\ manifest'.error = error /\ manifest'.transfers = Len(accepted)
          /\ manifest'.dropped = dropped
      BY <2>2 DEF ManifestNow
    <3>2. error # NoError => closing
      BY DEF IInv, ClosingInv
    <3> QED
      BY <2>1, <3>1, <3>2 DEF FinalInv
  <2> QED
    BY <2>1, <2>2 DEF FinalInv
<1>6. CASE UNCHANGED vars
  BY <1>6 DEF vars, FinalInv
<1> QED
  BY <1>1, <1>2, <1>3, <1>4, <1>5, <1>6, NextCases

(* The manifest a failed recording leaves counts every image received and  *)
(* dropped: the catch of run() publishes it after nothing is accepted.     *)
THEOREM FinalCountsCorrect == Spec => []ManifestCountsAreFinal
<1>1. Init => FinalInv
  BY DEF Init, FinalInv, ManifestNow
<1>2. IInv /\ FinalInv /\ [Next]_vars => FinalInv'
  BY FinalStep
<1>3. FinalInv => ManifestCountsAreFinal
  BY DEF FinalInv, ManifestCountsAreFinal
<1> QED
  BY <1>1, <1>2, <1>3, Invariance, PTL DEF Spec

-----------------------------------------------------------------------------
(* The refinement.  What goes to disk is the oldest item not on it yet.    *)

LEMMA NextOnDisk ==
  ASSUME NEW S, NEW disk \in Seq(S), NEW hand \in Seq(S), NEW rest \in Seq(S),
         NEW all \in Seq(S), hand # <<>>, Copies((disk \o hand) \o rest, all)
  PROVE  Len(disk) < Len(all) /\ hand[1] = all[Len(disk) + 1]
<1>1. disk \o hand \in Seq(S)
  BY ConcatProperties
<1>2. Copies(disk \o hand, all)
  BY <1>1, FrontIsCopy
<1>3. Len(hand) \in Nat \ {0} /\ Len(disk) \in Nat /\ Len(all) \in Nat
  BY EmptySeq
<1>4. /\ Len(disk \o hand) = Len(disk) + Len(hand)
      /\ (disk \o hand)[Len(disk) + 1] = hand[1]
  BY <1>3, ConcatProperties
<1>5. Len(disk) + 1 \in 1 .. Len(disk \o hand)
  BY <1>3, <1>4
<1>6. /\ (disk \o hand)[Len(disk) + 1] = all[Len(disk) + 1]
      /\ Len(disk \o hand) <= Len(all)
  BY <1>2, <1>5 DEF Copies
<1> QED
  BY <1>3, <1>4, <1>6

LEMMA NextFrameOnDisk ==
  ASSUME IInv, WriteFrame
  PROVE  /\ Len(rows) < Len(accepted)
         /\ rows' = Append(rows, accepted[Len(rows) + 1])
<1>1. /\ rows \in Seq(Frames) /\ item \in Seq(Frames)
      /\ queue \in Seq(Frames) /\ accepted \in Seq(Frames)
  BY DEF IInv, TypeOK
<1>2. Len(item) = 1
  BY DEF IInv, WriterInv, WriteFrame
<1>3. item # <<>>
  BY <1>2
<1>4. Copies((rows \o item) \o queue, accepted)
  BY DEF IInv, OrderInv, Held
<1>5. Len(rows) < Len(accepted) /\ item[1] = accepted[Len(rows) + 1]
  BY <1>1, <1>3, <1>4, NextOnDisk
<1> QED
  BY <1>5 DEF WriteFrame

LEMMA NextSampleOnDisk ==
  ASSUME IInv, WriteSample
  PROVE  /\ Len(imuFile) < Len(imuAccepted)
         /\ imuFile' = Append(imuFile, imuAccepted[Len(imuFile) + 1])
<1>1. /\ batch # <<>> /\ imuFile \in Seq(Samples) /\ batch \in Seq(Samples)
      /\ imuQueue \in Seq(Samples) /\ imuAccepted \in Seq(Samples)
  BY DEF IInv, WriterInv, TypeOK, WriteSample
<1>2. Copies((imuFile \o batch) \o imuQueue, imuAccepted)
  BY DEF IInv, OrderInv, ImuHeld
<1>3. Len(imuFile) < Len(imuAccepted) /\ batch[1] = imuAccepted[Len(imuFile) + 1]
  BY <1>1, <1>2, NextOnDisk
<1> QED
  BY <1>3 DEF WriteSample

Streams == {"frames", "imu"}
Accepted == [s \in Streams |-> IF s = "frames" THEN accepted ELSE imuAccepted]
Stored == [s \in Streams |-> IF s = "frames" THEN rows ELSE imuFile]
Verdict == IF manifest.complete THEN "complete" ELSE "incomplete"

(* A step that leaves what the promise speaks of alone is a stutter.       *)
LEMMA Stutter ==
  ASSUME UNCHANGED <<accepted, imuAccepted, rows, imuFile, closing>>,
         manifest'.complete = manifest.complete
  PROVE  UNCHANGED Promise!vars
  BY DEF Promise!vars

LEMMA AcceptsFrame ==
  ASSUME NEW f \in Frames, ~closing, closing' \in BOOLEAN,
         accepted' = Append(accepted, f),
         UNCHANGED <<imuAccepted, rows, imuFile, manifest>>
  PROVE  Promise!Next
<1>1. Accepted' = [Accepted EXCEPT !["frames"] = Append(@, f)]
  BY DEF Accepted, Streams
<1>2. UNCHANGED <<Stored, Verdict>>
  BY DEF Stored, Verdict
<1>3. Promise!Accept("frames", f)
  BY <1>1, <1>2 DEF Promise!Accept, Accepted, Stored, Verdict, Streams
<1> QED
  BY <1>3 DEF Promise!Next

LEMMA AcceptsSample ==
  ASSUME NEW s \in Samples, ~closing, closing' \in BOOLEAN,
         imuAccepted' = Append(imuAccepted, s),
         UNCHANGED <<accepted, rows, imuFile, manifest>>
  PROVE  Promise!Next
<1>1. Accepted' = [Accepted EXCEPT !["imu"] = Append(@, s)]
  BY DEF Accepted, Streams
<1>2. UNCHANGED <<Stored, Verdict>>
  BY DEF Stored, Verdict
<1>3. Promise!Accept("imu", s)
  BY <1>1, <1>2 DEF Promise!Accept, Accepted, Stored, Verdict, Streams
<1> QED
  BY <1>3 DEF Promise!Next

LEMMA StoresFrame ==
  ASSUME ~manifest.complete, Len(rows) < Len(accepted),
         rows' = Append(rows, accepted[Len(rows) + 1]),
         UNCHANGED <<accepted, imuAccepted, imuFile, closing, manifest>>
  PROVE  Promise!Next
<1>1. Stored' = [Stored EXCEPT !["frames"] =
                   Append(@, Accepted["frames"][Len(@) + 1])]
  BY DEF Stored, Accepted, Streams
<1>2. UNCHANGED <<Accepted, Verdict, closing>>
  BY DEF Accepted, Verdict
<1>3. Len(Stored["frames"]) < Len(Accepted["frames"]) /\ Verdict = "incomplete"
  BY DEF Stored, Accepted, Verdict, Streams
<1>4. Promise!Store("frames")
  BY <1>1, <1>2, <1>3 DEF Promise!Store, Accepted, Stored, Verdict, Streams
<1> QED
  BY <1>4 DEF Promise!Next

LEMMA StoresSample ==
  ASSUME ~manifest.complete, Len(imuFile) < Len(imuAccepted),
         imuFile' = Append(imuFile, imuAccepted[Len(imuFile) + 1]),
         UNCHANGED <<accepted, imuAccepted, rows, closing, manifest>>
  PROVE  Promise!Next
<1>1. Stored' = [Stored EXCEPT !["imu"] =
                   Append(@, Accepted["imu"][Len(@) + 1])]
  BY DEF Stored, Accepted, Streams
<1>2. UNCHANGED <<Accepted, Verdict, closing>>
  BY DEF Accepted, Verdict
<1>3. Len(Stored["imu"]) < Len(Accepted["imu"]) /\ Verdict = "incomplete"
  BY DEF Stored, Accepted, Verdict, Streams
<1>4. Promise!Store("imu")
  BY <1>1, <1>2, <1>3 DEF Promise!Store, Accepted, Stored, Verdict, Streams
<1> QED
  BY <1>4 DEF Promise!Next

(* finish, fail and the writer's own failure close the recording, if they  *)
(* are the first to do so.                                                 *)
LEMMA Seals ==
  ASSUME TypeOK, closing',
         UNCHANGED <<accepted, imuAccepted, rows, imuFile, manifest>>
  PROVE  Promise!Next \/ UNCHANGED Promise!vars
<1>1. CASE closing
  <2>1. closing' = closing
    BY <1>1 DEF TypeOK
  <2> QED
    BY <2>1, Stutter
<1>2. CASE ~closing
  <2>1. UNCHANGED <<Accepted, Stored, Verdict>>
    BY DEF Accepted, Stored, Verdict
  <2>2. closing' = TRUE
    BY Zenon DEF TypeOK
  <2>3. Promise!Seal
    BY <1>2, <2>1, <2>2 DEF Promise!Seal, Accepted, Stored, Verdict, Streams
  <2> QED
    BY <2>3 DEF Promise!Next
<1> QED
  BY <1>1, <1>2

(* publish(true): the readback found all that was accepted on disk.        *)
LEMMA Declares ==
  ASSUME IInv, IInv', PublishComplete
  PROVE  Promise!Next \/ UNCHANGED Promise!vars
<1>1. /\ UNCHANGED <<accepted, imuAccepted, rows, imuFile>>
      /\ closing /\ closing' /\ ~manifest.complete
  BY DEF PublishComplete, IInv, WriterInv, VerdictInv, DrainedStates
<1>2. closing' = closing
  BY <1>1 DEF IInv, TypeOK
<1>3. CASE manifest'.complete
  <2>1. rows = accepted /\ imuFile = imuAccepted
    BY <1>1, <1>3 DEF IInv, VerdictInv, CompleteIsWhole
  <2>2. Stored = Accepted /\ UNCHANGED <<Accepted, Stored>>
    BY <1>1, <2>1 DEF Stored, Accepted
  <2>3. Verdict = "incomplete" /\ Verdict' = "complete"
    BY <1>1, <1>3 DEF Verdict
  <2>4. Promise!Declare
    BY <1>1, <1>2, <2>2, <2>3 DEF Promise!Declare, Accepted, Stored, Verdict,
                                  Streams
  <2> QED
    BY <2>4 DEF Promise!Next
<1>4. CASE ~manifest'.complete
  <2>1. Verdict' = Verdict /\ UNCHANGED <<Accepted, Stored>>
    BY <1>1, <1>4 DEF Verdict, Accepted, Stored
  <2> QED
    BY <1>2, <2>1 DEF Promise!vars, Accepted, Stored, Verdict, Streams
<1> QED
  BY <1>3, <1>4

-----------------------------------------------------------------------------
LEMMA PromiseInit == Init => Promise!Init
<1> SUFFICES ASSUME Init PROVE Promise!Init
  OBVIOUS
<1>1. manifest.complete = FALSE
  BY DEF Init, ManifestNow
<1>2. Verdict = "incomplete"
  BY <1>1 DEF Verdict
<1>3. Accepted = [s \in Streams |-> <<>>] /\ Stored = [s \in Streams |-> <<>>]
  BY DEF Init, Accepted, Stored
<1> QED
  BY <1>2, <1>3 DEF Promise!Init, Init, Accepted, Stored, Verdict, Streams

LEMMA PromiseStep ==
  ASSUME IInv, IInv', [Next]_vars
  PROVE  Promise!Next \/ UNCHANGED Promise!vars
<1>1. ASSUME NEW img \in Images,
             \/ AppendEnqueue(img) \/ AppendOverflow(img)
             \/ AppendAllocationFailure(img)
      PROVE  Promise!Next
  <2>1. /\ MayAppend /\ accepted' = Append(accepted, Frame(img))
        /\ UNCHANGED <<imuAccepted, rows, imuFile, manifest>>
    BY <1>1 DEF AppendEnqueue, AppendOverflow, AppendAllocationFailure
  <2>2. Frame(img) \in Frames
    BY <2>1, FrameType DEF IInv
  <2>3. closing' \in BOOLEAN /\ ~closing
    BY <2>1 DEF IInv, TypeOK, MayAppend
  <2> QED
    BY <2>1, <2>2, <2>3, AcceptsFrame
<1>2. ASSUME NEW s \in Samples, AppendImu(s)
      PROVE  Promise!Next
  <2>1. /\ MayAppend /\ imuAccepted' = Append(imuAccepted, s)
        /\ UNCHANGED <<accepted, rows, imuFile, manifest>>
    BY <1>2 DEF AppendImu
  <2>2. closing' \in BOOLEAN /\ ~closing
    BY <2>1 DEF IInv, TypeOK, MayAppend
  <2> QED
    BY <2>1, <2>2, AcceptsSample
<1>3. CASE AppendReject \/ \E s \in Samples : AppendImuReject(s)
  BY <1>3, Stutter DEF AppendReject, AppendImuReject
<1>4. CASE Fail \/ (\E e \in FinishErrors : Finish(e)) \/ RecordWriterFailure
           \/ Clear
  <2>1. closing' /\ UNCHANGED <<accepted, imuAccepted, rows, imuFile, manifest>>
    BY <1>4 DEF Fail, Finish, RecordWriterFailure, Clear, RecordError
  <2> QED
    BY <2>1, Seals DEF IInv
<1>5. CASE WriteFrame
  <2>1. /\ ~manifest.complete
        /\ UNCHANGED <<accepted, imuAccepted, imuFile, closing, manifest>>
    BY <1>5 DEF WriteFrame, IInv, VerdictInv
  <2> QED
    BY <1>5, <2>1, NextFrameOnDisk, StoresFrame
<1>6. CASE WriteSample
  <2>1. /\ ~manifest.complete
        /\ UNCHANGED <<accepted, imuAccepted, rows, closing, manifest>>
    BY <1>6 DEF WriteSample, IInv, VerdictInv
  <2> QED
    BY <1>6, <2>1, NextSampleOnDisk, StoresSample
<1>7. CASE OpenFiles \/ TakeSamples \/ TakeFrame \/ Drained \/ SyncFiles
  BY <1>7, Stutter DEF OpenFiles, TakeSamples, TakeFrame, Drained, SyncFiles
<1>8. CASE CheckCameras \/ CheckError \/ Verify \/ WriterThrows
  BY <1>8, Stutter DEF CheckCameras, CheckError, Verify, WriterThrows
<1>9. CASE PublishDrained \/ PublishFailed
  <2>1. manifest.complete \in BOOLEAN /\ ~manifest.complete
    BY <1>9 DEF PublishDrained, PublishFailed, IInv, TypeOK, VerdictInv
  <2>2. manifest' \in {manifest, ManifestNow(FALSE)}
        /\ UNCHANGED <<accepted, imuAccepted, rows, imuFile, closing>>
    BY <1>9 DEF PublishDrained, PublishFailed
  <2>3. ManifestNow(FALSE).complete = FALSE
    BY DEF ManifestNow
  <2>4. manifest'.complete = manifest.complete
    BY <2>1, <2>2, <2>3
  <2> QED
    BY <2>2, <2>4, Stutter
<1>10. CASE PublishComplete
  BY <1>10, Declares
<1>11. CASE UNCHANGED vars
  BY <1>11, Stutter DEF vars
<1> QED
  BY <1>1, <1>2, <1>3, <1>4, <1>5, <1>6, <1>7, <1>8, <1>9, <1>10, <1>11, NextCases

(* The recorder implements RecordingPromise: disk follows acceptance in    *)
(* order, nothing is accepted after closing, and "complete" is declared    *)
(* once, on a full copy - whatever fails, whoever calls, in any order.     *)
THEOREM PromiseKept == Spec => KeepsPromise
<1>1. IInv /\ IInv' /\ [Next]_vars => [Promise!Next]_(Promise!vars)
  BY PromiseStep
<1> QED
  BY <1>1, PromiseInit, Invariance, PTL DEF Spec, KeepsPromise, Promise!Spec

-----------------------------------------------------------------------------
(* The queues stay within their limits and queued_bytes is the size of     *)
(* what is queued: what Total computes of sequences put together.          *)
LEMMA SizeIsNat ==
  ASSUME NEW f \in Frames
  PROVE  f.size \in Nat
<1>1. f.size \in Sizes
  BY DEF Frames
<1>2. Sizes \subseteq Nat
  BY ConstantsAssumption
<1> QED
  BY <1>1, <1>2, Zenon

(* The bytes of what is queued, as the total of the sizes.                 *)
SizeOf == [f \in Frames |-> f.size]

LEMMA BytesAreSizes ==
  ASSUME NEW s \in Seq(Frames)
  PROVE  SizeOf \in [Frames -> Nat] /\ BytesOf(s) = Total(Mapped(SizeOf, s))
<1>1. SizeOf \in [Frames -> Nat]
  BY SizeIsNat DEF SizeOf
<1>2. \A i \in DOMAIN s : s[i] \in Frames
  OBVIOUS
<1>3. [i \in DOMAIN s |-> s[i].size] = Mapped(SizeOf, s)
  BY <1>2 DEF Mapped, SizeOf
<1> QED
  BY <1>1, <1>3 DEF BytesOf

LEMMA BytesEmpty == BytesOf(<<>>) = 0
<1>1. <<>> \in Seq(Frames)
  OBVIOUS
<1> QED
  BY <1>1, BytesAreSizes, MappedEmpty

LEMMA BytesConcat ==
  ASSUME NEW s \in Seq(Frames), NEW t \in Seq(Frames)
  PROVE  BytesOf(s \o t) = BytesOf(s) + BytesOf(t)
<1>1. s \o t \in Seq(Frames)
  BY ConcatProperties
<1>2. SizeOf \in [Frames -> Nat]
  BY BytesAreSizes
<1>3. Total(Mapped(SizeOf, s \o t)) = Total(Mapped(SizeOf, s)) + Total(Mapped(SizeOf, t))
  BY <1>2, MappedConcat
<1>4. /\ BytesOf(s) = Total(Mapped(SizeOf, s)) /\ BytesOf(t) = Total(Mapped(SizeOf, t))
      /\ BytesOf(s \o t) = Total(Mapped(SizeOf, s \o t))
  BY <1>1, BytesAreSizes
<1> QED
  BY <1>3, <1>4

LEMMA BytesSingle ==
  ASSUME NEW f \in Frames
  PROVE  BytesOf(<<f>>) = f.size
<1>1. <<f>> \in Seq(Frames)
  OBVIOUS
<1>2. BytesOf(<<f>>) = SizeOf[f]
  BY <1>1, BytesAreSizes, MappedSingle
<1> QED
  BY <1>2 DEF SizeOf

LEMMA BytesNat ==
  ASSUME NEW s \in Seq(Frames)
  PROVE  BytesOf(s) \in Nat
BY BytesAreSizes, MappedIsNat, TotalNat

LEMMA BudgetStep ==
  ASSUME TypeOK, ClosingInv, WriterInv, QueueBudget, [Next]_vars
  PROVE  QueueBudget'
<1>1. ASSUME NEW img \in Images, AppendEnqueue(img) PROVE QueueBudget'
  <2>1. Frame(img) \in Frames /\ queue \in Seq(Frames) /\ Frame(img).size = img.size
    BY <1>1, FrameType DEF AppendEnqueue, TypeOK, Frame
  <2>2. queue' = queue \o <<Frame(img)>>
    BY <1>1, <2>1, AppendIsConcat DEF AppendEnqueue
  <2>3. <<Frame(img)>> \in Seq(Frames)
    BY <2>1
  <2>4. BytesOf(queue') = BytesOf(queue) + img.size
    BY <2>1, <2>2, <2>3, BytesConcat, BytesSingle
  <2>5. Len(queue') = Len(queue) + 1 /\ Len(queue) \in Nat
    BY <1>1, <2>1, AppendProperties DEF AppendEnqueue
  <2>6. /\ queuedBytes' = queuedBytes + img.size /\ imuQueue' = imuQueue
        /\ ~ (Len(queue) >= QueueFrames) /\ ~ (queuedBytes + img.size > QueueBytes)
    BY <1>1 DEF AppendEnqueue, Overflows
  <2>7. img.size \in Nat /\ queuedBytes \in Nat
    BY <2>1, SizeIsNat, BytesNat DEF QueueBudget
  <2>8. Len(queue') <= QueueFrames /\ queuedBytes' <= QueueBytes
    BY <2>5, <2>6, <2>7, ConstantsAssumption
  <2>9. queuedBytes' = BytesOf(queue')
    BY <2>4, <2>6 DEF QueueBudget
  <2> QED
    BY <2>6, <2>8, <2>9 DEF QueueBudget
<1>2. ASSUME NEW s \in Samples, AppendImu(s) PROVE QueueBudget'
  <2>2. /\ Len(imuQueue) < ImuQueueSamples /\ imuQueue' = Append(imuQueue, s)
        /\ queue' = queue /\ queuedBytes' = queuedBytes
    <3> HIDE DEF imuVars
    <3> QED
      BY <1>2, Zenon DEF AppendImu
  <2>1. Len(imuQueue') = Len(imuQueue) + 1 /\ Len(imuQueue) \in Nat
    <3>1. imuQueue \in Seq(Samples)
      BY DEF TypeOK
    <3> QED
      BY <2>2, <3>1
  <2>3. Len(imuQueue') <= ImuQueueSamples
    BY <2>1, <2>2, ConstantsAssumption
  <2> QED
    BY <2>2, <2>3 DEF QueueBudget
<1>3. CASE TakeSamples
  <2> DEFINE n == IF Len(imuQueue) < ImuBatch THEN Len(imuQueue) ELSE ImuBatch
  <2>1. /\ imuQueue' = SubSeq(imuQueue, n + 1, Len(imuQueue))
        /\ queue' = queue /\ queuedBytes' = queuedBytes
    BY <1>3 DEF TakeSamples
  <2>2. n \in 0 .. Len(imuQueue) /\ Len(imuQueue) \in Nat
    BY ConstantsAssumption DEF TypeOK
  <2>3. Len(imuQueue') <= Len(imuQueue) /\ Len(imuQueue') \in Nat
    <3> HIDE DEF n
    <3> QED
      BY <2>1, <2>2 DEF TypeOK
  <2>4. Len(imuQueue') <= ImuQueueSamples
    BY <2>2, <2>3, ConstantsAssumption DEF QueueBudget
  <2> QED
    BY <2>1, <2>4 DEF QueueBudget
<1>4. CASE TakeFrame
  <2>1. queue \in Seq(Frames) /\ queue # <<>>
    BY <1>4 DEF TakeFrame, TypeOK
  <2>2. /\ Head(queue) \in Frames /\ Tail(queue) \in Seq(Frames)
        /\ Len(Tail(queue)) = Len(queue) - 1 /\ Len(queue) \in Nat
        /\ queue = <<Head(queue)>> \o Tail(queue)
    BY <2>1, HeadTailProperties, HeadThenTail
  <2>3. <<Head(queue)>> \in Seq(Frames)
    BY <2>2
  <2>4. BytesOf(queue) = Head(queue).size + BytesOf(Tail(queue))
    BY <2>2, <2>3, BytesConcat, BytesSingle
  <2>5. /\ queue' = Tail(queue) /\ queuedBytes' = queuedBytes - Head(queue).size
        /\ imuQueue' = imuQueue
    BY <1>4 DEF TakeFrame
  <2>6. Head(queue).size \in Nat /\ BytesOf(Tail(queue)) \in Nat
    BY <2>2, SizeIsNat, BytesNat
  <2>7. queuedBytes' = BytesOf(queue') /\ queuedBytes' <= QueueBytes
    <3>1. queuedBytes = BytesOf(queue) /\ queuedBytes <= QueueBytes /\ QueueBytes \in Nat
      BY ConstantsAssumption DEF QueueBudget
    <3>2. \A a, b, c \in Nat : a + b <= c => (a + b) - a = b /\ (a + b) - a <= c
      OBVIOUS
    <3>3. queuedBytes' = (Head(queue).size + BytesOf(Tail(queue))) - Head(queue).size
      BY <2>4, <2>5, <3>1
    <3>4. Head(queue).size + BytesOf(Tail(queue)) <= QueueBytes
      BY <2>4, <3>1
    <3>5. queuedBytes' = BytesOf(Tail(queue)) /\ queuedBytes' <= QueueBytes
      BY <2>6, <3>1, <3>2, <3>3, <3>4
    <3> QED
      BY <2>5, <3>5
  <2>8. Len(queue') <= QueueFrames
    BY <2>2, <2>5, ConstantsAssumption DEF QueueBudget
  <2> QED
    BY <2>5, <2>7, <2>8 DEF QueueBudget
<1>5. CASE Clear
  BY <1>5, BytesEmpty, ConstantsAssumption DEF Clear, QueueBudget
<1>6. ASSUME queue' = queue, queuedBytes' = queuedBytes, imuQueue' = imuQueue
      PROVE  QueueBudget'
  BY <1>6 DEF QueueBudget
<1>7. ASSUME NEW img \in Images, AppendOverflow(img) \/ AppendAllocationFailure(img)
      PROVE  QueueBudget'
  <2>1. CASE AppendOverflow(img)
    <3>1. queue' = queue /\ queuedBytes' = queuedBytes /\ imuQueue' = imuQueue
      BY <2>1, ZenonT(30) DEF AppendOverflow
    <3> QED
      BY <1>6, <3>1
  <2>2. CASE AppendAllocationFailure(img)
    <3>1. queue' = queue /\ queuedBytes' = queuedBytes /\ imuQueue' = imuQueue
      BY <2>2, ZenonT(30) DEF AppendAllocationFailure
    <3> QED
      BY <1>6, <3>1
  <2> QED
    BY <1>7, <2>1, <2>2
<1>8. ASSUME NEW s \in Samples, AppendImuReject(s) PROVE QueueBudget'
  <2>1. queue' = queue /\ queuedBytes' = queuedBytes /\ imuQueue' = imuQueue
    BY <1>8, ZenonT(30) DEF AppendImuReject
  <2> QED
    BY <1>6, <2>1
<1>9. CASE AppendReject \/ Fail \/ \E e \in FinishErrors : Finish(e)
  <2>1. CASE AppendReject
    <3>1. queue' = queue /\ queuedBytes' = queuedBytes /\ imuQueue' = imuQueue
      BY <2>1, ZenonT(30) DEF AppendReject
    <3> QED
      BY <1>6, <3>1
  <2>2. CASE Fail
    <3>1. queue' = queue /\ queuedBytes' = queuedBytes /\ imuQueue' = imuQueue
      BY <2>2, ZenonT(30) DEF Fail
    <3> QED
      BY <1>6, <3>1
  <2>3. CASE \E e \in FinishErrors : Finish(e)
    <3>1. queue' = queue /\ queuedBytes' = queuedBytes /\ imuQueue' = imuQueue
      BY <2>3, ZenonT(30) DEF Finish
    <3> QED
      BY <1>6, <3>1
  <2> QED
    BY <1>9, <2>1, <2>2, <2>3
<1>10. CASE \/ OpenFiles \/ Drained \/ WriteSample \/ WriteFrame \/ SyncFiles
            \/ CheckCameras \/ PublishDrained
  <2>1. CASE OpenFiles
    <3>1. queue' = queue /\ queuedBytes' = queuedBytes /\ imuQueue' = imuQueue
      BY <2>1, ZenonT(30) DEF OpenFiles
    <3> QED
      BY <1>6, <3>1
  <2>2. CASE Drained
    <3>1. queue' = queue /\ queuedBytes' = queuedBytes /\ imuQueue' = imuQueue
      BY <2>2, ZenonT(30) DEF Drained
    <3> QED
      BY <1>6, <3>1
  <2>3. CASE WriteSample
    <3>1. queue' = queue /\ queuedBytes' = queuedBytes /\ imuQueue' = imuQueue
      BY <2>3, ZenonT(30) DEF WriteSample
    <3> QED
      BY <1>6, <3>1
  <2>4. CASE WriteFrame
    <3>1. queue' = queue /\ queuedBytes' = queuedBytes /\ imuQueue' = imuQueue
      BY <2>4, ZenonT(30) DEF WriteFrame
    <3> QED
      BY <1>6, <3>1
  <2>5. CASE SyncFiles
    <3>1. queue' = queue /\ queuedBytes' = queuedBytes /\ imuQueue' = imuQueue
      BY <2>5, ZenonT(30) DEF SyncFiles
    <3> QED
      BY <1>6, <3>1
  <2>6. CASE CheckCameras
    <3>1. queue' = queue /\ queuedBytes' = queuedBytes /\ imuQueue' = imuQueue
      BY <2>6, ZenonT(30) DEF CheckCameras
    <3> QED
      BY <1>6, <3>1
  <2>7. CASE PublishDrained
    <3>1. queue' = queue /\ queuedBytes' = queuedBytes /\ imuQueue' = imuQueue
      BY <2>7, ZenonT(30) DEF PublishDrained
    <3> QED
      BY <1>6, <3>1
  <2> QED
    BY <1>10, <2>1, <2>2, <2>3, <2>4, <2>5, <2>6, <2>7
<1>11. CASE \/ CheckError \/ Verify \/ PublishComplete \/ WriterThrows
            \/ RecordWriterFailure \/ PublishFailed
  <2>1. CASE CheckError
    <3>1. queue' = queue /\ queuedBytes' = queuedBytes /\ imuQueue' = imuQueue
      BY <2>1, ZenonT(30) DEF CheckError
    <3> QED
      BY <1>6, <3>1
  <2>2. CASE Verify
    <3>1. queue' = queue /\ queuedBytes' = queuedBytes /\ imuQueue' = imuQueue
      BY <2>2, ZenonT(30) DEF Verify
    <3> QED
      BY <1>6, <3>1
  <2>3. CASE PublishComplete
    <3>1. queue' = queue /\ queuedBytes' = queuedBytes /\ imuQueue' = imuQueue
      BY <2>3, ZenonT(30) DEF PublishComplete
    <3> QED
      BY <1>6, <3>1
  <2>4. CASE WriterThrows
    <3>1. queue' = queue /\ queuedBytes' = queuedBytes /\ imuQueue' = imuQueue
      BY <2>4, ZenonT(30) DEF WriterThrows
    <3> QED
      BY <1>6, <3>1
  <2>5. CASE RecordWriterFailure
    <3>1. queue' = queue /\ queuedBytes' = queuedBytes /\ imuQueue' = imuQueue
      BY <2>5, ZenonT(30) DEF RecordWriterFailure
    <3> QED
      BY <1>6, <3>1
  <2>6. CASE PublishFailed
    <3>1. queue' = queue /\ queuedBytes' = queuedBytes /\ imuQueue' = imuQueue
      BY <2>6, ZenonT(30) DEF PublishFailed
    <3> QED
      BY <1>6, <3>1
  <2> QED
    BY <1>11, <2>1, <2>2, <2>3, <2>4, <2>5, <2>6
<1>12. CASE UNCHANGED vars
  BY <1>6, <1>12 DEF vars
<1> QED
  BY <1>1, <1>2, <1>3, <1>4, <1>5, <1>7, <1>8, <1>9, <1>10, <1>11, <1>12, NextCases

(* run() and append under one mutex: neither queue outgrows its limit, and *)
(* queued_bytes, raised by append and lowered by run(), is at any time the *)
(* size of what is queued.                                                 *)
THEOREM BudgetCorrect == Spec => []QueueBudget
<1>1. Init => QueueBudget
  BY BytesEmpty, ConstantsAssumption DEF Init, QueueBudget
<1>2. IInv /\ QueueBudget /\ [Next]_vars => QueueBudget'
  BY BudgetStep DEF IInv
<1> QED
  BY <1>1, <1>2, Invariance, PTL DEF Spec
=============================================================================
