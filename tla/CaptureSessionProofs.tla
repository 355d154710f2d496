------------------------- MODULE CaptureSessionProofs -------------------------
(***************************************************************************)
(* Proofs about CaptureSession, for any number of requests and captures:   *)
(* the one thread of OperationController is never used twice, the client   *)
(* is never closed under it, and no exchange outlives its capture.         *)
(***************************************************************************)
EXTENDS CaptureSession, TLAPS

USE DEF device, flags, guiVars, opVars, capVars, native, counters

(* An operation and the capture worker take turns on the thread, and       *)
(* worker_running_ covers the capture up to its last lines and an upgrade  *)
(* until it has lowered the flag.                                          *)
ThreadInv ==
    /\ operation = "none" \/ capture = "none"
    /\ capture \notin {"none", "clear"} => running
    /\ operation \in {"upgrade", "upgraded"} => running

(* A handler that waits for its join found the viewer idle, and nothing    *)
(* but another handler makes it busy again.                                *)
WaitingForIdle == {"joinOpen", "joinExposure", "joinCapture", "joinUpgrade"}
                  \cup (Kinds \ {"baud"})
WaitInv == /\ gui \in WaitingForIdle => ~running
           /\ gui \in WaitingForIdle \ {"joinOpen"} => open

(* Hence what runs on the thread has the client open to the point where it *)
(* closes it itself.                                                       *)
ClientInv ==
    /\ operation \in {"exposure", "upgrade"} \cup (Kinds \ {"baud"}) => open
    /\ capture \in BeforeStream \cup Streaming => open

IInv == TypeOK /\ ThreadInv /\ WaitInv /\ ClientInv /\ ExchangeEndsWithCapture

--------------------------------------------------------------------------------
LEMMA NotARequest == NoRequest \notin Requests /\ 0 \in Requests
BY BoundsAssumption DEF NoRequest, Requests

LEMMA InitTypes == Init => TypeOK
<1> SUFFICES ASSUME Init PROVE TypeOK
  OBVIOUS
<1>1. gui \in GuiStates /\ operation \in OperationStates /\ capture \in CaptureStates
  BY DEF Init, GuiStates, OperationStates, CaptureStates
<1>2. issued \in 0 .. MaxRequests /\ captures \in 0 .. MaxCaptures
  BY BoundsAssumption DEF Init
<1>3. /\ open \in BOOLEAN /\ commandPending \in BOOLEAN /\ busy \in BOOLEAN
      /\ upgrade \in BOOLEAN /\ running \in BOOLEAN /\ stop \in BOOLEAN /\ warned \in BOOLEAN
  BY DEF Init
<1>4. posts \in Seq({"exposure"} \cup Flags)
  BY DEF Init
<1>5. /\ guiRequest = NoRequest /\ gui = "idle"
      /\ opRequest = NoRequest /\ operation = "none"
      /\ taken = NoRequest /\ capture = "none"
  BY DEF Init
<1>6. /\ guiRequest # NoRequest <=> gui \in {"store", "joinExposure"}
      /\ opRequest # NoRequest <=> operation = "exposure"
      /\ taken # NoRequest <=> capture \in {"linkRun", "run"}
  BY <1>5
<1> QED
  BY <1>1, <1>2, <1>3, <1>4, <1>6 DEF Init, TypeOK

LEMMA InitIInv == Init => IInv
BY InitTypes
DEF Init, IInv, ThreadInv, WaitInv, ClientInv, ExchangeEndsWithCapture, WaitingForIdle, Kinds,
    BeforeStream, Streaming, Loop

(* The steps of each thread keep the types.                                *)
LEMMA UserTypes == ASSUME TypeOK, User PROVE TypeOK'
<1> USE DEF TypeOK, GuiStates
<1>1. CASE OpenDevice
  BY <1>1 DEF OpenDevice
<1>2. CASE \/ StartHostTimeSync \/ StartWifi \/ StartEncoding \/ StartTimeSyncMode
           \/ StartLidarPower \/ StartLidarNetwork \/ StartBaud
  <2>1. PICK kind \in Kinds : StartOperation(kind)
    BY <1>2 DEF StartHostTimeSync, StartWifi, StartEncoding, StartTimeSyncMode, StartLidarPower,
                StartLidarNetwork, StartBaud, Kinds
  <2> QED
    BY <2>1 DEF StartOperation, Kinds
<1>3. CASE StartUpgrade
  BY <1>3 DEF StartUpgrade
<1>4. CASE RequestExposure
  BY <1>4, NotARequest, BoundsAssumption DEF RequestExposure, Requests
<1>5. CASE StartCapture
  BY <1>5, BoundsAssumption DEF StartCapture
<1>6. CASE StopCapture
  BY <1>6 DEF StopCapture
<1>7. CASE CloseDevice
  BY <1>7 DEF CloseDevice
<1> QED
  BY <1>1, <1>2, <1>3, <1>4, <1>5, <1>6, <1>7 DEF User

LEMMA GuiTypes == ASSUME TypeOK, Gui PROVE TypeOK'
<1> USE DEF TypeOK
<1>1. CASE OpenJoined
  <2>1. gui' \in {"idle", "wifi"} /\ gui' \in GuiStates
    BY <1>1 DEF OpenJoined, GuiStates, Kinds
  <2>2. open' \in BOOLEAN /\ product' \in Products /\ commandPending' \in BOOLEAN
    BY <1>1 DEF OpenJoined
  <2> QED
    BY <1>1, <2>1, <2>2 DEF OpenJoined
<1>2. CASE OperationJoined
  <2>1. flagged' \subseteq Flags
    BY <1>2 DEF OperationJoined, Kinds, FlagOf, Flags
  <2>2. operation' \in OperationStates /\ operation # "exposure" /\ operation' # "exposure"
    BY <1>2 DEF OperationJoined, Joined, Kinds, OperationStates
  <2>3. gui \notin {"store", "joinExposure"} /\ gui' \in GuiStates /\ gui' = "idle"
    BY <1>2 DEF OperationJoined, Kinds, GuiStates
  <2> QED
    BY <1>2, <2>1, <2>2, <2>3 DEF OperationJoined
<1>3. CASE UpgradeJoined
  <2>1. running' \in BOOLEAN /\ upgrade' \in BOOLEAN /\ stop' \in BOOLEAN
    BY <1>3 DEF UpgradeJoined
  <2>2. operation' \in OperationStates /\ operation # "exposure" /\ operation' # "exposure"
    BY <1>3 DEF UpgradeJoined, Joined, OperationStates
  <2>3. gui' \in GuiStates
    BY <1>3 DEF UpgradeJoined, GuiStates
  <2> QED
    BY <1>3, <2>1, <2>2, <2>3 DEF UpgradeJoined
<1>4. CASE StoreRequest
  BY <1>4 DEF StoreRequest, GuiStates
<1>5. CASE ExposureJoined
  BY <1>5 DEF ExposureJoined, GuiStates, OperationStates
<1>6. CASE CaptureJoined
  <2>1. gui' \in GuiStates /\ capture' \in CaptureStates
    BY <1>6 DEF CaptureJoined, GuiStates, CaptureStates, BeforeStream
  <2> QED
    BY <1>6, <2>1 DEF CaptureJoined, Joined
<1>7. CASE CloseJoined
  <2>1. /\ open' \in BOOLEAN /\ commandPending' \in BOOLEAN /\ product' = product /\ gui' = "idle"
        /\ guiRequest' = guiRequest /\ guiRequest = NoRequest /\ gui' \in GuiStates
    BY <1>7 DEF CloseJoined, GuiStates
  <2>2. /\ busy' = busy /\ flagged' = flagged /\ upgrade' = upgrade /\ running' = running
        /\ stop' = stop /\ pending' = pending /\ posts' = posts /\ operation' = operation
        /\ opRequest' = opRequest /\ capture' = capture /\ taken' = taken /\ wire' = wire
        /\ warned' = warned /\ issued' = issued /\ captures' = captures /\ answered' = answered
    BY <1>7 DEF CloseJoined
  <2> QED
    BY <2>1, <2>2
<1>8. CASE HandlePost
  BY <1>8 DEF HandlePost
<1> QED
  BY <1>1, <1>2, <1>3, <1>4, <1>5, <1>6, <1>7, <1>8 DEF Gui

LEMMA RunIsOperation ==
  ASSUME \/ RunHostTimeSync \/ RunWifi \/ RunEncoding \/ RunBaud \/ RunTimeSyncMode
         \/ RunLidarPower \/ RunLidarNetwork
  PROVE  \E kind \in Kinds : RunOperation(kind)
BY DEF RunHostTimeSync, RunWifi, RunEncoding, RunBaud, RunTimeSyncMode, RunLidarPower,
       RunLidarNetwork, Kinds

LEMMA OperationTypes == ASSUME TypeOK, Operation PROVE TypeOK'
<1> USE DEF TypeOK, OperationStates
<1>1. CASE RunExposure
  BY <1>1 DEF RunExposure, Answer
<1>2. CASE \E kind \in Kinds : RunOperation(kind)
  <2>1. PICK kind \in Kinds : RunOperation(kind)
    BY <1>2
  <2> QED
    BY <2>1 DEF RunOperation, FlagOf, Flags, Kinds
<1>3. CASE RunUpgrade
  <2>1. /\ open' \in BOOLEAN /\ commandPending' \in BOOLEAN /\ product' = product
        /\ operation' \in OperationStates /\ operation # "exposure" /\ operation' # "exposure"
        /\ opRequest' = opRequest
    BY <1>3 DEF RunUpgrade
  <2>2. /\ busy' = busy /\ flagged' = flagged /\ upgrade' = upgrade /\ running' = running
        /\ stop' = stop /\ pending' = pending /\ posts' = posts /\ gui' = gui
        /\ guiRequest' = guiRequest /\ capture' = capture /\ taken' = taken /\ wire' = wire
        /\ warned' = warned /\ issued' = issued /\ captures' = captures /\ answered' = answered
    BY <1>3 DEF RunUpgrade
  <2> QED
    BY <2>1, <2>2
<1>4. CASE UpgradeEnds
  <2>1. upgrade' \in BOOLEAN /\ running' \in BOOLEAN
    BY <1>4 DEF UpgradeEnds
  <2>2. operation' \in OperationStates /\ operation # "exposure" /\ operation' # "exposure"
    BY <1>4 DEF UpgradeEnds
  <2> QED
    BY <1>4, <2>1, <2>2 DEF UpgradeEnds
<1>5. CASE OperationReturns
  BY <1>5 DEF OperationReturns
<1> QED
  BY <1>1, <1>2, <1>3, <1>4, <1>5, RunIsOperation DEF Operation

LEMMA BeginTypes ==
  ASSUME TypeOK, NEW request \in Requests, Begin(request)
  PROVE  /\ wire' \in Requests \cup {NoRequest} /\ warned' \in BOOLEAN
         /\ commandPending' \in BOOLEAN /\ answered' \subseteq Requests
         /\ posts' \in Seq({"exposure"} \cup Flags)
<1>1. CASE Answer(request) /\ UNCHANGED <<wire, warned, commandPending>>
  BY <1>1 DEF Answer, TypeOK
<1> QED
  BY <1>1 DEF Begin, TypeOK

LEMMA WorkerTypes == ASSUME TypeOK, Worker PROVE TypeOK'
<1> USE DEF TypeOK
<1>1. CASE WaitForLink
  BY <1>1 DEF WaitForLink, Take, CaptureStates, BeforeStream, Streaming
<1>2. CASE RunBeforeStream
  BY <1>2 DEF RunBeforeStream, Answer, CaptureStates, BeforeStream, Streaming
<1>3. CASE LinkCancelled
  BY <1>3 DEF LinkCancelled, CaptureStates, Ending
<1>4. CASE StartStreams
  <2>1. capture' \in CaptureStates /\ capture' \in {"fail", "begin", "check"}
    BY <1>4 DEF StartStreams, CaptureStates, Ending, Streaming, Loop
  <2>2. busy' \in BOOLEAN /\ answered' \subseteq Requests
    BY <1>4 DEF StartStreams
  <2> QED
    BY <1>4, <2>1, <2>2 DEF StartStreams
<1>5. CASE BeginInitial
  <2>1. capture' \in CaptureStates /\ capture' = "check"
    BY <1>5 DEF BeginInitial, CaptureStates, Streaming, Loop
  <2> QED
    BY <1>5, <2>1, BeginTypes, NotARequest DEF BeginInitial
<1>6. CASE CheckStop
  BY <1>6 DEF CheckStop, CaptureStates, Streaming, Loop
<1>7. CASE ProcessPending
  BY <1>7 DEF ProcessPending, Take, CaptureStates, Streaming, Loop
<1>8. CASE RunInCapture
  <2>1. capture' \in CaptureStates /\ capture' = "expire"
    BY <1>8 DEF RunInCapture, CaptureStates, Streaming, Loop
  <2>2. taken \in Requests
    BY <1>8 DEF RunInCapture
  <2>3. /\ wire' \in Requests \cup {NoRequest} /\ warned' \in BOOLEAN
        /\ commandPending' \in BOOLEAN /\ answered' \subseteq Requests
        /\ posts' \in Seq({"exposure"} \cup Flags)
    <3>1. CASE Begin(taken)
      BY <2>2, <3>1, BeginTypes
    <3>2. CASE Answer(taken) /\ UNCHANGED <<wire, warned, commandPending>>
      BY <2>2, <3>2 DEF Answer
    <3> QED
      BY <1>8, <3>1, <3>2 DEF RunInCapture
  <2> QED
    BY <1>8, <2>1, <2>3 DEF RunInCapture
<1>9. CASE Expire
  BY <1>9 DEF Expire, Answer, CaptureStates, Streaming, Loop
<1>10. CASE NotExpired
  BY <1>10 DEF NotExpired, CaptureStates, Streaming, Loop
<1>11. CASE ReadReply
  <2>1. capture' \in CaptureStates /\ capture' = "check"
    BY <1>11 DEF ReadReply, CaptureStates, Streaming, Loop
  <2>2. wire \in Requests /\ commandPending' \in BOOLEAN
    BY <1>11 DEF ReadReply
  <2> QED
    BY <1>11, <2>1, <2>2 DEF ReadReply, Answer
<1>12. CASE ReadOther
  BY <1>12 DEF ReadOther, CaptureStates, Streaming, Loop, Ending
<1>13. CASE StopStreams
  BY <1>13 DEF StopStreams, CaptureStates, Ending
<1>14. CASE CaptureFails
  <2>1. /\ open' \in BOOLEAN /\ commandPending' \in BOOLEAN /\ product' = product
        /\ capture' \in CaptureStates /\ taken' = taken
        /\ capture \notin {"linkRun", "run"} /\ capture' \notin {"linkRun", "run"}
    BY <1>14 DEF CaptureFails, CaptureStates, Ending
  <2>2. /\ busy' = busy /\ flagged' = flagged /\ upgrade' = upgrade /\ running' = running
        /\ stop' = stop /\ pending' = pending /\ posts' = posts /\ gui' = gui
        /\ guiRequest' = guiRequest /\ operation' = operation /\ opRequest' = opRequest
        /\ wire' = wire /\ warned' = warned /\ issued' = issued /\ captures' = captures
        /\ answered' = answered
    BY <1>14 DEF CaptureFails
  <2> QED
    BY <2>1, <2>2
<1>15. CASE CancelPending
  <2> DEFINE cancelled == {pending, wire} \ {NoRequest}
  <2>1. cancelled \subseteq Requests /\ capture' \in CaptureStates
    BY <1>15 DEF CancelPending, CaptureStates, Ending
  <2>2. \/ posts' = Append(posts, "exposure") /\ answered' = answered \cup cancelled
        \/ UNCHANGED <<posts, answered>>
    BY <1>15 DEF CancelPending
  <2>3. posts' \in Seq({"exposure"} \cup Flags) /\ answered' \subseteq Requests
    <3> HIDE DEF cancelled
    <3> QED
      BY <2>1, <2>2, SMTT(30)
  <2> QED
    BY <1>15, <2>1, <2>3 DEF CancelPending
<1>16. CASE ClearRunning
  <2>1. /\ running' \in BOOLEAN
        /\ open' = open /\ product' = product /\ commandPending' = commandPending
        /\ busy' = busy /\ flagged' = flagged /\ upgrade' = upgrade /\ stop' = stop
        /\ pending' = pending /\ posts' = posts /\ gui' = gui /\ guiRequest' = guiRequest
        /\ operation' = operation /\ opRequest' = opRequest /\ capture' = capture /\ taken' = taken
        /\ wire' = wire /\ warned' = warned /\ issued' = issued /\ captures' = captures
        /\ answered' = answered
    BY <1>16 DEF ClearRunning
  <2> QED
    BY <2>1
<1>17. CASE CaptureReturns
  BY <1>17 DEF CaptureReturns, CaptureStates
<1> QED
  BY <1>1, <1>2, <1>3, <1>4, <1>5, <1>6, <1>7, <1>8, <1>9, <1>10, <1>11, <1>12, <1>13, <1>14,
     <1>15, <1>16, <1>17 DEF Worker

(***************************************************************************)
(* What the steps of each thread do to the others, in the variables that   *)
(* the thread, the wait and the client invariants are about.               *)
(***************************************************************************)
(* A thread is started by a handler that came back from its join.          *)
LEMMA GuiKeeps ==
  ASSUME TypeOK, ThreadInv, WaitInv, ClientInv, User \/ Gui
  PROVE  (ThreadInv /\ WaitInv /\ ClientInv)'
<1> USE DEF ThreadInv, WaitInv, ClientInv, WaitingForIdle, Kinds, BeforeStream, Streaming, Loop
<1>1. CASE OpenDevice \/ OpenJoined
  BY <1>1 DEF OpenDevice, OpenJoined, Joined
<1>2. CASE \/ StartHostTimeSync \/ StartWifi \/ StartEncoding \/ StartTimeSyncMode
           \/ StartLidarPower \/ StartLidarNetwork \/ StartBaud
  BY <1>2 DEF StartHostTimeSync, StartWifi, StartEncoding, StartTimeSyncMode, StartLidarPower,
              StartLidarNetwork, StartBaud, StartOperation
<1>3. CASE OperationJoined
  BY <1>3 DEF OperationJoined, Joined
<1>4. CASE StartUpgrade \/ UpgradeJoined
  BY <1>4 DEF StartUpgrade, UpgradeJoined, Joined
<1>5. CASE RequestExposure \/ StoreRequest \/ ExposureJoined
  BY <1>5 DEF RequestExposure, StoreRequest, ExposureJoined, Joined
<1>6. CASE StartCapture \/ CaptureJoined \/ StopCapture
  BY <1>6 DEF StartCapture, CaptureJoined, StopCapture, Joined
<1>7. CASE CloseDevice \/ CloseJoined
  BY <1>7 DEF CloseDevice, CloseJoined, Joined
<1>8. CASE HandlePost
  BY <1>8 DEF HandlePost
<1> QED
  BY <1>1, <1>2, <1>3, <1>4, <1>5, <1>6, <1>7, <1>8 DEF User, Gui

(* An operation runs while no capture does, and only the upgrade closes    *)
(* the client, when worker_running_ keeps every handler from waiting.      *)
LEMMA OperationKeeps ==
  ASSUME TypeOK, ThreadInv, WaitInv, ClientInv, Operation
  PROVE  (ThreadInv /\ WaitInv /\ ClientInv)'
<1> USE DEF ThreadInv, WaitInv, ClientInv, WaitingForIdle, Kinds, BeforeStream, Streaming, Loop
<1>1. CASE RunExposure \/ \E kind \in Kinds : RunOperation(kind)
  BY <1>1 DEF RunExposure, RunOperation
<1>2. CASE RunUpgrade
  BY <1>2 DEF RunUpgrade
<1>3. CASE UpgradeEnds \/ OperationReturns
  BY <1>3 DEF UpgradeEnds, OperationReturns
<1> QED
  BY <1>1, <1>2, <1>3, RunIsOperation DEF Operation

(* A capture closes the client only on its way to the end, and lowers      *)
(* worker_running_ only in its last lines.                                 *)
LEMMA WorkerKeeps ==
  ASSUME TypeOK, ThreadInv, WaitInv, ClientInv, Worker
  PROVE  (ThreadInv /\ WaitInv /\ ClientInv)'
<1> USE DEF ThreadInv, WaitInv, ClientInv, WaitingForIdle, Kinds, BeforeStream, Streaming, Loop
<1>1. CASE WaitForLink \/ RunBeforeStream \/ LinkCancelled \/ StartStreams
  BY <1>1 DEF WaitForLink, RunBeforeStream, LinkCancelled, StartStreams, Take
<1>2. CASE BeginInitial \/ CheckStop \/ ProcessPending \/ RunInCapture
  BY <1>2 DEF BeginInitial, CheckStop, ProcessPending, RunInCapture, Take
<1>3. CASE Expire \/ NotExpired \/ ReadReply \/ ReadOther \/ StopStreams
  BY <1>3 DEF Expire, NotExpired, ReadReply, ReadOther, StopStreams
<1>4. CASE CaptureFails \/ CancelPending
  BY <1>4 DEF CaptureFails, CancelPending
<1>5. CASE ClearRunning \/ CaptureReturns
  BY <1>5 DEF ClearRunning, CaptureReturns
<1> QED
  BY <1>1, <1>2, <1>3, <1>4, <1>5 DEF Worker

(* Only the capture worker begins an exchange, and CancelPending, which it *)
(* passes on its way out, forgets it.                                      *)
LEMMA ExchangeStep ==
  ASSUME TypeOK, ExchangeEndsWithCapture, Next
  PROVE  ExchangeEndsWithCapture'
<1> USE DEF ExchangeEndsWithCapture
<1>1. CASE User \/ Gui
  <2>1. wire' = wire /\ (capture' = capture \/ capture' = "link")
    BY <1>1 DEF User, Gui, OpenDevice, OpenJoined, StartHostTimeSync, StartWifi, StartEncoding,
      StartTimeSyncMode, StartLidarPower, StartLidarNetwork, StartBaud, StartOperation,
      OperationJoined, StartUpgrade, UpgradeJoined, RequestExposure, StoreRequest, ExposureJoined,
      StartCapture, CaptureJoined, StopCapture, CloseDevice, CloseJoined, HandlePost
  <2> QED
    BY <2>1
<1>2. CASE Operation
  <2>1. UNCHANGED <<wire, capture>>
    BY <1>2, RunIsOperation DEF Operation, RunExposure, RunOperation, RunUpgrade, UpgradeEnds,
      OperationReturns
  <2> QED
    BY <2>1
<1>3. CASE CancelPending \/ ClearRunning \/ CaptureReturns
  BY <1>3 DEF CancelPending, ClearRunning, CaptureReturns
<1>4. CASE Worker /\ ~(CancelPending \/ ClearRunning \/ CaptureReturns)
  <2>1. capture' \notin {"none", "clear"}
    BY <1>4 DEF Worker, WaitForLink, RunBeforeStream, LinkCancelled, StartStreams, BeginInitial,
      CheckStop, ProcessPending, RunInCapture, Expire, NotExpired, ReadReply, ReadOther,
      StopStreams, CaptureFails, Take
  <2> QED
    BY <2>1
<1> QED
  BY <1>1, <1>2, <1>3, <1>4 DEF Next

--------------------------------------------------------------------------------
(* The inductive invariant holds in every reachable state.                 *)
THEOREM CaptureCorrect == Spec => []IInv
<1>1. Init => IInv
  BY InitIInv
<1>2. IInv /\ [Next]_vars => IInv'
  <2> SUFFICES ASSUME IInv, [Next]_vars PROVE IInv'
    OBVIOUS
  <2>1. CASE Next
    BY <2>1, UserTypes, GuiTypes, OperationTypes, WorkerTypes, GuiKeeps, OperationKeeps, WorkerKeeps,
       ExchangeStep, Zenon DEF Next, IInv
  <2>2. CASE UNCHANGED vars
    BY <2>2 DEF vars, IInv, TypeOK, ThreadInv, WaitInv, ClientInv, ExchangeEndsWithCapture
  <2> QED
    BY <2>1, <2>2
<1> QED
  BY <1>1, <1>2, PTL DEF Spec

(* The one std::thread of OperationController runs one task at a time, and *)
(* worker_running_ is down only once the capture is in its last lines      *)
(* (operation_controller.hpp).                                             *)
THEOREM OneThreadCorrect == Spec => []OneThread
<1>1. IInv => OneThread
  BY DEF IInv, ThreadInv, OneThread
<1> QED
  BY <1>1, CaptureCorrect, PTL

(* The client is open whenever an operation or a stream is about to use    *)
(* it, in whatever order handlers, failures and late answers come.         *)
THEOREM ClosedCorrect == Spec => []ClosedIsQuiet
<1>1. IInv => ClosedIsQuiet
  BY DEF IInv, ClientInv, ClosedIsQuiet
<1> QED
  BY <1>1, CaptureCorrect, PTL

(* A row/gain exchange ends with the capture that began it, so that no     *)
(* later capture waits for its reply (NativeCameraControl).                *)
THEOREM ExchangeCorrect == Spec => []ExchangeEndsWithCapture
<1>1. IInv => ExchangeEndsWithCapture
  BY DEF IInv
<1> QED
  BY <1>1, CaptureCorrect, PTL
================================================================================
