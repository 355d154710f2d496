--------------------------- MODULE CaptureSession ---------------------------
(***************************************************************************)
(* The threads that share one opened device: the GUI thread, the single    *)
(* std::thread of OperationController, which runs either one short device  *)
(* operation or the capture worker, and the queue of closures both post    *)
(* back to the GUI (MainWindow::post).                                     *)
(*                                                                         *)
(* Every handler that needs the device for itself joins that one thread,   *)
(* raises its flag and starts its operation; the operation posts a closure *)
(* that lowers the flag.  The guards here are those of the handlers and of *)
(* refreshControls together, which enables the buttons; the system upgrade *)
(* runs as an operation that also claims worker_running_.                  *)
(*                                                                         *)
(* What the model follows in detail is the exposure request: the GUI starts *)
(* an operation for it or leaves it in pending_camera_exposure_request_    *)
(* for the capture worker, and whoever takes it must post an answer, the   *)
(* only thing that clears camera_exposure_operation_running_ (busy here).  *)
(* Every guard of the buttons reads busy, so a request nobody answers      *)
(* also keeps the device from being closed or captured from.               *)
(*                                                                         *)
(* Device answers, failures and the passing of the 5 s deadline are        *)
(* choices.  What an answer says is left out.                              *)
(***************************************************************************)
EXTENDS Naturals, Sequences

CONSTANTS MaxRequests,   \* bound: exposure requests the user makes
          MaxCaptures    \* bound: times the user starts capture

ASSUME BoundsAssumption == MaxRequests \in Nat /\ MaxCaptures \in Nat

\* Request 0 is the row/gain GET the capture worker itself begins with.
Requests == 0 .. MaxRequests
NoRequest == MaxRequests + 1

Products == {"native", "legacy"}

\* The operations besides exposure, and the flag each one raises.
Kinds == {"timeSync", "wifi", "encoding", "portMode", "baud",
          "lidarPower", "lidarNetwork"}
Flags == {"timeSync", "wifi", "encoding", "lidar"}
FlagOf(kind) == IF kind \in {"portMode", "baud"} THEN "encoding"
                ELSE IF kind \in {"lidarPower", "lidarNetwork"} THEN "lidar"
                ELSE kind

\* Where the GUI thread is inside a handler; "idle" is its event loop.  A
\* join state is a handler blocked in OperationController::join; a kind is
\* the join before an operation of that kind.
GuiStates == {"idle", "store", "joinOpen", "joinExposure",
              "joinCapture", "joinUpgrade", "joinClose"} \cup Kinds

\* The short operation; "posted" is the rest of the thread after its post
\* and "upgraded" the rest of the upgrade after it closed the client.
OperationStates == {"none", "exposure", "upgrade", "upgraded", "posted"}
                   \cup Kinds

\* workerMain.  "link" waits for the sensor board, the states from "check"
\* to "read" are one round of the capture loop, the ones from "cancel" on
\* are the common end.
BeforeStream == {"link", "linkRun"}
Loop         == {"check", "process", "run", "expire", "read"}
Streaming    == {"start", "begin"} \cup Loop \cup {"stop"}
Ending       == {"fail", "cancel", "clear"}
CaptureStates == {"none"} \cup BeforeStream \cup Streaming \cup Ending

VARIABLES
    open,       \* client_.isOpen()
    product,    \* capture_model_: 415RSV0 has the native row/gain interface
    busy,       \* camera_exposure_operation_running_
    flagged,    \* the ..._running_ flags of the kinds that are set
    upgrade,    \* upgrade_running_
    running,    \* worker_running_
    stop,       \* stop_requested_
    pending,    \* pending_camera_exposure_request_
    posts,      \* closures queued for the GUI that change one of the above
    gui, guiRequest,        \* the GUI thread and the request it handles
    operation, opRequest,   \* the short operation and its request
    capture, taken,         \* the capture worker and the request it took
    wire, warned,           \* NativeCameraControl: the request waited for
    commandPending,         \* client_.cameraControlPending()
    issued, captures,       \* requests and captures so far, for the bounds
    answered                \* history: requests an answer was posted for

device   == <<open, product, commandPending>>
flags    == <<busy, flagged, upgrade, running, stop>>
guiVars  == <<gui, guiRequest>>
opVars   == <<operation, opRequest>>
capVars  == <<capture, taken>>
native   == <<wire, warned>>
counters == <<issued, captures>>

vars == <<device, flags, pending, posts, guiVars, opVars, capVars, native,
          counters, answered>>

TypeOK ==
    /\ open \in BOOLEAN /\ product \in Products
    /\ commandPending \in BOOLEAN
    /\ busy \in BOOLEAN /\ flagged \subseteq Flags /\ upgrade \in BOOLEAN
    /\ running \in BOOLEAN /\ stop \in BOOLEAN
    /\ pending \in Requests \cup {NoRequest}
    /\ posts \in Seq({"exposure"} \cup Flags)
    /\ gui \in GuiStates /\ guiRequest \in Requests \cup {NoRequest}
    /\ operation \in OperationStates
    /\ opRequest \in Requests \cup {NoRequest}
    /\ capture \in CaptureStates /\ taken \in Requests \cup {NoRequest}
    /\ wire \in Requests \cup {NoRequest} /\ warned \in BOOLEAN
    /\ issued \in 0 .. MaxRequests /\ captures \in 0 .. MaxCaptures
    /\ answered \subseteq Requests
    \* What a thread holds follows from where it is.
    /\ guiRequest # NoRequest <=> gui \in {"store", "joinExposure"}
    /\ opRequest # NoRequest <=> operation = "exposure"
    /\ taken # NoRequest <=> capture \in {"linkRun", "run"}

Init ==
    /\ open = FALSE /\ product \in Products /\ commandPending = FALSE
    /\ busy = FALSE /\ flagged = {} /\ upgrade = FALSE /\ running = FALSE /\ stop = FALSE
    /\ pending = NoRequest /\ posts = <<>>
    /\ gui = "idle" /\ guiRequest = NoRequest
    /\ operation = "none" /\ opRequest = NoRequest
    /\ capture = "none" /\ taken = NoRequest
    /\ wire = NoRequest /\ warned = FALSE
    /\ issued = 0 /\ captures = 0 /\ answered = {}

-----------------------------------------------------------------------------
(* The GUI thread.                                                         *)

\* The same join when it forgets the capture worker's last lines.
Joined_Fault == operation = "none" /\ ~running

\* OperationController::join: the one thread has returned.
Joined == operation = "none" /\ capture = "none"

\* openDevice joins whatever ran last before it opens.
OpenDevice ==
    /\ gui = "idle" /\ ~running /\ "wifi" \notin flagged /\ ~open
    /\ gui' = "joinOpen"
    /\ UNCHANGED <<device, flags, pending, posts, guiRequest, opVars, capVars,
                   native, counters, answered>>

\* The device opens and the hotspot status is read, unless that operation is
\* refused; or opening fails.
OpenJoined ==
    /\ gui = "joinOpen" /\ Joined
    /\ \/ /\ open' = TRUE /\ product' \in Products /\ commandPending' = FALSE
          /\ gui' = IF busy \/ flagged \ {"lidar"} # {} THEN "idle" ELSE "wifi"
       \/ /\ gui' = "idle" /\ UNCHANGED device
    /\ UNCHANGED <<flags, pending, posts, guiRequest, opVars, capVars, native,
                   counters, answered>>

\* What refreshControls and the guards of the handlers ask in common.
Unlocked == flagged = {} /\ ~busy /\ ~upgrade

\* What the handlers of the operations share up to their join.
StartOperation(kind) ==
    /\ gui = "idle" /\ open /\ Unlocked
    /\ gui' = kind
    /\ UNCHANGED <<device, flags, pending, posts, guiRequest, opVars, capVars,
                   native, counters, answered>>

StartHostTimeSync   == ~running /\ StartOperation("timeSync")
StartWifi           == ~running /\ StartOperation("wifi")
StartEncoding       == ~running /\ StartOperation("encoding")
StartTimeSyncMode   == ~running /\ StartOperation("portMode")
StartLidarPower     == ~running /\ StartOperation("lidarPower")
StartLidarNetwork   == ~running /\ StartOperation("lidarNetwork")
\* The GNSS baud: the handler of the encoding, which neither its own guard
\* nor the lock of the panel closes while capture runs.
StartBaud           == StartOperation("baud")

\* The rest of these handlers: the flag, then the thread.
OperationJoined ==
    /\ gui \in Kinds /\ Joined
    /\ flagged' = flagged \cup {FlagOf(gui)} /\ operation' = gui
    /\ gui' = "idle"
    /\ UNCHANGED <<device, busy, upgrade, running, stop, pending, posts,
                   guiRequest, opRequest, capVars, native, counters, answered>>

\* startSystemUpgrade; the user confirms the package after the join.
StartUpgrade ==
    /\ gui = "idle" /\ open /\ Unlocked /\ ~running
    /\ gui' = "joinUpgrade"
    /\ UNCHANGED <<device, flags, pending, posts, guiRequest, opVars, capVars,
                   native, counters, answered>>

UpgradeJoined ==
    /\ gui = "joinUpgrade" /\ Joined
    /\ \/ /\ running' = TRUE /\ upgrade' = TRUE /\ stop' = FALSE
          /\ operation' = "upgrade"
       \/ UNCHANGED <<running, upgrade, stop, operation>>   \* not confirmed
    /\ gui' = "idle"
    /\ UNCHANGED <<device, busy, flagged, pending, posts, guiRequest,
                   opRequest, capVars, native, counters, answered>>

\* startCameraExposureOperation and startNativeCameraControlOperation: take
\* the flag, then read worker_running_ to choose who executes the request.
RequestExposure ==
    /\ gui = "idle" /\ open /\ Unlocked
    /\ issued < MaxRequests
    /\ issued' = issued + 1 /\ guiRequest' = issued + 1
    /\ busy' = TRUE
    /\ gui' = IF running THEN "store" ELSE "joinExposure"
    /\ UNCHANGED <<device, flagged, upgrade, running, stop, pending, posts, opVars,
                   capVars, native, captures, answered>>

StoreRequest ==
    /\ gui = "store"
    /\ pending' = guiRequest
    /\ gui' = "idle" /\ guiRequest' = NoRequest
    /\ UNCHANGED <<device, flags, posts, opVars, capVars, native, counters,
                   answered>>

ExposureJoined ==
    /\ gui = "joinExposure" /\ Joined
    /\ operation' = "exposure" /\ opRequest' = guiRequest
    /\ gui' = "idle" /\ guiRequest' = NoRequest
    /\ UNCHANGED <<device, flags, pending, posts, capVars, native, counters,
                   answered>>

StartCapture ==
    /\ gui = "idle" /\ open /\ Unlocked /\ ~running
    /\ captures < MaxCaptures
    /\ captures' = captures + 1 /\ gui' = "joinCapture"
    /\ UNCHANGED <<device, flags, pending, posts, guiRequest, opVars, capVars,
                   native, issued, answered>>

CaptureJoined ==
    /\ gui = "joinCapture" /\ Joined
    /\ stop' = FALSE /\ running' = TRUE
    /\ capture' = "link" /\ gui' = "idle"
    /\ UNCHANGED <<device, busy, flagged, upgrade, pending, posts, guiRequest, opVars,
                   taken, native, counters, answered>>

StopCapture ==
    /\ gui = "idle" /\ running /\ ~stop
    /\ stop' = TRUE
    /\ UNCHANGED <<device, busy, flagged, upgrade, running, pending, posts, guiVars,
                   opVars, capVars, native, counters, answered>>

\* A close that joins a running capture without asking it to stop.
CloseDevice_Fault ==
    /\ gui = "idle" /\ flagged \subseteq {"lidar"} /\ ~busy /\ ~upgrade
    /\ gui' = "joinClose"
    /\ UNCHANGED <<device, flags, pending, posts, guiRequest,
                   opVars, capVars, native, counters, answered>>

\* closeDevice: with capture running stopWorker asks it to stop; either way
\* the handler joins before it closes the client.
CloseDevice ==
    /\ gui = "idle" /\ flagged \subseteq {"lidar"} /\ ~busy /\ ~upgrade
    /\ stop' = (stop \/ running)
    /\ gui' = "joinClose"
    /\ UNCHANGED <<device, busy, flagged, upgrade, running, pending, posts, guiRequest,
                   opVars, capVars, native, counters, answered>>

\* A close that trusts the busy flag and joins only a running capture.
CloseJoined_Fault ==
    /\ gui = "joinClose" /\ (stop => capture = "none")
    /\ open' = FALSE /\ commandPending' = FALSE /\ gui' = "idle"
    /\ UNCHANGED <<product, flags, pending, posts, guiRequest, opVars, capVars,
                   native, counters, answered>>

CloseJoined ==
    /\ gui = "joinClose" /\ Joined
    /\ open' = FALSE /\ commandPending' = FALSE /\ gui' = "idle"
    /\ UNCHANGED <<product, flags, pending, posts, guiRequest, opVars, capVars,
                   native, counters, answered>>

\* The event loop runs the oldest posted closure.
HandlePost ==
    /\ gui = "idle" /\ posts # <<>>
    /\ posts' = Tail(posts)
    /\ busy' = (busy /\ Head(posts) # "exposure")
    /\ flagged' = flagged \ {Head(posts)}
    /\ UNCHANGED <<device, upgrade, running, stop, pending, guiVars, opVars, capVars,
                   native, counters, answered>>

Gui == OpenJoined \/ OperationJoined \/ UpgradeJoined \/ StoreRequest \/ ExposureJoined
       \/ CaptureJoined \/ CloseJoined \/ HandlePost

User == OpenDevice \/ StartHostTimeSync \/ StartWifi \/ StartEncoding
        \/ StartTimeSyncMode \/ StartLidarPower \/ StartLidarNetwork
        \/ StartBaud \/ StartUpgrade \/ RequestExposure \/ StartCapture
        \/ StopCapture \/ CloseDevice

-----------------------------------------------------------------------------
(* The short operations.                                                   *)

\* publishNativeIdle, publishNativeLive, publishCameraExposureResult and
\* publishCameraExposureError all post a closure that clears busy.
Answer(request) ==
    /\ posts' = Append(posts, "exposure")
    /\ answered' = answered \cup {request}

\* runCameraExposureOperation: every path, the exceptional ones included,
\* ends in one answer.
RunExposure ==
    /\ operation = "exposure"
    /\ Answer(opRequest)
    /\ operation' = "posted" /\ opRequest' = NoRequest
    /\ UNCHANGED <<device, flags, pending, guiVars, capVars, native, counters>>

\* Success and failure both post the closure that lowers the flag.
RunOperation(kind) ==
    /\ operation = kind
    /\ posts' = Append(posts, FlagOf(kind))
    /\ operation' = "posted"
    /\ UNCHANGED <<device, flags, pending, guiVars, opRequest, capVars, native,
                   counters, answered>>

RunHostTimeSync == RunOperation("timeSync")
RunWifi         == RunOperation("wifi")
RunEncoding     == RunOperation("encoding")
RunBaud         == RunOperation("baud")
RunTimeSyncMode == RunOperation("portMode")
RunLidarPower   == RunOperation("lidarPower")
RunLidarNetwork == RunOperation("lidarNetwork")

OperationReturns ==
    /\ operation = "posted"
    /\ operation' = "none"
    /\ UNCHANGED <<device, flags, pending, posts, guiVars, opRequest, capVars,
                   native, counters, answered>>

\* An upgrade closes the client however it ended, then lowers its two flags
\* itself.  A stop request meanwhile is left for the next capture to clear.
RunUpgrade ==
    /\ operation = "upgrade"
    /\ open' = FALSE /\ commandPending' = FALSE /\ operation' = "upgraded"
    /\ UNCHANGED <<product, flags, pending, posts, guiVars, opRequest, capVars,
                   native, counters, answered>>

UpgradeEnds ==
    /\ operation = "upgraded"
    /\ IF upgrade
         THEN upgrade' = FALSE /\ UNCHANGED <<running, operation>>
         ELSE running' = FALSE /\ operation' = "posted" /\ UNCHANGED upgrade
    /\ UNCHANGED <<device, busy, flagged, stop, pending, posts, guiVars,
                   opRequest, capVars, native, counters, answered>>

Operation == RunExposure \/ RunHostTimeSync \/ RunWifi \/ RunEncoding
             \/ RunBaud \/ RunTimeSyncMode \/ RunLidarPower
             \/ RunLidarNetwork \/ RunUpgrade \/ UpgradeEnds
             \/ OperationReturns

-----------------------------------------------------------------------------
(* The capture worker.                                                     *)

\* processPendingCameraExposureOperation takes the request under the mutex.
Take(next) ==
    /\ taken' = pending /\ pending' = NoRequest
    /\ capture' = next

WaitForLink ==
    /\ capture = "link" /\ ~stop
    /\ IF pending # NoRequest
         THEN Take("linkRun")
         ELSE \* the board is online, or another round
              /\ capture' \in {"start", "link"}
              /\ UNCHANGED <<taken, pending>>
    /\ UNCHANGED <<device, flags, posts, guiVars, opVars, native, counters,
                   answered>>

\* Before the streams start a request runs synchronously; a native one is
\* refused because worker_running_ is set.  Both answer.
RunBeforeStream ==
    /\ capture = "linkRun"
    /\ Answer(taken)
    /\ taken' = NoRequest
    /\ capture' \in {"link", "start"}
    /\ UNCHANGED <<device, flags, pending, guiVars, opVars, native, counters>>

LinkCancelled ==
    /\ capture = "link" /\ stop
    /\ capture' = "cancel"
    /\ UNCHANGED <<device, flags, pending, posts, guiVars, opVars, taken,
                   native, counters, answered>>

\* The streams start, or starting them throws.  415RSV0 first marks the
\* operation as running for a GET of its own.
StartStreams ==
    /\ capture = "start"
    /\ \/ capture' = "fail" /\ UNCHANGED <<busy, answered>>
       \/ /\ product = "native"
          /\ busy' = TRUE /\ answered' = answered \ {0}
          /\ capture' = "begin"
       \/ /\ product = "legacy"
          /\ capture' = "check" /\ UNCHANGED <<busy, answered>>
    /\ UNCHANGED <<device, flagged, upgrade, running, stop, pending, posts, guiVars,
                   opVars, taken, native, counters>>

\* NativeCameraControl::begin: refused while an exchange is unconfirmed; the
\* client may refuse it too.  A refusal is the answer.
Begin(request) ==
    \/ /\ wire = NoRequest /\ ~commandPending
       /\ wire' = request /\ warned' = FALSE /\ commandPending' = TRUE
       /\ UNCHANGED <<posts, answered>>
    \/ /\ Answer(request)
       /\ UNCHANGED <<wire, warned, commandPending>>

BeginInitial ==
    /\ capture = "begin"
    /\ Begin(0)
    /\ capture' = "check"
    /\ UNCHANGED <<open, product, flags, pending, guiVars, opVars, taken,
                   counters>>

CheckStop ==
    /\ capture = "check"
    /\ capture' = IF stop THEN "stop" ELSE "process"
    /\ UNCHANGED <<device, flags, pending, posts, guiVars, opVars, taken,
                   native, counters, answered>>

ProcessPending ==
    /\ capture = "process"
    /\ IF pending # NoRequest
         THEN Take("run")
         ELSE capture' = "expire" /\ UNCHANGED <<taken, pending>>
    /\ UNCHANGED <<device, flags, posts, guiVars, opVars, native, counters,
                   answered>>

\* During capture a native request is only begun; a legacy one runs to its
\* answer on this thread.
RunInCapture ==
    /\ capture = "run"
    /\ \/ product = "native" /\ Begin(taken)
       \/ /\ product = "legacy" /\ Answer(taken)
          /\ UNCHANGED <<wire, warned, commandPending>>
    /\ taken' = NoRequest
    /\ capture' = "expire"
    /\ UNCHANGED <<open, product, flags, pending, guiVars, opVars, counters>>

\* NativeCameraControl::expired: past the deadline, reported once.
Expire ==
    /\ capture = "expire" /\ wire # NoRequest /\ ~warned
    /\ warned' = TRUE
    /\ Answer(wire)
    /\ capture' = "read"
    /\ UNCHANGED <<device, flags, pending, guiVars, opVars, taken, wire,
                   counters>>

NotExpired ==
    /\ capture = "expire"
    /\ capture' = "read"
    /\ UNCHANGED <<device, flags, pending, posts, guiVars, opVars, taken,
                   native, counters, answered>>

\* One frame is read: the matching reply, an invalid one (the client then
\* keeps its exchange pending), any other frame or a timeout.
ReadReply ==
    /\ capture = "read" /\ wire # NoRequest
    /\ Answer(wire)
    /\ wire' = NoRequest
    /\ commandPending' \in {FALSE, commandPending}
    /\ capture' = "check"
    /\ UNCHANGED <<open, product, flags, pending, guiVars, opVars, taken,
                   warned, counters>>

ReadOther ==
    /\ capture = "read"
    /\ capture' \in {"check", "fail"}   \* "fail": the transport is gone
    /\ UNCHANGED <<device, flags, pending, posts, guiVars, opVars, taken,
                   native, counters, answered>>

StopStreams ==
    /\ capture = "stop"
    /\ capture' \in {"cancel", "fail"}
    /\ UNCHANGED <<device, flags, pending, posts, guiVars, opVars, taken,
                   native, counters, answered>>

\* The outer catch closes the transport.
CaptureFails ==
    /\ capture = "fail"
    /\ open' = FALSE /\ commandPending' = FALSE
    /\ capture' = "cancel"
    /\ UNCHANGED <<product, flags, pending, posts, guiVars, opVars, taken,
                   native, counters, answered>>

\* A cancellation that reports only the request nobody took.
CancelPending_SilentFault ==
    /\ capture = "cancel"
    /\ IF pending # NoRequest
         THEN Answer(pending)
         ELSE UNCHANGED <<posts, answered>>
    /\ pending' = NoRequest /\ wire' = NoRequest /\ warned' = FALSE
    /\ capture' = "clear"
    /\ UNCHANGED <<device, flags, guiVars, opVars, taken, counters>>

\* A cancellation that leaves the exchange of the ended capture waiting.
CancelPending_KeepFault ==
    /\ capture = "cancel"
    /\ IF pending # NoRequest
         THEN Answer(pending)
         ELSE UNCHANGED <<posts, answered>>
    /\ pending' = NoRequest
    /\ capture' = "clear"
    /\ UNCHANGED <<device, flags, guiVars, opVars, taken, native, counters>>

\* cancelPendingCameraExposureOperation: one answer for the request never
\* taken and the exchange never finished.
CancelPending ==
    /\ capture = "cancel"
    /\ LET cancelled == {pending, wire} \ {NoRequest}
       IN IF cancelled # {}
            THEN /\ posts' = Append(posts, "exposure")
                 /\ answered' = answered \cup cancelled
            ELSE UNCHANGED <<posts, answered>>
    /\ pending' = NoRequest /\ wire' = NoRequest /\ warned' = FALSE
    /\ capture' = "clear"
    /\ UNCHANGED <<device, flags, guiVars, opVars, taken, counters>>

ClearRunning ==
    /\ capture = "clear" /\ running
    /\ running' = FALSE
    /\ UNCHANGED <<device, busy, flagged, upgrade, stop, pending, posts, guiVars, opVars,
                   capVars, native, counters, answered>>

CaptureReturns ==
    /\ capture = "clear" /\ ~running
    /\ capture' = "none"
    /\ UNCHANGED <<device, flags, pending, posts, guiVars, opVars, taken,
                   native, counters, answered>>

Worker == WaitForLink \/ RunBeforeStream \/ LinkCancelled \/ StartStreams
          \/ BeginInitial \/ CheckStop \/ ProcessPending \/ RunInCapture
          \/ Expire \/ NotExpired \/ ReadReply \/ ReadOther \/ StopStreams
          \/ CaptureFails \/ CancelPending \/ ClearRunning \/ CaptureReturns

-----------------------------------------------------------------------------
Next == User \/ Gui \/ Operation \/ Worker

\* The GUI returns to its event loop, the threads run, and the deadline of
\* an exchange passes.  The user owes nothing, nor does the device.
Fairness == WF_vars(Gui) /\ WF_vars(Operation) /\ WF_vars(Worker)
            /\ SF_vars(Expire)

Spec == Init /\ [][Next]_vars /\ Fairness

-----------------------------------------------------------------------------
(* What the device and the user are owed.                                  *)

\* The one std::thread is never reused before its task returned: a capture
\* never starts into the tail of an operation or of the capture before it
\* (operation_controller.hpp: "guarantees that a previous task is joined
\* before reuse").
OneThread ==
    /\ TypeOK
    /\ operation = "none" \/ capture = "none"
    /\ gui = "idle" /\ ~running => capture \in {"none", "clear"}

\* The client is never closed under a thread that is about to use it, even
\* after a late answer cleared the busy flag of a newer operation.  A baud
\* change is left out: it may have waited for a capture that failed, and its
\* calls then fail on the closed client.
ClosedIsQuiet ==
    operation \in {"exposure", "upgrade"} \cup (Kinds \ {"baud"}) \/ capture \in Streaming
        => open

\* No row/gain exchange outlives its capture: the next capture, which may
\* be of another device, neither waits for nor accepts its reply.
ExchangeEndsWithCapture == capture \in {"none", "clear"} => wire = NoRequest

\* A request that some thread took is answered: through refusals, the
\* deadline, stream failures and the end of capture.
Held(request) == request \in {taken, wire, opRequest}
TakenIsAnswered ==
    \A r \in Requests : Held(r) ~> (r \in answered)

\* A handler blocked in join returns: closing during capture, a capture
\* after an operation.  For the one that joins a running capture without
\* asking it to stop, see the next property.
JoinsReturn == gui \notin {"idle", "baud"} ~> gui = "idle"

\* The message of startCameraEncodingOperation: "GNSS UART baud alone can be
\* changed during capture."  A change asked for is carried out.
BaudChangesDuringCapture == gui = "baud" ~> operation = "baud"

\* README, exposure controls: "Unconfirmed changes are reported rather than
\* assumed successful."  Every request is eventually reported on.
UnconfirmedIsReported ==
    \A r \in 1 .. MaxRequests : issued >= r ~> r \in answered

=============================================================================
