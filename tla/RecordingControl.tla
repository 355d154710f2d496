-------------------------- MODULE RecordingControl --------------------------
(***************************************************************************)
(* How the GUI thread starts and ends recordings (main_window.cpp).  A      *)
(* recording is either a DatasetRecorder session alone ("legacy") or, on a *)
(* RAW8 device, a Raw8Recorder with a DatasetRecorder session as companion *)
(* in the same directory.  Both ends of the pair can fail, and it can be   *)
(* ended by the user, by the capture worker, by the capture's end, by the  *)
(* 250 ms timer and by RecordingUsbGate, which forbids recording without a *)
(* recent proof that the link is fast enough.                              *)
(*                                                                         *)
(* The two recorders appear here as what their own modules promise:        *)
(* RecordingPromise for RAW8, and for DatasetRecorder a stop() that takes  *)
(* its time and then says whether everything was saved.                    *)
(*                                                                         *)
(* The system upgrade, which also sets worker_running_, and the message    *)
(* box after a failed save are left out.                                   *)
(***************************************************************************)
EXTENDS Naturals, Sequences, SequencesExt

CONSTANTS MaxOpens,       \* bound: connections
          MaxCaptures,    \* bound: captures
          MaxRecordings,  \* bound: times the user asks for a recording
          MaxChecks       \* bound: link checks and gate resets

ASSUME BoundsAssumption ==
    /\ MaxOpens \in Nat /\ MaxCaptures \in Nat
    /\ MaxRecordings \in Nat /\ MaxChecks \in Nat

Reported == {"usb2", "usb3"}     \* too slow or unknown; SuperSpeed
Speeds   == Reported \cup {"unknown"}
Kinds  == {"raw", "legacy"}

VARIABLES
    open, network, conn,   \* client_.isOpen(), isNetwork(); which connection
    worker, stop,          \* the capture worker; stop_requested_
    posts,                 \* closures posted to the GUI, oldest first
    gate,                  \* recording_usb_gate_
    clock, aged,           \* the last check's number; those to 10 s old
    gui, request, resume,  \* what the GUI thread is in, and returns to
    raw,                   \* *raw_recorder_
    aux, auxFailed,        \* dataset_recorder_: active_, pollError()
    auxError, auxFinal,    \* raw_aux_error_ is set, raw_aux_finalized_
    streams,               \* complete= of the last session's streams manifest
    captures, recordings   \* for the bounds

device  == <<open, network, conn>>
control == <<gui, request, resume>>
link    == <<gate, clock, aged>>
rawPart == <<raw, auxError, auxFinal>>
auxPart == <<aux, auxFailed, streams>>
counts  == <<captures, recordings>>
vars == <<device, worker, stop, posts, link, control, rawPart, auxPart, counts>>

NoRaw == [state |-> "none", error |-> FALSE, complete |-> FALSE]

Checks == [kind : {"check"}, speed : Speeds, at : 0 .. MaxChecks,
           conn : 0 .. MaxOpens]
End    == [kind |-> "end"]

TypeOK ==
    /\ open \in BOOLEAN /\ network \in BOOLEAN /\ conn \in 0 .. MaxOpens
    /\ worker \in {"none", "capture", "failing", "over"} /\ stop \in BOOLEAN
    /\ posts \in Seq(Checks \cup {End})
    /\ gate \in [speed : Speeds, at : 0 .. MaxChecks, seen : BOOLEAN,
                 conn : 0 .. MaxOpens]
    /\ clock \in 0 .. MaxChecks /\ aged \in 0 .. clock
    /\ gui \in {"idle", "dialog", "query", "stopping", "joining", "gone"}
    /\ request \in {"none"} \cup Kinds
    /\ resume \in {"idle", "finishRaw", "close", "quit"}
    /\ raw \in [state : {"none", "receiving", "closing", "done"},
                error : BOOLEAN, complete : BOOLEAN]
    /\ aux \in {"none", "active", "stopping"} /\ auxFailed \in BOOLEAN
    /\ auxError \in BOOLEAN /\ auxFinal \in BOOLEAN
    /\ streams \in {"none", "incomplete", "complete"}
    /\ captures \in 0 .. MaxCaptures /\ recordings \in 0 .. MaxRecordings
    \* The parts fit together.
    /\ request # "none" <=> gui \in {"dialog", "query"}
    /\ aux = "stopping" => gui = "stopping"
    /\ auxError => auxFinal
    /\ raw.complete => raw.state = "done" /\ ~raw.error

Init ==
    /\ open = FALSE /\ network = FALSE /\ conn = 0
    /\ worker = "none" /\ stop = FALSE /\ posts = <<>>
    /\ gate = [speed |-> "unknown", at |-> 0, seen |-> FALSE, conn |-> 0]
    /\ clock = 0 /\ aged = 0
    /\ gui = "idle" /\ request = "none" /\ resume = "idle"
    /\ raw = NoRaw /\ aux = "none" /\ auxFailed = FALSE
    /\ auxError = FALSE /\ auxFinal = FALSE /\ streams = "none"
    /\ captures = 0 /\ recordings = 0

-----------------------------------------------------------------------------
(* RecordingUsbGate.                                                       *)

\* An observation that supersedes whatever the gate holds.
Observe_Fault(check) ==
    [speed |-> check.speed, at |-> check.at, seen |-> TRUE, conn |-> check.conn]

\* observe(): replies may be handled in another order than they were read.
Observe(check) ==
    IF check.at < gate.at
      THEN gate
      ELSE [speed |-> check.speed, at |-> check.at, seen |-> TRUE,
            conn |-> check.conn]

\* reset() takes the time of the call.
Reset(at) == [speed |-> "unknown", at |-> at, seen |-> FALSE, conn |-> gate.conn]

CheckNow(speed) ==
    [kind |-> "check", speed |-> speed, at |-> clock + 1, conn |-> conn]

\* recordingLinkAllowed, for a given gate.
AllowedBy(g) ==
    /\ open /\ g.at > aged
    /\ IF network THEN g.seen ELSE g.speed = "usb3"
Allowed == AllowedBy(gate)

\* Ten seconds pass without a check.
LinkAges ==
    /\ gate.at > aged
    /\ aged' = clock
    /\ UNCHANGED <<device, worker, stop, posts, gate, clock, control, rawPart,
                   auxPart, counts>>

-----------------------------------------------------------------------------
(* The two recorders.                                                      *)

Running   == worker \in {"capture", "failing"}     \* worker_running_
RawActive == raw.state \in {"receiving", "closing"}
Receiving == aux = "active" \/ raw.state = "receiving"

\* Raw8Recorder::finish keeps the first error and ignores a done recording.
Finished(r, error) ==
    IF r.state \in {"none", "done"}
      THEN r
      ELSE [r EXCEPT !.state = "closing", !.error = @ \/ error]

\* The capture worker reports a GPU fault or a broken image, or the recorder
\* itself runs out of room or fails to write.
RawFails ==
    /\ RawActive
    /\ raw' = Finished(raw, TRUE)
    /\ UNCHANGED <<device, worker, stop, posts, link, control, auxError,
                   auxFinal, auxPart, counts>>

\* The writer of the RAW8 recorder has drained, read back and committed, or
\* says why not.
RawEnds ==
    /\ raw.state = "closing"
    /\ \E whole \in BOOLEAN :
         raw' = [state |-> "done", error |-> raw.error \/ ~whole,
                 complete |-> whole /\ ~raw.error]
    /\ UNCHANGED <<device, worker, stop, posts, link, control, auxError,
                   auxFinal, auxPart, counts>>

AuxFails ==
    /\ aux = "active" /\ ~auxFailed
    /\ auxFailed' = TRUE
    /\ UNCHANGED <<device, worker, stop, posts, link, control, rawPart, aux,
                   streams, counts>>

-----------------------------------------------------------------------------
(* stopImuRecording, in two steps: dataset_recorder_.stop() clears active_ *)
(* and then keeps the GUI thread while its writer drains.                  *)

BeginStop(then) ==
    /\ aux' = IF aux = "active" THEN "stopping" ELSE aux
    /\ gui' = "stopping" /\ resume' = then
    /\ UNCHANGED <<request, auxFailed, streams>>

\* A summary whose failure is not handed to the RAW8 recording.
AuxOutcome_Fault(had, saved) == FALSE

\* raw_aux_error_: the companion had a session and did not save it.
AuxOutcome(had, saved) == had /\ ~saved

FinishStop ==
    /\ gui = "stopping"
    /\ \E saved \in BOOLEAN :
         LET had     == aux = "stopping"
             failure == AuxOutcome(had, saved)
             paired  == raw.state # "none" /\ ~auxFinal
             ended   == IF paired THEN Finished(raw, failure) ELSE raw
         IN /\ auxFailed => ~saved
            /\ streams' = IF had THEN (IF saved THEN "complete" ELSE "incomplete")
                          ELSE streams
            /\ auxError' = IF paired THEN failure ELSE auxError
            /\ auxFinal' = (auxFinal \/ paired)
            /\ raw' = IF resume = "finishRaw" THEN Finished(ended, FALSE) ELSE ended
    /\ aux' = "none" /\ auxFailed' = FALSE
    /\ open' = (open /\ resume # "close")
    /\ gui' = "idle" /\ resume' = "idle"
    /\ UNCHANGED <<network, conn, worker, stop, posts, link, request, counts>>

StopRecording ==
    /\ gui = "idle" /\ (aux = "active" \/ RawActive)
    /\ raw.state \notin {"closing", "done"}   \* pollRawRecording's button
    /\ BeginStop("idle")
    /\ UNCHANGED <<device, worker, stop, posts, link, rawPart, counts>>

-----------------------------------------------------------------------------
(* Starting.  The directory and overwrite dialogs run a nested event loop: *)
(* posted closures and the timer go on, the user can do nothing else.      *)

AskToRecord(kind) ==
    /\ gui = "idle" /\ recordings < MaxRecordings
    /\ Running /\ aux = "none" /\ ~RawActive /\ Allowed
    /\ recordings' = recordings + 1
    /\ gui' = "dialog" /\ request' = kind
    /\ UNCHANGED <<device, worker, stop, posts, link, resume, rawPart, auxPart,
                   captures>>

\* The user cancels, or the handler looks at the world again.
DialogReturns ==
    /\ gui = "dialog"
    /\ \/ gui' = "idle" /\ request' = "none"
       \/ /\ Running /\ ~RawActive /\ aux = "none"
          /\ gui' = "query" /\ UNCHANGED request
    /\ UNCHANGED <<device, worker, stop, posts, link, resume, rawPart, auxPart,
                   counts>>

\* What must still hold once the link has answered.
MayStart(newGate) == Running /\ AllowedBy(newGate)

\* Both recorders begin; the pair clears the companion's verdict.
Started ==
    /\ raw' = IF request = "raw" THEN [NoRaw EXCEPT !.state = "receiving"]
              ELSE NoRaw
    /\ auxError' = (auxError /\ request # "raw")
    /\ auxFinal' = (auxFinal /\ request # "raw")
    /\ aux' = "active" /\ auxFailed' = FALSE /\ streams' = "incomplete"

\* The link is asked once more, after the dialogs, on this thread.
QueryFails ==
    /\ gui = "query" /\ clock < MaxChecks
    /\ IF request = "legacy"
         THEN gate' = Reset(clock + 1) /\ clock' = clock + 1
         ELSE UNCHANGED <<gate, clock>>
    /\ gui' = "idle" /\ request' = "none"
    /\ UNCHANGED <<device, worker, stop, posts, aged, resume, rawPart, auxPart,
                   counts>>

QueryAnswers ==
    /\ gui = "query" /\ clock < MaxChecks /\ open
    /\ \E speed \in Reported :
         /\ gate' = Observe(CheckNow(speed)) /\ clock' = clock + 1
         /\ \/ MayStart(Observe(CheckNow(speed))) /\ Started
            \/ UNCHANGED <<rawPart, auxPart>>   \* refused, or start() failed
    /\ gui' = "idle" /\ request' = "none"
    /\ UNCHANGED <<device, worker, stop, posts, aged, resume, counts>>

-----------------------------------------------------------------------------
(* enforceRecordingUsbLink, the closures and the timer.                    *)

\* A check that overlooks a pair.
LinkLost_Fault(g) == aux = "active" /\ raw.state = "none" /\ ~AllowedBy(g)

LinkLost(g) == Receiving /\ ~AllowedBy(g)

Enforce ==
    /\ raw' = IF raw.state = "receiving" THEN Finished(raw, TRUE) ELSE raw
    /\ BeginStop("idle")

\* updateDeviceInfo's closure observes and then enforces.
HandleCheck ==
    /\ gui \in {"idle", "dialog"} /\ posts # <<>> /\ Head(posts).kind = "check"
    /\ posts' = Tail(posts)
    /\ gate' = Observe(Head(posts))
    /\ IF LinkLost(Observe(Head(posts)))
         THEN Enforce
         ELSE UNCHANGED <<raw, control, auxPart>>
    /\ UNCHANGED <<device, worker, stop, clock, aged, auxError, auxFinal, counts>>

\* A closure that forgets a session without a RAW8 recording.
HandleEnd_Fault ==
    /\ gui \in {"idle", "dialog"} /\ posts # <<>> /\ Head(posts).kind = "end"
    /\ posts' = Tail(posts)
    /\ raw' = Finished(raw, FALSE)
    /\ IF aux = "active" /\ raw.state # "none"
         THEN BeginStop("idle") ELSE UNCHANGED <<control, auxPart>>
    /\ UNCHANGED <<device, worker, stop, link, auxError, auxFinal, counts>>

\* The closure of a capture that ended.
HandleEnd ==
    /\ gui \in {"idle", "dialog"} /\ posts # <<>> /\ Head(posts).kind = "end"
    /\ posts' = Tail(posts)
    /\ raw' = Finished(raw, FALSE)
    /\ IF aux = "active" THEN BeginStop("idle") ELSE UNCHANGED <<control, auxPart>>
    /\ UNCHANGED <<device, worker, stop, link, auxError, auxFinal, counts>>

\* The 250 ms timer: the link, a RAW8 recording that ended, a companion that
\* failed.
TimerEnforces ==
    /\ gui \in {"idle", "dialog"} /\ LinkLost(gate)
    /\ Enforce
    /\ UNCHANGED <<device, worker, stop, posts, link, auxError, auxFinal, counts>>

\* A timer that waits for the companion to fail.
PairHasEnded_Fault == auxFailed

\* status().closing stays set once the recording is done.
PairHasEnded == raw.state \in {"closing", "done"} \/ auxFailed

TimerEndsPair ==
    /\ gui \in {"idle", "dialog"} /\ ~LinkLost(gate)
    /\ aux = "active" /\ PairHasEnded
    /\ BeginStop("idle")
    /\ UNCHANGED <<device, worker, stop, posts, link, rawPart, counts>>

-----------------------------------------------------------------------------
(* Connection and capture.                                                 *)

OpenDevice ==
    /\ gui = "idle" /\ ~Running /\ ~open /\ worker = "none"   \* after its join
    /\ clock < MaxChecks /\ conn < MaxOpens
    /\ gate' = Reset(clock + 1)
    /\ clock' = clock + 1 /\ conn' = conn + 1
    /\ \/ UNCHANGED <<open, network, posts>>     \* opening fails
       \/ /\ open' = TRUE /\ network' \in BOOLEAN
          /\ \E speed \in Reported :
               posts' = Append(posts, [kind |-> "check", speed |-> speed,
                                       at |-> clock + 1, conn |-> conn + 1])
    /\ UNCHANGED <<worker, stop, aged, control, rawPart, auxPart, counts>>

StartCapture ==
    /\ gui = "idle" /\ open /\ worker = "none" /\ captures < MaxCaptures
    /\ captures' = captures + 1
    /\ worker' = "capture" /\ stop' = FALSE
    /\ UNCHANGED <<device, posts, link, control, rawPart, auxPart, recordings>>

\* The companion is stopped first, then the RAW8 recorder.
StopCapture ==
    /\ gui = "idle" /\ Running /\ ~stop
    /\ stop' = TRUE
    /\ IF aux = "active"
         THEN BeginStop("finishRaw") /\ UNCHANGED raw
         ELSE raw' = Finished(raw, FALSE) /\ UNCHANGED <<control, auxPart>>
    /\ UNCHANGED <<device, worker, posts, link, auxError, auxFinal, counts>>

\* closeDevice and closeEvent begin with stopWorker.
CloseDevice(then) ==
    /\ gui = "idle" /\ (open \/ then = "quit")
    /\ IF Running
         THEN stop' = TRUE /\ raw' = Finished(raw, FALSE)
         ELSE UNCHANGED <<stop, raw>>
    /\ gui' = "joining" /\ resume' = then
    /\ UNCHANGED <<device, worker, posts, link, request, auxError, auxFinal,
                   auxPart, counts>>

CloseJoined ==
    /\ gui = "joining" /\ resume = "close" /\ worker = "none"
    /\ IF aux = "active"
         THEN BeginStop("close") /\ UNCHANGED open
         ELSE open' = FALSE /\ gui' = "idle" /\ resume' = "idle"
              /\ UNCHANGED <<request, auxPart>>
    /\ UNCHANGED <<network, conn, worker, stop, posts, link, rawPart, counts>>

\* Leaving stops the companion without asking how it went; the destructor of
\* the RAW8 recorder finishes and joins its writer.
QuitJoined ==
    /\ gui = "joining" /\ resume = "quit" /\ worker = "none"
    /\ streams' \in IF aux = "active" THEN {"complete", "incomplete"} ELSE {streams}
    /\ auxFailed => streams' # "complete"
    /\ aux' = "none" /\ raw' = Finished(raw, FALSE) /\ open' = FALSE
    /\ gui' = "gone" /\ resume' = "idle"
    /\ UNCHANGED <<network, conn, worker, stop, posts, link, request, auxFailed,
                   auxError, auxFinal, counts>>

\* The worker reads the device information now and then.
WorkerChecks ==
    /\ worker = "capture" /\ open /\ clock < MaxChecks
    /\ \E speed \in Reported : posts' = Append(posts, CheckNow(speed))
    /\ clock' = clock + 1
    /\ UNCHANGED <<device, worker, stop, gate, aged, control, rawPart, auxPart,
                   counts>>

\* workerMain's catch: the error ends the RAW8 recording, and a transport
\* that streamed is closed.
WorkerFails ==
    /\ worker = "capture"
    /\ raw' = Finished(raw, TRUE)
    /\ open' \in {FALSE, open}
    /\ worker' = "failing"
    /\ UNCHANGED <<network, conn, stop, posts, link, control, auxError, auxFinal,
                   auxPart, counts>>

WorkerEnds ==
    /\ worker = "failing" \/ (worker = "capture" /\ stop)
    /\ worker' = "over"
    /\ UNCHANGED <<device, stop, posts, link, control, rawPart, auxPart, counts>>

WorkerPosts ==
    /\ worker = "over"
    /\ posts' = Append(posts, End) /\ worker' = "none"
    /\ UNCHANGED <<device, stop, link, control, rawPart, auxPart, counts>>

-----------------------------------------------------------------------------
User   == (\E kind \in Kinds : AskToRecord(kind)) \/ DialogReturns
          \/ StopRecording \/ OpenDevice \/ StartCapture \/ StopCapture
          \/ CloseDevice("close") \/ CloseDevice("quit")
Gui    == FinishStop \/ QueryFails \/ QueryAnswers \/ CloseJoined \/ QuitJoined
Post   == HandleCheck \/ HandleEnd
Timer  == TimerEnforces \/ TimerEndsPair
Worker == WorkerEnds \/ WorkerPosts

Next == User \/ Gui \/ Post \/ Timer \/ Worker \/ WorkerChecks \/ WorkerFails
        \/ LinkAges \/ RawFails \/ RawEnds \/ AuxFails

\* The event loop runs what is posted and due, handlers return, a worker
\* asked to stop ends, and a closed RAW8 recording is finalized.
Fairness == /\ WF_vars(Gui) /\ WF_vars(Post) /\ WF_vars(Timer)
            /\ WF_vars(Worker) /\ WF_vars(RawEnds)

Spec == Init /\ [][Next]_vars /\ Fairness

-----------------------------------------------------------------------------
(* What a recording is owed.                                               *)

\* recording_usb_gate.hpp: "delayed queued replies must not supersede a newer
\* check".  A link is never trusted on the word of an earlier connection.
GateOfThisConnection == TypeOK /\ (Allowed => gate.conn = conn)

\* The comment in startImuRecordingImpl: "do not create an orphan recording
\* session".  Once the end of a capture was handled nothing records.
NoOrphanRecording ==
    ~Running /\ worker = "none" /\ ~Contains(posts, End) /\ gui = "idle"
        => ~Receiving

\* pollRawRecording shows "Recording saved; RAW8 and IMU verified" only when
\* both halves are whole on disk, whoever ended them and in which order.
ShownAsSaved == raw.state = "done" /\ ~raw.error /\ ~auxError /\ auxFinal
SavedIsWhole == ShownAsSaved => raw.complete /\ streams = "complete"

\* The halves of a pair end together: neither goes on alone when the other
\* was finished, failed or lost its link.
HalfEnded == raw.state # "none" /\ (aux = "active" <=> raw.state # "receiving")
EndsTogether == (HalfEnded /\ gui # "gone") ~> (~HalfEnded \/ gui = "gone")

\* A recording whose link is no longer proved ends, unless it is proved again.
StopsWithoutLink ==
    (Receiving /\ ~Allowed) ~> (~Receiving \/ Allowed)

=============================================================================
