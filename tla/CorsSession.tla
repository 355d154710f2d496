------------------------------ MODULE CorsSession ------------------------------
(***************************************************************************)
(* The native CORS / RTK session: CorsSession::startNative in              *)
(* src/cors/cors_session.cpp, and the GUI, capture and device around it.   *)
(*                                                                         *)
(* The worker thread of a session saves the account on the Timesync        *)
(* module, starts RTK there, polls its status and stops it again.  The GUI *)
(* thread starts, stops and closes, joining the worker each time, and      *)
(* shows the statuses the worker posts to it.  The capture thread may ask  *)
(* the session to stop and close the device under it.                      *)
(*                                                                         *)
(* Every command takes client_io_mutex_ for its whole length and so is one *)
(* step.  It may fail without reaching the module, or reach it and lose    *)
(* the reply; the module runs what it receives in order.                   *)
(***************************************************************************)
EXTENDS Naturals, Sequences

CONSTANTS
  MaxSessions,   \* bound: sessions started
  MaxGeneration, \* bound: account configurations saved on the module
  MaxOthers,     \* bound: steps of another client of the module
  MaxPolls       \* bound: status polls in which the posted status changes

ASSUME BoundsAssumption ==
  {MaxSessions, MaxGeneration, MaxOthers, MaxPolls} \subseteq Nat /\ MaxGeneration # 0

VARIABLES
  stopRequested, \* stop_requested_
  active,        \* active_
  worker,        \* the worker thread: where it is, and the locals of its lambda
  posts,         \* phases posted to the GUI thread, not yet delivered
  panel,         \* the phase the panel shows
  latest,        \* latest_cors_status_.phase
  shownActive,   \* what refreshControls last read from active_
  gui,           \* the GUI thread: "idle", or the call whose join it waits in
  capture,       \* the capture thread: "streaming", "failed" (it asked to stop), "done"
  deviceOpen,    \* client_.isOpen()
  module,        \* the RTK module
  count          \* the bounds' counters

vars == <<stopRequested, active, worker, posts, panel, latest, shownActive, gui, capture,
          deviceOpen, module, count>>

Phases == {"disconnected", "starting", "connecting", "streaming", "stopping", "error"}
Joins  == {"starting", "stopping", "closing"}
Worker == {"none", "port", "save", "start", "poll", "wait", "status", "stop", "finish",
           "report", "ended"}

\* What the module answers: state 2 is running and 4 stopped, current says that
\* the saved, applied and running configurations are the session's own, flowing
\* that corrections arrive.
Status == [fresh : BOOLEAN, running : BOOLEAN, current : BOOLEAN, flowing : BOOLEAN]
NoStatus == [fresh |-> FALSE, running |-> FALSE, current |-> FALSE, flowing |-> FALSE]

\* tried is not in the code: the session has sent its stop command.
Idle == [pc |-> "none", attempted |-> FALSE, tried |-> FALSE, saved |-> 0, live |-> NoStatus,
         phase |-> "disconnected"]

Goes(pc) == worker' = [worker EXCEPT !.pc = pc, !.live = NoStatus]

--------------------------------------------------------------------------------
(***************************************************************************)
(* The module, seen through the commands: its state changes when a command *)
(* reaches it or another client does something to it.  owner is the        *)
(* session whose start it runs for; 0 is another client or nobody.         *)
(***************************************************************************)
Answer(m) ==
  {s \in Status : /\ s.running = m.running
                  /\ s.current = (m.savedGeneration = worker.saved /\ m.generation = worker.saved)}

OtherClient ==
  /\ count.others < MaxOthers
  /\ count' = [count EXCEPT !.others = @ + 1]
  /\ \/ module.running /\ module' = [module EXCEPT !.running = FALSE, !.owner = 0]
     \/ /\ module.savedGeneration < MaxGeneration
        /\ module' = [module EXCEPT !.savedGeneration = @ + 1]
     \/ /\ ~module.running
        /\ module' = [module EXCEPT !.running = TRUE, !.owner = 0, !.generation = module.savedGeneration]
  /\ UNCHANGED <<stopRequested, active, worker, posts, panel, latest, shownActive, gui, capture,
                 deviceOpen>>

--------------------------------------------------------------------------------
(***************************************************************************)
(* The worker thread.                                                      *)
(***************************************************************************)

\* publish(): the status is posted to the GUI thread.
Publish(phase) == posts' = Append(posts, phase)

\* An exception leaves the try block: a start that was attempted is undone.
Handler == IF worker.attempted THEN "stop" ELSE "finish"
Throw   == worker' = [worker EXCEPT !.pc = Handler, !.phase = "error", !.live = NoStatus]

Local == UNCHANGED <<stopRequested, panel, latest, shownActive, gui, capture, deviceOpen, count>>

\* The port must be in RTK mode and applied.
QueryPort ==
  /\ worker.pc = "port"
  /\ \/ Throw
     \/ deviceOpen /\ Goes(IF stopRequested THEN "finish" ELSE "save")
  /\ UNCHANGED <<active, posts, module>> /\ Local

\* The account is saved on the module under a new generation.
NextGeneration == module.savedGeneration + 1
SaveAccount ==
  /\ worker.pc = "save" /\ UNCHANGED <<active, posts>>
  /\ UNCHANGED <<stopRequested, panel, latest, shownActive, gui, capture, deviceOpen, count>>
  /\ \/ Throw /\ UNCHANGED module
     \/ /\ deviceOpen /\ module.savedGeneration < MaxGeneration
        /\ module' = [module EXCEPT !.savedGeneration = NextGeneration]
        /\ \/ Throw
           \/ worker' = [worker EXCEPT !.pc = IF stopRequested THEN "finish" ELSE "start",
                                       !.saved = NextGeneration]

\* startRtk for that generation.  The attempt is recorded before the command:
\* one that timed out may still have reached the module.
\* Fault: it is recorded once the command has returned.
Attempted_Fault(answered) == answered
Attempted(answered) == TRUE

StartRtk ==
  LET started == [module EXCEPT !.running = TRUE, !.generation = worker.saved,
                                !.owner = count.sessions]
      Fails == worker' = [worker EXCEPT !.pc = IF Attempted(FALSE) THEN "stop" ELSE "finish",
                                        !.attempted = Attempted(FALSE), !.phase = "error"]
  IN /\ worker.pc = "start" /\ UNCHANGED <<active, posts>> /\ Local
     /\ \/ Fails /\ UNCHANGED module
        \/ /\ deviceOpen /\ worker.saved = module.savedGeneration
           /\ module' = started
           /\ \/ Fails
              \/ \E s \in Answer(started) :
                   worker' = [worker EXCEPT !.pc = "poll", !.attempted = Attempted(TRUE), !.live = s]

\* The body of the status loop: an RTK that another client stopped is an error,
\* otherwise the phase follows the status and is posted.
Streams(s) == s.fresh /\ s.current /\ s.running /\ s.flowing

Poll ==
  /\ worker.pc = "poll" /\ UNCHANGED <<active, module>>
  /\ UNCHANGED <<stopRequested, panel, latest, shownActive, gui, capture, deviceOpen>>
  /\ CASE stopRequested -> Goes("stop") /\ UNCHANGED <<posts, count>>
       [] ~stopRequested /\ worker.live.fresh /\ ~worker.live.running ->
            Throw /\ UNCHANGED <<posts, count>>
       [] OTHER ->
            LET phase == IF Streams(worker.live) THEN "streaming" ELSE "connecting" IN
            /\ worker' = [worker EXCEPT !.pc = "wait", !.phase = phase, !.live = NoStatus]
            /\ IF phase = worker.phase THEN UNCHANGED <<posts, count>>
               ELSE /\ count.polls < MaxPolls
                    /\ Publish(phase) /\ count' = [count EXCEPT !.polls = @ + 1]

\* waitInterruptibly: a second, or until the stop is requested.
Wait ==
  /\ worker.pc = "wait"
  /\ Goes(IF stopRequested THEN "stop" ELSE "status")
  /\ UNCHANGED <<active, posts, module>> /\ Local

QueryStatus ==
  /\ worker.pc = "status"
  /\ \/ Throw
     \/ deviceOpen /\ \E s \in Answer(module) :
          worker' = [worker EXCEPT !.pc = "poll", !.live = s]
  /\ UNCHANGED <<active, posts, module>> /\ Local

\* stopRtk, whose confirmation must be fresh and say stopped: otherwise the
\* session ends in error, whatever it was before.
StopRtk ==
  /\ worker.pc = "stop" /\ UNCHANGED <<active, posts>> /\ Local
  /\ \E confirmed \in BOOLEAN, reached \in BOOLEAN :
       /\ confirmed => reached
       /\ reached => deviceOpen
       /\ module' = IF reached THEN [module EXCEPT !.running = FALSE, !.owner = 0] ELSE module
       /\ worker' = [worker EXCEPT !.pc = "finish", !.tried = TRUE,
                                   !.phase = IF confirmed THEN @ ELSE "error"]

\* The end of the lambda: active_ goes first, the last status is posted after it.
EndPhase == IF worker.phase = "error" THEN "error" ELSE "disconnected"
Finish ==
  /\ worker.pc = "finish" /\ UNCHANGED <<posts, module>> /\ Local
  /\ active' = FALSE
  /\ worker' = [worker EXCEPT !.pc = "report", !.phase = EndPhase]
Report ==
  /\ worker.pc = "report" /\ UNCHANGED <<active, module>> /\ Local
  /\ Publish(worker.phase) /\ Goes("ended")

WorkerStep == QueryPort \/ SaveAccount \/ StartRtk \/ Poll \/ Wait \/ QueryStatus \/ StopRtk
              \/ Finish \/ Report
--------------------------------------------------------------------------------
(***************************************************************************)
(* The GUI thread.  CorsSession::stop is requestStop, a join and the       *)
(* clearing of active_; while it waits for the join no post is delivered.  *)
(***************************************************************************)
Joined == worker.pc \in {"none", "ended"}

\* startCorsSession and startNative as far as the stop() of the session before.
BeginStart ==
  /\ gui = "idle" /\ deviceOpen /\ count.sessions < MaxSessions
  /\ gui' = "starting" /\ stopRequested' = TRUE
  /\ UNCHANGED <<active, worker, posts, panel, latest, shownActive, capture, deviceOpen, module,
                 count>>

\* The rest of startNative: a new worker, which posts "starting" at once, or an
\* exception for a configuration the module cannot use.
StartJoined ==
  /\ gui = "starting" /\ Joined /\ gui' = "idle"
  /\ \/ /\ stopRequested' = FALSE /\ active' = TRUE /\ shownActive' = TRUE
        /\ worker' = [Idle EXCEPT !.pc = "port", !.phase = "starting"]
        /\ Publish("starting")
        /\ count' = [count EXCEPT !.sessions = @ + 1]
        /\ UNCHANGED <<panel, latest>>
     \/ /\ active' = FALSE /\ shownActive' = FALSE /\ worker' = Idle
        /\ panel' = "error" /\ latest' = "error"
        /\ UNCHANGED <<stopRequested, posts, count>>
  /\ UNCHANGED <<capture, deviceOpen, module>>

\* stopCorsSession up to the join.
ShowStopping == panel' = IF active THEN "stopping" ELSE panel
BeginStop ==
  /\ gui = "idle" /\ gui' = "stopping"
  /\ ShowStopping /\ stopRequested' = TRUE
  /\ UNCHANGED <<active, worker, posts, latest, shownActive, capture, deviceOpen, module, count>>

StopJoined ==
  /\ gui = "stopping" /\ Joined /\ gui' = "idle"
  /\ active' = FALSE /\ shownActive' = FALSE /\ worker' = Idle
  /\ UNCHANGED <<stopRequested, posts, panel, latest, capture, deviceOpen, module, count>>

\* Fault: the session is asked to stop only if its last status was not an end.
ClosesSession_Fault == latest # "disconnected"
ClosesSession == TRUE
\* closeDevice: stopCorsSession unless the last status says disconnected, and
\* CorsSession::stop otherwise; then the capture is stopped and the device closed.
BeginClose ==
  /\ gui = "idle" /\ deviceOpen /\ gui' = "closing"
  /\ IF latest = "disconnected" THEN UNCHANGED panel ELSE ShowStopping
  /\ stopRequested' = (stopRequested \/ ClosesSession)
  /\ UNCHANGED <<active, worker, posts, latest, shownActive, capture, deviceOpen, module, count>>

CloseJoined ==
  /\ gui = "closing" /\ Joined /\ gui' = "idle"
  /\ active' = FALSE /\ shownActive' = FALSE /\ worker' = Idle
  /\ capture' = "done" /\ deviceOpen' = FALSE
  /\ UNCHANGED <<stopRequested, posts, panel, latest, module, count>>

Reopen ==
  /\ gui = "idle" /\ ~deviceOpen /\ capture = "done" /\ count.sessions < MaxSessions
  /\ deviceOpen' = TRUE
  /\ UNCHANGED <<stopRequested, active, worker, posts, panel, latest, shownActive, gui, capture,
                 module, count>>

\* The lambda the status handler posts: the panel, and refreshControls, which
\* reads active_ as it is when the post is delivered.
\* Fault: the controls are refreshed only while a connection is being made.
Refreshed_Fault(phase) == IF phase = "connecting" THEN active ELSE shownActive
Refreshed(phase) == active
Deliver ==
  /\ gui = "idle" /\ posts # <<>>
  /\ posts' = Tail(posts) /\ panel' = Head(posts) /\ latest' = Head(posts)
  /\ shownActive' = Refreshed(Head(posts))
  /\ UNCHANGED <<stopRequested, active, worker, gui, capture, deviceOpen, module, count>>

\* The capture thread's error path: requestStop, then the device is closed.
CaptureFails ==
  /\ capture = "streaming" /\ deviceOpen
  /\ capture' = "failed" /\ stopRequested' = TRUE
  /\ UNCHANGED <<active, worker, posts, panel, latest, shownActive, gui, deviceOpen, module, count>>

CaptureCloses ==
  /\ capture = "failed" /\ capture' = "done" /\ deviceOpen' = FALSE
  /\ UNCHANGED <<stopRequested, active, worker, posts, panel, latest, shownActive, gui, module,
                 count>>

Init ==
  /\ stopRequested = FALSE /\ active = FALSE /\ worker = Idle /\ posts = <<>>
  /\ panel = "disconnected" /\ latest = "disconnected" /\ shownActive = FALSE
  /\ gui = "idle" /\ capture = "streaming" /\ deviceOpen = TRUE
  /\ module \in [running : {FALSE}, savedGeneration : {1}, generation : {0}, owner : {0}]
  /\ count = [sessions |-> 0, others |-> 0, polls |-> 0]

GuiStep == BeginStart \/ StartJoined \/ BeginStop \/ StopJoined \/ BeginClose \/ CloseJoined
           \/ Reopen \/ Deliver
Next == WorkerStep \/ GuiStep \/ CaptureFails \/ CaptureCloses \/ OtherClient

\* Every command has a timeout, so the worker always goes on; the GUI thread
\* returns from a join that is done and keeps delivering posts.
CorsFairness ==
  /\ WF_vars(WorkerStep)
  /\ WF_vars(StartJoined \/ StopJoined \/ CloseJoined \/ Deliver)

Spec == Init /\ [][Next]_vars /\ CorsFairness

--------------------------------------------------------------------------------
TypeOK ==
  /\ stopRequested \in BOOLEAN /\ active \in BOOLEAN /\ shownActive \in BOOLEAN
  /\ deviceOpen \in BOOLEAN
  /\ worker \in [pc : Worker, attempted : BOOLEAN, tried : BOOLEAN, saved : 0 .. MaxGeneration,
                 live : Status, phase : Phases]
  /\ posts \in Seq(Phases) /\ panel \in Phases /\ latest \in Phases
  /\ gui \in {"idle"} \union Joins /\ capture \in {"streaming", "failed", "done"}
  /\ module \in [running : BOOLEAN, savedGeneration : 1 .. MaxGeneration,
                 generation : 0 .. MaxGeneration, owner : 0 .. MaxSessions]
  /\ count \in [sessions : 0 .. MaxSessions, others : 0 .. MaxOthers, polls : 0 .. MaxPolls]

\* What README promises of a connection: the module does not go on sending the
\* position for a session that is over, unless the session said so.  A session
\* that has ended while the module still runs for it has sent its stop command
\* and has ended in error, however its commands failed.
LeftRunningIsReported ==
  worker.pc \in {"report", "ended"} /\ module.running /\ module.owner = count.sessions =>
    worker.tried /\ worker.phase = "error"

\* Once a session is over and its statuses are delivered, the panel shows an end
\* state and the controls know that no session is active, in whatever order the
\* thread ended, the user pressed a button and the posts arrived.
SettledPanel ==
  /\ TypeOK
  /\ gui = "idle" /\ posts = <<>> /\ worker.pc \in {"none", "ended"} =>
       panel \in {"disconnected", "error"} /\ ~shownActive

\* The GUI thread comes back from every join: a worker that is asked to stop
\* ends, whatever its commands do and whoever else uses the module.
StopReturns == gui # "idle" ~> gui = "idle"
===============================================================================
