------------------------ MODULE RecordingControlProofs ------------------------
(***************************************************************************)
(* Proofs about RecordingControl, for any number of connections, captures, *)
(* recordings and link checks: the gate trusts only this connection, no    *)
(* session is left recording after the end of its capture, and what is     *)
(* shown as saved is whole.                                                *)
(***************************************************************************)
EXTENDS RecordingControl, TLAPS

USE DEF device, control, link, rawPart, auxPart, counts

Raws  == [state : {"none", "receiving", "closing", "done"}, error : BOOLEAN, complete : BOOLEAN]
Gates == [speed : Speeds, at : 0 .. MaxChecks, seen : BOOLEAN, conn : 0 .. MaxOpens]

Elements(q) == {q[i] : i \in 1 .. Len(q)}

(* The gate holds the word of this connection or nothing; a queued check   *)
(* of an earlier connection is older than what the gate has seen.          *)
GateInv ==
    /\ gate.at <= clock
    /\ gate.conn = conn \/ (gate.speed = "unknown" /\ ~gate.seen)
    /\ \A post \in Elements(posts) : post.kind = "check" =>
         /\ post.at <= clock
         /\ post.conn = conn \/ post.at < gate.at

(* Until the end of the capture is handled it is still to come.            *)
OrphanInv ==
    Receiving => \/ worker \in {"capture", "failing", "over"}
                 \/ End \in Elements(posts)

(* What is known of each half of a pair at each of its stages.             *)
PairInv ==
    /\ raw.state = "done" => (raw.complete \/ raw.error)
    /\ raw.state # "none" /\ auxFinal => aux = "none" /\ (auxError \/ streams = "complete")
    /\ raw.state # "none" /\ ~auxFinal => aux \in {"active", "stopping"} \/ gui = "gone"
    /\ gui = "stopping" => aux # "active"

(* Nothing records while the user is asked, or the link.                   *)
DialogInv == gui \in {"dialog", "query"} => aux = "none" /\ ~RawActive

(* The type invariant, by the variables that change together.              *)
RawOK(r) == r \in Raws /\ (r.complete => r.state = "done" /\ ~r.error)

DeviceOK == open \in BOOLEAN /\ network \in BOOLEAN /\ conn \in 0 .. MaxOpens
WorkerOK == worker \in {"none", "capture", "failing", "over"} /\ stop \in BOOLEAN
PostsOK  == posts \in Seq(Checks \cup {End})
LinkOK   == gate \in Gates /\ clock \in 0 .. MaxChecks /\ aged \in 0 .. clock
GuiOK    == /\ gui \in {"idle", "dialog", "query", "stopping", "joining", "gone"}
            /\ request \in {"none"} \cup Kinds
            /\ resume \in {"idle", "finishRaw", "close", "quit"}
            /\ request # "none" <=> gui \in {"dialog", "query"}
AuxOK    == /\ aux \in {"none", "active", "stopping"} /\ auxFailed \in BOOLEAN
            /\ streams \in {"none", "incomplete", "complete"}
            /\ aux = "stopping" => gui = "stopping"
PairOK   == auxError \in BOOLEAN /\ auxFinal \in BOOLEAN /\ (auxError => auxFinal)
CountsOK == captures \in 0 .. MaxCaptures /\ recordings \in 0 .. MaxRecordings
PartsOK  == /\ DeviceOK /\ WorkerOK /\ PostsOK /\ LinkOK /\ GuiOK
            /\ AuxOK /\ PairOK /\ RawOK(raw) /\ CountsOK /\ DialogInv

IInv == TypeOK /\ DialogInv /\ GateInv /\ OrphanInv /\ PairInv

--------------------------------------------------------------------------------
(***************************************************************************)
(* The operators of the model.                                             *)
(***************************************************************************)
LEMMA FinishedRaw ==
  ASSUME NEW r \in Raws, NEW error \in BOOLEAN
  PROVE  /\ Finished(r, error) \in Raws
         /\ Finished(r, error).complete = r.complete
         /\ r.state \in {"none", "done"} => Finished(r, error) = r
         /\ r.state \notin {"none", "done"} => Finished(r, error).state = "closing"
<1>1. CASE r.state \in {"none", "done"}
  BY <1>1 DEF Finished
<1>2. CASE r.state \notin {"none", "done"}
  <2> DEFINE closed == [r EXCEPT !.state = "closing", !.error = @ \/ error]
  <2>1. Finished(r, error) = closed
    BY <1>2 DEF Finished
  <2>2. closed \in Raws
    <3>1. (r.error \/ error) \in BOOLEAN
      OBVIOUS
    <3> QED
      BY <3>1, Zenon DEF Raws
  <2>3. closed.state = "closing" /\ closed.complete = r.complete
    BY DEF Raws
  <2> QED
    BY <1>2, <2>1, <2>2, <2>3
<1> QED
  BY <1>1, <1>2

LEMMA AppendElements ==
  ASSUME NEW S, NEW q \in Seq(S), NEW e \in S
  PROVE  Elements(Append(q, e)) = Elements(q) \cup {e}
<1>1. /\ Len(Append(q, e)) = Len(q) + 1 /\ Len(q) \in Nat
      /\ \A i \in 1 .. Len(q) : Append(q, e)[i] = q[i]
      /\ Append(q, e)[Len(q) + 1] = e
  OBVIOUS
<1>2. 1 .. (Len(q) + 1) = (1 .. Len(q)) \cup {Len(q) + 1}
  BY <1>1
<1> QED
  BY <1>1, <1>2, Zenon DEF Elements

LEMMA TailElements ==
  ASSUME NEW S, NEW q \in Seq(S), q # <<>>
  PROVE  /\ Elements(q) = {Head(q)} \cup Elements(Tail(q))
         /\ Head(q) \in S
<1>1. /\ Len(q) \in Nat /\ Len(q) > 0 /\ Len(Tail(q)) = Len(q) - 1
      /\ \A i \in 1 .. (Len(q) - 1) : Tail(q)[i] = q[i + 1]
      /\ Head(q) = q[1] /\ Head(q) \in S
  OBVIOUS
<1>2. Elements(Tail(q)) \cup {Head(q)} \subseteq Elements(q)
  BY <1>1 DEF Elements
<1>3. ASSUME NEW i \in 1 .. Len(q)
      PROVE  q[i] \in {Head(q)} \cup Elements(Tail(q))
  <2>1. CASE i = 1
    BY <1>1, <2>1
  <2>2. CASE i # 1
    <3>1. i - 1 \in 1 .. (Len(q) - 1) /\ (i - 1) + 1 = i
      BY <1>1, <2>2
    <3> QED
      BY <1>1, <3>1 DEF Elements
  <2> QED
    BY <2>1, <2>2
<1>4. Elements(q) \subseteq {Head(q)} \cup Elements(Tail(q))
  BY <1>3, Zenon DEF Elements
<1> QED
  BY <1>1, <1>2, <1>4, Zenon

LEMMA FinishedOK ==
  ASSUME NEW r, RawOK(r), NEW error \in BOOLEAN
  PROVE  /\ RawOK(Finished(r, error))
         /\ r.state \notin {"receiving", "closing"} => Finished(r, error) = r
         /\ Finished(r, error).state # "receiving"
         /\ Finished(r, error).state = "none" <=> r.state = "none"
         /\ Finished(r, error).state = "done" => r.state = "done"
<1>1. CASE r.state \in {"none", "done"}
  BY <1>1 DEF Finished
<1>2. CASE r.state \notin {"none", "done"}
  <2>1. ~r.complete
    BY <1>2 DEF RawOK
  <2>2. Finished(r, error) \in Raws /\ Finished(r, error).complete = r.complete
    BY FinishedRaw DEF RawOK
  <2>3. Finished(r, error).state = "closing"
    BY <1>2, FinishedRaw DEF RawOK
  <2> QED
    BY <1>2, <2>1, <2>2, <2>3 DEF RawOK, Raws
<1> QED
  BY <1>1, <1>2

LEMMA RawShapes == RawOK(NoRaw) /\ RawOK([NoRaw EXCEPT !.state = "receiving"])
BY DEF RawOK, Raws, NoRaw

LEMMA TypeParts == TypeOK /\ DialogInv <=> PartsOK
BY DEF TypeOK, PartsOK, DeviceOK, WorkerOK, PostsOK, LinkOK, GuiOK, AuxOK, PairOK,
       RawOK, CountsOK, Gates, Raws

LEMMA ChecksAreTyped ==
  ASSUME LinkOK, DeviceOK, clock < MaxChecks, NEW speed \in Reported
  PROVE  CheckNow(speed) \in Checks
BY BoundsAssumption DEF LinkOK, DeviceOK, CheckNow, Checks, Reported, Speeds

LEMMA ObserveTyped ==
  ASSUME NEW check \in Checks, gate \in Gates
  PROVE  Observe(check) \in Gates
BY DEF Observe, Checks, Gates

LEMMA ResetTyped ==
  ASSUME LinkOK, clock < MaxChecks
  PROVE  Reset(clock + 1) \in Gates
BY BoundsAssumption DEF LinkOK, Reset, Gates, Speeds

LEMMA HeadIsCheck ==
  ASSUME PostsOK, posts # <<>>, Head(posts).kind = "check"
  PROVE  Head(posts) \in Checks
BY DEF PostsOK, End

LEMMA InitIInv == Init => IInv
<1> SUFFICES ASSUME Init PROVE IInv
  OBVIOUS
<1>1. 0 \in 0 .. MaxChecks /\ 0 \in 0 .. MaxOpens /\ 0 \in 0 .. MaxCaptures /\ 0 \in 0 .. MaxRecordings
  BY BoundsAssumption
<1>2. gate \in Gates /\ gate.at = 0 /\ gate.conn = 0 /\ 0 \in 0 .. 0
  BY <1>1 DEF Init, Gates, Speeds
<1>3. RawOK(raw) /\ raw.state = "none"
  BY DEF Init, RawOK, Raws, NoRaw
<1>4. posts \in Seq(Checks \cup {End}) /\ Elements(posts) = {}
  BY DEF Init, Elements
<1>5. DeviceOK /\ LinkOK /\ PostsOK /\ CountsOK
  BY <1>1, <1>2, <1>4 DEF Init, DeviceOK, LinkOK, PostsOK, CountsOK
<1>6. WorkerOK /\ GuiOK /\ AuxOK /\ PairOK
  BY DEF Init, WorkerOK, GuiOK, AuxOK, PairOK
<1>7. TypeOK /\ DialogInv
  BY <1>3, <1>5, <1>6, TypeParts DEF PartsOK, DialogInv, Init
<1>8. GateInv
  BY <1>2, <1>4 DEF Init, GateInv
<1>9. OrphanInv /\ PairInv
  BY <1>3 DEF Init, OrphanInv, PairInv, Receiving
<1> QED
  BY <1>7, <1>8, <1>9 DEF IInv

(***************************************************************************)
(* Types.                                                                  *)
(***************************************************************************)
LEMMA UserTypes == ASSUME PartsOK, User PROVE PartsOK'
<1> USE DEF PartsOK
<1>1. CASE \E kind \in Kinds : AskToRecord(kind)
  <2>1. CountsOK'
    BY <1>1, BoundsAssumption DEF AskToRecord, CountsOK
  <2>2. GuiOK'
    BY <1>1 DEF AskToRecord, GuiOK, Kinds
  <2>3. DeviceOK' /\ WorkerOK' /\ PostsOK' /\ LinkOK'
    BY <1>1 DEF AskToRecord, RawActive, DeviceOK, WorkerOK, PostsOK, LinkOK
  <2>4. DialogInv'
    BY <1>1, FinishedOK DEF AskToRecord, RawActive, DialogInv
  <2>5. AuxOK'
    BY <1>1 DEF AskToRecord, RawActive, AuxOK
  <2>6. PairOK'
    BY <1>1 DEF AskToRecord, RawActive, PairOK
  <2>7. RawOK(raw)'
    BY <1>1 DEF AskToRecord, RawActive, RawOK
  <2> QED
    BY <2>1, <2>2, <2>3, <2>4, <2>5, <2>6, <2>7
<1>2. CASE DialogReturns
  <2>1. GuiOK'
    BY <1>2 DEF DialogReturns, GuiOK
  <2>2. DeviceOK' /\ WorkerOK' /\ PostsOK' /\ LinkOK' /\ CountsOK'
    BY <1>2 DEF DialogReturns, RawActive, DeviceOK, WorkerOK, PostsOK, LinkOK, CountsOK
  <2>3. DialogInv'
    BY <1>2, FinishedOK DEF DialogReturns, RawActive, DialogInv
  <2>4. AuxOK'
    BY <1>2 DEF DialogReturns, RawActive, AuxOK
  <2>5. PairOK'
    BY <1>2 DEF DialogReturns, RawActive, PairOK
  <2>6. RawOK(raw)'
    BY <1>2 DEF DialogReturns, RawActive, RawOK
  <2> QED
    BY <2>1, <2>2, <2>3, <2>4, <2>5, <2>6
<1>3. CASE StopRecording
  <2>1. DeviceOK' /\ WorkerOK' /\ PostsOK' /\ LinkOK' /\ CountsOK'
    BY <1>3 DEF StopRecording, BeginStop, DeviceOK, WorkerOK, PostsOK, LinkOK, CountsOK
  <2>2. DialogInv'
    BY <1>3, FinishedOK DEF StopRecording, BeginStop, RawActive, DialogInv
  <2>3. GuiOK'
    BY <1>3 DEF StopRecording, BeginStop, GuiOK
  <2>4. AuxOK'
    BY <1>3 DEF StopRecording, BeginStop, AuxOK
  <2>5. PairOK'
    BY <1>3 DEF StopRecording, BeginStop, PairOK
  <2>6. RawOK(raw)'
    BY <1>3 DEF StopRecording, BeginStop, RawOK
  <2> QED
    BY <2>1, <2>2, <2>3, <2>4, <2>5, <2>6
<1>4. CASE OpenDevice
  <2>1. open' \in BOOLEAN /\ network' \in BOOLEAN
    BY <1>4 DEF OpenDevice, DeviceOK
  <2>2. conn' \in 0 .. MaxOpens
    BY <1>4, BoundsAssumption DEF OpenDevice, DeviceOK
  <2>3. DeviceOK'
    BY <2>1, <2>2 DEF DeviceOK
  <2>4. LinkOK'
    BY <1>4, ResetTyped, BoundsAssumption DEF OpenDevice, LinkOK
  <2>5. \A speed \in Reported :
         [kind |-> "check", speed |-> speed, at |-> clock + 1, conn |-> conn + 1] \in Checks
    BY <1>4, BoundsAssumption DEF OpenDevice, LinkOK, DeviceOK, Checks, Reported, Speeds
  <2>6. posts' = posts \/ \E check \in Checks : posts' = Append(posts, check)
    BY <1>4, <2>5 DEF OpenDevice
  <2>7. PostsOK'
    BY <2>6 DEF PostsOK
  <2>8. WorkerOK' /\ CountsOK'
    BY <1>4 DEF OpenDevice, WorkerOK, CountsOK
  <2>9. DialogInv'
    BY <1>4, FinishedOK DEF OpenDevice, RawActive, DialogInv
  <2>10. GuiOK'
    BY <1>4 DEF OpenDevice, GuiOK
  <2>11. AuxOK'
    BY <1>4 DEF OpenDevice, AuxOK
  <2>12. PairOK'
    BY <1>4 DEF OpenDevice, PairOK
  <2>13. RawOK(raw)'
    BY <1>4 DEF OpenDevice, RawOK
  <2> QED
    BY <2>1, <2>2, <2>3, <2>4, <2>5, <2>6, <2>7, <2>8, <2>9, <2>10, <2>11, <2>12, <2>13
<1>5. CASE StartCapture
  <2>1. CountsOK'
    BY <1>5, BoundsAssumption DEF StartCapture, CountsOK
  <2>2. DeviceOK' /\ WorkerOK' /\ PostsOK' /\ LinkOK'
    BY <1>5 DEF StartCapture, DeviceOK, WorkerOK, PostsOK, LinkOK
  <2>3. DialogInv'
    BY <1>5, FinishedOK DEF StartCapture, RawActive, DialogInv
  <2>4. GuiOK'
    BY <1>5 DEF StartCapture, GuiOK
  <2>5. AuxOK'
    BY <1>5 DEF StartCapture, AuxOK
  <2>6. PairOK'
    BY <1>5 DEF StartCapture, PairOK
  <2>7. RawOK(raw)'
    BY <1>5 DEF StartCapture, RawOK
  <2> QED
    BY <2>1, <2>2, <2>3, <2>4, <2>5, <2>6, <2>7
<1>6. CASE StopCapture
  <2>1. RawOK(raw)'
    BY <1>6, FinishedOK DEF StopCapture
  <2>2. DeviceOK' /\ WorkerOK' /\ PostsOK' /\ LinkOK' /\ CountsOK'
    BY <1>6 DEF StopCapture, BeginStop, DeviceOK, WorkerOK, PostsOK, LinkOK, CountsOK
  <2>3. DialogInv'
    BY <1>6, FinishedOK DEF StopCapture, BeginStop, RawActive, DialogInv
  <2>4. GuiOK'
    BY <1>6 DEF StopCapture, BeginStop, GuiOK
  <2>5. AuxOK'
    BY <1>6 DEF StopCapture, BeginStop, AuxOK
  <2>6. PairOK'
    BY <1>6 DEF StopCapture, BeginStop, PairOK
  <2> QED
    BY <2>1, <2>2, <2>3, <2>4, <2>5, <2>6
<1>7. CASE CloseDevice("close")
  <2>1. RawOK(raw)'
    BY <1>7, FinishedOK DEF CloseDevice
  <2>2. DeviceOK' /\ WorkerOK' /\ PostsOK' /\ LinkOK' /\ CountsOK'
    BY <1>7 DEF CloseDevice, DeviceOK, WorkerOK, PostsOK, LinkOK, CountsOK
  <2>3. DialogInv'
    BY <1>7, FinishedOK DEF CloseDevice, RawActive, DialogInv
  <2>4. GuiOK'
    BY <1>7 DEF CloseDevice, GuiOK
  <2>5. AuxOK'
    BY <1>7 DEF CloseDevice, AuxOK
  <2>6. PairOK'
    BY <1>7 DEF CloseDevice, PairOK
  <2> QED
    BY <2>1, <2>2, <2>3, <2>4, <2>5, <2>6
<1>8. CASE CloseDevice("quit")
  <2>1. RawOK(raw)'
    BY <1>8, FinishedOK DEF CloseDevice
  <2>2. DeviceOK' /\ WorkerOK' /\ PostsOK' /\ LinkOK' /\ CountsOK'
    BY <1>8 DEF CloseDevice, DeviceOK, WorkerOK, PostsOK, LinkOK, CountsOK
  <2>3. DialogInv'
    BY <1>8, FinishedOK DEF CloseDevice, RawActive, DialogInv
  <2>4. GuiOK'
    BY <1>8 DEF CloseDevice, GuiOK
  <2>5. AuxOK'
    BY <1>8 DEF CloseDevice, AuxOK
  <2>6. PairOK'
    BY <1>8 DEF CloseDevice, PairOK
  <2> QED
    BY <2>1, <2>2, <2>3, <2>4, <2>5, <2>6
<1> QED
  BY <1>1, <1>2, <1>3, <1>4, <1>5, <1>6, <1>7, <1>8 DEF User

LEMMA GuiTypes == ASSUME PartsOK, Gui PROVE PartsOK'
<1> USE DEF PartsOK
<1>1. CASE FinishStop
  <2>1. auxError' \in BOOLEAN /\ auxFinal' \in BOOLEAN /\ (auxError' => auxFinal')
    BY <1>1 DEF FinishStop, PairOK, AuxOutcome
  <2>2. PairOK'
    BY <2>1 DEF PairOK
  <2>3. RawOK(raw)'
    BY <1>1, FinishedOK DEF FinishStop, AuxOutcome
  <2>4. DeviceOK' /\ WorkerOK' /\ PostsOK' /\ LinkOK' /\ CountsOK'
    BY <1>1 DEF FinishStop, DeviceOK, WorkerOK, PostsOK, LinkOK, CountsOK
  <2>5. DialogInv'
    BY <1>1, FinishedOK DEF FinishStop, RawActive, DialogInv
  <2>6. GuiOK'
    BY <1>1 DEF FinishStop, GuiOK
  <2>7. AuxOK'
    BY <1>1 DEF FinishStop, AuxOK
  <2> QED
    BY <2>1, <2>2, <2>3, <2>4, <2>5, <2>6, <2>7
<1>2. CASE QueryFails
  <2>1. LinkOK'
    BY <1>2, ResetTyped, BoundsAssumption DEF QueryFails, LinkOK
  <2>2. DeviceOK' /\ WorkerOK' /\ PostsOK' /\ CountsOK'
    BY <1>2 DEF QueryFails, DeviceOK, WorkerOK, PostsOK, CountsOK
  <2>3. DialogInv'
    BY <1>2, FinishedOK DEF QueryFails, RawActive, DialogInv
  <2>4. GuiOK'
    BY <1>2 DEF QueryFails, GuiOK
  <2>5. AuxOK'
    BY <1>2 DEF QueryFails, AuxOK
  <2>6. PairOK'
    BY <1>2 DEF QueryFails, PairOK
  <2>7. RawOK(raw)'
    BY <1>2 DEF QueryFails, RawOK
  <2> QED
    BY <2>1, <2>2, <2>3, <2>4, <2>5, <2>6, <2>7
<1>3. CASE QueryAnswers
  <2>1. LinkOK'
    BY <1>3, ObserveTyped, ChecksAreTyped, BoundsAssumption DEF QueryAnswers, LinkOK
  <2>2. Started \/ UNCHANGED <<rawPart, auxPart>>
    BY <1>3 DEF QueryAnswers
  <2>3. Started => RawOK(raw)'
    BY RawShapes DEF Started
  <2>4. Started => PairOK'
    BY DEF Started, PairOK
  <2>5. Started => AuxOK'
    BY DEF Started, AuxOK
  <2>6. RawOK(raw)'
    BY <2>2, <2>3
  <2>7. PairOK'
    BY <2>2, <2>4 DEF PairOK
  <2>8. AuxOK'
    BY <1>3, <2>2, <2>5 DEF AuxOK, QueryAnswers
  <2>9. DeviceOK' /\ WorkerOK' /\ PostsOK' /\ CountsOK'
    BY <1>3 DEF QueryAnswers, DeviceOK, WorkerOK, PostsOK, CountsOK
  <2>10. DialogInv'
    BY <1>3, FinishedOK DEF QueryAnswers, RawActive, DialogInv
  <2>11. GuiOK'
    BY <1>3 DEF QueryAnswers, GuiOK
  <2> QED
    BY <2>1, <2>2, <2>3, <2>4, <2>5, <2>6, <2>7, <2>8, <2>9, <2>10, <2>11
<1>4. CASE CloseJoined
  <2>1. DeviceOK' /\ WorkerOK' /\ PostsOK' /\ LinkOK' /\ CountsOK'
    BY <1>4 DEF CloseJoined, BeginStop, DeviceOK, WorkerOK, PostsOK, LinkOK, CountsOK
  <2>2. DialogInv'
    BY <1>4, FinishedOK DEF CloseJoined, BeginStop, RawActive, DialogInv
  <2>3. GuiOK'
    BY <1>4 DEF CloseJoined, BeginStop, GuiOK
  <2>4. AuxOK'
    BY <1>4 DEF CloseJoined, BeginStop, AuxOK
  <2>5. PairOK'
    BY <1>4 DEF CloseJoined, BeginStop, PairOK
  <2>6. RawOK(raw)'
    BY <1>4 DEF CloseJoined, BeginStop, RawOK
  <2> QED
    BY <2>1, <2>2, <2>3, <2>4, <2>5, <2>6
<1>5. CASE QuitJoined
  <2>1. RawOK(raw)'
    BY <1>5, FinishedOK DEF QuitJoined
  <2>2. DeviceOK' /\ WorkerOK' /\ PostsOK' /\ LinkOK' /\ CountsOK'
    BY <1>5 DEF QuitJoined, DeviceOK, WorkerOK, PostsOK, LinkOK, CountsOK
  <2>3. DialogInv'
    BY <1>5, FinishedOK DEF QuitJoined, RawActive, DialogInv
  <2>4. GuiOK'
    BY <1>5 DEF QuitJoined, GuiOK
  <2>5. AuxOK'
    BY <1>5 DEF QuitJoined, AuxOK
  <2>6. PairOK'
    BY <1>5 DEF QuitJoined, PairOK
  <2> QED
    BY <2>1, <2>2, <2>3, <2>4, <2>5, <2>6
<1> QED
  BY <1>1, <1>2, <1>3, <1>4, <1>5 DEF Gui

LEMMA PostTypes == ASSUME PartsOK, Post \/ Timer PROVE PartsOK'
<1> USE DEF PartsOK
<1>1. CASE HandleCheck
  <2>1. PostsOK'
    BY <1>1 DEF HandleCheck, PostsOK
  <2>2. LinkOK'
    BY <1>1, HeadIsCheck, ObserveTyped DEF HandleCheck, LinkOK
  <2>3. RawOK(raw)'
    BY <1>1, FinishedOK DEF HandleCheck, Enforce
  <2>4. DeviceOK' /\ WorkerOK' /\ CountsOK'
    BY <1>1 DEF HandleCheck, Enforce, BeginStop, LinkLost, Receiving, RawActive, DeviceOK,
       WorkerOK, CountsOK
  <2>5. DialogInv'
    BY <1>1, FinishedOK DEF HandleCheck, Enforce, BeginStop, LinkLost, Receiving,
       RawActive, DialogInv
  <2>6. GuiOK'
    BY <1>1 DEF HandleCheck, Enforce, BeginStop, LinkLost, Receiving, RawActive, DialogInv,
       GuiOK
  <2>7. AuxOK'
    BY <1>1 DEF HandleCheck, Enforce, BeginStop, LinkLost, Receiving, RawActive, AuxOK
  <2>8. PairOK'
    BY <1>1 DEF HandleCheck, Enforce, BeginStop, LinkLost, Receiving, RawActive, PairOK
  <2> QED
    BY <2>1, <2>2, <2>3, <2>4, <2>5, <2>6, <2>7, <2>8
<1>2. CASE HandleEnd
  <2>1. PostsOK'
    BY <1>2 DEF HandleEnd, PostsOK
  <2>2. RawOK(raw)'
    BY <1>2, FinishedOK DEF HandleEnd
  <2>3. DeviceOK' /\ WorkerOK' /\ LinkOK' /\ CountsOK'
    BY <1>2 DEF HandleEnd, BeginStop, DeviceOK, WorkerOK, LinkOK, CountsOK
  <2>4. DialogInv'
    BY <1>2, FinishedOK DEF HandleEnd, BeginStop, RawActive, DialogInv
  <2>5. GuiOK'
    BY <1>2 DEF HandleEnd, BeginStop, DialogInv, RawActive, GuiOK
  <2>6. AuxOK'
    BY <1>2 DEF HandleEnd, BeginStop, AuxOK
  <2>7. PairOK'
    BY <1>2 DEF HandleEnd, BeginStop, PairOK
  <2> QED
    BY <2>1, <2>2, <2>3, <2>4, <2>5, <2>6, <2>7
<1>3. CASE TimerEnforces
  <2>1. RawOK(raw)'
    BY <1>3, FinishedOK DEF TimerEnforces, Enforce
  <2>2. DeviceOK' /\ WorkerOK' /\ PostsOK' /\ LinkOK' /\ CountsOK'
    BY <1>3 DEF TimerEnforces, Enforce, BeginStop, LinkLost, Receiving, RawActive,
       DeviceOK, WorkerOK, PostsOK, LinkOK, CountsOK
  <2>3. DialogInv'
    BY <1>3, FinishedOK DEF TimerEnforces, Enforce, BeginStop, LinkLost, Receiving,
       RawActive, DialogInv
  <2>4. GuiOK'
    BY <1>3 DEF TimerEnforces, Enforce, BeginStop, LinkLost, Receiving, RawActive,
       DialogInv, GuiOK
  <2>5. AuxOK'
    BY <1>3 DEF TimerEnforces, Enforce, BeginStop, LinkLost, Receiving, RawActive, AuxOK
  <2>6. PairOK'
    BY <1>3 DEF TimerEnforces, Enforce, BeginStop, LinkLost, Receiving, RawActive, PairOK
  <2> QED
    BY <2>1, <2>2, <2>3, <2>4, <2>5, <2>6
<1>4. CASE TimerEndsPair
  <2>1. DeviceOK' /\ WorkerOK' /\ PostsOK' /\ LinkOK' /\ CountsOK'
    BY <1>4 DEF TimerEndsPair, BeginStop, DeviceOK, WorkerOK, PostsOK, LinkOK, CountsOK
  <2>2. DialogInv'
    BY <1>4, FinishedOK DEF TimerEndsPair, BeginStop, RawActive, DialogInv
  <2>3. GuiOK'
    BY <1>4 DEF TimerEndsPair, BeginStop, DialogInv, RawActive, GuiOK
  <2>4. AuxOK'
    BY <1>4 DEF TimerEndsPair, BeginStop, AuxOK
  <2>5. PairOK'
    BY <1>4 DEF TimerEndsPair, BeginStop, PairOK
  <2>6. RawOK(raw)'
    BY <1>4 DEF TimerEndsPair, BeginStop, RawOK
  <2> QED
    BY <2>1, <2>2, <2>3, <2>4, <2>5, <2>6
<1> QED
  BY <1>1, <1>2, <1>3, <1>4 DEF Post, Timer

LEMMA WorkerTypes == ASSUME PartsOK, Worker \/ WorkerChecks \/ WorkerFails PROVE PartsOK'
<1> USE DEF PartsOK
<1>1. CASE WorkerEnds
  <2>1. DeviceOK' /\ WorkerOK' /\ PostsOK' /\ LinkOK' /\ CountsOK'
    BY <1>1 DEF WorkerEnds, DeviceOK, WorkerOK, PostsOK, LinkOK, CountsOK
  <2>2. DialogInv'
    BY <1>1, FinishedOK DEF WorkerEnds, RawActive, DialogInv
  <2>3. GuiOK'
    BY <1>1 DEF WorkerEnds, GuiOK
  <2>4. AuxOK'
    BY <1>1 DEF WorkerEnds, AuxOK
  <2>5. PairOK'
    BY <1>1 DEF WorkerEnds, PairOK
  <2>6. RawOK(raw)'
    BY <1>1 DEF WorkerEnds, RawOK
  <2> QED
    BY <2>1, <2>2, <2>3, <2>4, <2>5, <2>6
<1>2. CASE WorkerPosts
  <2>1. PostsOK'
    BY <1>2 DEF WorkerPosts, PostsOK
  <2>2. DeviceOK' /\ WorkerOK' /\ LinkOK' /\ CountsOK'
    BY <1>2 DEF WorkerPosts, DeviceOK, WorkerOK, LinkOK, CountsOK
  <2>3. DialogInv'
    BY <1>2, FinishedOK DEF WorkerPosts, RawActive, DialogInv
  <2>4. GuiOK'
    BY <1>2 DEF WorkerPosts, GuiOK
  <2>5. AuxOK'
    BY <1>2 DEF WorkerPosts, AuxOK
  <2>6. PairOK'
    BY <1>2 DEF WorkerPosts, PairOK
  <2>7. RawOK(raw)'
    BY <1>2 DEF WorkerPosts, RawOK
  <2> QED
    BY <2>1, <2>2, <2>3, <2>4, <2>5, <2>6, <2>7
<1>3. CASE WorkerChecks
  <2>1. PostsOK'
    BY <1>3, ChecksAreTyped DEF WorkerChecks, PostsOK
  <2>2. LinkOK'
    BY <1>3, BoundsAssumption DEF WorkerChecks, LinkOK
  <2>3. DeviceOK' /\ WorkerOK' /\ CountsOK'
    BY <1>3 DEF WorkerChecks, DeviceOK, WorkerOK, CountsOK
  <2>4. DialogInv'
    BY <1>3, FinishedOK DEF WorkerChecks, RawActive, DialogInv
  <2>5. GuiOK'
    BY <1>3 DEF WorkerChecks, GuiOK
  <2>6. AuxOK'
    BY <1>3 DEF WorkerChecks, AuxOK
  <2>7. PairOK'
    BY <1>3 DEF WorkerChecks, PairOK
  <2>8. RawOK(raw)'
    BY <1>3 DEF WorkerChecks, RawOK
  <2> QED
    BY <2>1, <2>2, <2>3, <2>4, <2>5, <2>6, <2>7, <2>8
<1>4. CASE WorkerFails
  <2>1. RawOK(raw)'
    BY <1>4, FinishedOK DEF WorkerFails
  <2>2. open' \in BOOLEAN
    BY <1>4 DEF WorkerFails, DeviceOK
  <2>3. DeviceOK'
    BY <1>4, <2>2 DEF WorkerFails, DeviceOK
  <2>4. WorkerOK' /\ PostsOK' /\ LinkOK' /\ CountsOK'
    BY <1>4 DEF WorkerFails, WorkerOK, PostsOK, LinkOK, CountsOK
  <2>5. DialogInv'
    BY <1>4, FinishedOK DEF WorkerFails, RawActive, DialogInv
  <2>6. GuiOK'
    BY <1>4 DEF WorkerFails, GuiOK
  <2>7. AuxOK'
    BY <1>4 DEF WorkerFails, AuxOK
  <2>8. PairOK'
    BY <1>4 DEF WorkerFails, PairOK
  <2> QED
    BY <2>1, <2>2, <2>3, <2>4, <2>5, <2>6, <2>7, <2>8
<1> QED
  BY <1>1, <1>2, <1>3, <1>4 DEF Worker

LEMMA OtherTypes == ASSUME PartsOK, LinkAges \/ RawFails \/ RawEnds \/ AuxFails PROVE PartsOK'
<1> USE DEF PartsOK
<1>1. CASE LinkAges
  <2>1. DeviceOK' /\ WorkerOK' /\ PostsOK' /\ LinkOK' /\ CountsOK'
    BY <1>1 DEF LinkAges, DeviceOK, WorkerOK, PostsOK, LinkOK, CountsOK
  <2>2. DialogInv'
    BY <1>1, FinishedOK DEF LinkAges, RawActive, DialogInv
  <2>3. GuiOK'
    BY <1>1 DEF LinkAges, GuiOK
  <2>4. AuxOK'
    BY <1>1 DEF LinkAges, AuxOK
  <2>5. PairOK'
    BY <1>1 DEF LinkAges, PairOK
  <2>6. RawOK(raw)'
    BY <1>1 DEF LinkAges, RawOK
  <2> QED
    BY <2>1, <2>2, <2>3, <2>4, <2>5, <2>6
<1>2. CASE RawFails
  <2>1. RawOK(raw)'
    BY <1>2, FinishedOK DEF RawFails
  <2>2. DeviceOK' /\ WorkerOK' /\ PostsOK' /\ LinkOK' /\ CountsOK'
    BY <1>2 DEF RawFails, DeviceOK, WorkerOK, PostsOK, LinkOK, CountsOK
  <2>3. DialogInv'
    BY <1>2, FinishedOK DEF RawFails, RawActive, DialogInv
  <2>4. GuiOK'
    BY <1>2 DEF RawFails, GuiOK
  <2>5. AuxOK'
    BY <1>2 DEF RawFails, AuxOK
  <2>6. PairOK'
    BY <1>2 DEF RawFails, PairOK
  <2> QED
    BY <2>1, <2>2, <2>3, <2>4, <2>5, <2>6
<1>3. CASE RawEnds
  <2>1. RawOK(raw)'
    BY <1>3 DEF RawEnds, RawOK, Raws
  <2>2. DeviceOK' /\ WorkerOK' /\ PostsOK' /\ LinkOK' /\ CountsOK'
    BY <1>3 DEF RawEnds, DeviceOK, WorkerOK, PostsOK, LinkOK, CountsOK
  <2>3. DialogInv'
    BY <1>3, FinishedOK DEF RawEnds, RawActive, DialogInv
  <2>4. GuiOK'
    BY <1>3 DEF RawEnds, GuiOK
  <2>5. AuxOK'
    BY <1>3 DEF RawEnds, AuxOK
  <2>6. PairOK'
    BY <1>3 DEF RawEnds, PairOK
  <2> QED
    BY <2>1, <2>2, <2>3, <2>4, <2>5, <2>6
<1>4. CASE AuxFails
  <2>1. DeviceOK' /\ WorkerOK' /\ PostsOK' /\ LinkOK' /\ CountsOK'
    BY <1>4 DEF AuxFails, DeviceOK, WorkerOK, PostsOK, LinkOK, CountsOK
  <2>2. DialogInv'
    BY <1>4, FinishedOK DEF AuxFails, RawActive, DialogInv
  <2>3. GuiOK'
    BY <1>4 DEF AuxFails, GuiOK
  <2>4. AuxOK'
    BY <1>4 DEF AuxFails, AuxOK
  <2>5. PairOK'
    BY <1>4 DEF AuxFails, PairOK
  <2>6. RawOK(raw)'
    BY <1>4 DEF AuxFails, RawOK
  <2> QED
    BY <2>1, <2>2, <2>3, <2>4, <2>5, <2>6
<1> QED
  BY <1>1, <1>2, <1>3, <1>4 DEF LinkAges

(***************************************************************************)
(* The gate.                                                               *)
(***************************************************************************)
LEMMA ObserveKeeps ==
  ASSUME LinkOK, GateInv, NEW check \in Checks,
         check.conn = conn \/ check.at < gate.at
  PROVE  /\ Observe(check).at >= gate.at
         /\ Observe(check).at = gate.at \/ Observe(check).at = check.at
         /\ Observe(check).conn = conn
              \/ (Observe(check).speed = "unknown" /\ ~Observe(check).seen)
<1>1. gate.at \in Nat /\ check.at \in Nat
  BY BoundsAssumption DEF LinkOK, Gates, Checks
<1>2. CASE check.at < gate.at
  BY <1>1, <1>2 DEF Observe, GateInv
<1>3. CASE check.at >= gate.at
  BY <1>1, <1>3 DEF Observe
<1> QED
  BY <1>1, <1>2, <1>3

LEMMA GateKept ==
  ASSUME PartsOK, GateInv, [Next]_vars
  PROVE  GateInv'
<1> USE DEF PartsOK
<1>a. ASSUME UNCHANGED <<gate, clock, conn, posts>> PROVE GateInv'
  BY <1>a DEF GateInv
<1>b. /\ gate.at \in Nat /\ clock \in Nat /\ conn \in Nat
      /\ \A check \in Checks : check.at \in Nat
  BY BoundsAssumption DEF LinkOK, DeviceOK, Gates, Checks
<1>c. \A post \in Elements(posts) : post.kind = "check" => post.at \in Nat
  <2>1. \A post \in Elements(posts) : post \in Checks \/ post = End
    BY DEF PostsOK, Elements
  <2> QED
    BY <1>b, <2>1 DEF End
<1>1. CASE \E kind \in Kinds : AskToRecord(kind)
  BY <1>1, <1>a DEF AskToRecord
<1>2. CASE DialogReturns
  BY <1>2, <1>a DEF DialogReturns
<1>3. CASE StopRecording
  BY <1>3, <1>a DEF StopRecording, BeginStop
<1>4. CASE OpenDevice
  <2>1. gate'.at = clock + 1 /\ gate'.speed = "unknown" /\ ~gate'.seen
    BY <1>4 DEF OpenDevice, Reset
  <2>2. clock' = clock + 1 /\ conn' = conn + 1
    BY <1>4 DEF OpenDevice
  <2>3. \A post \in Elements(posts) : post.kind = "check" => post.at < clock + 1
    BY <1>b, <1>c DEF GateInv
  <2>4. ASSUME NEW post \in Elements(posts'), post.kind = "check"
        PROVE  post.at <= clock + 1 /\ (post.conn = conn + 1 \/ post.at < clock + 1)
    <3>1. CASE posts' = posts
      BY <1>b, <1>c, <2>3, <2>4, <3>1 DEF GateInv
    <3>2. CASE posts' # posts
      <4>1. PICK speed \in Reported :
              posts' = Append(posts, [kind |-> "check", speed |-> speed,
                                      at |-> clock + 1, conn |-> conn + 1])
        BY <1>4, <3>2 DEF OpenDevice
      <4>2. [kind |-> "check", speed |-> speed, at |-> clock + 1, conn |-> conn + 1] \in Checks
        BY <1>4, BoundsAssumption DEF OpenDevice, LinkOK, DeviceOK, Checks, Reported, Speeds
      <4>3. post \in Elements(posts) \/ (post.at = clock + 1 /\ post.conn = conn + 1)
        BY <2>4, <4>1, <4>2, AppendElements DEF PostsOK
      <4> QED
        BY <1>b, <1>c, <2>3, <2>4, <4>3 DEF GateInv
    <3> QED
      BY <3>1, <3>2
  <2> QED
    BY <1>b, <2>1, <2>2, <2>4 DEF GateInv
<1>5. CASE StartCapture
  BY <1>5, <1>a DEF StartCapture
<1>6. CASE StopCapture
  BY <1>6, <1>a DEF StopCapture, BeginStop
<1>7. CASE CloseDevice("close") \/ CloseDevice("quit")
  BY <1>7, <1>a DEF CloseDevice
<1>8. CASE FinishStop
  BY <1>8, <1>a DEF FinishStop
<1>9. CASE QueryFails
  <2>1. CASE UNCHANGED <<gate, clock>>
    BY <1>a, <1>9, <2>1 DEF QueryFails
  <2>2. CASE gate' = Reset(clock + 1) /\ clock' = clock + 1
    <3>1. /\ gate'.at = clock + 1 /\ gate'.speed = "unknown" /\ ~gate'.seen
          /\ clock' = clock + 1 /\ conn' = conn /\ posts' = posts
      BY <1>9, <2>2 DEF QueryFails, Reset
    <3>2. \A post \in Elements(posts) : post.kind = "check" => post.at < clock + 1
      BY <1>b, <1>c DEF GateInv
    <3> QED
      BY <1>b, <1>c, <3>1, <3>2 DEF GateInv
  <2> QED
    BY <1>9, <2>1, <2>2 DEF QueryFails
<1>10. CASE QueryAnswers
  <2>1. PICK speed \in Reported : gate' = Observe(CheckNow(speed))
    BY <1>10 DEF QueryAnswers
  <2>2. clock' = clock + 1 /\ conn' = conn /\ posts' = posts /\ clock < MaxChecks
    BY <1>10 DEF QueryAnswers
  <2>3. CheckNow(speed) \in Checks /\ CheckNow(speed).conn = conn /\ CheckNow(speed).at = clock + 1
    BY <2>2, ChecksAreTyped DEF CheckNow
  <2>4. /\ gate'.at >= gate.at /\ gate'.at \in Nat /\ gate'.at <= clock + 1
        /\ gate'.conn = conn \/ (gate'.speed = "unknown" /\ ~gate'.seen)
    BY <1>b, <2>1, <2>3, ObserveKeeps DEF GateInv
  <2> QED
    BY <1>b, <1>c, <2>2, <2>4 DEF GateInv
<1>11. CASE CloseJoined
  BY <1>11, <1>a DEF CloseJoined, BeginStop
<1>12. CASE QuitJoined
  BY <1>12, <1>a DEF QuitJoined
<1>13. CASE HandleCheck
  <2>1. gate' = Observe(Head(posts)) /\ posts' = Tail(posts) /\ clock' = clock /\ conn' = conn
    BY <1>13 DEF HandleCheck
  <2>2. Head(posts) \in Checks /\ Head(posts).kind = "check" /\ posts # <<>>
    BY <1>13, HeadIsCheck DEF HandleCheck
  <2>3. Elements(posts) = {Head(posts)} \cup Elements(posts')
    BY <2>1, <2>2, TailElements DEF PostsOK
  <2>4. Head(posts).at <= clock /\ (Head(posts).conn = conn \/ Head(posts).at < gate.at)
    BY <2>2, <2>3 DEF GateInv
  <2>5. /\ gate'.at >= gate.at /\ gate'.at \in Nat /\ gate'.at <= clock
        /\ gate'.conn = conn \/ (gate'.speed = "unknown" /\ ~gate'.seen)
    BY <1>b, <2>1, <2>2, <2>4, ObserveKeeps DEF GateInv
  <2> QED
    BY <1>b, <1>c, <2>1, <2>3, <2>5 DEF GateInv
<1>14. CASE HandleEnd
  <2>1. Elements(posts') \subseteq Elements(posts)
    BY <1>14, TailElements DEF HandleEnd, PostsOK
  <2>2. UNCHANGED <<gate, clock, conn>>
    BY <1>14 DEF HandleEnd
  <2> QED
    BY <2>1, <2>2 DEF GateInv
<1>15. CASE TimerEnforces
  BY <1>15, <1>a DEF TimerEnforces, Enforce, BeginStop
<1>16. CASE TimerEndsPair
  BY <1>16, <1>a DEF TimerEndsPair, BeginStop
<1>17. CASE WorkerEnds
  BY <1>17, <1>a DEF WorkerEnds
<1>18. CASE WorkerPosts
  <2>1. Elements(posts') = Elements(posts) \cup {End}
    BY <1>18, AppendElements DEF WorkerPosts, PostsOK
  <2>2. UNCHANGED <<gate, clock, conn>>
    BY <1>18 DEF WorkerPosts
  <2> QED
    BY <2>1, <2>2 DEF GateInv, End
<1>19. CASE WorkerChecks
  <2>1. PICK speed \in Reported : posts' = Append(posts, CheckNow(speed))
    BY <1>19 DEF WorkerChecks
  <2>2. clock' = clock + 1 /\ conn' = conn /\ gate' = gate /\ clock < MaxChecks
    BY <1>19 DEF WorkerChecks
  <2>3. CheckNow(speed) \in Checks /\ CheckNow(speed).conn = conn /\ CheckNow(speed).at = clock + 1
    BY <2>2, ChecksAreTyped DEF CheckNow
  <2>4. Elements(posts') = Elements(posts) \cup {CheckNow(speed)}
    BY <2>1, <2>3, AppendElements DEF PostsOK
  <2> QED
    BY <1>b, <1>c, <2>2, <2>3, <2>4 DEF GateInv
<1>20. CASE WorkerFails
  BY <1>20, <1>a DEF WorkerFails
<1>21. CASE LinkAges
  BY <1>21, <1>a DEF LinkAges
<1>22. CASE RawFails
  BY <1>22, <1>a DEF RawFails
<1>23. CASE RawEnds
  BY <1>23, <1>a DEF RawEnds
<1>24. CASE AuxFails
  BY <1>24, <1>a DEF AuxFails
<1>25. CASE UNCHANGED vars
  BY <1>25, <1>a DEF vars
<1> QED
  BY <1>1, <1>2, <1>3, <1>4, <1>5, <1>6, <1>7, <1>8, <1>9, <1>10, <1>11, <1>12, <1>13,
     <1>14, <1>15, <1>16, <1>17, <1>18, <1>19, <1>20, <1>21, <1>22, <1>23, <1>24, <1>25
     DEF Next, User, Gui, Post, Timer, Worker

(***************************************************************************)
(* The end of the capture.                                                 *)
(***************************************************************************)
LEMMA OrphanKept ==
  ASSUME PartsOK, OrphanInv, [Next]_vars
  PROVE  OrphanInv'
<1> USE DEF PartsOK
<1>a. ASSUME worker' = worker, posts' = posts, Receiving' => Receiving PROVE OrphanInv'
  BY <1>a DEF OrphanInv
<1>1. CASE \E kind \in Kinds : AskToRecord(kind)
  <2>1. worker' = worker /\ posts' = posts
    BY <1>1 DEF AskToRecord
  <2>2. Receiving' => Receiving
    BY <1>1, FinishedOK DEF AskToRecord, Receiving
  <2> QED
    BY <1>a, <2>1, <2>2
<1>2. CASE DialogReturns
  <2>1. worker' = worker /\ posts' = posts
    BY <1>2 DEF DialogReturns
  <2>2. Receiving' => Receiving
    BY <1>2, FinishedOK DEF DialogReturns, Receiving
  <2> QED
    BY <1>a, <2>1, <2>2
<1>3. CASE StopRecording
  <2>1. worker' = worker /\ posts' = posts
    BY <1>3 DEF StopRecording, BeginStop
  <2>2. Receiving' => Receiving
    BY <1>3, FinishedOK DEF StopRecording, BeginStop, Receiving
  <2> QED
    BY <1>a, <2>1, <2>2
<1>4. CASE OpenDevice
  <2>1. ASSUME NEW speed \in Reported
        PROVE  [kind |-> "check", speed |-> speed, at |-> clock + 1,
        conn |-> conn + 1] \in Checks
    BY <1>4, BoundsAssumption DEF OpenDevice, LinkOK, DeviceOK, Checks, Reported, Speeds
  <2>2. posts' = posts \/ \E check \in Checks \cup {End} : posts' = Append(posts, check)
    BY <1>4, <2>1 DEF OpenDevice
  <2>3. Elements(posts) \subseteq Elements(posts')
    <3>1. ASSUME NEW check \in Checks \cup {End}, posts' = Append(posts, check)
          PROVE  Elements(posts') = Elements(posts) \cup {check}
      BY <3>1, AppendElements DEF PostsOK
    <3>2. posts' = posts => Elements(posts') = Elements(posts)
      OBVIOUS
    <3> QED
      BY <2>2, <3>1, <3>2, Zenon
  <2>4. UNCHANGED <<worker, raw, aux>>
    BY <1>4 DEF OpenDevice
  <2> QED
    BY <2>3, <2>4 DEF OrphanInv, Receiving
<1>5. CASE StartCapture
  BY <1>5 DEF StartCapture, OrphanInv
<1>6. CASE StopCapture
  <2>1. worker' = worker /\ posts' = posts
    BY <1>6 DEF StopCapture, BeginStop
  <2>2. Receiving' => Receiving
    BY <1>6, FinishedOK DEF StopCapture, BeginStop, Receiving
  <2> QED
    BY <1>a, <2>1, <2>2
<1>7. CASE CloseDevice("close") \/ CloseDevice("quit")
  <2>1. worker' = worker /\ posts' = posts
    BY <1>7 DEF CloseDevice
  <2>2. Receiving' => Receiving
    BY <1>7, FinishedOK DEF CloseDevice, Receiving
  <2> QED
    BY <1>a, <2>1, <2>2
<1>8. CASE FinishStop
  <2>1. worker' = worker /\ posts' = posts
    BY <1>8 DEF FinishStop
  <2>2. Receiving' => Receiving
    BY <1>8, FinishedOK DEF AuxOutcome, FinishStop, Receiving
  <2> QED
    BY <1>a, <2>1, <2>2
<1>9. CASE QueryFails
  <2>1. worker' = worker /\ posts' = posts
    BY <1>9 DEF QueryFails
  <2>2. Receiving' => Receiving
    BY <1>9, FinishedOK DEF QueryFails, Receiving
  <2> QED
    BY <1>a, <2>1, <2>2
<1>10. CASE QueryAnswers
  <2>1. worker' = worker /\ posts' = posts
    BY <1>10 DEF QueryAnswers
  <2>2. CASE Running
    BY <2>1, <2>2 DEF OrphanInv, Running
  <2>3. CASE ~Running
    <3>1. UNCHANGED <<rawPart, auxPart>>
      BY <1>10, <2>3 DEF QueryAnswers, MayStart
    <3> QED
      BY <1>a, <2>1, <3>1 DEF Receiving
  <2> QED
    BY <2>2, <2>3
<1>11. CASE CloseJoined
  <2>1. worker' = worker /\ posts' = posts
    BY <1>11 DEF CloseJoined, BeginStop
  <2>2. Receiving' => Receiving
    BY <1>11, FinishedOK DEF CloseJoined, BeginStop, Receiving
  <2> QED
    BY <1>a, <2>1, <2>2
<1>12. CASE QuitJoined
  <2>1. worker' = worker /\ posts' = posts
    BY <1>12 DEF QuitJoined
  <2>2. Receiving' => Receiving
    BY <1>12, FinishedOK DEF QuitJoined, Receiving
  <2> QED
    BY <1>a, <2>1, <2>2
<1>13. CASE HandleCheck
  <2>1. posts # <<>> /\ Head(posts) # End /\ posts' = Tail(posts) /\ worker' = worker
    BY <1>13 DEF HandleCheck, End
  <2>2. End \in Elements(posts) => End \in Elements(posts')
    BY <2>1, TailElements DEF PostsOK
  <2>3. Receiving' => Receiving
    BY <1>13, FinishedOK DEF HandleCheck, Enforce, BeginStop, Receiving
  <2> QED
    BY <2>1, <2>2, <2>3 DEF OrphanInv
<1>14. CASE HandleEnd
  <2>1. raw'.state # "receiving"
    BY <1>14, FinishedOK DEF HandleEnd
  <2>2. aux' # "active"
    BY <1>14 DEF HandleEnd, BeginStop
  <2> QED
    BY <2>1, <2>2 DEF OrphanInv, Receiving
<1>15. CASE TimerEnforces
  <2>1. worker' = worker /\ posts' = posts
    BY <1>15 DEF TimerEnforces, Enforce, BeginStop
  <2>2. Receiving' => Receiving
    BY <1>15, FinishedOK DEF TimerEnforces, Enforce, BeginStop, Receiving
  <2> QED
    BY <1>a, <2>1, <2>2
<1>16. CASE TimerEndsPair
  <2>1. worker' = worker /\ posts' = posts
    BY <1>16 DEF TimerEndsPair, BeginStop
  <2>2. Receiving' => Receiving
    BY <1>16, FinishedOK DEF TimerEndsPair, BeginStop, Receiving
  <2> QED
    BY <1>a, <2>1, <2>2
<1>17. CASE WorkerEnds
  BY <1>17 DEF WorkerEnds, OrphanInv
<1>18. CASE WorkerPosts
  <2>1. Elements(posts') = Elements(posts) \cup {End}
    BY <1>18, AppendElements DEF WorkerPosts, PostsOK
  <2> QED
    BY <2>1 DEF OrphanInv
<1>19. CASE WorkerChecks
  <2>1. Elements(posts) \subseteq Elements(posts')
    BY <1>19, ChecksAreTyped, AppendElements DEF WorkerChecks, PostsOK
  <2>2. UNCHANGED <<worker, raw, aux>>
    BY <1>19 DEF WorkerChecks
  <2> QED
    BY <2>1, <2>2 DEF OrphanInv, Receiving
<1>20. CASE WorkerFails
  BY <1>20 DEF WorkerFails, OrphanInv
<1>21. CASE LinkAges
  <2>1. worker' = worker /\ posts' = posts
    BY <1>21 DEF LinkAges
  <2>2. Receiving' => Receiving
    BY <1>21, FinishedOK DEF LinkAges, Receiving
  <2> QED
    BY <1>a, <2>1, <2>2
<1>22. CASE RawFails
  <2>1. worker' = worker /\ posts' = posts
    BY <1>22 DEF RawFails
  <2>2. Receiving' => Receiving
    BY <1>22, FinishedOK DEF RawFails, Receiving
  <2> QED
    BY <1>a, <2>1, <2>2
<1>23. CASE RawEnds
  <2>1. worker' = worker /\ posts' = posts
    BY <1>23 DEF RawEnds
  <2>2. Receiving' => Receiving
    BY <1>23, FinishedOK DEF RawEnds, Receiving
  <2> QED
    BY <1>a, <2>1, <2>2
<1>24. CASE AuxFails
  <2>1. worker' = worker /\ posts' = posts
    BY <1>24 DEF AuxFails
  <2>2. Receiving' => Receiving
    BY <1>24, FinishedOK DEF AuxFails, Receiving
  <2> QED
    BY <1>a, <2>1, <2>2
<1>25. CASE UNCHANGED vars
  BY <1>25, <1>a DEF Receiving, vars
<1> QED
  BY <1>1, <1>2, <1>3, <1>4, <1>5, <1>6, <1>7, <1>8, <1>9, <1>10, <1>11, <1>12, <1>13,
     <1>14, <1>15, <1>16, <1>17, <1>18, <1>19, <1>20, <1>21, <1>22, <1>23, <1>24, <1>25
     DEF Next, User, Gui, Post, Timer, Worker

(***************************************************************************)
(* The pair.                                                               *)
(***************************************************************************)
LEMMA PairFrame ==
  ASSUME PairInv, UNCHANGED <<raw, auxError, auxFinal, streams>>, aux' = aux,
         gui' = "stopping" => gui = "stopping", gui = "gone" => gui' = "gone"
  PROVE  PairInv'
BY DEF PairInv

(* finish() leaves the companion alone.                                    *)
LEMMA PairFinished ==
  ASSUME RawOK(raw), PairInv, UNCHANGED <<auxError, auxFinal, streams>>, aux' = aux,
         gui' = "stopping" => gui = "stopping", gui = "gone" => gui' = "gone",
         NEW error \in BOOLEAN, raw' = Finished(raw, error)
  PROVE  PairInv'
<1>1. /\ raw'.state = "none" <=> raw.state = "none"
      /\ raw'.state = "done" => raw' = raw
  BY FinishedOK
<1> QED
  BY <1>1 DEF PairInv

(* stopImuRecording's first step, with or without finish().                *)
LEMMA PairStopping ==
  ASSUME RawOK(raw), AuxOK, PairInv, UNCHANGED <<auxError, auxFinal, streams>>, gui # "gone",
         aux' = IF aux = "active" THEN "stopping" ELSE aux,
         NEW error \in BOOLEAN, raw' \in {raw, Finished(raw, error)}
  PROVE  PairInv'
<1>1. /\ raw'.state = "none" <=> raw.state = "none"
      /\ raw'.state = "done" => raw' = raw
  BY FinishedOK
<1> QED
  BY <1>1 DEF PairInv, AuxOK

LEMMA PairKept ==
  ASSUME PartsOK, PairInv, [Next]_vars
  PROVE  PairInv'
<1> USE DEF PartsOK
<1>1. CASE \E kind \in Kinds : AskToRecord(kind)
  BY <1>1, PairFrame DEF AskToRecord
<1>2. CASE DialogReturns
  BY <1>2, PairFrame DEF DialogReturns
<1>3. CASE StopRecording
  <2>1. /\ UNCHANGED <<auxError, auxFinal, streams>> /\ gui # "gone"
        /\ aux' = IF aux = "active" THEN "stopping" ELSE aux
    BY <1>3 DEF StopRecording, Enforce, BeginStop
  <2>2. raw' \in {raw, Finished(raw, FALSE)}
    BY <1>3 DEF StopRecording, Enforce
  <2> QED
    BY <2>1, <2>2, PairStopping
<1>4. CASE OpenDevice
  BY <1>4, PairFrame DEF OpenDevice
<1>5. CASE StartCapture
  BY <1>5, PairFrame DEF StartCapture
<1>6. CASE StopCapture
  <2>1. CASE aux = "active"
    <3>1. /\ UNCHANGED <<raw, auxError, auxFinal, streams>> /\ gui # "gone"
          /\ aux' = "stopping"
      BY <1>6, <2>1 DEF StopCapture, BeginStop
    <3> QED
      BY <2>1, <3>1, PairStopping
  <2>2. CASE aux # "active"
    <3>1. /\ UNCHANGED <<auxError, auxFinal, streams, aux, gui>> /\ raw' = Finished(raw, FALSE)
      BY <1>6, <2>2 DEF StopCapture
    <3> QED
      BY <3>1, PairFinished
  <2> QED
    BY <2>1, <2>2
<1>7. CASE CloseDevice("close") \/ CloseDevice("quit")
  <2>1. /\ UNCHANGED <<auxError, auxFinal, streams, aux>> /\ gui = "idle" /\ gui' = "joining"
        /\ raw' = raw \/ raw' = Finished(raw, FALSE)
    BY <1>7 DEF CloseDevice
  <2> QED
    BY <2>1, PairFrame, PairFinished
<1>8. CASE FinishStop
  <2>1. PICK saved \in BOOLEAN :
          LET had     == aux = "stopping"
              failure == AuxOutcome(had, saved)
              paired  == raw.state # "none" /\ ~auxFinal
              ended   == IF paired THEN Finished(raw, failure) ELSE raw
          IN /\ streams' = IF had THEN (IF saved THEN "complete" ELSE "incomplete")
                           ELSE streams
             /\ auxError' = IF paired THEN failure ELSE auxError
             /\ auxFinal' = (auxFinal \/ paired)
             /\ raw' = IF resume = "finishRaw" THEN Finished(ended, FALSE) ELSE ended
    BY <1>8 DEF FinishStop
  <2>2. gui = "stopping" /\ gui' = "idle" /\ aux' = "none"
    BY <1>8 DEF FinishStop
  <2>3. /\ raw'.state = "none" <=> raw.state = "none"
        /\ raw'.state = "done" => raw' = raw
    BY <2>1, FinishedOK DEF AuxOutcome
  <2>4. CASE raw.state # "none" /\ ~auxFinal
    <3>1. aux = "stopping"
      BY <2>2, <2>4 DEF PairInv
    <3>2. streams' = (IF saved THEN "complete" ELSE "incomplete") /\ auxError' = ~saved
      BY <2>1, <2>4, <3>1 DEF AuxOutcome
    <3>3. auxFinal'
      BY <2>1, <2>4
    <3> QED
      BY <2>2, <2>3, <3>2, <3>3 DEF PairInv
  <2>5. CASE raw.state # "none" /\ auxFinal
    <3>1. aux = "none" /\ (auxError \/ streams = "complete")
      BY <2>5 DEF PairInv
    <3>2. streams' = streams /\ auxError' = auxError /\ auxFinal'
      BY <2>1, <2>5, <3>1
    <3> QED
      BY <2>2, <2>3, <3>1, <3>2 DEF PairInv
  <2>6. CASE raw.state = "none"
    BY <2>2, <2>3, <2>6 DEF PairInv
  <2> QED
    BY <2>4, <2>5, <2>6
<1>9. CASE QueryFails
  BY <1>9, PairFrame DEF QueryFails
<1>10. CASE QueryAnswers
  <2>1. gui = "query" /\ gui' = "idle"
    BY <1>10 DEF QueryAnswers
  <2>2. CASE Started
    <3>1. raw'.state = (IF request = "raw" THEN "receiving" ELSE "none")
      BY <2>2 DEF Started, NoRaw
    <3>2. request = "raw" => ~auxFinal'
      BY <2>2 DEF Started
    <3>3. aux' = "active"
      BY <2>2 DEF Started
    <3> QED
      BY <2>1, <3>1, <3>2, <3>3 DEF PairInv
  <2>3. CASE UNCHANGED <<rawPart, auxPart>>
    BY <2>1, <2>3, PairFrame
  <2> QED
    BY <1>10, <2>2, <2>3 DEF QueryAnswers
<1>11. CASE CloseJoined
  <2>1. CASE aux = "active"
    <3>1. /\ UNCHANGED <<raw, auxError, auxFinal, streams>> /\ gui # "gone"
          /\ aux' = "stopping"
      BY <1>11, <2>1 DEF CloseJoined, BeginStop
    <3> QED
      BY <2>1, <3>1, PairStopping
  <2>2. CASE aux # "active"
    <3>1. UNCHANGED <<raw, auxError, auxFinal, streams, aux>> /\ gui = "joining" /\ gui' = "idle"
      BY <1>11, <2>2 DEF CloseJoined
    <3> QED
      BY <3>1, PairFrame
  <2> QED
    BY <2>1, <2>2
<1>12. CASE QuitJoined
  <2>1. /\ UNCHANGED <<auxError, auxFinal>> /\ aux' = "none" /\ gui' = "gone"
        /\ raw' = Finished(raw, FALSE) /\ gui = "joining"
    BY <1>12 DEF QuitJoined
  <2>2. aux # "active" => streams' = streams
    BY <1>12 DEF QuitJoined
  <2>3. /\ raw'.state = "none" <=> raw.state = "none"
        /\ raw'.state = "done" => raw' = raw
    BY <2>1, FinishedOK
  <2> QED
    BY <2>1, <2>2, <2>3 DEF PairInv
<1>13. CASE HandleCheck
  <2>1. UNCHANGED <<auxError, auxFinal>> /\ gui # "gone"
    BY <1>13 DEF HandleCheck
  <2>2. CASE Enforce
    <3>1. streams' = streams /\ aux' = IF aux = "active" THEN "stopping" ELSE aux
      BY <2>2 DEF Enforce, BeginStop
    <3>2. raw' \in {raw, Finished(raw, TRUE)}
      BY <2>2 DEF Enforce
    <3> QED
      BY <2>1, <3>1, <3>2, PairStopping
  <2>3. CASE UNCHANGED <<raw, control, auxPart>>
    BY <2>1, <2>3, PairFrame
  <2> QED
    BY <1>13, <2>2, <2>3 DEF HandleCheck
<1>14. CASE HandleEnd
  <2>1. CASE aux = "active"
    <3>1. /\ UNCHANGED <<auxError, auxFinal, streams>> /\ gui # "gone"
          /\ aux' = "stopping" /\ raw' = Finished(raw, FALSE)
      BY <1>14, <2>1 DEF HandleEnd, BeginStop
    <3> QED
      BY <2>1, <3>1, PairStopping
  <2>2. CASE aux # "active"
    <3>1. /\ UNCHANGED <<auxError, auxFinal, streams, aux, gui>> /\ raw' = Finished(raw, FALSE)
      BY <1>14, <2>2 DEF HandleEnd
    <3> QED
      BY <3>1, PairFinished
  <2> QED
    BY <2>1, <2>2
<1>15. CASE TimerEnforces
  <2>1. /\ UNCHANGED <<auxError, auxFinal, streams>> /\ gui # "gone"
        /\ aux' = IF aux = "active" THEN "stopping" ELSE aux
    BY <1>15 DEF TimerEnforces, Enforce, BeginStop
  <2>2. raw' \in {raw, Finished(raw, TRUE)}
    BY <1>15 DEF TimerEnforces, Enforce
  <2> QED
    BY <2>1, <2>2, PairStopping
<1>16. CASE TimerEndsPair
  <2>1. /\ UNCHANGED <<auxError, auxFinal, streams>> /\ gui # "gone"
        /\ aux' = IF aux = "active" THEN "stopping" ELSE aux
    BY <1>16 DEF TimerEndsPair, Enforce, BeginStop
  <2>2. raw' \in {raw, Finished(raw, FALSE)}
    BY <1>16 DEF TimerEndsPair, Enforce
  <2> QED
    BY <2>1, <2>2, PairStopping
<1>17. CASE WorkerEnds
  BY <1>17, PairFrame DEF WorkerEnds
<1>18. CASE WorkerPosts
  BY <1>18, PairFrame DEF WorkerPosts
<1>19. CASE WorkerChecks
  BY <1>19, PairFrame DEF WorkerChecks
<1>20. CASE WorkerFails
  BY <1>20, PairFinished DEF WorkerFails
<1>21. CASE LinkAges
  BY <1>21, PairFrame DEF LinkAges
<1>22. CASE RawFails
  BY <1>22, PairFinished DEF RawFails
<1>23. CASE RawEnds
  <2>1. PICK whole \in BOOLEAN :
          raw' = [state |-> "done", error |-> raw.error \/ ~whole,
                  complete |-> whole /\ ~raw.error]
    BY <1>23 DEF RawEnds
  <2>2. raw.state # "none" /\ raw'.state = "done" /\ (raw'.complete \/ raw'.error)
    BY <1>23, <2>1 DEF RawEnds
  <2>3. UNCHANGED <<auxError, auxFinal, streams, aux, gui>>
    BY <1>23 DEF RawEnds
  <2> QED
    BY <2>2, <2>3 DEF PairInv
<1>24. CASE AuxFails
  BY <1>24, PairFrame DEF AuxFails
<1>25. CASE UNCHANGED vars
  BY <1>25, PairFrame DEF vars
<1> QED
  BY <1>1, <1>2, <1>3, <1>4, <1>5, <1>6, <1>7, <1>8, <1>9, <1>10, <1>11, <1>12, <1>13,
     <1>14, <1>15, <1>16, <1>17, <1>18, <1>19, <1>20, <1>21, <1>22, <1>23, <1>24, <1>25
     DEF Next, User, Gui, Post, Timer, Worker

LEMMA IInvKept == IInv /\ [Next]_vars => IInv'
<1> SUFFICES ASSUME IInv, [Next]_vars PROVE IInv'
  OBVIOUS
<1>1. PartsOK /\ GateInv /\ OrphanInv /\ PairInv
  BY TypeParts DEF IInv
<1>2. PartsOK'
  <2>1. CASE Next
    BY <1>1, <2>1, UserTypes, GuiTypes, PostTypes, WorkerTypes, OtherTypes DEF Next
  <2>2. CASE UNCHANGED vars
    BY <1>1, <2>2 DEF vars, PartsOK, DeviceOK, WorkerOK, PostsOK, LinkOK, GuiOK, AuxOK,
                      PairOK, CountsOK, DialogInv, RawActive
  <2> QED
    BY <2>1, <2>2
<1>3. (TypeOK /\ DialogInv)'
  BY <1>2, TypeParts DEF PartsOK, DeviceOK, WorkerOK, PostsOK, LinkOK, GuiOK, AuxOK,
                         PairOK, CountsOK, RawOK, Gates, Raws, TypeOK
<1> QED
  BY <1>1, <1>3, GateKept, OrphanKept, PairKept DEF IInv

(***************************************************************************)
(* The theorems.                                                           *)
(***************************************************************************)

(* The inductive invariant of the recording control: the types of its      *)
(* state, and what is known of the gate, of a session whose capture is     *)
(* over and of each half of a pair.                                        *)
THEOREM ControlCorrect == Spec => []IInv
BY InitIInv, IInvKept, PTL DEF Spec

(* recording_usb_gate.hpp: a delayed reply never lets a recording start or *)
(* go on with the word of an earlier connection.                           *)
THEOREM GateCorrect == Spec => []GateOfThisConnection
<1>1. IInv => GateOfThisConnection
  BY DEF IInv, GateInv, GateOfThisConnection, Allowed, AllowedBy
<1> QED
  BY <1>1, ControlCorrect, PTL

(* startImuRecordingImpl and the closure of workerMain: once the end of a  *)
(* capture was handled nothing records, whatever was started meanwhile.    *)
THEOREM OrphanCorrect == Spec => []NoOrphanRecording
<1>1. ASSUME IInv PROVE NoOrphanRecording
  <2>1. End \in Elements(posts) => Contains(posts, End)
    BY DEF Elements, Contains
  <2> QED
    BY <1>1, <2>1 DEF IInv, OrphanInv, NoOrphanRecording, Running
<1> QED
  BY <1>1, ControlCorrect, PTL

(* pollRawRecording and stopImuRecording: what is shown as saved is whole  *)
(* on disk, both halves of it, whoever ended them and in which order.      *)
THEOREM SavedCorrect == Spec => []SavedIsWhole
<1>1. IInv => SavedIsWhole
  BY DEF IInv, PairInv, SavedIsWhole, ShownAsSaved
<1> QED
  BY <1>1, ControlCorrect, PTL
================================================================================
