------------------------- MODULE DatasetRecorderProofs -------------------------
(***************************************************************************)
(* Proofs about DatasetRecorder, for any cameras, queue limits, payload    *)
(* sizes and timestamps: the rows of an index have bytes of their own, the *)
(* rows of an aligned stream are in the order of time, the queues stay     *)
(* within their budget, and under a complete manifest the counters account *)
(* for every image and batch and the containers hold every payload.        *)
(***************************************************************************)
EXTENDS DatasetRecorder, TotalsProofs

Queued(k) == IF k = "frame" THEN queue.frames ELSE queue.lidar
Busy      == writer.pc \in {"taken", "payload", "failing"}
Holds(k)  == writer.pc \in {"taken", "payload"} /\ writer.job.kind = k

Queues  == [frames : Seq(FrameSets), lidar : Seq(Batches)]
Rows    == [at : Nat, images : SUBSET Cameras, chunk : Nat, offset : Nat, bytes : Nat]
Gates   == [ready : BOOLEAN, start : Nat, imuStarted : BOOLEAN, last : [Gated -> Nat]]
Files   == [Kinds -> [chunk : Nat, size : Nat]]
Indices == [Kinds -> Seq(Rows)]
Writers == [pc : {"none", "idle", "taken", "payload", "failing", "exited"}, job : Jobs \union {NoJob}]

(* The types that the arguments below rest on.                             *)
Types ==
  /\ gate \in Gates
  /\ queue \in Queues
  /\ file \in Files /\ index \in Indices
  /\ writer \in Writers /\ (Busy => writer.job \in Jobs)
  /\ capture \in Jobs \union {NoJob, Failing}

(* A written payload that has no row yet ends its container's open chunk.  *)
PayloadInv ==
  writer.pc = "payload" =>
    LET f == file[writer.job.kind] IN
    /\ f.chunk > 0 /\ f.size >= writer.job.bytes
    /\ f.size <= ChunkBytes \/ f.size = writer.job.bytes

\* What the rows of kind k may cover of its open chunk.
Settled(k) == IF writer.pc = "payload" /\ writer.job.kind = k
              THEN file[k].size - writer.job.bytes ELSE file[k].size

(* The rows of a container stay below the payload that has none yet.       *)
RowsInv ==
  \A k \in Kinds : \A i \in DOMAIN index[k] :
    /\ index[k][i].chunk \in 1 .. file[k].chunk
    /\ index[k][i].chunk = file[k].chunk => index[k][i].offset + index[k][i].bytes <= Settled(k)

BytesInv == PayloadInv /\ RowsInv /\ RowsLaidOut

Disks == [Kinds -> [stream : {"closed", "open", "bad"}, held : Seq(Nat)]]

(* Every chunk that was begun has its entry, and a stream is of a chunk.   *)
DiskInv ==
  /\ disk \in Disks
  /\ \A k \in Kinds :
       /\ Len(disk[k].held) = file[k].chunk
       /\ disk[k].stream # "closed" => file[k].chunk > 0

(* A stream that started, started after the common start.                  *)
GateInv == \A s \in Gated : gate.last[s] # 0 => gate.ready /\ gate.last[s] > gate.start

\* A time that the gate has let in for stream k.
Recent(k, t) == gate.start < t /\ t <= gate.last[k]

(* Index, job in hand and queue of a stream are one sequence in time, and  *)
(* the gate has let in all of it.                                          *)
TimesInv ==
  Aligned => \A k \in Kinds :
    /\ \A i \in DOMAIN Queued(k) :
         /\ Recent(k, Queued(k)[i].at)
         /\ \A j \in DOMAIN Queued(k) : i < j => Queued(k)[i].at < Queued(k)[j].at
    /\ Holds(k) => /\ Recent(k, writer.job.at)
                   /\ \A i \in DOMAIN Queued(k) : writer.job.at < Queued(k)[i].at
    /\ \A i \in DOMAIN index[k] :
         /\ Recent(k, index[k][i].at)
         /\ Holds(k) => index[k][i].at < writer.job.at
         /\ \A j \in DOMAIN Queued(k) : index[k][i].at < Queued(k)[j].at
         /\ \A j \in DOMAIN index[k] : i < j => index[k][i].at < index[k][j].at

IInv == Types /\ BytesInv /\ GateInv /\ TimesInv

--------------------------------------------------------------------------------
(***************************************************************************)
(* Lemmas about the operators.                                             *)
(***************************************************************************)

(* Making room never evicts more than there is, and goes on until a frame  *)
(* set is kept only where f fits beside it.                                *)
LEMMA EvictedRange ==
  ASSUME Types, NEW f
  PROVE  /\ Evicted(f) \in 0 .. Len(queue.frames)
         /\ Evicted(f) < Len(queue.frames) =>
              ~Full(Kept(Evicted(f)), queuedBytes - BytesIn(Oldest(Evicted(f))), f)
<1> DEFINE rooms == {n \in 0 .. Len(queue.frames) :
                       n < Len(queue.frames) => ~Full(Kept(n), queuedBytes - BytesIn(Oldest(n)), f)}
<1>1. Len(queue.frames) \in Nat
  BY DEF Types
<1>2. Len(queue.frames) \in rooms /\ rooms \subseteq Nat
  BY <1>1
<1>3. Evicted(f) = CHOOSE x \in rooms : \A y \in rooms : x <= y
  BY DEF Evicted, Min
<1> HIDE DEF rooms
<1>4. Evicted(f) \in rooms
  BY <1>2, <1>3, LeastNatural
<1> QED
  BY <1>4 DEF rooms

LEMMA JobsAreJobs ==
  /\ FrameSets \subseteq Jobs /\ Batches \subseteq Jobs /\ NoJob \notin Jobs /\ Failing \notin Jobs
  /\ \A job \in Jobs : job.at \in Nat /\ job.bytes \in Nat /\ job.kind \in Kinds /\ job.images \subseteq Cameras
  /\ \A f \in FrameSets : f.kind = "frame"
  /\ \A b \in Batches : b.kind = "lidar"
<1>1. \A job \in Jobs : job \in Job
  BY InputsAssumption
<1>2. Times \subseteq Nat
  BY StreamsAssumption
<1> QED
  BY <1>1, <1>2, InputsAssumption DEF Jobs, Job, NoJob, Failing, Kinds

(* Whatever sample a stream is shown: the gate never goes back, moves the  *)
(* common start only before any stream has started, and lets in only what  *)
(* is later than all it has let in.                                        *)
GateMoves ==
  /\ gate' \in Gates
  /\ \A s \in Gated : /\ gate'.last[s] >= gate.last[s]
                      /\ gate'.last[s] # 0 => gate'.ready /\ gate'.last[s] > gate'.start
  /\ gate'.start = gate.start \/ \A s \in Gated : gate.last[s] = 0

LEMMA OpenedMoves ==
  ASSUME Types, GateInv, NEW t \in Nat \ {0}, gate' = Opened(t)
  PROVE  GateMoves
<1>1. CASE gate.ready
  BY <1>1 DEF Opened, Types, GateInv, GateMoves, Gates
<1>2. CASE ~gate.ready
  <2>1. /\ gate' \in Gates /\ gate'.last = gate.last /\ gate'.ready
    BY <1>2 DEF Opened, Types, Gates
  <2>2. \A s \in Gated : gate.last[s] = 0
    BY <1>2 DEF GateInv
  <2> QED
    BY <2>1, <2>2 DEF GateMoves
<1> QED
  BY <1>1, <1>2

LEMMA AdmittedMoves ==
  ASSUME Types, GateInv, NEW s \in Gated, NEW t \in Nat, gate' = Admitted(s, t)
  PROVE  /\ GateMoves
         /\ Admits(s, t) => gate.last[s] < t /\ gate'.start < t /\ gate'.last[s] = t
<1>1. CASE t = 0
  BY <1>1 DEF Admitted, Admits, Boundary, Types, GateInv, GateMoves, Gates
<1>2. CASE t # 0 /\ ~Admits(s, t)
  BY <1>2, OpenedMoves DEF Admitted
<1>3. CASE t # 0 /\ Admits(s, t)
  <2> DEFINE o == Opened(t)
  <2>1. /\ o \in Gates /\ o.last = gate.last /\ o.ready
        /\ gate.ready => o = gate
        /\ gate.ready \/ \A r \in Gated : gate.last[r] = 0
    BY <1>3 DEF Opened, Types, Gates, GateInv
  <2>2. gate.last[s] \in Nat /\ o.start \in Nat /\ gate.start \in Nat
    BY <2>1 DEF Types, Gates
  <2>3. gate.last[s] < t /\ o.start < t
    <3>1. CASE gate.last[s] = 0
      BY <1>3, <2>2, <3>1 DEF Admits, Boundary
    <3>2. CASE gate.last[s] # 0
      BY <1>3, <2>1, <2>2, <3>2 DEF Admits, Regresses, GateInv
    <3> QED
      BY <3>1, <3>2
  <2> HIDE DEF o
  <2>4. gate' = [o EXCEPT !.last[s] = t]
    BY <1>3 DEF Admitted, o
  <2>5. gate' \in Gates
    BY <2>1, <2>4 DEF Gates
  <2>6. /\ gate'.ready /\ gate'.start = o.start
        /\ gate'.last = [o.last EXCEPT ![s] = t]
    BY <2>1, <2>4 DEF Gates
  <2>7. gate.last \in [Gated -> Nat]
    BY DEF Types, Gates
  <2>8. \A r \in Gated : gate'.last[r] = IF r = s THEN t ELSE gate.last[r]
    BY <2>1, <2>6, <2>7
  <2> QED
    BY <2>1, <2>2, <2>3, <2>5, <2>6, <2>7, <2>8 DEF GateMoves, GateInv
<1> QED
  BY <1>1, <1>2, <1>3

(* admitTimestamp, whatever the policy.                                    *)
LEMMA GateAfterMoves ==
  ASSUME Types, GateInv, NEW s \in Gated, NEW t \in Nat, gate' = GateAfter(s, t)
  PROVE  /\ GateMoves
         /\ Aligned /\ LetsIn(s, t) => gate.last[s] < t /\ gate'.start < t /\ gate'.last[s] = t
<1>1. CASE Aligned
  BY <1>1, AdmittedMoves DEF GateAfter, LetsIn
<1>2. CASE ~Aligned
  BY <1>2 DEF GateAfter, Types, GateInv, GateMoves, Gates
<1> QED
  BY <1>1, <1>2

(***************************************************************************)
(* What the appending threads do: the gate moves and the queue of a kind   *)
(* becomes what is left of it, perhaps followed by a job just let in.      *)
(***************************************************************************)
New(k, t) == gate.last[k] < t /\ gate'.start < t /\ t <= gate'.last[k]

Grows(k, n) ==
  \A j \in DOMAIN Queued(k)' :
    \/ j + n \in DOMAIN Queued(k) /\ Queued(k)'[j] = Queued(k)[j + n]
    \/ j = Len(Queued(k)') /\ (Aligned => New(k, Queued(k)'[j].at))

LEMMA QueueTypes ==
  ASSUME Types, NEW k \in Kinds
  PROVE  /\ Queued(k) \in Seq(Jobs) /\ Len(Queued(k)) \in Nat
         /\ DOMAIN Queued(k) = 1 .. Len(Queued(k))
         /\ \A i \in DOMAIN Queued(k) : Queued(k)[i].at \in Nat
         /\ gate.last[k] \in Nat /\ gate.start \in Nat
         /\ index[k] \in Seq(Rows) /\ DOMAIN index[k] = 1 .. Len(index[k])
         /\ \A i \in DOMAIN index[k] : index[k][i] \in Rows
         /\ Holds(k) => writer.job \in Jobs /\ writer.job.at \in Nat
<1>1. Queued(k) \in Seq(Jobs)
  BY JobsAreJobs DEF Types, Queues, Queued
<1>2. gate.last[k] \in Nat /\ gate.start \in Nat
  BY DEF Types, Gates, Kinds, Gated
<1>3. index[k] \in Seq(Rows)
  BY DEF Types, Indices
<1>4. Holds(k) => writer.job \in Jobs
  BY DEF Holds, Types, Busy
<1> QED
  BY <1>1, <1>2, <1>3, <1>4, JobsAreJobs

LEMMA AppendStep ==
  ASSUME IInv, Types', GateMoves, UNCHANGED <<session, file, index, writer>>,
         \A k \in Kinds : \E n \in Nat : Grows(k, n)
  PROVE  IInv'
<1> USE DEF IInv
<1>1. BytesInv'
  BY DEF BytesInv, PayloadInv, RowsInv, RowsLaidOut, Settled
<1>2. GateInv'
  BY DEF GateInv, GateMoves
<1>3. ASSUME Aligned, NEW k \in Kinds
      PROVE  /\ \A i \in DOMAIN Queued(k)' :
                  /\ Recent(k, Queued(k)[i].at)'
                  /\ \A j \in DOMAIN Queued(k)' : i < j => Queued(k)'[i].at < Queued(k)'[j].at
             /\ Holds(k) => /\ Recent(k, writer.job.at)'
                            /\ \A i \in DOMAIN Queued(k)' : writer.job.at < Queued(k)'[i].at
             /\ \A i \in DOMAIN index[k] :
                  /\ Recent(k, index[k][i].at)'
                  /\ Holds(k) => index[k][i].at < writer.job.at
                  /\ \A j \in DOMAIN Queued(k)' : index[k][i].at < Queued(k)'[j].at
                  /\ \A j \in DOMAIN index[k] : i < j => index[k][i].at < index[k][j].at
  <2>1. PICK n \in Nat : Grows(k, n)
    BY <1>3
  <2> DEFINE q == Queued(k)
  <2>2. /\ \A i \in DOMAIN q : Recent(k, q[i].at) /\ \A j \in DOMAIN q : i < j => q[i].at < q[j].at
        /\ Holds(k) => /\ Recent(k, writer.job.at)
                       /\ \A i \in DOMAIN q : writer.job.at < q[i].at
        /\ \A i \in DOMAIN index[k] :
             /\ Recent(k, index[k][i].at)
             /\ Holds(k) => index[k][i].at < writer.job.at
             /\ \A j \in DOMAIN q : index[k][i].at < q[j].at
             /\ \A j \in DOMAIN index[k] : i < j => index[k][i].at < index[k][j].at
    BY <1>3 DEF TimesInv
  <2>3. \A t \in Nat : Recent(k, t) => Recent(k, t)' /\ t <= gate.last[k]
    <3>1. gate'.last[k] >= gate.last[k] /\ gate'.last[k] \in Nat /\ gate'.start \in Nat
      BY DEF GateMoves, Gates, Kinds, Gated
    <3>2. gate'.start = gate.start \/ gate.last[k] = 0
      BY DEF GateMoves, Kinds, Gated
    <3> QED
      BY <3>1, <3>2, QueueTypes DEF Recent
  <2>4. \A t : New(k, t) => Recent(k, t)' /\ gate.last[k] < t
    BY DEF New, Recent
  <2>5. /\ \A j \in DOMAIN Queued(k)' :
             \/ j + n \in DOMAIN q /\ Queued(k)'[j] = q[j + n]
             \/ j = Len(Queued(k)') /\ New(k, Queued(k)'[j].at)
        /\ DOMAIN Queued(k)' = 1 .. Len(Queued(k)') /\ Len(Queued(k)') \in Nat
        /\ \A j \in DOMAIN Queued(k)' : Queued(k)'[j].at \in Nat
    <3>1. /\ DOMAIN Queued(k)' = 1 .. Len(Queued(k)') /\ Len(Queued(k)') \in Nat
          /\ \A j \in DOMAIN Queued(k)' : Queued(k)'[j].at \in Nat
      <4>1. Queued(k)' \in Seq(Jobs)
        BY JobsAreJobs DEF Types, Queues, Queued
      <4> QED
        BY <4>1, JobsAreJobs
    <3> QED
      BY <1>3, <2>1, <3>1 DEF Grows
  <2>6. /\ DOMAIN q = 1 .. Len(q) /\ Len(q) \in Nat
        /\ \A i \in DOMAIN q : q[i].at \in Nat
        /\ \A i \in DOMAIN index[k] : index[k][i].at \in Nat
        /\ Holds(k) => writer.job.at \in Nat
        /\ gate.last[k] \in Nat
    BY QueueTypes DEF Rows
  <2> HIDE DEF q
  <2>7. \A i \in DOMAIN Queued(k)' : Recent(k, Queued(k)[i].at)'
    <3>1. ASSUME NEW i \in DOMAIN Queued(k)'
          PROVE  gate'.start < Queued(k)'[i].at /\ Queued(k)'[i].at <= gate'.last[k]
      BY <2>2, <2>3, <2>4, <2>5, <2>6 DEF Recent
    <3> QED
      BY <3>1 DEF Recent
  <2>8. \A i, j \in DOMAIN Queued(k)' : i < j => Queued(k)'[i].at < Queued(k)'[j].at
    <3> SUFFICES ASSUME NEW i \in DOMAIN Queued(k)', NEW j \in DOMAIN Queued(k)', i < j
                 PROVE  Queued(k)'[i].at < Queued(k)'[j].at
      OBVIOUS
    <3>1. i + n \in DOMAIN q /\ Queued(k)'[i] = q[i + n]
      BY <2>5
    <3>2. CASE j + n \in DOMAIN q /\ Queued(k)'[j] = q[j + n]
      <4>1. i + n < j + n
        BY <2>5
      <4>2. q[i + n].at < q[j + n].at
        BY <2>2, <3>1, <3>2, <4>1
      <4> QED
        BY <3>1, <3>2, <4>2
    <3>3. CASE New(k, Queued(k)'[j].at)
      BY <2>2, <2>3, <2>4, <2>5, <2>6, <3>1, <3>3, SMTT(30)
    <3> QED
      BY <2>5, <3>2, <3>3
  <2>9. ASSUME NEW t \in Nat, t <= gate.last[k], \A i \in DOMAIN q : t < q[i].at
        PROVE  \A i \in DOMAIN Queued(k)' : t < Queued(k)'[i].at
    BY <2>4, <2>5, <2>6, <2>9
  <2> QED
    BY <2>2, <2>3, <2>6, <2>7, <2>8, <2>9
<1>4. TimesInv'
  <2>1. Aligned' <=> Aligned
    BY DEF Aligned
  <2>2. \A k \in Kinds : Holds(k)' <=> Holds(k)
    BY DEF Holds
  <2> QED
    BY <1>3, <2>1, <2>2 DEF TimesInv
<1> QED
  BY <1>1, <1>2, <1>4

(***************************************************************************)
(* appendFrameSet and appendLidar.                                         *)
(***************************************************************************)

\* What no append changes.
LEMMA AppendTypes ==
  ASSUME Types, UNCHANGED <<file, index, writer>>, gate' \in Gates,
         queue' \in Queues,
         capture' \in Jobs \union {NoJob, Failing}
  PROVE  Types'
BY DEF Types, Busy

LEMMA SameQueue ==
  ASSUME Types, queue' = queue, NEW k \in Kinds
  PROVE  Grows(k, 0)
BY QueueTypes DEF Grows, Queued

LEMMA QueueExcept ==
  ASSUME Types
  PROVE  /\ \A r \in Seq(FrameSets) : LET q == [queue EXCEPT !.frames = r]
                                      IN q \in Queues /\ q.frames = r /\ q.lidar = queue.lidar
         /\ \A r \in Seq(Batches) : LET q == [queue EXCEPT !.lidar = r]
                                     IN q \in Queues /\ q.lidar = r /\ q.frames = queue.frames
<1>1. queue \in Queues
  BY DEF Types
<1>2. ASSUME NEW r \in Seq(FrameSets)
      PROVE  LET q == [queue EXCEPT !.frames = r]
             IN q \in Queues /\ q.frames = r /\ q.lidar = queue.lidar
  <2>1. [queue EXCEPT !.frames = r] \in Queues
    BY <1>1, Zenon DEF Queues
  <2> QED
    BY <1>1, <2>1 DEF Queues
<1>3. ASSUME NEW r \in Seq(Batches)
      PROVE  LET q == [queue EXCEPT !.lidar = r]
             IN q \in Queues /\ q.lidar = r /\ q.frames = queue.frames
  <2>1. [queue EXCEPT !.lidar = r] \in Queues
    BY <1>1, Zenon DEF Queues
  <2> QED
    BY <1>1, <2>1 DEF Queues
<1> QED
  BY <1>2, <1>3

\* Making room for a frame set, and queueing it.
LEMMA FrameQueue ==
  ASSUME Types, NEW n \in 0 .. Len(queue.frames), NEW f \in FrameSets,
         queue' = [queue EXCEPT !.frames = Kept(n)]
           \/ (/\ queue' = [queue EXCEPT !.frames = Kept(n) \o <<f>>]
               /\ Aligned => New("frame", f.at))
  PROVE  /\ queue' \in Queues
         /\ \A k \in Kinds : \E m \in Nat : Grows(k, m)
<1> DEFINE q == queue.frames
<1>1. q \in Seq(FrameSets) /\ Len(q) \in Nat /\ n \in Nat /\ n <= Len(q)
  BY DEF Types, Queues
<1>2. /\ Kept(n) \in Seq(FrameSets) /\ Len(Kept(n)) = Len(q) - n
      /\ \A j \in 1 .. (Len(q) - n) : Kept(n)[j] = q[j + n]
  BY <1>1 DEF Kept
<1>3. /\ queue'.frames = Kept(n) \/ (queue'.frames = Kept(n) \o <<f>> /\ (Aligned => New("frame", f.at)))
      /\ queue'.lidar = queue.lidar
      /\ queue' \in Queues
  <2>1. Kept(n) \o <<f>> \in Seq(FrameSets)
    BY <1>2
  <2>2. CASE queue' = [queue EXCEPT !.frames = Kept(n)]
    BY <1>2, <2>2, QueueExcept
  <2>3. CASE /\ queue' = [queue EXCEPT !.frames = Kept(n) \o <<f>>]
             /\ Aligned => New("frame", f.at)
    BY <2>1, <2>3, QueueExcept
  <2> QED
    BY <2>2, <2>3
<1>4. Grows("lidar", 0)
  BY <1>3, QueueTypes DEF Grows, Queued, Kinds
<1>5. Grows("frame", n)
  <2>1. CASE queue'.frames = Kept(n)
    BY <1>1, <1>2, <2>1, SMTT(30) DEF Grows, Queued
  <2>2. CASE queue'.frames = Kept(n) \o <<f>> /\ (Aligned => New("frame", f.at))
    <3>1. /\ Len(queue'.frames) = Len(q) - n + 1
          /\ \A j \in 1 .. (Len(q) - n) : queue'.frames[j] = q[j + n]
          /\ queue'.frames[Len(q) - n + 1] = f
          /\ DOMAIN queue'.frames = 1 .. (Len(q) - n + 1)
      <4>1. Kept(n) \o <<f>> = Append(Kept(n), f)
        BY <1>2, AppendIsConcat
      <4>2. queue'.frames = Append(Kept(n), f)
        BY <2>2, <4>1
      <4> HIDE <2>2
      <4> QED
        BY <1>1, <1>2, <4>2
    <3>2. ASSUME NEW j \in DOMAIN queue'.frames
          PROVE  \/ j + n \in DOMAIN q /\ queue'.frames[j] = q[j + n]
                 \/ j = Len(queue'.frames) /\ queue'.frames[j] = f
      <4>1. j \in 1 .. (Len(q) - n) \/ j = Len(q) - n + 1
        BY <1>1, <3>1
      <4> QED
        BY <1>1, <3>1, <4>1
    <3> QED
      BY <2>2, <3>2 DEF Grows, Queued
  <2> QED
    BY <1>3, <2>1, <2>2
<1> QED
  BY <1>1, <1>3, <1>4, <1>5 DEF Kinds

\* Queueing a LiDAR batch.
LEMMA LidarQueue ==
  ASSUME Types, NEW b \in Batches, queue' = [queue EXCEPT !.lidar = Append(@, b)],
         Aligned => New("lidar", b.at)
  PROVE  /\ queue' \in Queues
         /\ \A k \in Kinds : \E m \in Nat : Grows(k, m)
<1> DEFINE q == queue.lidar
<1>1. q \in Seq(Batches) /\ Len(q) \in Nat
  BY DEF Types, Queues
<1>2. /\ queue'.lidar = Append(q, b) /\ queue'.frames = queue.frames
      /\ queue' \in Queues
  <2>1. Append(q, b) \in Seq(Batches) /\ queue' = [queue EXCEPT !.lidar = Append(q, b)]
    BY <1>1
  <2>2. LET r == [queue EXCEPT !.lidar = Append(q, b)]
        IN r \in Queues /\ r.lidar = Append(q, b) /\ r.frames = queue.frames
    BY <2>1, QueueExcept
  <2> QED
    BY <2>1, <2>2
<1>3. /\ Len(queue'.lidar) = Len(q) + 1 /\ queue'.lidar[Len(q) + 1] = b
      /\ \A j \in 1 .. Len(q) : queue'.lidar[j] = q[j]
  BY <1>1, <1>2
<1>4. Grows("frame", 0)
  BY <1>2, QueueTypes DEF Grows, Queued, Kinds
<1>5. Grows("lidar", 0)
  BY <1>1, <1>2, <1>3 DEF Grows, Queued
<1> QED
  BY <1>2, <1>4, <1>5 DEF Kinds

LEMMA FrameSetStep == ASSUME IInv, AppendFrameSet PROVE IInv'
<1> DEFINE f == capture
<1>1. /\ f \in FrameSets /\ f.at \in Nat /\ capture' = NoJob
      /\ UNCHANGED <<session, file, index, writer>>
  BY JobsAreJobs, InputsAssumption DEF AppendFrameSet, IInv, Types, Jobs, NoJob, Failing
<1>2. CASE UNCHANGED <<gate, queue>>
  <2>1. GateMoves
    BY <1>2 DEF GateMoves, IInv, GateInv, Types, Gates
  <2> QED
    BY <1>1, <1>2, <2>1, AppendTypes, AppendStep, SameQueue DEF IInv, Types
<1>3. CASE gate' = GateAfter("frame", f.at) /\ queue' = queue
  <2>1. GateMoves
    BY <1>1, <1>3, GateAfterMoves DEF IInv, Gated
  <2> QED
    BY <1>1, <1>3, <2>1, AppendTypes, AppendStep, SameQueue DEF IInv, Types, GateMoves
<1>4. CASE gate' = GateAfter("frame", f.at) /\ LetsIn("frame", f.at) /\ Enqueue(f)
  <2>1. GateMoves /\ (Aligned => New("frame", f.at))
    BY <1>1, <1>4, GateAfterMoves DEF IInv, Gated, New, GateMoves, Gates
  <2>2. \/ queue' = queue
        \/ /\ Evicted(f) \in 0 .. Len(queue.frames)
           /\ \/ queue' = [queue EXCEPT !.frames = Kept(Evicted(f))]
              \/ queue' = [queue EXCEPT !.frames = Kept(Evicted(f)) \o <<f>>]
    <3>1. CASE f.bytes > QueueBytes
      BY <1>4, <3>1 DEF Enqueue
    <3>2. CASE ~(f.bytes > QueueBytes)
      <4>1. Kept(Evicted(f)) \in Seq(FrameSets)
        BY EvictedRange DEF Kept, IInv, Types, Queues
      <4>2. PICK tail \in {<<>>, <<f>>} : queue' = [queue EXCEPT !.frames = Kept(Evicted(f)) \o tail]
        BY <1>4, <3>2 DEF Enqueue
      <4>3. Kept(Evicted(f)) \o <<>> = Kept(Evicted(f))
        BY <4>1
      <4> QED
        BY <4>2, <4>3, EvictedRange DEF IInv
    <3> QED
      BY <3>1, <3>2
  <2>3. CASE queue' = queue
    BY <1>1, <2>1, <2>3, AppendTypes, AppendStep, SameQueue DEF IInv, Types, GateMoves
  <2>4. CASE queue' # queue
    <3>1. /\ queue' \in Queues
          /\ \A k \in Kinds : \E m \in Nat : Grows(k, m)
      BY <1>1, <2>1, <2>2, <2>4, FrameQueue DEF IInv
    <3>2. Types'
      BY <1>1, <2>1, <3>1, AppendTypes DEF IInv, GateMoves
    <3> QED
      BY <1>1, <2>1, <3>1, <3>2, AppendStep
  <2> QED
    BY <2>3, <2>4
<1> QED
  <2>1. CASE ~Receiving
    BY <1>2, <2>1 DEF AppendFrameSet
  <2>2. CASE Receiving /\ (~f.valid \/ (Aligned /\ ~f.synced))
    BY <1>2, <2>2 DEF AppendFrameSet
  <2>3. CASE Receiving /\ f.valid /\ (Aligned => f.synced) /\ ~LetsIn("frame", f.at)
    BY <1>3, <2>3 DEF AppendFrameSet
  <2>4. CASE Receiving /\ f.valid /\ (Aligned => f.synced) /\ LetsIn("frame", f.at)
    BY <1>4, <2>4 DEF AppendFrameSet
  <2> QED
    BY <2>1, <2>2, <2>3, <2>4

LEMMA FrameSetThrowsStep == ASSUME IInv, AppendFrameSetThrows PROVE IInv'
<1> DEFINE f == capture
<1>1. /\ f \in FrameSets /\ f.at \in Nat
      /\ capture' = Failing /\ UNCHANGED <<session, file, index, writer>>
      /\ gate' = GateAfter("frame", f.at)
  BY JobsAreJobs, InputsAssumption DEF AppendFrameSetThrows, IInv, Types, Jobs, NoJob, Failing
<1>2. queue' = [queue EXCEPT !.frames = Kept(Evicted(f))]
  BY DEF AppendFrameSetThrows
<1>3. GateMoves
  BY <1>1, GateAfterMoves DEF IInv, Gated
<1>4. queue' \in Queues /\ \A k \in Kinds : \E m \in Nat : Grows(k, m)
  BY <1>1, <1>2, FrameQueue, EvictedRange DEF IInv
<1>5. Types'
  BY <1>1, <1>3, <1>4, AppendTypes DEF IInv, GateMoves
<1> QED
  BY <1>1, <1>3, <1>4, <1>5, AppendStep

LEMMA LidarStep == ASSUME IInv, AppendLidar PROVE IInv'
<1> DEFINE b == capture
<1>1. /\ b \in Batches /\ b.at \in Nat /\ capture' = NoJob
      /\ UNCHANGED <<session, file, index, writer>>
  BY JobsAreJobs, InputsAssumption DEF AppendLidar, IInv, Types, Jobs, NoJob, Failing
<1>2. CASE UNCHANGED <<gate, queue>>
  <2>1. GateMoves
    BY <1>2 DEF GateMoves, IInv, GateInv, Types, Gates
  <2> QED
    BY <1>1, <1>2, <2>1, AppendTypes, AppendStep, SameQueue DEF IInv, Types
<1>3. CASE gate' = GateAfter("lidar", b.at) /\ queue' = queue
  <2>1. GateMoves
    BY <1>1, <1>3, GateAfterMoves DEF IInv, Gated
  <2> QED
    BY <1>1, <1>3, <2>1, AppendTypes, AppendStep, SameQueue DEF IInv, Types, GateMoves
<1>4. CASE /\ gate' = GateAfter("lidar", b.at) /\ LetsIn("lidar", b.at)
           /\ queue' = [queue EXCEPT !.lidar = Append(@, b)]
  <2>1. GateMoves /\ (Aligned => New("lidar", b.at))
    BY <1>1, <1>4, GateAfterMoves DEF IInv, Gated, New, GateMoves, Gates
  <2>2. queue' \in Queues /\ \A k \in Kinds : \E m \in Nat : Grows(k, m)
    BY <1>1, <1>4, <2>1, LidarQueue DEF IInv
  <2>3. Types'
    BY <1>1, <2>1, <2>2, AppendTypes DEF IInv, GateMoves
  <2> QED
    BY <1>1, <2>1, <2>2, <2>3, AppendStep
<1> QED
  <2>1. CASE ~Receiving
    BY <1>2, <2>1 DEF AppendLidar
  <2>2. CASE Receiving /\ Aligned /\ ~b.synced
    BY <1>2, <2>2 DEF AppendLidar
  <2>3. CASE Receiving /\ (Aligned => b.synced) /\ ~LetsIn("lidar", b.at)
    BY <1>3, <2>3 DEF AppendLidar
  <2>4. CASE Receiving /\ (Aligned => b.synced) /\ LetsIn("lidar", b.at)
    BY <1>3, <1>4, <2>4 DEF AppendLidar
  <2> QED
    BY <2>1, <2>2, <2>3, <2>4

LEMMA LidarThrowsStep == ASSUME IInv, AppendLidarThrows PROVE IInv'
<1>1. /\ capture \in Batches /\ capture.at \in Nat
      /\ capture' = Failing /\ UNCHANGED <<session, file, index, writer, queue>>
      /\ gate' = gate \/ gate' = GateAfter("lidar", capture.at)
  BY JobsAreJobs, InputsAssumption DEF AppendLidarThrows, IInv, Types, Jobs, NoJob, Failing
<1>2. GateMoves
  <2>1. CASE gate' = gate
    BY <2>1 DEF GateMoves, IInv, GateInv, Types, Gates
  <2>2. CASE gate' = GateAfter("lidar", capture.at)
    BY <1>1, <2>2, GateAfterMoves DEF IInv, Gated
  <2> QED
    BY <1>1, <2>1, <2>2
<1> QED
  BY <1>1, <1>2, AppendTypes, AppendStep, SameQueue DEF IInv, Types, GateMoves

(* The streams written under the mutex move the gate and nothing else.     *)
LEMMA DirectStep == ASSUME IInv, AppendDirect PROVE IInv'
<1>1. UNCHANGED <<session, file, index, writer, queue, capture>>
  BY DEF AppendDirect
<1>2. GateMoves
  <2>1. CASE gate' = gate
    BY <2>1 DEF GateMoves, IInv, GateInv, Types, Gates
  <2>2. CASE AppendImuAligned
    <3>1. PICK t \in Times \ {0} : \/ gate' = [Opened(t) EXCEPT !.imuStarted = TRUE]
                                   \/ gate' = Admitted("imu", t)
      BY <2>2 DEF AppendImuAligned
    <3>2. t \in Nat \ {0}
      BY <3>1, StreamsAssumption
    <3>3. CASE gate' = Admitted("imu", t)
      BY <3>2, <3>3, AdmittedMoves DEF IInv, Gated
    <3>4. CASE gate' = [Opened(t) EXCEPT !.imuStarted = TRUE]
      <4>1. Opened(t) \in Gates /\ Opened(t).last = gate.last
            /\ (gate.ready => Opened(t) = gate) /\ Opened(t).ready
        BY <3>2 DEF Opened, IInv, Types, Gates
      <4>2. /\ gate' \in Gates /\ gate'.last = gate.last /\ gate'.ready
            /\ gate.ready => gate'.start = gate.start
        BY <3>4, <4>1 DEF Gates
      <4>3. \A s \in Gated : gate.last[s] \in Nat
        BY DEF IInv, Types, Gates
      <4> QED
        BY <4>2, <4>3 DEF GateMoves, IInv, GateInv
    <3> QED
      BY <3>1, <3>3, <3>4
  <2>3. CASE AppendLidarImu
    <3>1. PICK t \in Times : gate' = GateAfter("lidarImu", t)
      BY <2>3 DEF AppendLidarImu
    <3> QED
      BY <3>1, StreamsAssumption, GateAfterMoves DEF IInv, Gated
  <2> QED
    BY <2>1, <2>2, <2>3 DEF AppendDirect, AppendImuReceived, AppendTimeSync, AppendRoverRtcm,
                            AppendBaseRtcm, AppendGnss
<1> QED
  BY <1>1, <1>2, AppendTypes, AppendStep, SameQueue DEF IInv, Types, GateMoves

(***************************************************************************)
(* The writer thread.                                                      *)
(***************************************************************************)

\* The writer lets go of what it holds.
LEMMA LetGo ==
  ASSUME IInv, UNCHANGED <<gate, queue, file, index, capture>>, session'.policy = session.policy,
         writer' = [pc |-> "idle", job |-> NoJob] \/ writer' = [pc |-> "exited", job |-> NoJob]
           \/ writer' = [pc |-> "none", job |-> NoJob]
  PROVE  IInv'
<1> USE DEF IInv
<1>1. /\ writer'.pc \notin {"taken", "payload", "failing"} /\ writer' \in Writers
  BY DEF Writers
<1>2. Types'
  BY <1>1 DEF Types, Busy
<1>3. \A k \in Kinds : Settled(k)' = file[k].size /\ Settled(k) <= file[k].size
                       /\ file[k].size \in Nat /\ Settled(k) \in Int
  <2>1. \A k \in Kinds : file[k].size \in Nat
    BY DEF Types, Files
  <2>2. writer.pc = "payload" => writer.job.bytes \in Nat
    BY JobsAreJobs DEF Types, Busy
  <2> QED
    BY <1>1, <2>1, <2>2 DEF Settled
<1>4. RowsInv'
  <2>1. ASSUME NEW k \in Kinds, NEW i \in DOMAIN index[k]
        PROVE  index[k][i].offset + index[k][i].bytes \in Nat
    <3>1. index[k][i] \in Rows
      BY QueueTypes
    <3> QED
      BY <3>1 DEF Rows
  <2> QED
    BY <1>3, <2>1 DEF RowsInv, BytesInv
<1>5. BytesInv'
  BY <1>1, <1>4 DEF BytesInv, PayloadInv, RowsLaidOut
<1>6. TimesInv'
  <2>1. Aligned' <=> Aligned
    BY DEF Aligned
  <2>2. \A k \in Kinds : ~Holds(k)'
    BY <1>1 DEF Holds
  <2>3. \A k \in Kinds : Queued(k)' = Queued(k)
    BY DEF Queued
  <2> QED
    BY <2>1, <2>2, <2>3 DEF TimesInv, Recent
<1> QED
  BY <1>2, <1>5, <1>6 DEF GateInv

LEMMA TakeStep == ASSUME IInv, TakeJob PROVE IInv'
<1> USE DEF IInv
<1>1. /\ UNCHANGED <<session, gate, file, index, capture>> /\ writer.pc = "idle"
  BY DEF TakeJob
<1>2. PICK k \in Kinds :
        /\ Queued(k) # <<>> /\ writer' = [pc |-> "taken", job |-> Head(Queued(k))]
        /\ Queued(k)' = Tail(Queued(k)) /\ Head(Queued(k)).kind = k
        /\ Head(Queued(k)) \in Jobs
        /\ queue' \in Queues /\ \A l \in Kinds \ {k} : Queued(l)' = Queued(l)
  <2>1. queue.frames \in Seq(FrameSets) /\ queue.lidar \in Seq(Batches)
    BY DEF Types, Queues
  <2>2. CASE TakesFrame
    <3>1. queue.frames # <<>> /\ queue' = [queue EXCEPT !.frames = Tail(queue.frames)]
          /\ writer' = [pc |-> "taken", job |-> Head(queue.frames)]
      BY <2>2 DEF TakeJob, TakesFrame
    <3>2. Tail(queue.frames) \in Seq(FrameSets) /\ Head(queue.frames) \in FrameSets
      BY <2>1, <3>1
    <3>3. LET q == [queue EXCEPT !.frames = Tail(queue.frames)]
          IN q \in Queues /\ q.frames = Tail(queue.frames) /\ q.lidar = queue.lidar
      BY <3>2, QueueExcept
    <3> QED
      BY <3>1, <3>2, <3>3, JobsAreJobs DEF Queued, Kinds
  <2>3. CASE ~TakesFrame
    <3>1. queue.lidar # <<>> /\ queue' = [queue EXCEPT !.lidar = Tail(queue.lidar)]
          /\ writer' = [pc |-> "taken", job |-> Head(queue.lidar)]
      BY <2>3 DEF TakeJob, TakesFrame
    <3>2. Tail(queue.lidar) \in Seq(Batches) /\ Head(queue.lidar) \in Batches
      BY <2>1, <3>1
    <3>3. LET q == [queue EXCEPT !.lidar = Tail(queue.lidar)]
          IN q \in Queues /\ q.lidar = Tail(queue.lidar) /\ q.frames = queue.frames
      BY <3>2, QueueExcept
    <3> QED
      BY <3>1, <3>2, <3>3, JobsAreJobs DEF Queued, Kinds
  <2> QED
    BY <2>2, <2>3
<1>3. writer'.pc = "taken" /\ writer'.job = Head(Queued(k))
  BY <1>2
<1>4. Types'
  BY <1>1, <1>2, <1>3 DEF Types, Busy, Writers
<1>5. BytesInv'
  BY <1>1, <1>3 DEF BytesInv, PayloadInv, RowsInv, RowsLaidOut, Settled
<1>6. GateInv'
  BY <1>1 DEF GateInv
<1>7. TimesInv'
  <2>1. (Aligned' <=> Aligned) /\ \A l \in Kinds : Holds(l)' <=> l = k
    BY <1>1, <1>2, <1>3 DEF Aligned, Holds
  <2>2. \A l \in Kinds : \A t : Recent(l, t)' <=> Recent(l, t)
    BY <1>1 DEF Recent
  <2> DEFINE q == Queued(k)
  <2>3. /\ DOMAIN q = 1 .. Len(q) /\ Len(q) \in Nat \ {0}
        /\ 1 \in DOMAIN q /\ Head(q) = q[1]
        /\ DOMAIN Queued(k)' = 1 .. (Len(q) - 1)
        /\ \A j \in DOMAIN Queued(k)' : Queued(k)'[j] = q[j + 1] /\ j + 1 \in DOMAIN q
    BY <1>2, QueueTypes
  <2>4. ASSUME Aligned
        PROVE  /\ \A i \in DOMAIN q : Recent(k, q[i].at) /\ \A j \in DOMAIN q : i < j => q[i].at < q[j].at
               /\ \A i \in DOMAIN index[k] :
                    /\ Recent(k, index[k][i].at)
                    /\ \A j \in DOMAIN q : index[k][i].at < q[j].at
                    /\ \A j \in DOMAIN index[k] : i < j => index[k][i].at < index[k][j].at
    BY <2>4 DEF TimesInv
  <2> HIDE DEF q
  <2>5. ASSUME Aligned
        PROVE  /\ \A i \in DOMAIN Queued(k)' :
                    /\ Recent(k, Queued(k)'[i].at)
                    /\ \A j \in DOMAIN Queued(k)' : i < j => Queued(k)'[i].at < Queued(k)'[j].at
               /\ Recent(k, writer'.job.at) /\ \A i \in DOMAIN Queued(k)' : writer'.job.at < Queued(k)'[i].at
               /\ \A i \in DOMAIN index[k] :
                    /\ Recent(k, index[k][i].at)
                    /\ index[k][i].at < writer'.job.at
                    /\ \A j \in DOMAIN Queued(k)' : index[k][i].at < Queued(k)'[j].at
                    /\ \A j \in DOMAIN index[k] : i < j => index[k][i].at < index[k][j].at
    <3>1. writer'.job = q[1]
      BY <1>3, <2>3 DEF q
    <3>2. \A i, j \in DOMAIN Queued(k)' : i < j => i + 1 < j + 1
      BY <2>3
    <3>3. \A i \in DOMAIN Queued(k)' : 1 < i + 1
      BY <2>3
    <3> QED
      BY <2>3, <2>4, <2>5, <3>1, <3>2, <3>3
  <2>6. ASSUME Aligned, NEW l \in Kinds \ {k}
        PROVE  /\ \A i \in DOMAIN Queued(l) :
                    /\ Recent(l, Queued(l)[i].at)
                    /\ \A j \in DOMAIN Queued(l) : i < j => Queued(l)[i].at < Queued(l)[j].at
               /\ \A i \in DOMAIN index[l] :
                    /\ Recent(l, index[l][i].at)
                    /\ \A j \in DOMAIN Queued(l) : index[l][i].at < Queued(l)[j].at
                    /\ \A j \in DOMAIN index[l] : i < j => index[l][i].at < index[l][j].at
    BY <2>6 DEF TimesInv
  <2> QED
    BY <1>1, <1>2, <2>1, <2>2, <2>5, <2>6 DEF TimesInv
<1> QED
  BY <1>4, <1>5, <1>6, <1>7

LEMMA RowTypes ==
  ASSUME Types, NEW k \in Kinds
  PROVE  /\ file[k] \in [chunk : Nat, size : Nat] /\ file[k].chunk \in Nat /\ file[k].size \in Nat
         /\ \A i \in DOMAIN index[k] :
              /\ index[k][i].chunk \in Nat /\ index[k][i].offset \in Nat /\ index[k][i].bytes \in Nat
              /\ index[k][i].at \in Nat
<1>1. ASSUME NEW i \in DOMAIN index[k]
      PROVE  /\ index[k][i].chunk \in Nat /\ index[k][i].offset \in Nat /\ index[k][i].bytes \in Nat
             /\ index[k][i].at \in Nat
  <2>1. index[k][i] \in Rows
    BY QueueTypes
  <2> QED
    BY <2>1 DEF Rows
<1>2. file[k] \in [chunk : Nat, size : Nat]
  BY DEF Types, Files
<1> QED
  BY <1>1, <1>2

LEMMA DiskTypes ==
  ASSUME DiskInv, NEW k \in Kinds
  PROVE  /\ disk[k].stream \in {"closed", "open", "bad"} /\ disk[k].held \in Seq(Nat)
         /\ Len(disk[k].held) = file[k].chunk
         /\ disk[k].stream # "closed" => file[k].chunk > 0
<1>1. disk[k] \in [stream : {"closed", "open", "bad"}, held : Seq(Nat)]
  BY DEF DiskInv, Disks
<1>2. /\ Len(disk[k].held) = file[k].chunk
      /\ disk[k].stream # "closed" => file[k].chunk > 0
  BY DEF DiskInv
<1> QED
  BY <1>1, <1>2

LEMMA PayloadStep == ASSUME IInv, DiskInv, WritePayload PROVE IInv'
<1> USE DEF IInv
<1> DEFINE job   == writer.job
           chunk == file[job.kind]
<1>1. /\ UNCHANGED <<session, gate, queue, index, capture>> /\ writer.pc = "taken"
  BY DEF WritePayload
<1>2. PICK n \in 0 .. job.bytes :
        /\ file' = [file EXCEPT ![job.kind].size = @ + n]
        /\ writer' = [writer EXCEPT !.pc = IF n = job.bytes THEN "payload" ELSE "failing"]
  BY Zenon DEF WritePayload
<1>3. job \in Jobs /\ job.kind \in Kinds /\ job.bytes \in Nat
  BY <1>1, JobsAreJobs DEF Types, Busy
<1>4. PICK k \in Kinds : job.kind = k
  BY <1>3
<1> DEFINE f == file[k]
<1>5. f \in [chunk : Nat, size : Nat]
  BY RowTypes
<1>6. /\ chunk \in [chunk : Nat, size : Nat] /\ chunk.chunk > 0 /\ chunk = f
      /\ chunk.size = 0 \/ chunk.size + job.bytes <= ChunkBytes
  <2>1. ChunkBytes \in Nat
    BY LimitsAssumption
  <2>2. ~Rolls(job)
    BY Zenon DEF WritePayload
  <2>3. /\ disk[k].stream # "closed"
        /\ ~(f.size # 0 /\ f.size + job.bytes > ChunkBytes)
    BY <1>4, <2>2 DEF Rolls
  <2>4. f.chunk > 0
    BY <2>3, DiskTypes
  <2> QED
    BY <1>3, <1>4, <1>5, <2>1, <2>3, <2>4
<1> HIDE DEF chunk
<1>7. [chunk EXCEPT !.size = @ + n] \in [chunk : Nat, size : Nat]
      /\ [chunk EXCEPT !.size = @ + n].chunk = chunk.chunk
      /\ [chunk EXCEPT !.size = @ + n].size = chunk.size + n
  BY <1>2, <1>3, <1>6
<1>8. /\ file' \in Files /\ file'[k].chunk = chunk.chunk /\ file'[k].size = chunk.size + n
      /\ \A l \in Kinds \ {k} : file'[l] = file[l]
  BY <1>2, <1>4, <1>6, <1>7 DEF Types, Files, chunk
<1>9. /\ writer' \in Writers /\ writer'.job = job
      /\ writer'.pc = (IF n = job.bytes THEN "payload" ELSE "failing")
  <2>1. writer \in Writers
    BY DEF Types
  <2> QED
    BY <1>2, <2>1 DEF Writers
<1>10. Types'
  BY <1>1, <1>3, <1>8, <1>9 DEF Types, Busy
<1>11. GateInv'
  BY <1>1 DEF GateInv
<1>12. TimesInv'
  <2>1. (Aligned' <=> Aligned) /\ \A l \in Kinds : (Holds(l)' => Holds(l)) /\ Queued(l)' = Queued(l)
    BY <1>1, <1>9 DEF Aligned, Holds, Queued
  <2> QED
    BY <1>1, <1>9, <2>1 DEF TimesInv, Recent
<1>13. PayloadInv'
  <2>1. n = job.bytes => /\ file'[k].chunk > 0 /\ file'[k].size >= job.bytes
                         /\ file'[k].size <= ChunkBytes \/ file'[k].size = job.bytes
    BY <1>3, <1>6, <1>8
  <2> QED
    BY <1>9, <1>4, <2>1 DEF PayloadInv
<1>14. RowsInv'
  <2>1. ASSUME NEW i \in DOMAIN index[k]
        PROVE  /\ index[k][i].chunk \in 1 .. file'[k].chunk
               /\ index[k][i].chunk = file'[k].chunk => index[k][i].offset + index[k][i].bytes <= Settled(k)'
    <3>1. /\ index[k][i].chunk \in 1 .. f.chunk
          /\ index[k][i].chunk = f.chunk => index[k][i].offset + index[k][i].bytes <= f.size
      BY <1>1 DEF BytesInv, RowsInv, Settled
    <3>2. Settled(k)' >= chunk.size
      BY <1>2, <1>3, <1>4, <1>6, <1>8, <1>9 DEF Settled
    <3>3. Settled(k)' \in Int
      BY <1>2, <1>3, <1>4, <1>6, <1>8, <1>9 DEF Settled
    <3> QED
      BY <1>3, <1>5, <1>6, <1>8, <3>1, <3>2, <3>3, RowTypes
  <2>2. \A l \in Kinds \ {k} : Settled(l)' = Settled(l)
    BY <1>1, <1>8, <1>9, <1>4 DEF Settled
  <2>3. ASSUME NEW l \in Kinds \ {k}, NEW i \in DOMAIN index[l]
        PROVE  /\ index[l][i].chunk \in 1 .. file'[l].chunk
               /\ index[l][i].chunk = file'[l].chunk => index[l][i].offset + index[l][i].bytes <= Settled(l)'
    BY <1>8, <2>2 DEF BytesInv, RowsInv
  <2> QED
    BY <1>1, <2>1, <2>3 DEF RowsInv
<1>15. RowsLaidOut'
  <2>1. ASSUME NEW l \in Kinds, NEW i \in DOMAIN index[l]
        PROVE  /\ index[l][i].chunk = file'[l].chunk => index[l][i].offset + index[l][i].bytes <= file'[l].size
               /\ index[l][i].chunk \in 1 .. file'[l].chunk
    <3>1. /\ index[l][i].chunk \in 1 .. file'[l].chunk
          /\ index[l][i].chunk = file'[l].chunk => index[l][i].offset + index[l][i].bytes <= Settled(l)'
      BY <1>1, <1>14 DEF RowsInv
    <3>2. Settled(l)' <= file'[l].size /\ Settled(l)' \in Int /\ file'[l].size \in Nat
      <4>1. file'[l].size \in Nat
        BY <1>8 DEF Files
      <4> QED
        BY <1>3, <1>9, <4>1 DEF Settled
    <3> QED
      BY <3>1, <3>2, RowTypes
  <2> QED
    BY <1>1, <2>1 DEF RowsLaidOut, BytesInv
<1> QED
  BY <1>10, <1>11, <1>12, <1>13, <1>14, <1>15 DEF BytesInv

LEMMA RollOverKeepsJob ==
  ASSUME writer \in Writers, RollOver
  PROVE  /\ writer.pc = "taken" /\ writer' \in Writers /\ writer'.job = writer.job
         /\ writer'.pc \in {"taken", "failing"}
<1>1. PICK pc \in {"taken", "failing"} : writer' = [writer EXCEPT !.pc = pc]
  <2>1. PICK b : writer' = [writer EXCEPT !.pc = IF b THEN @ ELSE "failing"]
    BY Zenon DEF RollOver
  <2>2. writer.pc = "taken"
    BY DEF RollOver
  <2>3. CASE b
    BY <2>1, <2>2, <2>3
  <2>4. CASE ~b
    BY <2>1, <2>4
  <2> QED
    BY <2>3, <2>4
<1>2. writer.pc = "taken"
  BY DEF RollOver
<1> QED
  BY <1>1, <1>2 DEF Writers

\* The payload in hand is still to be written, or has failed with its chunk.
LEMMA RollOverStep == ASSUME IInv, RollOver PROVE IInv'
<1> USE DEF IInv
<1> DEFINE k == writer.job.kind
<1>1. /\ UNCHANGED <<session, gate, queue, index, capture>> /\ writer.pc = "taken"
  BY DEF RollOver
<1>2. k \in Kinds
  BY <1>1, JobsAreJobs DEF Types, Busy
<1>3. PICK ok \in BOOLEAN, pc \in {"taken", "failing"} :
        /\ file' = IF ok THEN [file EXCEPT ![k] = [chunk |-> file[k].chunk + 1, size |-> 0]] ELSE file
        /\ writer' = [writer EXCEPT !.pc = pc]
  <2>1. PICK c \in Closings(k), opens \in BOOLEAN :
          /\ file' = IF c.ok THEN [file EXCEPT ![k] = [chunk |-> @.chunk + 1, size |-> 0]] ELSE file
          /\ writer' = [writer EXCEPT !.pc = IF c.ok /\ opens THEN @ ELSE "failing"]
    BY Zenon DEF RollOver
  <2>2. CASE c.ok /\ opens
    BY <1>1, <2>1, <2>2
  <2>3. CASE c.ok /\ ~opens
    BY <1>1, <2>1, <2>3
  <2>4. CASE ~c.ok
    BY <1>1, <2>1, <2>4
  <2> QED
    BY <2>2, <2>3, <2>4
<1>4. /\ writer' \in Writers /\ writer'.job = writer.job /\ writer'.pc = pc
      /\ writer'.pc # "payload"
  BY <1>3 DEF Types, Writers
<1>5. /\ file' \in Files /\ \A l \in Kinds : file'[l].size \in Nat /\ file'[l].chunk \in Nat
      /\ \A l \in Kinds : file'[l] = file[l] \/ (file'[l].chunk = file[l].chunk + 1 /\ file'[l].size = 0)
  <2>1. file \in Files
    BY DEF Types
  <2>2. CASE ~ok
    BY <1>3, <2>1, <2>2 DEF Files
  <2>3. CASE ok
    <3>1. file' = [file EXCEPT ![k] = [chunk |-> file[k].chunk + 1, size |-> 0]]
      BY <1>3, <2>3
    <3>2. file[k].chunk + 1 \in Nat
      BY <1>2, <2>1 DEF Files
    <3> HIDE DEF k
    <3>3. /\ file' \in Files /\ file'[k] = [chunk |-> file[k].chunk + 1, size |-> 0]
          /\ \A l \in Kinds \ {k} : file'[l] = file[l]
      BY <1>2, <2>1, <3>1, <3>2 DEF Files
    <3> QED
      BY <3>3 DEF Files
  <2> QED
    BY <2>2, <2>3
<1>6. Types' /\ PayloadInv' /\ GateInv'
  <2>1. Types'
    BY <1>1, <1>4, <1>5 DEF Types, Busy
  <2> QED
    BY <1>1, <1>4, <2>1 DEF PayloadInv, GateInv
<1>7. TimesInv'
  <2>1. (Aligned' <=> Aligned) /\ \A l \in Kinds : (Holds(l)' => Holds(l)) /\ Queued(l)' = Queued(l)
    BY <1>1, <1>4 DEF Aligned, Holds, Queued
  <2> QED
    BY <1>1, <1>4, <2>1 DEF TimesInv, Recent
<1>8. ASSUME NEW l \in Kinds, NEW i \in DOMAIN index[l]
      PROVE  /\ index[l][i].chunk \in 1 .. file'[l].chunk
             /\ index[l][i].chunk = file'[l].chunk => index[l][i].offset + index[l][i].bytes <= file'[l].size
  <2>1. /\ index[l][i].chunk \in 1 .. file[l].chunk
        /\ index[l][i].chunk = file[l].chunk => index[l][i].offset + index[l][i].bytes <= file[l].size
    BY <1>1 DEF BytesInv, RowsInv, Settled
  <2>2. file[l].chunk \in Nat /\ index[l][i].chunk \in Nat
    BY RowTypes
  <2>3. CASE file'[l] = file[l]
    BY <2>1, <2>3
  <2>4. CASE file'[l].chunk = file[l].chunk + 1
    BY <2>1, <2>2, <2>4
  <2> QED
    BY <1>5, <2>3, <2>4
<1>9. RowsInv' /\ RowsLaidOut'
  <2>1. \A l \in Kinds : Settled(l)' = file'[l].size
    BY <1>4 DEF Settled
  <2> QED
    BY <1>1, <1>8, <2>1 DEF RowsInv, BytesInv, RowsLaidOut
<1> QED
  BY <1>6, <1>7, <1>9 DEF BytesInv

\* A row for the payload in hand.
LEMMA IndexStep ==
  ASSUME IInv, writer.pc = "payload", writer' = [pc |-> "idle", job |-> NoJob],
         UNCHANGED <<session, gate, queue, file, capture>>,
         NEW r \in Rows, r.at = writer.job.at, r.bytes = writer.job.bytes,
         r.chunk = file[writer.job.kind].chunk,
         r.offset = file[writer.job.kind].size - writer.job.bytes,
         index' = [index EXCEPT ![writer.job.kind] = Append(@, r)]
  PROVE  IInv'
<1> USE DEF IInv
<1>0. writer.job.kind \in Kinds
  BY JobsAreJobs DEF Types, Busy
<1>1. PICK k \in Kinds :
        /\ writer.job.kind = k /\ writer.job.bytes \in Nat /\ writer.job.at \in Nat
        /\ r.chunk = file[k].chunk /\ r.offset = file[k].size - writer.job.bytes
        /\ index' = [index EXCEPT ![k] = Append(@, r)]
  BY <1>0, JobsAreJobs DEF Types, Busy
<1> DEFINE q == index[k]
<1>2. /\ q \in Seq(Rows) /\ Len(q) \in Nat /\ DOMAIN q = 1 .. Len(q)
      /\ file[k].chunk \in Nat /\ file[k].size \in Nat
      /\ \A i \in DOMAIN q : /\ q[i].chunk \in Nat /\ q[i].offset \in Nat /\ q[i].bytes \in Nat
                             /\ q[i].at \in Nat
  <2>1. q \in Seq(Rows) /\ Len(q) \in Nat /\ DOMAIN q = 1 .. Len(q)
    BY <1>1, QueueTypes
  <2> QED
    BY <1>1, <2>1, RowTypes
<1>3. /\ index' \in Indices /\ \A l \in Kinds \ {k} : index'[l] = index[l]
      /\ index'[k] = Append(q, r)
  BY <1>1, <1>2 DEF Types, Indices
<1>4. /\ DOMAIN index'[k] = DOMAIN q \cup {Len(q) + 1}
      /\ \A i \in DOMAIN q : index'[k][i] = q[i] /\ i < Len(q) + 1
      /\ index'[k][Len(q) + 1] = r
      /\ \A i, j \in DOMAIN index'[k] : i < j => i \in DOMAIN q
  <2>1. /\ DOMAIN index'[k] = 1 .. Len(q) + 1
        /\ \A i \in 1 .. Len(q) : index'[k][i] = q[i]
        /\ index'[k][Len(q) + 1] = r
    BY <1>2, <1>3
  <2> QED
    BY <1>2, <2>1
<1>5. writer'.pc = "idle" /\ writer' \in Writers
  BY DEF Writers
<1>6. Types'
  BY <1>3, <1>5 DEF Types, Busy
<1>7. TimesInv'
  <2>1. (Aligned' <=> Aligned) /\ \A l \in Kinds : ~Holds(l)' /\ Queued(l)' = Queued(l)
    BY <1>5 DEF Aligned, Holds, Queued
  <2>2. \A l \in Kinds : \A t : Recent(l, t)' <=> Recent(l, t)
    BY DEF Recent
  <2>3. ASSUME Aligned
        PROVE  /\ Recent(k, r.at) /\ \A j \in DOMAIN Queued(k) : r.at < Queued(k)[j].at
               /\ \A i \in DOMAIN q : q[i].at < r.at
    BY <1>1, <2>3 DEF TimesInv, Holds
  <2>4. ASSUME Aligned
        PROVE  \A i \in DOMAIN index'[k] :
                 /\ Recent(k, index'[k][i].at)
                 /\ \A j \in DOMAIN Queued(k) : index'[k][i].at < Queued(k)[j].at
                 /\ \A j \in DOMAIN index'[k] : i < j => index'[k][i].at < index'[k][j].at
    <3>1. \A i \in DOMAIN q :
            /\ Recent(k, q[i].at)
            /\ \A j \in DOMAIN Queued(k) : q[i].at < Queued(k)[j].at
            /\ \A j \in DOMAIN q : i < j => q[i].at < q[j].at
      BY <1>1, <2>4 DEF TimesInv
    <3> HIDE DEF q
    <3>2. DOMAIN q = 1 .. Len(q) /\ Len(q) + 1 \notin DOMAIN q
      BY <1>2
    <3>3. ASSUME NEW i \in DOMAIN index'[k]
          PROVE  \/ i \in DOMAIN q /\ index'[k][i] = q[i]
                 \/ i = Len(q) + 1 /\ index'[k][i] = r
      BY <1>4
    <3>4. ASSUME NEW i \in DOMAIN q, index'[k][i] = q[i], NEW j \in DOMAIN index'[k], i < j
          PROVE  index'[k][i].at < index'[k][j].at
      <4>1. CASE j \in DOMAIN q /\ index'[k][j] = q[j]
        BY <3>1, <3>4, <4>1
      <4>2. CASE index'[k][j] = r
        BY <2>3, <2>4, <3>4, <4>2
      <4> QED
        BY <3>3, <4>1, <4>2
    <3>5. \A i, j \in DOMAIN index'[k] : i = Len(q) + 1 => ~ (i < j)
      BY <1>4, <3>2
    <3>6. ASSUME NEW i \in DOMAIN index'[k]
          PROVE  /\ Recent(k, index'[k][i].at)
                 /\ \A j \in DOMAIN Queued(k) : index'[k][i].at < Queued(k)[j].at
                 /\ \A j \in DOMAIN index'[k] : i < j => index'[k][i].at < index'[k][j].at
      <4>1. CASE i \in DOMAIN q /\ index'[k][i] = q[i]
        BY <3>1, <3>4, <4>1
      <4>2. CASE i = Len(q) + 1 /\ index'[k][i] = r
        BY <2>3, <2>4, <3>5, <4>2
      <4> QED
        BY <3>3, <4>1, <4>2
    <3> QED
      BY <3>6
  <2> QED
    BY <1>1, <1>3, <2>1, <2>2, <2>4 DEF TimesInv
<1>8. PayloadInv'
  BY <1>5 DEF PayloadInv
<1>9. /\ r.chunk \in 1 .. file[k].chunk
      /\ r.offset + r.bytes = file[k].size /\ r.offset \in Nat /\ r.bytes \in Nat
      /\ r.offset + r.bytes <= ChunkBytes \/ r.offset = 0
  <2>1. file[k].chunk > 0 /\ file[k].size >= writer.job.bytes
        /\ (file[k].size <= ChunkBytes \/ file[k].size = writer.job.bytes)
    BY <1>1 DEF BytesInv, PayloadInv
  <2>2. r.offset \in Nat /\ r.bytes \in Nat
    BY DEF Rows
  <2>3. file[k].chunk \in Nat /\ file[k].size \in Nat
    BY <1>2
  <2>4. r.chunk \in 1 .. file[k].chunk
    BY <1>1, <2>1, <2>3
  <2>5. r.bytes = writer.job.bytes /\ r.offset = file[k].size - r.bytes
    BY <1>1
  <2>6. r.offset + r.bytes = file[k].size
    BY <2>2, <2>3, <2>5
  <2>7. file[k].size = writer.job.bytes => r.offset = 0
    BY <2>3, <2>5
  <2> QED
    BY <2>1, <2>2, <2>4, <2>6, <2>7
<1>10. \A i \in DOMAIN q :
         /\ q[i].chunk \in 1 .. file[k].chunk
         /\ q[i].chunk = file[k].chunk => q[i].offset + q[i].bytes <= r.offset
         /\ q[i].offset + q[i].bytes <= ChunkBytes \/ q[i].offset = 0
         /\ \A j \in DOMAIN q : i < j => \/ q[i].chunk < q[j].chunk
                                         \/ /\ q[i].chunk = q[j].chunk
                                            /\ q[i].offset + q[i].bytes <= q[j].offset
  BY <1>1 DEF BytesInv, RowsInv, Settled, RowsLaidOut
<1>11. \A l \in Kinds \ {k} : Settled(l)' = Settled(l)
  BY <1>1, <1>5 DEF Settled
<1>12. Settled(k)' = file[k].size
  BY <1>5 DEF Settled
<1>13. RowsInv'
  <2>1. \A i \in DOMAIN index'[k] :
          /\ index'[k][i].chunk \in 1 .. file[k].chunk
          /\ index'[k][i].chunk = file[k].chunk => index'[k][i].offset + index'[k][i].bytes <= file[k].size
    <3> HIDE DEF q
    <3>1. ASSUME NEW i \in DOMAIN q
          PROVE  /\ q[i].chunk \in 1 .. file[k].chunk
                 /\ q[i].chunk = file[k].chunk => q[i].offset + q[i].bytes <= file[k].size
      BY <1>2, <1>9, <1>10, SMTT(30)
    <3>2. r.chunk \in 1 .. file[k].chunk /\ r.offset + r.bytes <= file[k].size
      BY <1>2, <1>9
    <3> QED
      BY <1>4, <1>9, <1>10, <3>1, <3>2
  <2> QED
    BY <1>3, <1>11, <1>12, <2>1, ZenonT(30) DEF BytesInv, RowsInv
<1>14. RowsLaidOut'
  <2>1. \A i \in DOMAIN index'[k] :
          /\ index'[k][i].chunk = file[k].chunk => index'[k][i].offset + index'[k][i].bytes <= file[k].size
          /\ index'[k][i].chunk \in 1 .. file[k].chunk
          /\ index'[k][i].offset + index'[k][i].bytes <= ChunkBytes \/ index'[k][i].offset = 0
    <3> HIDE DEF q
    <3>1. ASSUME NEW i \in DOMAIN q
          PROVE  /\ q[i].chunk \in 1 .. file[k].chunk
                 /\ q[i].chunk = file[k].chunk => q[i].offset + q[i].bytes <= file[k].size
      BY <1>2, <1>9, <1>10, SMTT(30)
    <3>2. r.chunk \in 1 .. file[k].chunk /\ r.offset + r.bytes <= file[k].size
      BY <1>2, <1>9
    <3> QED
      BY <1>4, <1>9, <1>10, <3>1, <3>2
  <2>2. ASSUME NEW i \in DOMAIN index'[k], NEW j \in DOMAIN index'[k], i < j
        PROVE  \/ index'[k][i].chunk < index'[k][j].chunk
               \/ /\ index'[k][i].chunk = index'[k][j].chunk
                  /\ index'[k][i].offset + index'[k][i].bytes <= index'[k][j].offset
    <3> HIDE DEF q
    <3>1. i \in DOMAIN q /\ index'[k][i] = q[i]
      BY <1>4, <2>2
    <3>2. CASE j \in DOMAIN q
      <4>1. index'[k][j] = q[j]
        BY <1>4, <3>2
      <4> QED
        BY <1>10, <2>2, <3>1, <3>2, <4>1, SMTT(30)
    <3>3. CASE j = Len(q) + 1
      <4>1. q[i].chunk < file[k].chunk \/ q[i].chunk = file[k].chunk
        BY <1>2, <1>10, <3>1
      <4>2. index'[k][j].chunk = file[k].chunk /\ index'[k][j].offset = r.offset
        BY <1>1, <1>4, <3>3
      <4> QED
        BY <1>10, <3>1, <4>1, <4>2
    <3> QED
      BY <1>4, <3>2, <3>3
  <2>3. \A l \in Kinds \ {k} : index'[l] = index[l] /\ file'[l] = file[l]
    BY <1>3, Zenon
  <2>4. ASSUME NEW l \in Kinds \ {k}
        PROVE  /\ \A i \in DOMAIN index[l] :
                    /\ index[l][i].chunk = file[l].chunk => index[l][i].offset + index[l][i].bytes <= file[l].size
                    /\ index[l][i].chunk \in 1 .. file[l].chunk
                    /\ index[l][i].offset + index[l][i].bytes <= ChunkBytes \/ index[l][i].offset = 0
               /\ \A i, j \in DOMAIN index[l] :
                    i < j => \/ index[l][i].chunk < index[l][j].chunk
                             \/ /\ index[l][i].chunk = index[l][j].chunk
                                /\ index[l][i].offset + index[l][i].bytes <= index[l][j].offset
    BY DEF BytesInv, RowsLaidOut
  <2>5. ASSUME NEW l \in Kinds, NEW i \in DOMAIN index'[l]
        PROVE  /\ index'[l][i].chunk = file'[l].chunk
                    => index'[l][i].offset + index'[l][i].bytes <= file'[l].size
               /\ index'[l][i].chunk \in 1 .. file'[l].chunk
               /\ index'[l][i].offset + index'[l][i].bytes <= ChunkBytes \/ index'[l][i].offset = 0
    <3>1. CASE l = k
      BY <2>1, <2>5, <3>1
    <3>2. CASE l # k
      <4>1. l \in Kinds \ {k} /\ index'[l] = index[l] /\ file'[l] = file[l]
        BY <2>3, <3>2
      <4> HIDE DEF q
      <4> QED
        BY <2>4, <2>5, <4>1
    <3> QED
      BY <3>1, <3>2
  <2>6. ASSUME NEW l \in Kinds, NEW i \in DOMAIN index'[l], NEW j \in DOMAIN index'[l], i < j
        PROVE  \/ index'[l][i].chunk < index'[l][j].chunk
               \/ /\ index'[l][i].chunk = index'[l][j].chunk
                  /\ index'[l][i].offset + index'[l][i].bytes <= index'[l][j].offset
    <3>1. CASE l = k
      <4>1. i \in DOMAIN index'[k] /\ j \in DOMAIN index'[k]
        BY <2>6, <3>1
      <4>2. \/ index'[k][i].chunk < index'[k][j].chunk
            \/ /\ index'[k][i].chunk = index'[k][j].chunk
               /\ index'[k][i].offset + index'[k][i].bytes <= index'[k][j].offset
        BY <2>2, <2>6, <4>1
      <4> QED
        BY <3>1, <4>2
    <3>2. CASE l # k
      <4>1. l \in Kinds \ {k} /\ index'[l] = index[l] /\ file'[l] = file[l]
        BY <2>3, <3>2
      <4> HIDE DEF q
      <4> QED
        <5>1. i \in DOMAIN index[l] /\ j \in DOMAIN index[l]
          BY <2>6, <4>1
        <5>2. \/ index[l][i].chunk < index[l][j].chunk
              \/ /\ index[l][i].chunk = index[l][j].chunk
                 /\ index[l][i].offset + index[l][i].bytes <= index[l][j].offset
          BY <2>4, <2>6, <4>1, <5>1
        <5> QED
          BY <4>1, <5>2
    <3> QED
      BY <3>1, <3>2
  <2> QED
    BY <2>5, <2>6 DEF RowsLaidOut
<1> QED
  BY <1>6, <1>7, <1>8, <1>13, <1>14 DEF BytesInv, GateInv

LEMMA WriterStep == ASSUME IInv, DiskInv, Writer PROVE IInv'
<1>1. CASE TakeJob
  BY <1>1, TakeStep
<1>2. CASE WritePayload
  BY <1>2, PayloadStep
<1>3. CASE IndexFrameSet
  <2>1. /\ writer.pc = "payload" /\ writer.job.kind = "frame"
        /\ writer' = [pc |-> "idle", job |-> NoJob]
        /\ UNCHANGED <<session, gate, queue, file, capture>>
    BY <1>3 DEF IndexFrameSet
  <2>2. CASE failed
    BY <1>3, <2>1, <2>2, LetGo DEF IndexFrameSet
  <2>3. CASE ~failed
    <3> DEFINE job == writer.job
    <3>1. PICK ok \in {{c \in job.images : c < d} : d \in job.images} \union {job.images} :
            index' = [index EXCEPT !.frame = Append(@, [Row(job) EXCEPT !.images = ok])]
      BY <1>3, <2>3 DEF IndexFrameSet
    <3>2. job \in Jobs /\ job.at \in Nat /\ job.bytes \in Nat /\ ok \subseteq Cameras /\ job.images \subseteq Cameras
      BY <2>1, <3>1, JobsAreJobs DEF IInv, Types, Busy
    <3>3. /\ file["frame"].chunk \in Nat /\ file["frame"].size - job.bytes \in Nat
      <4>1. file["frame"].size >= job.bytes
        BY <2>1 DEF IInv, BytesInv, PayloadInv
      <4> QED
        BY <3>2, <4>1, RowTypes DEF IInv, Kinds
    <3>4. Row(job) = [at |-> job.at, images |-> job.images, chunk |-> file["frame"].chunk,
                      offset |-> file["frame"].size - job.bytes, bytes |-> job.bytes]
      BY <2>1 DEF Row
    <3> DEFINE r == [Row(job) EXCEPT !.images = ok]
    <3>5. /\ r \in Rows /\ r.at = job.at /\ r.bytes = job.bytes /\ r.chunk = file["frame"].chunk
          /\ r.offset = file["frame"].size - job.bytes
      BY <3>2, <3>3, <3>4 DEF Rows
    <3> HIDE DEF r
    <3>6. index' = [index EXCEPT !["frame"] = Append(@, r)]
      BY <3>1 DEF r
    <3> QED
      BY <2>1, <3>5, <3>6, IndexStep
  <2> QED
    BY <2>2, <2>3
<1>4. CASE IndexBatch
  <2>1. /\ writer.pc = "payload" /\ writer.job.kind = "lidar"
        /\ writer' = [pc |-> "idle", job |-> NoJob]
        /\ UNCHANGED <<session, gate, queue, file, capture>>
    BY <1>4 DEF IndexBatch
  <2>2. CASE index' = index
    BY <2>1, <2>2, LetGo
  <2>3. CASE index' = [index EXCEPT !.lidar = Append(@, Row(writer.job))]
    <3> DEFINE job == writer.job
    <3>1. job \in Jobs /\ job.at \in Nat /\ job.bytes \in Nat /\ job.images \subseteq Cameras
      BY <2>1, JobsAreJobs DEF IInv, Types, Busy
    <3>2. /\ file["lidar"].chunk \in Nat /\ file["lidar"].size - job.bytes \in Nat
      <4>1. file["lidar"].size >= job.bytes
        BY <2>1 DEF IInv, BytesInv, PayloadInv
      <4> QED
        BY <3>1, <4>1, RowTypes DEF IInv, Kinds
    <3>3. Row(job) = [at |-> job.at, images |-> job.images, chunk |-> file["lidar"].chunk,
                      offset |-> file["lidar"].size - job.bytes, bytes |-> job.bytes]
      BY <2>1 DEF Row
    <3>4. Row(job) \in Rows
      BY <3>1, <3>2, <3>3 DEF Rows
    <3> QED
      BY <2>1, <2>3, <3>3, <3>4, IndexStep
  <2> QED
    BY <1>4, <2>2, <2>3 DEF IndexBatch
<1>5. CASE MarkPayloadFailed
  BY <1>5, LetGo DEF MarkPayloadFailed
<1>6. CASE WriterThrows
  BY <1>6, LetGo DEF WriterThrows
<1>7. CASE WriterStops
  BY <1>7, LetGo DEF WriterStops
<1>8. CASE RollOver
  BY <1>8, RollOverStep
<1> QED
  BY <1>1, <1>2, <1>3, <1>4, <1>5, <1>6, <1>7, <1>8 DEF Writer

(***************************************************************************)
(* The rest: the capture thread's checks, start and stop.                  *)
(***************************************************************************)
LEMMA Untouched ==
  ASSUME IInv, UNCHANGED <<gate, queue, file, index, writer>>, session'.policy = session.policy,
         capture' \in Jobs \union {NoJob, Failing}
  PROVE  IInv'
<1> USE DEF IInv
<1>1. Types'
  BY DEF Types, Busy
<1>2. BytesInv' /\ GateInv'
  BY DEF BytesInv, PayloadInv, RowsInv, RowsLaidOut, Settled, GateInv
<1>3. TimesInv'
  BY DEF TimesInv, Aligned, Queued, Holds, Recent
<1> QED
  BY <1>1, <1>2, <1>3

LEMMA CaptureStep == ASSUME IInv, Capture PROVE IInv'
<1>1. CASE (\E f \in FrameSets : CheckFrameSet(f)) \/ (\E b \in Batches : CheckLidar(b)) \/ MarkAppendFailed
  BY <1>1, Untouched, JobsAreJobs DEF CheckFrameSet, CheckLidar, MarkAppendFailed
<1> QED
  BY <1>1, FrameSetStep, FrameSetThrowsStep, LidarStep, LidarThrowsStep DEF Capture

LEMMA Fresh ==
  ASSUME gate = FreshGate, queue = [frames |-> <<>>, lidar |-> <<>>],
         file = [k \in Kinds |-> FreshFile], index = [k \in Kinds |-> <<>>],
         writer \in Writers, ~Busy, capture \in Jobs \union {NoJob, Failing}
  PROVE  IInv
<1>1. FreshGate \in Gates /\ \A s \in Gated : FreshGate.last[s] = 0
  BY DEF FreshGate, Gates
<1>2. Types
  BY <1>1 DEF Types, Queues, Files, Indices, FreshFile
<1>3. \A k \in Kinds : DOMAIN index[k] = {} /\ DOMAIN Queued(k) = {}
  BY DEF Queued
<1>4. BytesInv
  BY <1>3 DEF BytesInv, PayloadInv, RowsInv, RowsLaidOut, Busy
<1>5. TimesInv
  BY <1>3 DEF TimesInv, Holds, Busy
<1>6. GateInv
  BY <1>1 DEF GateInv
<1> QED
  BY <1>2, <1>4, <1>5, <1>6 DEF IInv

LEMMA GuiStep == ASSUME IInv, Gui PROVE IInv'
<1>1. ASSUME NEW policy \in Policies, NEW mode \in Modes, NEW opens \in BOOLEAN, Start(policy, mode, opens)
      PROVE  IInv'
  <2>1. writer' \in Writers /\ ~Busy'
    BY <1>1 DEF Start, Writers, Busy
  <2>2. capture' \in Jobs \union {NoJob, Failing}
    BY <1>1 DEF Start, IInv, Types
  <2>3. /\ gate' = FreshGate /\ queue' = [frames |-> <<>>, lidar |-> <<>>]
        /\ file' = [k \in Kinds |-> FreshFile] /\ index' = [k \in Kinds |-> <<>>]
    BY <1>1 DEF Start
  <2>4. FreshGate \in Gates /\ \A s \in Gated : FreshGate.last[s] = 0
    BY DEF FreshGate, Gates
  <2>5. Types'
    BY <2>1, <2>2, <2>3, <2>4 DEF Types, Queues, Files, Indices, FreshFile
  <2>6. \A k \in Kinds : DOMAIN index'[k] = {} /\ DOMAIN Queued(k)' = {}
    BY <2>3 DEF Queued
  <2>7. BytesInv' /\ TimesInv'
    BY <2>1, <2>6 DEF BytesInv, PayloadInv, RowsInv, RowsLaidOut, Busy, TimesInv, Holds
  <2>8. GateInv'
    BY <2>3, <2>4 DEF GateInv
  <2> QED
    BY <2>5, <2>7, <2>8 DEF IInv
<1>2. CASE Stop
  <2>1. capture' \in Jobs \union {NoJob, Failing}
    BY <1>2 DEF Stop, IInv, Types
  <2> QED
    BY <1>2, <2>1, Untouched DEF Stop
<1>3. CASE FinishStop
  <2>1. session'.policy = session.policy
    BY <1>3 DEF FinishStop
  <2> QED
    BY <1>3, <2>1, LetGo DEF FinishStop
<1> QED
  BY <1>1, <1>2, <1>3 DEF Gui

--------------------------------------------------------------------------------
(***************************************************************************)
(* The chunk files: what a close may leave of the last one.                *)
(***************************************************************************)
LEMMA ClosingsAre ==
  ASSUME Types, DiskInv, NEW k \in Kinds, NEW c \in Closings(k)
  PROVE  /\ c.ok \in BOOLEAN /\ c.held \in Seq(Nat) /\ Len(c.held) = file[k].chunk
         /\ c.ok => \/ disk[k].stream = "closed" /\ c.held = disk[k].held
                   \/ /\ disk[k].stream = "open" /\ c.held[file[k].chunk] = file[k].size
                      /\ \A i \in 1 .. (file[k].chunk - 1) : c.held[i] = disk[k].held[i]
<1> DEFINE d == disk[k]
           Left(n) == [d.held EXCEPT ![file[k].chunk] = n]
           broken == {[ok |-> FALSE, held |-> Left(n)] : n \in 0 .. file[k].size}
<1>1. /\ d.stream \in {"closed", "open", "bad"} /\ d.held \in Seq(Nat) /\ Len(d.held) = file[k].chunk
      /\ d.stream # "closed" => file[k].chunk > 0
  BY DiskTypes
<1>2. file[k].chunk \in Nat /\ file[k].size \in Nat
  BY RowTypes
<1>3. ASSUME d.stream # "closed", NEW n \in Nat
      PROVE  /\ Left(n) \in Seq(Nat) /\ Len(Left(n)) = file[k].chunk
             /\ Left(n)[file[k].chunk] = n
             /\ \A i \in 1 .. (file[k].chunk - 1) : Left(n)[i] = d.held[i]
  BY <1>1, <1>2, <1>3
<1>4. c \in CASE d.stream = "closed" -> {[ok |-> TRUE, held |-> d.held]}
              [] d.stream = "open"   -> {[ok |-> TRUE, held |-> Left(file[k].size)]} \union broken
              [] d.stream = "bad"    -> broken
  BY Zenon DEF Closings
<1>5. CASE d.stream = "closed"
  <2>1. c = [ok |-> TRUE, held |-> d.held]
    BY <1>4, <1>5
  <2> QED
    BY <1>1, <1>5, <2>1
<1> HIDE DEF Left
<1>6. CASE c \in broken /\ d.stream # "closed"
  <2>1. PICK n \in 0 .. file[k].size : c = [ok |-> FALSE, held |-> Left(n)]
    BY <1>6
  <2>2. n \in Nat
    BY <1>2, <2>1
  <2> QED
    BY <1>3, <1>6, <2>1, <2>2
<1>7. CASE d.stream = "open" /\ c = [ok |-> TRUE, held |-> Left(file[k].size)]
  BY <1>2, <1>3, <1>7
<1> HIDE DEF broken, d
<1> QED
  BY <1>1, <1>4, <1>5, <1>6, <1>7

\* Nothing but the roll-over, the write, the start and the stop moves the files.
LEMMA FilesStay ==
  ASSUME [Next]_vars, ~RollOver, ~WritePayload, ~FinishStop,
         ~ \E policy \in Policies, mode \in Modes, opens \in BOOLEAN : Start(policy, mode, opens)
  PROVE  UNCHANGED <<file, disk>>
<1>1. CASE UNCHANGED vars
  BY <1>1, Zenon DEF vars
<1>2. CASE Capture
  <2>1. ASSUME NEW f \in FrameSets, CheckFrameSet(f) PROVE UNCHANGED <<file, disk>>
    BY <2>1, Zenon DEF CheckFrameSet
  <2>2. ASSUME NEW b \in Batches, CheckLidar(b) PROVE UNCHANGED <<file, disk>>
    BY <2>2, Zenon DEF CheckLidar
  <2>3. AppendFrameSet => UNCHANGED <<file, disk>>
    BY Zenon DEF AppendFrameSet
  <2>4. AppendFrameSetThrows => UNCHANGED <<file, disk>>
    BY Zenon DEF AppendFrameSetThrows
  <2>5. AppendLidar => UNCHANGED <<file, disk>>
    BY Zenon DEF AppendLidar
  <2>6. AppendLidarThrows \/ MarkAppendFailed => UNCHANGED <<file, disk>>
    BY Zenon DEF AppendLidarThrows, MarkAppendFailed
  <2> QED
    BY <1>2, <2>1, <2>2, <2>3, <2>4, <2>5, <2>6, Zenon DEF Capture
<1>3. CASE AppendDirect
  BY <1>3, Zenon DEF AppendDirect
<1>4. CASE Writer
  <2>1. TakeJob \/ WriterStops => UNCHANGED <<file, disk>>
    BY Zenon DEF TakeJob, WriterStops
  <2>2. MarkPayloadFailed \/ WriterThrows => UNCHANGED <<file, disk>>
    BY Zenon DEF MarkPayloadFailed, WriterThrows
  <2>3. IndexFrameSet => UNCHANGED <<file, disk>>
    BY Zenon DEF IndexFrameSet
  <2>4. IndexBatch => UNCHANGED <<file, disk>>
    BY Zenon DEF IndexBatch
  <2> QED
    BY <1>4, <2>1, <2>2, <2>3, <2>4, Zenon DEF Writer
<1>5. CASE Gui
  <2>1. Stop => UNCHANGED <<file, disk>>
    BY Zenon DEF Stop
  <2> QED
    BY <1>5, <2>1, Zenon DEF Gui
<1> QED
  BY <1>1, <1>2, <1>3, <1>4, <1>5, Zenon DEF Next

LEMMA DiskStep == ASSUME IInv, DiskInv, [Next]_vars PROVE DiskInv'
<1>1. Types
  BY DEF IInv
<1>2. CASE RollOver
  <2> DEFINE k == writer.job.kind
  <2>1. k \in Kinds
    BY <1>1, <1>2, JobsAreJobs DEF RollOver, Types, Busy
  <2>2. PICK c \in Closings(k), opens \in BOOLEAN :
          /\ file' = IF c.ok THEN [file EXCEPT ![k] = [chunk |-> @.chunk + 1, size |-> 0]] ELSE file
          /\ disk' = [disk EXCEPT ![k] = [stream |-> IF c.ok /\ opens THEN "open" ELSE "closed",
                                         held |-> IF c.ok THEN Append(c.held, 0) ELSE c.held]]
    BY <1>2, Zenon DEF RollOver
  <2>3. c.held \in Seq(Nat) /\ Len(c.held) = file[k].chunk /\ file[k].chunk \in Nat
    BY <1>1, <2>1, ClosingsAre, RowTypes
  <2>4. PICK s \in {"closed", "open"}, h \in Seq(Nat) :
          /\ disk' = [disk EXCEPT ![k] = [stream |-> s, held |-> h]]
          /\ Len(h) = file'[k].chunk /\ (s = "open" => file'[k].chunk > 0)
    <3>1. CASE c.ok
      <4>1. file'[k].chunk = file[k].chunk + 1
        BY <1>1, <2>1, <2>2, <3>1 DEF Types, Files
      <4>2. Append(c.held, 0) \in Seq(Nat) /\ Len(Append(c.held, 0)) = file[k].chunk + 1
        BY <2>3
      <4>3. CASE opens
        <5>1. disk' = [disk EXCEPT ![k] = [stream |-> "open", held |-> Append(c.held, 0)]]
          BY <2>2, <3>1, <4>3
        <5>2. file[k].chunk + 1 > 0
          BY <2>3
        <5> HIDE DEF k
        <5> QED
          BY <4>1, <4>2, <5>1, <5>2
      <4>4. CASE ~opens
        BY <2>2, <2>3, <3>1, <4>1, <4>2, <4>4
      <4> QED
        BY <4>3, <4>4
    <3>2. CASE ~c.ok
      BY <2>2, <2>3, <3>2
    <3> QED
      BY <3>1, <3>2
  <2>5. \A l \in Kinds \ {k} : file'[l] = file[l]
    BY <1>1, <2>1, <2>2 DEF Types, Files
  <2> HIDE DEF k
  <2>6. disk' \in Disks /\ disk'[k].held = h /\ disk'[k].stream = s
        /\ \A l \in Kinds \ {k} : disk'[l] = disk[l]
    BY <2>1, <2>4 DEF DiskInv, Disks
  <2> QED
    BY <2>4, <2>5, <2>6 DEF DiskInv
<1>3. CASE WritePayload
  <2> DEFINE k == writer.job.kind
  <2>1. k \in Kinds
    BY <1>1, <1>3, JobsAreJobs DEF WritePayload, Types, Busy
  <2>2. PICK n \in 0 .. writer.job.bytes :
          /\ file' = [file EXCEPT ![k].size = @ + n]
          /\ disk' = [disk EXCEPT ![k].stream = IF n = writer.job.bytes THEN @ ELSE "bad"]
    BY <1>3, Zenon DEF WritePayload
  <2>3. \A l \in Kinds : file'[l].chunk = file[l].chunk
    BY <1>1, <2>1, <2>2 DEF Types, Files
  <2>4. file[k].chunk > 0
    <3>1. ~Rolls(writer.job)
      BY <1>3, Zenon DEF WritePayload
    <3>2. disk[k].stream # "closed"
      BY <3>1 DEF Rolls
    <3> QED
      BY <2>1, <3>2, DiskTypes
  <2>5. /\ disk' \in Disks
        /\ \A l \in Kinds : disk'[l].held = disk[l].held
        /\ \A l \in Kinds \ {k} : disk'[l] = disk[l]
    BY <2>1, <2>2 DEF DiskInv, Disks
  <2> HIDE DEF k
  <2> QED
    BY <2>3, <2>4, <2>5 DEF DiskInv
<1>4. CASE FinishStop
  <2>1. PICK f \in Closings("frame"), b \in Closings("lidar") :
          disk' = [k \in Kinds |-> [stream |-> "closed", held |-> IF k = "frame" THEN f.held ELSE b.held]]
    BY <1>4, Zenon DEF FinishStop
  <2>2. /\ f.held \in Seq(Nat) /\ Len(f.held) = file["frame"].chunk
        /\ b.held \in Seq(Nat) /\ Len(b.held) = file["lidar"].chunk
    BY <1>1, ClosingsAre DEF Kinds
  <2>3. file' = file
    BY <1>4, Zenon DEF FinishStop
  <2> QED
    BY <2>1, <2>2, <2>3 DEF DiskInv, Disks, Kinds
<1>5. ASSUME NEW policy \in Policies, NEW mode \in Modes, NEW opens \in BOOLEAN, Start(policy, mode, opens)
      PROVE  DiskInv'
  <2>1. file' = [k \in Kinds |-> FreshFile] /\ disk' = [k \in Kinds |-> FreshDisk]
    BY <1>5, Zenon DEF Start
  <2> QED
    BY <2>1 DEF DiskInv, Disks, FreshFile, FreshDisk
<1>6. CASE UNCHANGED <<file, disk>>
  BY <1>6 DEF DiskInv
<1> QED
  BY <1>2, <1>3, <1>4, <1>5, <1>6, FilesStay

--------------------------------------------------------------------------------
(***************************************************************************)
(* The theorems.                                                           *)
(***************************************************************************)

(* The inductive invariant: what the rows may cover while a payload has    *)
(* none, and that index, job in hand and queue are one sequence in time.   *)
THEOREM RecorderCorrect == Spec => [](IInv /\ DiskInv)
<1>1. Init => IInv /\ DiskInv
  <2> SUFFICES ASSUME Init PROVE IInv /\ DiskInv
    OBVIOUS
  <2>1. writer \in Writers /\ ~Busy
    BY DEF Init, Writers, Busy
  <2>2. IInv
    BY <2>1, Fresh DEF Init
  <2>3. DiskInv
    BY DEF Init, DiskInv, Disks, FreshFile, FreshDisk
  <2> QED
    BY <2>2, <2>3
<1>2. IInv /\ DiskInv /\ [Next]_vars => (IInv /\ DiskInv)'
  <2> SUFFICES ASSUME IInv, DiskInv, [Next]_vars PROVE IInv' /\ DiskInv'
    OBVIOUS
  <2>1. ASSUME Next PROVE IInv'
    BY <2>1, CaptureStep, DirectStep, WriterStep, GuiStep DEF Next
  <2>2. ASSUME UNCHANGED vars PROVE IInv'
    <3>1. capture' \in Jobs \union {NoJob, Failing}
      BY <2>2 DEF vars, IInv, Types
    <3> QED
      BY <2>2, <3>1, Untouched DEF vars
  <2>3. IInv'
    BY <2>1, <2>2
  <2> QED
    BY <2>3, DiskStep
<1> QED
  BY <1>1, <1>2, PTL DEF Spec

(* RecordingStartupGate::admit: under the aligned policy the rows of a     *)
(* stream are strictly later than the common start and than each other,    *)
(* although another thread writes them and the device may send anything.   *)
THEOREM OrderCorrect == Spec => []AlignedOrder
<1>1. IInv => AlignedOrder
  BY DEF IInv, TimesInv, AlignedOrder, Recent
<1> QED
  BY <1>1, RecorderCorrect, PTL

--------------------------------------------------------------------------------
(***************************************************************************)
(* The accounts: what is queued against the byte total, and every image    *)
(* received against the index, the queue, the writer's hand and the drops. *)
(***************************************************************************)
Count(rows, c) == Cardinality({i \in DOMAIN rows : c \in rows[i].images})
One(b)  == IF b THEN 1 ELSE 0
Hand(c) == One(Busy /\ c \in writer.job.images)

\* No failure is recorded, and no append is on its way to record one.
Certain == ~failed /\ capture.kind # "failing"

Tallies == [received : [Cameras -> Nat], dropped : [Cameras -> Nat], images : [Cameras -> Nat],
            droppedSets : Nat, partialSets : Nat, batches : Nat, droppedBatches : Nat,
            queuedBatches : Nat, direct : SUBSET Direct, roverLost : BOOLEAN]

MoreTypes ==
  /\ active \in BOOLEAN /\ stopWriter \in BOOLEAN /\ failed \in BOOLEAN
  /\ session \in [open : BOOLEAN, mode : Modes \union {"full"}, policy : Policies \union {"received"}]
  /\ tally \in Tallies
  /\ gui \in {"idle", "joining"} /\ manifest \in {"none", "incomplete", "complete"}
  /\ sent \in [frames : 0 .. MaxFrames, batches : Nat, sessions : Nat]

BudgetInv ==
  /\ Len(queue.frames) <= QueueFrames /\ Len(queue.lidar) <= QueueBatches
  /\ queuedBytes \in 0 .. QueueBytes
  /\ BytesIn(queue.frames) + BytesIn(queue.lidar) <= queuedBytes
  /\ Certain => queuedBytes = BytesIn(queue.frames) + BytesIn(queue.lidar)

ImagesInv ==
  \A c \in Cameras :
    LET known == tally.images[c] + tally.dropped[c] + Count(queue.frames, c) + Hand(c) IN
    /\ tally.received[c] + One(capture.kind = "frame") <= sent.frames
    /\ known <= tally.received[c] /\ (Certain => known = tally.received[c])
    /\ tally.images[c] = Count(index.frame, c)

BatchesInv ==
  /\ Certain => tally.queuedBatches = tally.batches + Len(queue.lidar)
                                      + One(Busy /\ writer.job.kind = "lidar")
  /\ tally.batches = Len(index.lidar)

PartialInv ==
  tally.partialSets = 0 /\ ~failed => \A i \in DOMAIN index.frame : index.frame[i].images = Cameras

\* Where the session, the stop and the writer may stand together.
StopInv ==
  /\ session.open => manifest = "incomplete"
  /\ active => session.open /\ gui = "idle" /\ ~stopWriter
  /\ gui = "joining" => session.open
  /\ session.open /\ session.mode = "full" => writer.pc # "none"
  /\ ~session.open => writer.pc = "none"
  /\ writer.pc = "exited" /\ ~failed => queue.frames = <<>> /\ queue.lidar = <<>> /\ ~active

CompleteInv ==
  manifest = "complete" /\ session.mode = "full" /\ ~failed =>
    /\ ~session.open /\ queue.frames = <<>> /\ queue.lidar = <<>>
    /\ Aligned => tally.partialSets = 0 /\ \A c \in Cameras : tally.images[c] > 0

AccountsInv ==
  /\ MoreTypes /\ BudgetInv /\ ImagesInv /\ BatchesInv /\ PartialInv /\ StopInv /\ CompleteInv

(* What a queue's bytes and images are when queues are put together.       *)
BytesField == [job \in Jobs |-> job.bytes]

LEMMA BytesAreTotal ==
  ASSUME NEW s \in Seq(Jobs)
  PROVE  BytesField \in [Jobs -> Nat] /\ BytesIn(s) = Total(Mapped(BytesField, s))
<1>1. BytesField \in [Jobs -> Nat]
  BY JobsAreJobs DEF BytesField
<1>2. \A i \in DOMAIN s : s[i] \in Jobs
  OBVIOUS
<1>3. [i \in DOMAIN s |-> s[i].bytes] = Mapped(BytesField, s)
  BY <1>2 DEF Mapped, BytesField
<1> QED
  BY <1>1, <1>3 DEF BytesIn

LEMMA BytesConcat ==
  ASSUME NEW s \in Seq(Jobs), NEW t \in Seq(Jobs)
  PROVE  BytesIn(s \o t) = BytesIn(s) + BytesIn(t)
<1>1. s \o t \in Seq(Jobs)
  BY ConcatProperties
<1>2. BytesField \in [Jobs -> Nat]
  BY BytesAreTotal
<1>3. Total(Mapped(BytesField, s \o t)) = Total(Mapped(BytesField, s)) + Total(Mapped(BytesField, t))
  BY <1>2, MappedConcat
<1>4. /\ BytesIn(s) = Total(Mapped(BytesField, s)) /\ BytesIn(t) = Total(Mapped(BytesField, t))
      /\ BytesIn(s \o t) = Total(Mapped(BytesField, s \o t))
  BY <1>1, BytesAreTotal
<1> QED
  BY <1>3, <1>4

LEMMA BytesOfFew ==
  /\ BytesIn(<<>>) = 0
  /\ \A job \in Jobs : BytesIn(<<job>>) = job.bytes
  /\ \A s \in Seq(Jobs) : BytesIn(s) \in Nat
<1>1. <<>> \in Seq(Jobs) /\ \A job \in Jobs : <<job>> \in Seq(Jobs)
  OBVIOUS
<1>2. BytesIn(<<>>) = 0
  BY <1>1, BytesAreTotal, MappedEmpty
<1>3. ASSUME NEW job \in Jobs PROVE BytesIn(<<job>>) = job.bytes
  <2>1. BytesField \in [Jobs -> Nat] /\ BytesIn(<<job>>) = Total(Mapped(BytesField, <<job>>))
    BY <1>1, BytesAreTotal
  <2>2. Total(Mapped(BytesField, <<job>>)) = BytesField[job]
    BY <2>1, MappedSingle
  <2> QED
    BY <2>1, <2>2 DEF BytesField
<1>4. ASSUME NEW s \in Seq(Jobs) PROVE BytesIn(s) \in Nat
  BY BytesAreTotal, MappedIsNat, TotalNat
<1> QED
  BY <1>2, <1>3, <1>4

LEMMA CountIsMarked ==
  ASSUME NEW S, NEW s \in Seq(S), NEW c
  PROVE  Count(s, c) = Cardinality(Marked({e \in S : c \in e.images}, s))
<1>1. \A i \in DOMAIN s : s[i] \in S
  OBVIOUS
<1>2. {i \in DOMAIN s : c \in s[i].images} = Marked({e \in S : c \in e.images}, s)
  BY <1>1 DEF Marked
<1> QED
  BY <1>2 DEF Count

LEMMA CountConcat ==
  ASSUME NEW S, NEW s \in Seq(S), NEW t \in Seq(S), NEW c
  PROVE  /\ Count(s \o t, c) = Count(s, c) + Count(t, c)
         /\ Count(s, c) \in Nat /\ Count(t, c) \in Nat
<1> DEFINE M == {e \in S : c \in e.images}
<1>1. s \o t \in Seq(S)
  BY ConcatProperties
<1>2. /\ Count(s, c) = Cardinality(Marked(M, s)) /\ Count(t, c) = Cardinality(Marked(M, t))
      /\ Count(s \o t, c) = Cardinality(Marked(M, s \o t))
  BY <1>1, CountIsMarked
<1>3. /\ Cardinality(Marked(M, s \o t)) = Cardinality(Marked(M, s)) + Cardinality(Marked(M, t))
      /\ Cardinality(Marked(M, s)) \in Nat /\ Cardinality(Marked(M, t)) \in Nat
  <2> HIDE DEF M
  <2> QED
    BY MarkedConcat, MarkedFinite
<1> QED
  BY <1>2, <1>3

LEMMA CountOfFew ==
  ASSUME NEW c
  PROVE  /\ Count(<<>>, c) = 0
         /\ \A e : Count(<<e>>, c) = One(c \in e.images)
<1>1. Count(<<>>, c) = 0
  BY FS_EmptySet DEF Count
<1>2. ASSUME NEW e PROVE Count(<<e>>, c) = One(c \in e.images)
  <2>1. <<e>> \in Seq({e})
    OBVIOUS
  <2>2. Count(<<e>>, c) = Cardinality(Marked({x \in {e} : c \in x.images}, <<e>>))
    BY <2>1, CountIsMarked
  <2>3. e \in {x \in {e} : c \in x.images} <=> c \in e.images
    OBVIOUS
  <2>4. Cardinality(Marked({x \in {e} : c \in x.images}, <<e>>)) =
          IF e \in {x \in {e} : c \in x.images} THEN 1 ELSE 0
    BY MarkedSingle
  <2> QED
    BY <2>2, <2>3, <2>4 DEF One
<1> QED
  BY <1>1, <1>2

\* A sequence is its first n elements and the rest.
LEMMA CutInTwo ==
  ASSUME NEW S, NEW s \in Seq(S), NEW n \in 0 .. Len(s)
  PROVE  /\ SubSeq(s, 1, n) \in Seq(S) /\ SubSeq(s, n + 1, Len(s)) \in Seq(S)
         /\ Len(SubSeq(s, n + 1, Len(s))) = Len(s) - n
         /\ s = SubSeq(s, 1, n) \o SubSeq(s, n + 1, Len(s))
<1> DEFINE u == SubSeq(s, 1, n)
           v == SubSeq(s, n + 1, Len(s))
<1>1. Len(s) \in Nat /\ n \in Nat /\ n <= Len(s) /\ \A i \in 1 .. Len(s) : s[i] \in S
  OBVIOUS
<1>2. u \in Seq(S) /\ Len(u) = n /\ \A i \in 1 .. n : u[i] = s[i]
  BY <1>1
<1>3. v \in Seq(S) /\ Len(v) = Len(s) - n /\ \A i \in 1 .. Len(s) - n : v[i] = s[i + n]
  BY <1>1
<1> HIDE DEF u, v
<1>4. /\ u \o v \in Seq(S) /\ Len(u \o v) = Len(s)
      /\ \A i \in 1 .. Len(s) : (u \o v)[i] = IF i <= n THEN u[i] ELSE v[i - n]
  BY <1>1, <1>2, <1>3, ConcatProperties
<1>5. ASSUME NEW i \in 1 .. Len(s) PROVE s[i] = (u \o v)[i]
  <2>1. CASE i <= n
    BY <1>1, <1>2, <1>4, <2>1
  <2>2. CASE ~ (i <= n)
    <3>1. i - n \in 1 .. Len(s) - n /\ (i - n) + n = i
      BY <1>1, <2>2
    <3> QED
      BY <1>3, <1>4, <2>2, <3>1
  <2> QED
    BY <2>1, <2>2
<1>6. s = u \o v
  BY <1>4, <1>5, SeqEqual
<1> QED
  BY <1>2, <1>3, <1>6 DEF u, v

(* What the counters become.                                               *)
SameButDropped(t, u) ==
  /\ u.images = t.images /\ u.batches = t.batches /\ u.queuedBatches = t.queuedBatches
  /\ u.partialSets = t.partialSets

LEMMA ReceivedIs ==
  ASSUME tally \in Tallies, NEW f \in Jobs
  PROVE  /\ Received(f) \in Tallies /\ SameButDropped(tally, Received(f))
         /\ Received(f).dropped = tally.dropped
         /\ \A c \in Cameras : Received(f).received[c] = tally.received[c] + One(c \in f.images)
<1> DEFINE r == [c \in Cameras |-> tally.received[c] + IF c \in f.images THEN 1 ELSE 0]
<1>1. r \in [Cameras -> Nat] /\ \A c \in Cameras : r[c] = tally.received[c] + One(c \in f.images)
  BY DEF Tallies, One
<1>2. Received(f) = [tally EXCEPT !.received = r]
  BY DEF Received
<1> HIDE DEF r
<1>3. Received(f) \in Tallies
  BY <1>1, <1>2 DEF Tallies
<1> QED
  BY <1>1, <1>2, <1>3 DEF Tallies, SameButDropped

LEMMA LoseIs ==
  ASSUME NEW t \in Tallies, NEW jobs \in Seq(Jobs)
  PROVE  /\ Lose(t, jobs) \in Tallies /\ SameButDropped(t, Lose(t, jobs))
         /\ Lose(t, jobs).received = t.received
         /\ \A c \in Cameras : Lose(t, jobs).dropped[c] = t.dropped[c] + Count(jobs, c)
<1> DEFINE d == [c \in Cameras |->
                   t.dropped[c] + Cardinality({i \in DOMAIN jobs : c \in jobs[i].images})]
           n == t.droppedSets + Len(jobs)
<1>1. \A c \in Cameras : d[c] = t.dropped[c] + Count(jobs, c)
  BY DEF Count
<1>2. \A c \in Cameras : Count(jobs, c) \in Nat
  BY CountConcat
<1>3. d \in [Cameras -> Nat] /\ n \in Nat
  <2>1. t.dropped \in [Cameras -> Nat] /\ t.droppedSets \in Nat
    BY DEF Tallies
  <2>2. Len(jobs) \in Nat
    OBVIOUS
  <2>3. n \in Nat
    <3> HIDE DEF d
    <3> QED
      BY <2>1, <2>2
  <2>4. ASSUME NEW c \in Cameras PROVE d[c] \in Nat
    <3> HIDE DEF d, n
    <3> QED
      BY <1>1, <1>2, <2>1
  <2>5. d \in [Cameras -> Nat]
    BY <2>4
  <2> QED
    BY <2>3, <2>5
<1>4. Lose(t, jobs) = [t EXCEPT !.droppedSets = n, !.dropped = d]
  BY DEF Lose
<1> HIDE DEF d, n
<1>5. Lose(t, jobs) \in Tallies
  BY <1>3, <1>4 DEF Tallies
<1> QED
  BY <1>1, <1>4, <1>5 DEF Tallies, SameButDropped

(* Making room for f: the frame sets are those evicted and those kept, and *)
(* either none is kept or f fits beside them.                              *)
LEMMA Room ==
  ASSUME Types, BudgetInv, NEW f \in FrameSets
  PROVE  LET n    == Evicted(f)
             left == queuedBytes - BytesIn(Oldest(n))
         IN /\ Oldest(n) \in Seq(FrameSets) /\ Kept(n) \in Seq(FrameSets)
            /\ \A c : Count(queue.frames, c) = Count(Oldest(n), c) + Count(Kept(n), c)
            /\ BytesIn(queue.frames) = BytesIn(Oldest(n)) + BytesIn(Kept(n))
            /\ BytesIn(Oldest(n)) \in Nat /\ BytesIn(Kept(n)) \in Nat
            /\ left \in 0 .. QueueBytes
            /\ Len(Kept(n)) < QueueFrames /\ Len(Kept(n)) \in Nat
<1> DEFINE n == Evicted(f)
           q == queue.frames
           left == queuedBytes - BytesIn(Oldest(n))
<1>1. n \in 0 .. Len(q) /\ q \in Seq(FrameSets) /\ queue.lidar \in Seq(Batches)
  BY EvictedRange DEF Types, Queues
<1>2. /\ Oldest(n) \in Seq(FrameSets) /\ Kept(n) \in Seq(FrameSets)
      /\ Len(Kept(n)) = Len(q) - n /\ q = Oldest(n) \o Kept(n)
  <2> HIDE DEF n, q
  <2>1. Oldest(n) = SubSeq(q, 1, n) /\ Kept(n) = SubSeq(q, n + 1, Len(q))
    BY DEF Oldest, Kept, q
  <2> QED
    BY <1>1, <2>1, CutInTwo
<1>3. \A c : Count(q, c) = Count(Oldest(n), c) + Count(Kept(n), c)
  <2> HIDE DEF n, q
  <2> QED
    BY <1>2, CountConcat
<1>4. Oldest(n) \in Seq(Jobs) /\ Kept(n) \in Seq(Jobs) /\ queue.lidar \in Seq(Jobs)
  <2> HIDE DEF n, q
  <2> QED
    BY <1>1, <1>2, JobsAreJobs
<1>5. /\ BytesIn(q) = BytesIn(Oldest(n)) + BytesIn(Kept(n))
      /\ BytesIn(Oldest(n)) \in Nat /\ BytesIn(Kept(n)) \in Nat /\ BytesIn(queue.lidar) \in Nat
  <2> HIDE DEF n, q
  <2> QED
    BY <1>2, <1>4, BytesConcat, BytesOfFew
<1>6. left \in 0 .. QueueBytes
  <2>1. queuedBytes \in 0 .. QueueBytes /\ BytesIn(q) + BytesIn(queue.lidar) <= queuedBytes
    BY DEF BudgetInv
  <2>2. QueueBytes \in Nat
    BY LimitsAssumption
  <2> HIDE DEF n, q
  <2> QED
    BY <1>5, <2>1, <2>2
<1>7. Len(Kept(n)) < QueueFrames /\ Len(Kept(n)) \in Nat
  <2>1. QueueFrames \in Nat \ {0}
    BY LimitsAssumption
  <2>2. n < Len(q) => ~ Full(Kept(n), left, f)
    BY EvictedRange
  <2>3. n < Len(q) => ~ (Len(Kept(n)) >= QueueFrames)
    BY <2>2 DEF Full
  <2> HIDE DEF n, q
  <2> QED
    BY <1>1, <1>2, <2>1, <2>3
<1> QED
  BY <1>2, <1>3, <1>5, <1>6, <1>7

(* A frame set that reaches the queue policy is queued, or it and its      *)
(* images are counted as dropped with those of the evicted frame sets.     *)
LEMMA EnqueueIs ==
  ASSUME Types, MoreTypes, BudgetInv, NEW f \in FrameSets, Enqueue(f)
  PROVE  /\ tally' \in Tallies /\ SameButDropped(tally, tally')
         /\ \A c \in Cameras :
              /\ tally'.received[c] = tally.received[c] + One(c \in f.images)
              /\ tally'.dropped[c] + Count(queue'.frames, c) =
                   tally.dropped[c] + Count(queue.frames, c) + One(c \in f.images)
         /\ queue'.lidar = queue.lidar /\ Len(queue'.frames) <= QueueFrames
         /\ queuedBytes' \in 0 .. QueueBytes
         /\ queuedBytes' + BytesIn(queue.frames) = queuedBytes + BytesIn(queue'.frames)
         /\ failed' \in BOOLEAN /\ (failed => failed')
<1>1. f \in Jobs /\ <<f>> \in Seq(Jobs) /\ <<>> \in Seq(Jobs) /\ f.bytes \in Nat
  BY JobsAreJobs
<1>2. /\ tally \in Tallies /\ failed \in BOOLEAN /\ queue.frames \in Seq(FrameSets)
      /\ \A c \in Cameras : tally.dropped[c] \in Nat
  BY DEF MoreTypes, Types, Queues, Tallies
<1>3. QueueBytes \in Nat /\ QueueFrames \in Nat
  BY LimitsAssumption
<1>4. \A jobs \in Seq(Jobs) :
        /\ Lose(Received(f), jobs) \in Tallies /\ SameButDropped(tally, Lose(Received(f), jobs))
        /\ \A c \in Cameras :
             /\ Lose(Received(f), jobs).received[c] = tally.received[c] + One(c \in f.images)
             /\ Lose(Received(f), jobs).dropped[c] = tally.dropped[c] + Count(jobs, c)
  <2> TAKE jobs \in Seq(Jobs)
  <2>1. Received(f) \in Tallies
    BY <1>1, <1>2, ReceivedIs
  <2>2. /\ Lose(Received(f), jobs) \in Tallies
        /\ SameButDropped(Received(f), Lose(Received(f), jobs))
        /\ Lose(Received(f), jobs).received = Received(f).received
        /\ \A c \in Cameras : Lose(Received(f), jobs).dropped[c] = Received(f).dropped[c] + Count(jobs, c)
    BY <2>1, LoseIs
  <2>3. /\ SameButDropped(tally, Received(f)) /\ Received(f).dropped = tally.dropped
        /\ \A c \in Cameras : Received(f).received[c] = tally.received[c] + One(c \in f.images)
    BY <1>1, <1>2, ReceivedIs
  <2> QED
    BY <2>2, <2>3 DEF SameButDropped
<1>5. \A c : Count(<<f>>, c) = One(c \in f.images) /\ Count(<<>>, c) = 0 /\ One(c \in f.images) \in Nat
  BY CountOfFew DEF One
<1>6. CASE f.bytes > QueueBytes
  <2>1. tally' = Lose(Received(f), <<f>>) /\ queue' = queue /\ queuedBytes' = queuedBytes /\ failed' = failed
    BY <1>6 DEF Enqueue
  <2>2. \A c \in Cameras : Count(queue.frames, c) \in Nat
    BY <1>2, CountConcat
  <2>3. ASSUME NEW c \in Cameras
        PROVE  tally'.dropped[c] + Count(queue'.frames, c) =
                 tally.dropped[c] + Count(queue.frames, c) + One(c \in f.images)
    <3>1. tally'.dropped[c] = tally.dropped[c] + One(c \in f.images)
      BY <1>1, <1>4, <1>5, <2>1
    <3> QED
      BY <1>2, <1>5, <2>1, <2>2, <3>1
  <2>4. /\ tally' \in Tallies /\ SameButDropped(tally, tally')
        /\ \A c \in Cameras : tally'.received[c] = tally.received[c] + One(c \in f.images)
    BY <1>1, <1>4, <2>1
  <2>5. /\ Len(queue.frames) <= QueueFrames /\ queuedBytes \in 0 .. QueueBytes
    BY DEF BudgetInv
  <2> QED
    BY <1>2, <2>1, <2>3, <2>4, <2>5
<1>7. CASE ~ (f.bytes > QueueBytes)
  <2> DEFINE n == Evicted(f)
             old == Oldest(n)
             kept == Kept(n)
             left == queuedBytes - BytesIn(old)
             fits == left <= QueueBytes - f.bytes
             more == IF fits THEN <<f>> ELSE <<>>
             gone == IF fits THEN <<>> ELSE <<f>>
  <2>1. /\ queue' = [queue EXCEPT !.frames = kept \o more]
        /\ queuedBytes' = left + IF fits THEN f.bytes ELSE 0
        /\ tally' = Lose(Received(f), old \o gone)
        /\ failed' = (failed \/ ~fits)
    BY <1>7, Zenon DEF Enqueue
  <2>2. /\ old \in Seq(FrameSets) /\ kept \in Seq(FrameSets)
        /\ \A c : Count(queue.frames, c) = Count(old, c) + Count(kept, c)
        /\ BytesIn(queue.frames) = BytesIn(old) + BytesIn(kept)
        /\ BytesIn(old) \in Nat /\ BytesIn(kept) \in Nat
        /\ left \in 0 .. QueueBytes
        /\ Len(kept) < QueueFrames /\ Len(kept) \in Nat
    BY Room
  <2>3. /\ more \in Seq(FrameSets) /\ gone \in Seq(FrameSets)
        /\ Len(more) <= 1 /\ Len(more) \in Nat
        /\ \A c : Count(more, c) \in Nat /\ Count(gone, c) \in Nat
                  /\ Count(more, c) + Count(gone, c) = One(c \in f.images)
        /\ BytesIn(more) = IF fits THEN f.bytes ELSE 0
    <3> HIDE DEF n, old, kept, left
    <3>1. BytesIn(<<>>) = 0 /\ BytesIn(<<f>>) = f.bytes
      BY <1>1, BytesOfFew
    <3>2. CASE fits
      BY <1>5, <3>1, <3>2
    <3>3. CASE ~fits
      BY <1>5, <3>1, <3>3
    <3> QED
      BY <3>2, <3>3
  <2>4. queue \in Queues
    BY DEF Types
  <2> HIDE DEF n, old, kept, more, gone
  <2>5. queue'.frames = kept \o more /\ queue'.lidar = queue.lidar
    BY <2>1, <2>4 DEF Queues
  <2>6. FrameSets \subseteq Jobs
    BY JobsAreJobs
  <2>7. old \in Seq(Jobs) /\ kept \in Seq(Jobs) /\ more \in Seq(Jobs) /\ gone \in Seq(Jobs)
    BY <2>2, <2>3, <2>6
  <2>8. ASSUME NEW c \in Cameras
        PROVE  /\ tally'.received[c] = tally.received[c] + One(c \in f.images)
               /\ tally'.dropped[c] + Count(queue'.frames, c) =
                    tally.dropped[c] + Count(queue.frames, c) + One(c \in f.images)
    <3>1. /\ Count(old \o gone, c) = Count(old, c) + Count(gone, c)
          /\ Count(kept \o more, c) = Count(kept, c) + Count(more, c)
          /\ Count(old, c) \in Nat /\ Count(kept, c) \in Nat
      BY <2>7, CountConcat
    <3>2. old \o gone \in Seq(Jobs)
      BY <2>7, ConcatProperties
    <3>3. /\ tally'.received[c] = tally.received[c] + One(c \in f.images)
          /\ tally'.dropped[c] = tally.dropped[c] + Count(old \o gone, c)
      BY <1>4, <2>1, <3>2
    <3>4. /\ Count(queue.frames, c) = Count(old, c) + Count(kept, c)
          /\ Count(more, c) \in Nat /\ Count(gone, c) \in Nat
          /\ Count(more, c) + Count(gone, c) = One(c \in f.images)
      BY <2>2, <2>3
    <3>5. tally.dropped[c] \in Nat
      BY <1>2
    <3>6. \A d, o, k, m, g \in Nat : (d + (o + g)) + (k + m) = (d + (o + k)) + (m + g)
      OBVIOUS
    <3>7. tally'.dropped[c] + Count(queue'.frames, c) =
            (tally.dropped[c] + (Count(old, c) + Count(gone, c))) + (Count(kept, c) + Count(more, c))
      BY <2>5, <3>1, <3>3
    <3>8. tally.dropped[c] + Count(queue.frames, c) + One(c \in f.images) =
            (tally.dropped[c] + (Count(old, c) + Count(kept, c))) + (Count(more, c) + Count(gone, c))
      BY <3>4
    <3> QED
      BY <3>1, <3>3, <3>4, <3>5, <3>6, <3>7, <3>8
  <2>9. tally' \in Tallies /\ SameButDropped(tally, tally')
    <3>1. old \o gone \in Seq(Jobs)
      BY <2>7, ConcatProperties
    <3> QED
      BY <1>4, <2>1, <3>1
  <2>10. Len(queue'.frames) <= QueueFrames
    <3>1. Len(kept \o more) = Len(kept) + Len(more)
      BY <2>7, ConcatProperties
    <3> QED
      BY <1>3, <2>2, <2>3, <2>5, <3>1
  <2>11. BytesIn(queue'.frames) = BytesIn(kept) + IF fits THEN f.bytes ELSE 0
    <3>1. BytesIn(kept \o more) = BytesIn(kept) + BytesIn(more)
      BY <2>7, BytesConcat
    <3> HIDE DEF left
    <3> QED
      BY <2>3, <2>5, <3>1
  <2>12. queuedBytes \in Nat
    BY <1>3 DEF BudgetInv
  <2>13. /\ queuedBytes' \in 0 .. QueueBytes
         /\ queuedBytes' + BytesIn(queue.frames) = queuedBytes + BytesIn(queue'.frames)
    <3>1. CASE fits
      <4>1. queuedBytes' = left + f.bytes /\ BytesIn(queue'.frames) = BytesIn(kept) + f.bytes
        BY <2>1, <2>11, <3>1
      <4> DEFINE o == BytesIn(old)
                 k == BytesIn(kept)
      <4>2. /\ o \in Nat /\ k \in Nat /\ f.bytes \in Nat /\ queuedBytes - o \in 0 .. QueueBytes
            /\ queuedBytes - o <= QueueBytes - f.bytes /\ queuedBytes' = (queuedBytes - o) + f.bytes
            /\ BytesIn(queue.frames) = o + k /\ BytesIn(queue'.frames) = k + f.bytes
        BY <1>1, <2>2, <3>1, <4>1
      <4> HIDE DEF o, k
      <4>3. queuedBytes' \in 0 .. QueueBytes
        BY <1>3, <2>12, <4>2
      <4> QED
        BY <1>3, <2>12, <4>2, <4>3
    <3>2. CASE ~fits
      <4>1. queuedBytes' = left + 0 /\ BytesIn(queue'.frames) = BytesIn(kept) + 0
        BY <2>1, <2>11, <3>2
      <4> QED
        BY <1>1, <1>3, <2>2, <2>12, <4>1
    <3> QED
      BY <3>1, <3>2
  <2>14. failed' \in BOOLEAN /\ (failed => failed')
    BY <1>2, <2>1
  <2> QED
    BY <2>5, <2>8, <2>9, <2>10, <2>13, <2>14
<1> QED
  BY <1>6, <1>7

(* An append that fails after room was made loses no evicted image.        *)
LEMMA ThrowIs ==
  ASSUME Types, MoreTypes, BudgetInv, AppendFrameSetThrows
  PROVE  /\ tally' \in Tallies /\ SameButDropped(tally, tally')
         /\ \A c \in Cameras :
              /\ tally'.received[c] = tally.received[c] + One(c \in capture.images)
              /\ tally'.dropped[c] + Count(queue'.frames, c) = tally.dropped[c] + Count(queue.frames, c)
         /\ queue'.lidar = queue.lidar /\ Len(queue'.frames) <= QueueFrames
         /\ queuedBytes' \in 0 .. QueueBytes
         /\ queuedBytes' + BytesIn(queue.frames) = queuedBytes + BytesIn(queue'.frames)
<1> DEFINE f == capture
           n == Evicted(f)
           old == Oldest(n)
           kept == Kept(n)
<1>1. capture \in FrameSets
  <2>1. capture \in Jobs \union {NoJob, Failing} /\ capture.kind = "frame"
    BY DEF Types, AppendFrameSetThrows
  <2>2. NoJob.kind # "frame" /\ Failing.kind # "frame"
    BY DEF NoJob, Failing
  <2> QED
    BY <2>1, <2>2, JobsAreJobs DEF Jobs
<1>2. /\ queue' = [queue EXCEPT !.frames = kept]
      /\ queuedBytes' = queuedBytes - BytesIn(old)
      /\ tally' = Lose(Received(f), old)
  BY Zenon DEF AppendFrameSetThrows
<1>3. /\ old \in Seq(FrameSets) /\ kept \in Seq(FrameSets)
      /\ \A c : Count(queue.frames, c) = Count(old, c) + Count(kept, c)
      /\ BytesIn(queue.frames) = BytesIn(old) + BytesIn(kept)
      /\ BytesIn(old) \in Nat /\ BytesIn(kept) \in Nat
      /\ queuedBytes - BytesIn(old) \in 0 .. QueueBytes
      /\ Len(kept) < QueueFrames /\ Len(kept) \in Nat
  BY <1>1, Room
<1> HIDE DEF f, n, old, kept
<1>4. f \in Jobs /\ old \in Seq(Jobs) /\ kept \in Seq(Jobs)
  BY <1>1, <1>3, JobsAreJobs DEF f
<1>5. tally \in Tallies /\ queue \in Queues
  BY DEF MoreTypes, Types
<1>6. queue'.frames = kept /\ queue'.lidar = queue.lidar
  BY <1>2, <1>5 DEF Queues
<1>7. Received(f) \in Tallies
  BY <1>4, <1>5, ReceivedIs
<1>8. /\ tally' \in Tallies /\ SameButDropped(Received(f), tally')
      /\ tally'.received = Received(f).received
      /\ \A c \in Cameras : tally'.dropped[c] = Received(f).dropped[c] + Count(old, c)
  BY <1>2, <1>4, <1>7, LoseIs
<1>9. /\ SameButDropped(tally, Received(f)) /\ Received(f).dropped = tally.dropped
      /\ \A c \in Cameras : Received(f).received[c] = tally.received[c] + One(c \in f.images)
  BY <1>4, <1>5, ReceivedIs
<1>10. ASSUME NEW c \in Cameras
       PROVE  tally'.dropped[c] + Count(queue'.frames, c) = tally.dropped[c] + Count(queue.frames, c)
  <2>1. Count(old, c) \in Nat /\ Count(kept, c) \in Nat /\ tally.dropped[c] \in Nat
    BY <1>4, <1>5, CountConcat DEF Tallies
  <2> QED
    BY <1>3, <1>6, <1>8, <1>9, <2>1
<1>11. Len(queue'.frames) <= QueueFrames
  <2>1. QueueFrames \in Nat
    BY LimitsAssumption
  <2> QED
    BY <1>3, <1>6, <2>1
<1>12. queuedBytes \in Nat
  BY LimitsAssumption DEF BudgetInv
<1>13. queuedBytes' + BytesIn(queue.frames) = queuedBytes + BytesIn(queue'.frames)
  BY <1>2, <1>3, <1>6, <1>12
<1> QED
  BY <1>2, <1>3, <1>6, <1>8, <1>9, <1>10, <1>11, <1>13 DEF SameButDropped, f

\* What a frame set's append does to the accounts, however it ends.
FrameSetMove ==
  /\ tally' \in Tallies /\ SameButDropped(tally, tally')
  /\ \A c \in Cameras :
       LET before == tally.dropped[c] + Count(queue.frames, c) + tally'.received[c]
           after  == tally'.dropped[c] + Count(queue'.frames, c) + tally.received[c]
       IN /\ tally'.received[c] <= tally.received[c] + 1
          /\ after <= before /\ (Certain' => after = before)
  /\ queue'.lidar = queue.lidar /\ Len(queue'.frames) <= QueueFrames
  /\ queuedBytes' \in 0 .. QueueBytes
  /\ queuedBytes' + BytesIn(queue.frames) = queuedBytes + BytesIn(queue'.frames)
  /\ failed' \in BOOLEAN /\ (failed => failed')
  /\ capture.kind = "frame" /\ capture'.kind # "frame"
  /\ UNCHANGED <<active, session, stopWriter, file, index, writer, gui, manifest, sent>>

\* Counted numbers are numbers.
Numbers ==
  /\ \A c \in Cameras : /\ tally.received[c] \in Nat /\ tally.dropped[c] \in Nat /\ tally.images[c] \in Nat
                        /\ Count(queue.frames, c) \in Nat /\ Count(index.frame, c) \in Nat
                        /\ Hand(c) \in Nat
  /\ BytesIn(queue.frames) \in Nat /\ BytesIn(queue.lidar) \in Nat
  /\ Len(queue.frames) \in Nat /\ Len(queue.lidar) \in Nat /\ Len(index.lidar) \in Nat
  /\ tally.batches \in Nat /\ tally.queuedBatches \in Nat /\ tally.partialSets \in Nat
  /\ sent.frames \in Nat

LEMMA NumbersCount == Types /\ MoreTypes => Numbers
<1> SUFFICES ASSUME Types, MoreTypes PROVE Numbers
  OBVIOUS
<1>1. /\ queue.frames \in Seq(FrameSets) /\ queue.lidar \in Seq(Batches)
      /\ index.frame \in Seq(Rows) /\ index.lidar \in Seq(Rows)
  <2>1. index \in [Kinds -> Seq(Rows)] /\ queue \in Queues
    BY DEF Types, Indices
  <2>2. index["frame"] \in Seq(Rows) /\ index["lidar"] \in Seq(Rows)
    BY <2>1 DEF Kinds
  <2> QED
    BY <2>1, <2>2 DEF Queues
<1>2. queue.frames \in Seq(Jobs) /\ queue.lidar \in Seq(Jobs)
  BY <1>1, JobsAreJobs
<1>3. ASSUME NEW c \in Cameras
      PROVE  Count(queue.frames, c) \in Nat /\ Count(index.frame, c) \in Nat
  BY <1>1, CountConcat
<1>4. BytesIn(queue.frames) \in Nat /\ BytesIn(queue.lidar) \in Nat
  BY <1>2, BytesOfFew
<1>5. Len(queue.frames) \in Nat /\ Len(queue.lidar) \in Nat /\ Len(index.lidar) \in Nat
  BY <1>1
<1>6. \A c : Hand(c) \in Nat
  BY DEF Hand, One
<1>7. /\ \A c \in Cameras : tally.received[c] \in Nat /\ tally.dropped[c] \in Nat /\ tally.images[c] \in Nat
      /\ tally.batches \in Nat /\ tally.queuedBatches \in Nat /\ tally.partialSets \in Nat
  BY DEF MoreTypes, Tallies
<1>8. sent.frames \in Nat
  BY LimitsAssumption DEF MoreTypes
<1> QED
  BY <1>3, <1>4, <1>5, <1>6, <1>7, <1>8 DEF Numbers

LEMMA FrameSetThrowsMove ==
  ASSUME Types, MoreTypes, BudgetInv, AppendFrameSetThrows
  PROVE  FrameSetMove
<1>1. /\ tally' \in Tallies /\ SameButDropped(tally, tally')
      /\ \A c \in Cameras :
           /\ tally'.received[c] = tally.received[c] + One(c \in capture.images)
           /\ tally'.dropped[c] + Count(queue'.frames, c) = tally.dropped[c] + Count(queue.frames, c)
      /\ queue'.lidar = queue.lidar /\ Len(queue'.frames) <= QueueFrames
      /\ queuedBytes' \in 0 .. QueueBytes
      /\ queuedBytes' + BytesIn(queue.frames) = queuedBytes + BytesIn(queue'.frames)
  BY ThrowIs
<1>2. Numbers
  BY NumbersCount
<1>3. /\ UNCHANGED <<active, session, stopWriter, failed, file, index, writer, gui, manifest, sent>>
      /\ capture' = Failing /\ capture.kind = "frame"
  BY Zenon DEF AppendFrameSetThrows
<1>4. Failing.kind = "failing" /\ failed \in BOOLEAN
  BY DEF Failing, NoJob, MoreTypes
<1>5. ~Certain' /\ capture'.kind # "frame"
  BY <1>3, <1>4 DEF Certain
<1>6. ASSUME NEW c \in Cameras
      PROVE  /\ tally'.received[c] <= tally.received[c] + 1
             /\ tally'.dropped[c] + Count(queue'.frames, c) + tally.received[c] <=
                  tally.dropped[c] + Count(queue.frames, c) + tally'.received[c]
  <2>1. One(c \in capture.images) \in {0, 1}
    BY DEF One
  <2>2. /\ tally.received[c] \in Nat /\ tally.dropped[c] \in Nat /\ Count(queue.frames, c) \in Nat
    BY <1>2 DEF Numbers
  <2>3. /\ tally'.received[c] = tally.received[c] + One(c \in capture.images)
        /\ tally'.dropped[c] + Count(queue'.frames, c) = tally.dropped[c] + Count(queue.frames, c)
    BY <1>1
  <2> QED
    BY <2>1, <2>2, <2>3
<1> QED
  BY <1>1, <1>3, <1>4, <1>5, <1>6 DEF FrameSetMove

LEMMA FrameSetIsMove ==
  ASSUME Types, MoreTypes, BudgetInv, AppendFrameSet
  PROVE  FrameSetMove
<1> DEFINE f == capture
<1>1. capture \in FrameSets /\ capture.kind = "frame"
  <2>1. capture \in Jobs \union {NoJob, Failing} /\ capture.kind = "frame"
    BY DEF Types, AppendFrameSet
  <2>2. NoJob.kind # "frame" /\ Failing.kind # "frame"
    BY DEF NoJob, Failing
  <2> QED
    BY <2>1, <2>2, JobsAreJobs DEF Jobs
<1>2. Numbers
  BY NumbersCount
<1>3. /\ tally \in Tallies /\ queue \in Queues /\ failed \in BOOLEAN
      /\ Len(queue.frames) <= QueueFrames /\ queuedBytes \in 0 .. QueueBytes
  BY DEF MoreTypes, Types, BudgetInv
<1>4. /\ UNCHANGED <<active, session, stopWriter, file, index, writer, gui, manifest, sent>>
      /\ capture' = NoJob
  BY Zenon DEF AppendFrameSet
<1>5. capture'.kind # "frame"
  BY <1>4 DEF NoJob
<1>6. queuedBytes \in Nat /\ BytesIn(queue.frames) \in Nat
  BY <1>2, <1>3, LimitsAssumption DEF Numbers
<1>7. ASSUME UNCHANGED <<queue, queuedBytes>>, tally' \in Tallies, SameButDropped(tally, tally'),
             tally'.received = tally.received, tally'.dropped = tally.dropped,
             failed' \in BOOLEAN, failed => failed'
      PROVE  FrameSetMove
  <2>1. ASSUME NEW c \in Cameras
        PROVE  /\ tally'.received[c] <= tally.received[c] + 1
               /\ tally'.dropped[c] + Count(queue'.frames, c) + tally.received[c] =
                    tally.dropped[c] + Count(queue.frames, c) + tally'.received[c]
               /\ tally.dropped[c] + Count(queue.frames, c) + tally'.received[c] \in Nat
    <3>1. /\ tally.received[c] \in Nat /\ tally.dropped[c] \in Nat /\ Count(queue.frames, c) \in Nat
      BY <1>2 DEF Numbers
    <3> QED
      BY <1>7, <3>1
  <2>2. \A c \in Cameras :
          LET before == tally.dropped[c] + Count(queue.frames, c) + tally'.received[c]
              after  == tally'.dropped[c] + Count(queue'.frames, c) + tally.received[c]
          IN /\ tally'.received[c] <= tally.received[c] + 1
             /\ after <= before /\ (Certain' => after = before)
    BY <2>1
  <2>3. queuedBytes' + BytesIn(queue.frames) = queuedBytes + BytesIn(queue'.frames)
    BY <1>6, <1>7
  <2> QED
    BY <1>1, <1>3, <1>4, <1>5, <1>7, <2>2, <2>3 DEF FrameSetMove
<1>8. CASE ~Receiving
  <2>1. UNCHANGED <<failed, queue, queuedBytes, tally>>
    BY <1>8, Zenon DEF AppendFrameSet
  <2> QED
    BY <1>3, <1>7, <2>1 DEF SameButDropped
<1>9. CASE Receiving /\ (~f.valid \/ (Aligned /\ ~f.synced))
  <2>1. tally' = [tally EXCEPT !.droppedSets = @ + 1] /\ UNCHANGED <<failed, queue, queuedBytes>>
    BY <1>9 DEF AppendFrameSet
  <2>2. tally' \in Tallies /\ tally'.received = tally.received /\ tally'.dropped = tally.dropped
    <3>1. PICK n \in Nat : n = tally.droppedSets + 1
      BY <1>3 DEF Tallies
    <3>2. tally' = [tally EXCEPT !.droppedSets = n]
      BY <2>1, <3>1
    <3> QED
      BY <1>3, <3>2 DEF Tallies
  <2>3. SameButDropped(tally, tally')
    BY <1>3, <2>1 DEF Tallies, SameButDropped
  <2> QED
    BY <1>3, <1>7, <2>1, <2>2, <2>3
<1>10. CASE Receiving /\ f.valid /\ (Aligned => f.synced) /\ ~LetsIn("frame", f.at)
  <2>1. failed' = Breaks("frame", f.at) /\ UNCHANGED <<queue, queuedBytes, tally>>
    BY <1>10 DEF AppendFrameSet
  <2>2. failed' \in BOOLEAN /\ ~failed
    BY <1>10, <2>1 DEF Breaks, Receiving
  <2> QED
    BY <1>3, <1>7, <2>1, <2>2 DEF SameButDropped
<1>11. CASE Receiving /\ f.valid /\ (Aligned => f.synced) /\ LetsIn("frame", f.at)
  <2>1. Enqueue(f)
    BY <1>11 DEF AppendFrameSet
  <2>2. /\ tally' \in Tallies /\ SameButDropped(tally, tally')
        /\ \A c \in Cameras :
             /\ tally'.received[c] = tally.received[c] + One(c \in f.images)
             /\ tally'.dropped[c] + Count(queue'.frames, c) =
                  tally.dropped[c] + Count(queue.frames, c) + One(c \in f.images)
        /\ queue'.lidar = queue.lidar /\ Len(queue'.frames) <= QueueFrames
        /\ queuedBytes' \in 0 .. QueueBytes
        /\ queuedBytes' + BytesIn(queue.frames) = queuedBytes + BytesIn(queue'.frames)
        /\ failed' \in BOOLEAN /\ (failed => failed')
    BY <1>1, <2>1, EnqueueIs
  <2>3. ASSUME NEW c \in Cameras
        PROVE  /\ tally'.received[c] <= tally.received[c] + 1
               /\ tally'.dropped[c] + Count(queue'.frames, c) + tally.received[c] =
                    tally.dropped[c] + Count(queue.frames, c) + tally'.received[c]
               /\ tally.dropped[c] + Count(queue.frames, c) + tally'.received[c] \in Nat
    <3>1. /\ tally.received[c] \in Nat /\ tally.dropped[c] \in Nat /\ Count(queue.frames, c) \in Nat
          /\ One(c \in f.images) \in {0, 1}
      BY <1>2 DEF Numbers, One
    <3>2. /\ tally'.received[c] = tally.received[c] + One(c \in f.images)
          /\ tally'.dropped[c] + Count(queue'.frames, c) =
               tally.dropped[c] + Count(queue.frames, c) + One(c \in f.images)
      BY <2>2
    <3> HIDE DEF f
    <3> QED
      BY <3>1, <3>2
  <2>4. \A c \in Cameras :
          LET before == tally.dropped[c] + Count(queue.frames, c) + tally'.received[c]
              after  == tally'.dropped[c] + Count(queue'.frames, c) + tally.received[c]
          IN /\ tally'.received[c] <= tally.received[c] + 1
             /\ after <= before /\ (Certain' => after = before)
    BY <2>3
  <2> QED
    BY <1>1, <1>4, <1>5, <2>2, <2>4 DEF FrameSetMove
<1> QED
  BY <1>8, <1>9, <1>10, <1>11

\* What a LiDAR batch's append does to the accounts, however it ends.
LidarMove ==
  /\ tally' \in Tallies /\ tally'.received = tally.received /\ tally'.dropped = tally.dropped
  /\ tally'.images = tally.images /\ tally'.partialSets = tally.partialSets
  /\ tally'.batches = tally.batches
  /\ queue'.frames = queue.frames /\ Len(queue'.lidar) <= QueueBatches
  /\ queuedBytes' \in 0 .. QueueBytes
  /\ LET before == queuedBytes' + BytesIn(queue.lidar)
         after  == queuedBytes + BytesIn(queue'.lidar)
     IN after <= before /\ (Certain' => after = before)
  /\ tally'.queuedBatches + Len(queue.lidar) = tally.queuedBatches + Len(queue'.lidar)
  /\ failed' \in BOOLEAN /\ (failed => failed')
  /\ capture.kind = "lidar" /\ capture'.kind # "frame"
  /\ UNCHANGED <<active, session, stopWriter, file, index, writer, gui, manifest, sent>>

LEMMA LidarIsMove ==
  ASSUME Types, MoreTypes, BudgetInv, AppendLidar \/ AppendLidarThrows
  PROVE  LidarMove
<1> DEFINE b == capture
<1>1. capture \in Batches /\ capture.kind = "lidar" /\ b.bytes \in Nat
  <2>1. capture \in Jobs \union {NoJob, Failing} /\ capture.kind = "lidar"
    BY DEF Types, AppendLidar, AppendLidarThrows
  <2>2. NoJob.kind # "lidar" /\ Failing.kind # "lidar"
    BY DEF NoJob, Failing
  <2> QED
    BY <2>1, <2>2, JobsAreJobs DEF Jobs
<1>2. Numbers
  BY NumbersCount
<1>3. /\ tally \in Tallies /\ queue \in Queues /\ failed \in BOOLEAN
      /\ Len(queue.lidar) <= QueueBatches /\ queuedBytes \in 0 .. QueueBytes
      /\ QueueBytes \in Nat /\ QueueBatches \in Nat /\ queuedBytes \in Nat
      /\ tally.queuedBatches \in Nat
  <2>1. QueueBytes \in Nat /\ QueueBatches \in Nat
    BY LimitsAssumption
  <2>2. tally \in Tallies /\ queue \in Queues /\ failed \in BOOLEAN
    BY DEF MoreTypes, Types
  <2>3. Len(queue.lidar) <= QueueBatches /\ queuedBytes \in 0 .. QueueBytes
    BY DEF BudgetInv
  <2> QED
    BY <2>1, <2>2, <2>3 DEF Tallies
<1>4. /\ UNCHANGED <<active, session, stopWriter, file, index, writer, gui, manifest, sent>>
      /\ capture' \in {NoJob, Failing}
  <2>1. CASE AppendLidar
    BY <2>1, Zenon DEF AppendLidar
  <2>2. CASE AppendLidarThrows
    BY <2>2, Zenon DEF AppendLidarThrows
  <2> QED
    BY <2>1, <2>2
<1>5. capture'.kind # "frame"
  BY <1>4 DEF NoJob, Failing
<1>6. /\ BytesIn(queue.lidar) \in Nat /\ Len(queue.lidar) \in Nat
  BY <1>2 DEF Numbers
<1>0. \A q, B, x : q \in Nat /\ B \in Nat /\ x \in Nat /\ q <= B - x => q + x \in 0 .. B
  OBVIOUS
<1>7. ASSUME UNCHANGED <<queue, queuedBytes>>, tally' \in Tallies,
             tally'.received = tally.received, tally'.dropped = tally.dropped,
             tally'.images = tally.images, tally'.partialSets = tally.partialSets,
             tally'.batches = tally.batches, tally'.queuedBatches = tally.queuedBatches,
             failed' \in BOOLEAN, failed => failed'
      PROVE  LidarMove
  <2>1. queuedBytes + BytesIn(queue'.lidar) = queuedBytes' + BytesIn(queue.lidar)
    BY <1>7
  <2>2. queuedBytes + BytesIn(queue'.lidar) <= queuedBytes' + BytesIn(queue.lidar)
    BY <1>3, <1>6, <1>7
  <2> QED
    BY <1>1, <1>3, <1>4, <1>5, <1>7, <2>1, <2>2 DEF LidarMove
<1>8. ASSUME AppendLidar, ~Receiving PROVE LidarMove
  <2>1. UNCHANGED <<failed, queue, queuedBytes, tally>>
    BY <1>8, Zenon DEF AppendLidar
  <2> QED
    BY <1>3, <1>7, <2>1
<1>9. ASSUME AppendLidar, Receiving, Aligned /\ ~b.synced PROVE LidarMove
  <2>1. tally' = [tally EXCEPT !.droppedBatches = @ + 1] /\ UNCHANGED <<failed, queue, queuedBytes>>
    BY <1>9 DEF AppendLidar
  <2>2. PICK n \in Nat : n = tally.droppedBatches + 1
    BY <1>3 DEF Tallies
  <2>3. tally' = [tally EXCEPT !.droppedBatches = n]
    BY <2>1, <2>2
  <2>4. /\ tally' \in Tallies /\ tally'.received = tally.received /\ tally'.dropped = tally.dropped
        /\ tally'.images = tally.images /\ tally'.partialSets = tally.partialSets
        /\ tally'.batches = tally.batches /\ tally'.queuedBatches = tally.queuedBatches
    BY <1>3, <2>3 DEF Tallies
  <2> QED
    BY <1>3, <1>7, <2>1, <2>4
<1>10. ASSUME AppendLidar, Receiving, Aligned => b.synced, ~LetsIn("lidar", b.at) PROVE LidarMove
  <2>1. failed' = Breaks("lidar", b.at) /\ UNCHANGED <<queue, queuedBytes, tally>>
    BY <1>10 DEF AppendLidar
  <2>2. failed' \in BOOLEAN /\ ~failed
    BY <1>10, <2>1 DEF Breaks, Receiving
  <2> QED
    BY <1>3, <1>7, <2>1, <2>2
<1>11. ASSUME AppendLidar, Receiving, Aligned => b.synced, LetsIn("lidar", b.at) PROVE LidarMove
  <2>1. /\ IF LidarFits(b)
           THEN /\ queue' = [queue EXCEPT !.lidar = Append(@, b)]
                /\ queuedBytes' = queuedBytes + b.bytes
                /\ tally' = [tally EXCEPT !.queuedBatches = @ + 1]
           ELSE /\ tally' = [tally EXCEPT !.droppedBatches = @ + 1]
                /\ UNCHANGED <<queue, queuedBytes>>
        /\ UNCHANGED failed
    BY <1>11 DEF AppendLidar
  <2>2. CASE LidarFits(b)
    <3>1. queue.lidar \in Seq(Batches) /\ Append(queue.lidar, b) = queue.lidar \o <<b>>
      <4>1. queue.lidar \in Seq(Batches)
        BY <1>3 DEF Queues
      <4> QED
        BY <1>1, <4>1, AppendIsConcat
    <3>2. queue'.lidar = queue.lidar \o <<b>> /\ queue'.frames = queue.frames
      BY <1>3, <2>1, <2>2, <3>1 DEF Queues
    <3>3. queue.lidar \in Seq(Jobs) /\ <<b>> \in Seq(Jobs)
      BY <1>1, <3>1, JobsAreJobs
    <3>4. BytesIn(queue'.lidar) = BytesIn(queue.lidar) + b.bytes
      <4>1. b \in Jobs
        BY <1>1, JobsAreJobs
      <4> QED
        BY <3>2, <3>3, <4>1, BytesConcat, BytesOfFew
    <3>5. Len(queue'.lidar) = Len(queue.lidar) + 1
      BY <3>2, <3>3, ConcatProperties
    <3>6. Len(queue.lidar) < QueueBatches /\ queuedBytes <= QueueBytes - b.bytes
      BY <2>2 DEF LidarFits
    <3>7. queuedBytes' = queuedBytes + b.bytes
      BY <2>1, <2>2
    <3>8. Len(queue'.lidar) <= QueueBatches /\ queuedBytes' \in 0 .. QueueBytes
      <4>1. \A l, m : l \in Nat /\ m \in Nat /\ l < m => l + 1 <= m
        OBVIOUS
      <4>2. Len(queue.lidar) + 1 <= QueueBatches
        BY <1>3, <1>6, <3>6, <4>1
      <4>3. queuedBytes + b.bytes \in 0 .. QueueBytes
        BY <1>0, <1>1, <1>3, <3>6
      <4> QED
        BY <3>5, <3>7, <4>2, <4>3
    <3>9. /\ queuedBytes + BytesIn(queue'.lidar) = queuedBytes' + BytesIn(queue.lidar)
          /\ queuedBytes + BytesIn(queue'.lidar) <= queuedBytes' + BytesIn(queue.lidar)
      <4>1. \A q, l, x \in Nat : q + (l + x) = (q + x) + l /\ q + (l + x) <= (q + x) + l
        OBVIOUS
      <4>2. /\ queuedBytes + (BytesIn(queue.lidar) + b.bytes) = (queuedBytes + b.bytes) + BytesIn(queue.lidar)
            /\ queuedBytes + (BytesIn(queue.lidar) + b.bytes) <= (queuedBytes + b.bytes) + BytesIn(queue.lidar)
        BY <1>1, <1>3, <1>6, <4>1
      <4> QED
        BY <3>4, <3>7, <4>2
    <3>10. PICK n \in Nat : n = tally.queuedBatches + 1
      BY <1>3
    <3>11. tally' = [tally EXCEPT !.queuedBatches = n]
      BY <2>1, <2>2, <3>10
    <3>12. /\ tally' \in Tallies /\ tally'.received = tally.received /\ tally'.dropped = tally.dropped
           /\ tally'.images = tally.images /\ tally'.partialSets = tally.partialSets
           /\ tally'.batches = tally.batches /\ tally'.queuedBatches = n
      BY <1>3, <3>11 DEF Tallies
    <3>13. tally'.queuedBatches + Len(queue.lidar) = tally.queuedBatches + Len(queue'.lidar)
      <4>1. \A q, l \in Nat : (q + 1) + l = q + (l + 1)
        OBVIOUS
      <4>2. (tally.queuedBatches + 1) + Len(queue.lidar) = tally.queuedBatches + (Len(queue.lidar) + 1)
        BY <1>3, <1>6, <4>1
      <4> QED
        BY <3>5, <3>10, <3>12, <4>2
    <3> QED
      BY <1>1, <1>3, <1>4, <1>5, <2>1, <3>2, <3>8, <3>9, <3>12, <3>13 DEF LidarMove
  <2>3. CASE ~LidarFits(b)
    <3>1. PICK n \in Nat : n = tally.droppedBatches + 1
      BY <1>3 DEF Tallies
    <3>2. tally' = [tally EXCEPT !.droppedBatches = n]
      BY <2>1, <2>3, <3>1
    <3>3. /\ tally' \in Tallies /\ tally'.received = tally.received /\ tally'.dropped = tally.dropped
          /\ tally'.images = tally.images /\ tally'.partialSets = tally.partialSets
          /\ tally'.batches = tally.batches /\ tally'.queuedBatches = tally.queuedBatches
      BY <1>3, <3>2 DEF Tallies
    <3> QED
      BY <1>3, <1>7, <2>1, <2>3, <3>3
  <2> QED
    BY <2>2, <2>3
<1>12. CASE AppendLidar
  BY <1>8, <1>9, <1>10, <1>11, <1>12
<1>13. CASE AppendLidarThrows
  <2>0. CASE queuedBytes' = queuedBytes
    <3>1. UNCHANGED <<failed, queue, queuedBytes, tally>>
      BY <1>13, <2>0, Zenon DEF AppendLidarThrows
    <3> QED
      BY <1>3, <1>7, <3>1 DEF Tallies
  <2> SUFFICES ASSUME queuedBytes' # queuedBytes PROVE LidarMove
    BY <2>0
  <2>1. /\ UNCHANGED <<failed, queue, tally>> /\ queuedBytes' = queuedBytes + b.bytes
        /\ capture' = Failing /\ queuedBytes <= QueueBytes - b.bytes
    BY <1>13 DEF AppendLidarThrows, LidarFits
  <2>2. ~Certain'
    BY <2>1 DEF Certain, Failing
  <2>3. queuedBytes' \in 0 .. QueueBytes
    BY <1>0, <1>1, <1>3, <2>1
  <2>4. queuedBytes + BytesIn(queue'.lidar) <= queuedBytes' + BytesIn(queue.lidar)
    <3>1. \A q, l, x \in Nat : q + l <= (q + x) + l
      OBVIOUS
    <3>2. queuedBytes + BytesIn(queue.lidar) <= (queuedBytes + b.bytes) + BytesIn(queue.lidar)
      BY <1>1, <1>3, <1>6, <3>1
    <3> QED
      BY <2>1, <3>2
  <2> QED
    BY <1>1, <1>3, <1>4, <1>5, <2>1, <2>2, <2>3, <2>4 DEF LidarMove
<1> QED
  BY <1>12, <1>13

\* What taking a job does: it is in the writer's hand instead of its queue.
TakeMove ==
  /\ writer.pc = "idle" /\ writer'.pc = "taken"
  /\ \A c \in Cameras : Count(queue'.frames, c) + One(c \in writer'.job.images) = Count(queue.frames, c)
  /\ Len(queue'.frames) <= Len(queue.frames)
  /\ Len(queue'.lidar) + One(writer'.job.kind = "lidar") = Len(queue.lidar)
  /\ queuedBytes' \in 0 .. QueueBytes
  /\ queuedBytes' + (BytesIn(queue.frames) + BytesIn(queue.lidar)) =
       queuedBytes + (BytesIn(queue'.frames) + BytesIn(queue'.lidar))
  /\ UNCHANGED <<active, session, stopWriter, failed, gate, tally, file, index, capture, gui,
                 manifest, sent>>

LEMMA FirstAndRest ==
  ASSUME NEW S \in SUBSET Jobs, NEW s \in Seq(S), s # <<>>
  PROVE  /\ Head(s) \in S /\ Tail(s) \in Seq(S)
         /\ Len(Tail(s)) + 1 = Len(s) /\ Len(Tail(s)) \in Nat
         /\ \A c : Count(s, c) = Count(Tail(s), c) + One(c \in Head(s).images) /\ Count(Tail(s), c) \in Nat
         /\ BytesIn(s) = BytesIn(Tail(s)) + Head(s).bytes
         /\ BytesIn(Tail(s)) \in Nat /\ Head(s).bytes \in Nat
<1> DEFINE h == Head(s)
           t == Tail(s)
<1>1. h \in S /\ t \in Seq(S) /\ Len(t) + 1 = Len(s) /\ Len(t) \in Nat
  OBVIOUS
<1>2. s = <<h>> \o t
  BY HeadTailProperties
<1> HIDE DEF h, t
<1>3. <<h>> \in Seq(S) /\ h \in Jobs /\ <<h>> \in Seq(Jobs) /\ t \in Seq(Jobs) /\ h.bytes \in Nat
  BY <1>1, JobsAreJobs
<1>4. ASSUME NEW c PROVE Count(s, c) = Count(t, c) + One(c \in h.images) /\ Count(t, c) \in Nat
  <2>1. /\ Count(<<h>> \o t, c) = Count(<<h>>, c) + Count(t, c)
        /\ Count(<<h>>, c) \in Nat /\ Count(t, c) \in Nat
    BY <1>3, CountConcat
  <2>2. Count(<<h>>, c) = One(c \in h.images)
    BY CountOfFew
  <2> QED
    BY <1>2, <2>1, <2>2
<1>5. BytesIn(s) = BytesIn(t) + h.bytes /\ BytesIn(t) \in Nat
  <2>1. BytesIn(<<h>> \o t) = BytesIn(<<h>>) + BytesIn(t)
    BY <1>3, BytesConcat
  <2>2. BytesIn(<<h>>) = h.bytes /\ BytesIn(t) \in Nat
    BY <1>3, BytesOfFew
  <2> QED
    BY <1>2, <1>3, <2>1, <2>2
<1> QED
  BY <1>1, <1>3, <1>4, <1>5 DEF h, t

LEMMA TakeIsMove ==
  ASSUME Types, MoreTypes, BudgetInv, TakeJob
  PROVE  TakeMove
<1>1. /\ queue \in Queues /\ queue.frames \in Seq(FrameSets) /\ queue.lidar \in Seq(Batches)
      /\ FrameSets \in SUBSET Jobs /\ Batches \in SUBSET Jobs
  BY JobsAreJobs DEF Types, Queues
<1>2. /\ queuedBytes \in 0 .. QueueBytes /\ QueueBytes \in Nat /\ queuedBytes \in Nat
      /\ BytesIn(queue.frames) + BytesIn(queue.lidar) <= queuedBytes
  BY LimitsAssumption DEF BudgetInv
<1>3. Numbers
  BY NumbersCount
<1>4. /\ BytesIn(queue.frames) \in Nat /\ BytesIn(queue.lidar) \in Nat
      /\ Len(queue.lidar) \in Nat /\ Len(queue.frames) \in Nat
      /\ \A c \in Cameras : Count(queue.frames, c) \in Nat
  BY <1>3 DEF Numbers
<1>5. /\ UNCHANGED <<active, session, stopWriter, failed, gate, tally, file, index, capture, gui,
                     manifest, sent>>
      /\ writer.pc = "idle"
  BY Zenon DEF TakeJob
<1>6. CASE TakesFrame
  <2> DEFINE s == queue.frames
             job == Head(s)
  <2>1. /\ writer' = [pc |-> "taken", job |-> job] /\ queue' = [queue EXCEPT !.frames = Tail(@)]
        /\ queuedBytes' = Released(job) /\ s # <<>>
    BY <1>6 DEF TakeJob, TakesFrame
  <2>2. queue'.frames = Tail(s) /\ queue'.lidar = queue.lidar
    BY <1>1, <2>1 DEF Queues
  <2>3. /\ Head(s) \in FrameSets
        /\ Len(Tail(s)) + 1 = Len(s) /\ Len(Tail(s)) \in Nat
        /\ \A c : Count(s, c) = Count(Tail(s), c) + One(c \in Head(s).images) /\ Count(Tail(s), c) \in Nat
        /\ BytesIn(s) = BytesIn(Tail(s)) + Head(s).bytes
        /\ BytesIn(Tail(s)) \in Nat /\ Head(s).bytes \in Nat
    BY <1>1, <2>1, FirstAndRest
  <2>4. writer'.pc = "taken" /\ writer'.job = job /\ job.kind = "frame"
    BY <2>1, <2>3, JobsAreJobs
  <2> HIDE DEF s, job
  <2>5. job.bytes \in Nat /\ BytesIn(s) = BytesIn(queue'.frames) + job.bytes /\ BytesIn(queue'.frames) \in Nat
    BY <2>2, <2>3 DEF job
  <2>6. queuedBytes' = queuedBytes - job.bytes
    <3>1. job.bytes <= queuedBytes
      BY <1>2, <1>4, <2>5 DEF s
    <3> QED
      BY <1>2, <2>1, <2>5, <3>1 DEF Released
  <2>7. queuedBytes' \in 0 .. QueueBytes
    <3>1. job.bytes <= queuedBytes
      BY <1>2, <1>4, <2>5 DEF s
    <3> QED
      BY <1>2, <2>5, <2>6, <3>1
  <2>8. queuedBytes' + (BytesIn(queue.frames) + BytesIn(queue.lidar)) =
          queuedBytes + (BytesIn(queue'.frames) + BytesIn(queue'.lidar))
    <3>1. \A q, t, l, x \in Nat : (q - x) + ((t + x) + l) = q + (t + l)
      OBVIOUS
    <3>2. (queuedBytes - job.bytes) + ((BytesIn(queue'.frames) + job.bytes) + BytesIn(queue.lidar)) =
            queuedBytes + (BytesIn(queue'.frames) + BytesIn(queue.lidar))
      BY <1>2, <1>4, <2>5, <3>1
    <3> QED
      BY <2>2, <2>5, <2>6, <3>2 DEF s
  <2>9. ASSUME NEW c \in Cameras
        PROVE  Count(queue'.frames, c) + One(c \in writer'.job.images) = Count(queue.frames, c)
    BY <2>2, <2>3, <2>4 DEF s, job
  <2>10. Len(queue'.frames) <= Len(queue.frames)
    BY <1>4, <2>2, <2>3 DEF s
  <2>11. Len(queue'.lidar) + One(writer'.job.kind = "lidar") = Len(queue.lidar)
    BY <1>4, <2>2, <2>4 DEF One
  <2> QED
    BY <1>5, <2>4, <2>7, <2>8, <2>9, <2>10, <2>11 DEF TakeMove
<1>7. CASE ~TakesFrame
  <2> DEFINE s == queue.lidar
             job == Head(s)
  <2>1. /\ writer' = [pc |-> "taken", job |-> job] /\ queue' = [queue EXCEPT !.lidar = Tail(@)]
        /\ queuedBytes' = Released(job) /\ s # <<>>
    BY <1>7 DEF TakeJob, TakesFrame
  <2>2. queue'.lidar = Tail(s) /\ queue'.frames = queue.frames
    BY <1>1, <2>1 DEF Queues
  <2>3. /\ Head(s) \in Batches
        /\ Len(Tail(s)) + 1 = Len(s) /\ Len(Tail(s)) \in Nat
        /\ BytesIn(s) = BytesIn(Tail(s)) + Head(s).bytes
        /\ BytesIn(Tail(s)) \in Nat /\ Head(s).bytes \in Nat
    BY <1>1, <2>1, FirstAndRest
  <2>4. writer'.pc = "taken" /\ writer'.job = job /\ job.kind = "lidar" /\ job.images = {}
    BY <2>1, <2>3, JobsAreJobs, InputsAssumption
  <2> HIDE DEF s, job
  <2>5. job.bytes \in Nat /\ BytesIn(s) = BytesIn(queue'.lidar) + job.bytes /\ BytesIn(queue'.lidar) \in Nat
    BY <2>2, <2>3 DEF job
  <2>6. queuedBytes' = queuedBytes - job.bytes /\ job.bytes <= queuedBytes
    <3>1. job.bytes <= queuedBytes
      BY <1>2, <1>4, <2>5 DEF s
    <3> QED
      BY <1>2, <2>1, <2>5, <3>1 DEF Released
  <2>7. queuedBytes' \in 0 .. QueueBytes
    BY <1>2, <2>5, <2>6
  <2>8. queuedBytes' + (BytesIn(queue.frames) + BytesIn(queue.lidar)) =
          queuedBytes + (BytesIn(queue'.frames) + BytesIn(queue'.lidar))
    <3>1. \A q, t, l, x \in Nat : (q - x) + (l + (t + x)) = q + (l + t)
      OBVIOUS
    <3>2. (queuedBytes - job.bytes) + (BytesIn(queue.frames) + (BytesIn(queue'.lidar) + job.bytes)) =
            queuedBytes + (BytesIn(queue.frames) + BytesIn(queue'.lidar))
      BY <1>2, <1>4, <2>5, <3>1
    <3> QED
      BY <2>2, <2>5, <2>6, <3>2 DEF s
  <2>9. ASSUME NEW c \in Cameras
        PROVE  Count(queue'.frames, c) + One(c \in writer'.job.images) = Count(queue.frames, c)
    <3>1. One(c \in writer'.job.images) = 0
      BY <2>4 DEF One
    <3> QED
      BY <1>4, <2>2, <3>1
  <2>10. Len(queue'.frames) <= Len(queue.frames)
    BY <1>4, <2>2
  <2>11. Len(queue'.lidar) + One(writer'.job.kind = "lidar") = Len(queue.lidar)
    BY <1>4, <2>2, <2>3, <2>4 DEF One, s
  <2> QED
    BY <1>5, <2>4, <2>7, <2>8, <2>9, <2>10, <2>11 DEF TakeMove
<1> QED
  BY <1>6, <1>7

\* What indexing a frame set does, whichever of its lanes fail.
IndexFrameMove ==
  /\ writer.pc = "payload" /\ writer.job.kind = "frame" /\ writer' = [pc |-> "idle", job |-> NoJob]
  /\ tally' \in Tallies /\ tally'.received = tally.received /\ tally'.dropped = tally.dropped
  /\ tally'.batches = tally.batches /\ tally'.queuedBatches = tally.queuedBatches
  /\ index'.lidar = index.lidar
  /\ \A c \in Cameras :
       /\ tally'.images[c] + Count(index.frame, c) = tally.images[c] + Count(index'.frame, c)
       /\ tally'.images[c] <= tally.images[c] + One(c \in writer.job.images)
       /\ Certain' => tally'.images[c] = tally.images[c] + One(c \in writer.job.images)
  /\ PartialInv'
  /\ failed' \in BOOLEAN /\ (failed => failed')
  /\ UNCHANGED <<active, session, stopWriter, gate, queue, queuedBytes, file, capture, gui, manifest,
                 sent>>

LEMMA IndexFrameIsMove ==
  ASSUME Types, MoreTypes, PartialInv, IndexFrameSet
  PROVE  IndexFrameMove
<1> DEFINE job == writer.job
<1>1. /\ UNCHANGED <<active, session, stopWriter, gate, queue, queuedBytes, file, capture, gui, manifest,
                     sent>>
      /\ writer.pc = "payload" /\ writer.job.kind = "frame" /\ writer' = [pc |-> "idle", job |-> NoJob]
  BY Zenon DEF IndexFrameSet
<1>2. /\ tally \in Tallies /\ failed \in BOOLEAN /\ index \in Indices
  BY DEF MoreTypes, Types
<1>3. Numbers
  BY NumbersCount
<1>4. \A c \in Cameras : tally.images[c] \in Nat /\ Count(index.frame, c) \in Nat
  BY <1>3 DEF Numbers
<1>5. \A c, S : One(c \in S) \in {0, 1}
  BY DEF One
<1>6. CASE failed
  <2>1. UNCHANGED <<tally, index, failed>>
    BY <1>6 DEF IndexFrameSet
  <2>2. ~Certain' /\ PartialInv'
    BY <1>6, <2>1 DEF Certain, PartialInv
  <2>3. ASSUME NEW c \in Cameras
        PROVE  /\ tally'.images[c] + Count(index.frame, c) = tally.images[c] + Count(index'.frame, c)
               /\ tally'.images[c] <= tally.images[c] + One(c \in writer.job.images)
    <3>1. \A a, b \in Nat : a <= a + b
      OBVIOUS
    <3>2. One(c \in writer.job.images) \in Nat /\ tally.images[c] \in Nat
      BY <1>4, <1>5
    <3>3. tally.images[c] <= tally.images[c] + One(c \in writer.job.images)
      BY <3>1, <3>2
    <3> QED
      BY <2>1, <3>3
  <2> QED
    BY <1>1, <1>2, <2>1, <2>2, <2>3 DEF IndexFrameMove
<1>7. CASE ~failed
  <2>1. PICK ok \in {{c \in job.images : c < d} : d \in job.images} \union {job.images} :
          /\ tally' = [tally EXCEPT
               !.partialSets = @ + IF job.images = Cameras THEN 0 ELSE 1,
               !.images = [c \in Cameras |-> @[c] + IF c \in ok THEN 1 ELSE 0]]
          /\ index' = [index EXCEPT !.frame = Append(@, [Row(job) EXCEPT !.images = ok])]
          /\ failed' = (ok # job.images)
    BY <1>7, Zenon DEF IndexFrameSet
  <2>2. ok \subseteq job.images /\ job.images \subseteq Cameras
    <3>1. job \in Jobs
      BY <1>1 DEF Types, Busy
    <3> QED
      BY <2>1, <3>1, JobsAreJobs
  <2> DEFINE r == [Row(job) EXCEPT !.images = ok]
  <2>3. r.images = ok
    BY DEF Row
  <2>4. PICK p \in Nat : p = tally.partialSets + IF job.images = Cameras THEN 0 ELSE 1
    BY <1>2 DEF Tallies
  <2>5. PICK m : m = [c \in Cameras |-> tally.images[c] + IF c \in ok THEN 1 ELSE 0]
    OBVIOUS
  <2>6. m \in [Cameras -> Nat] /\ \A c \in Cameras : m[c] = tally.images[c] + One(c \in ok)
    BY <1>4, <2>5 DEF One
  <2> HIDE DEF r, job
  <2>7. tally' = [tally EXCEPT !.partialSets = p, !.images = m]
    BY <2>1, <2>4, <2>5
  <2>8. /\ tally' \in Tallies /\ tally'.received = tally.received /\ tally'.dropped = tally.dropped
        /\ tally'.batches = tally.batches /\ tally'.queuedBatches = tally.queuedBatches
        /\ tally'.images = m /\ tally'.partialSets = p
    BY <1>2, <2>6, <2>7 DEF Tallies
  <2>9. index["frame"] \in Seq(Rows) /\ index \in [Kinds -> Seq(Rows)] /\ {"frame", "lidar"} = Kinds
    BY <1>2 DEF Indices, Kinds
  <2>10. index'["frame"] = Append(index["frame"], r) /\ index'["lidar"] = index["lidar"]
    <3>1. index' = [index EXCEPT !["frame"] = Append(index["frame"], r)]
      BY <2>1 DEF r
    <3> QED
      BY <2>9, <3>1
  <2>11. PICK s : s = index["frame"]
    OBVIOUS
  <2>12. s \in Seq(Rows) /\ index.frame = s /\ index'.frame = Append(s, r)
    BY <2>9, <2>10, <2>11
  <2>13. index'.lidar = index.lidar
    BY <2>10
  <2>14. ASSUME NEW c \in Cameras
         PROVE  /\ Count(index'.frame, c) = Count(index.frame, c) + One(c \in ok)
                /\ Count(index.frame, c) \in Nat
    <3>1. s \in Seq(Rows \union {r}) /\ <<r>> \in Seq(Rows \union {r})
      BY <2>12
    <3>2. Append(s, r) = s \o <<r>>
      BY <3>1, AppendIsConcat
    <3>3. Count(s \o <<r>>, c) = Count(s, c) + Count(<<r>>, c) /\ Count(s, c) \in Nat
      BY <3>1, CountConcat
    <3>4. Count(<<r>>, c) = One(c \in r.images)
      BY CountOfFew
    <3> QED
      BY <2>3, <2>12, <3>2, <3>3, <3>4
  <2>15. ASSUME NEW c \in Cameras
         PROVE  /\ tally'.images[c] + Count(index.frame, c) = tally.images[c] + Count(index'.frame, c)
                /\ tally'.images[c] <= tally.images[c] + One(c \in writer.job.images)
                /\ Certain' => tally'.images[c] = tally.images[c] + One(c \in writer.job.images)
    <3>1. /\ tally'.images[c] = tally.images[c] + One(c \in ok)
          /\ Count(index'.frame, c) = Count(index.frame, c) + One(c \in ok)
      BY <2>6, <2>8, <2>14
    <3>2. /\ One(c \in ok) \in Nat /\ One(c \in writer.job.images) \in Nat
          /\ One(c \in ok) <= One(c \in writer.job.images)
      BY <2>2 DEF One, job
    <3>3. Certain' => One(c \in ok) = One(c \in writer.job.images)
      BY <2>1 DEF Certain, job
    <3>4. \A a, b, x, y \in Nat : (a + x) + b = a + (b + x) /\ (x <= y => a + x <= a + y)
      OBVIOUS
    <3>5. /\ (tally.images[c] + One(c \in ok)) + Count(index.frame, c) =
               tally.images[c] + (Count(index.frame, c) + One(c \in ok))
          /\ tally.images[c] + One(c \in ok) <= tally.images[c] + One(c \in writer.job.images)
      BY <1>4, <3>2, <3>4
    <3> QED
      BY <3>1, <3>3, <3>5
  <2>16. PartialInv'
    <3> SUFFICES ASSUME tally'.partialSets = 0, ~failed', NEW i \in DOMAIN index'.frame
                 PROVE  index'.frame[i].images = Cameras
      BY DEF PartialInv
    <3>1. tally.partialSets = 0 /\ job.images = Cameras
      <4>1. tally.partialSets \in Nat /\ tally.partialSets + (IF job.images = Cameras THEN 0 ELSE 1) = 0
        BY <1>2, <2>4, <2>8 DEF Tallies
      <4>2. CASE job.images = Cameras
        BY <4>1, <4>2
      <4>3. CASE job.images # Cameras
        BY <4>1, <4>3
      <4> QED
        BY <4>2, <4>3
    <3>2. ok = Cameras
      BY <2>1, <3>1 DEF job
    <3>3. \A j \in DOMAIN s : s[j].images = Cameras
      BY <1>7, <2>12, <3>1 DEF PartialInv
    <3>4. (i \in DOMAIN s /\ index'.frame[i] = s[i]) \/ index'.frame[i] = r
      <4>1. i \in 1 .. Len(s) + 1 /\ Len(s) \in Nat
        BY <2>12
      <4> QED
        BY <2>12, <4>1
    <3> QED
      BY <2>3, <3>2, <3>3, <3>4
  <2> QED
    BY <1>1, <1>7, <2>1, <2>8, <2>13, <2>15, <2>16 DEF IndexFrameMove
<1> QED
  BY <1>6, <1>7

\* What indexing a LiDAR batch does.
IndexBatchMove ==
  /\ writer.pc = "payload" /\ writer.job.kind = "lidar" /\ writer' = [pc |-> "idle", job |-> NoJob]
  /\ tally' \in Tallies /\ tally'.received = tally.received /\ tally'.dropped = tally.dropped
  /\ tally'.images = tally.images /\ tally'.partialSets = tally.partialSets
  /\ tally'.queuedBatches = tally.queuedBatches
  /\ index'.frame = index.frame
  /\ tally'.batches + Len(index.lidar) = tally.batches + Len(index'.lidar)
  /\ Certain' => tally'.batches = tally.batches + 1
  /\ failed' \in BOOLEAN /\ (failed => failed')
  /\ UNCHANGED <<active, session, stopWriter, gate, queue, queuedBytes, file, capture, gui, manifest,
                 sent>>

LEMMA IndexBatchIsMove ==
  ASSUME Types, MoreTypes, IndexBatch
  PROVE  IndexBatchMove
<1>1. /\ UNCHANGED <<active, session, stopWriter, gate, queue, queuedBytes, file, capture, gui, manifest,
                     sent>>
      /\ writer.pc = "payload" /\ writer.job.kind = "lidar" /\ writer' = [pc |-> "idle", job |-> NoJob]
  BY Zenon DEF IndexBatch
<1>2. /\ tally \in Tallies /\ failed \in BOOLEAN /\ index \in Indices /\ tally.batches \in Nat
  BY DEF MoreTypes, Types, Tallies
<1>3. CASE UNCHANGED <<tally, index>> /\ failed'= TRUE
  BY <1>1, <1>2, <1>3 DEF IndexBatchMove, Certain
<1>4. CASE /\ tally' = [tally EXCEPT !.batches = @ + 1]
           /\ index' = [index EXCEPT !.lidar = Append(@, Row(writer.job))]
           /\ UNCHANGED failed
  <2>1. PICK n \in Nat : n = tally.batches + 1
    BY <1>2
  <2>2. tally' = [tally EXCEPT !.batches = n]
    BY <1>4, <2>1
  <2>3. /\ tally' \in Tallies /\ tally'.received = tally.received /\ tally'.dropped = tally.dropped
        /\ tally'.images = tally.images /\ tally'.partialSets = tally.partialSets
        /\ tally'.queuedBatches = tally.queuedBatches /\ tally'.batches = n
    BY <1>2, <2>2 DEF Tallies
  <2> DEFINE r == Row(writer.job)
  <2>4. index["lidar"] \in Seq(Rows) /\ index \in [Kinds -> Seq(Rows)] /\ {"frame", "lidar"} = Kinds
    BY <1>2 DEF Indices, Kinds
  <2> HIDE DEF r
  <2>5. index'["lidar"] = Append(index["lidar"], r) /\ index'["frame"] = index["frame"]
    <3>1. index' = [index EXCEPT !["lidar"] = Append(index["lidar"], r)]
      BY <1>4 DEF r
    <3> QED
      BY <2>4, <3>1
  <2>6. Len(index'.lidar) = Len(index.lidar) + 1 /\ Len(index.lidar) \in Nat
    BY <2>4, <2>5
  <2>7. tally'.batches + Len(index.lidar) = tally.batches + Len(index'.lidar)
    <3>1. \A q, l \in Nat : (q + 1) + l = q + (l + 1)
      OBVIOUS
    <3>2. (tally.batches + 1) + Len(index.lidar) = tally.batches + (Len(index.lidar) + 1)
      BY <1>2, <2>6, <3>1
    <3> QED
      BY <2>1, <2>3, <2>6, <3>2
  <2> QED
    BY <1>1, <1>2, <1>4, <2>1, <2>3, <2>5, <2>7 DEF IndexBatchMove
<1>5. CASE failed
  BY <1>3, <1>5, <1>2, Zenon DEF IndexBatch
<1> QED
  BY <1>3, <1>4, <1>5, Zenon DEF IndexBatch

\* What the streams written under the mutex leave alone.
DirectMove ==
  /\ tally' \in Tallies /\ SameButDropped(tally, tally')
  /\ tally'.received = tally.received /\ tally'.dropped = tally.dropped
  /\ failed' \in BOOLEAN /\ (failed => failed')
  /\ UNCHANGED <<active, session, stopWriter, queue, queuedBytes, file, index, writer, capture, gui,
                 manifest, sent>>

LEMMA DirectIsMove ==
  ASSUME MoreTypes, AppendDirect
  PROVE  DirectMove
<1>1. UNCHANGED <<active, session, stopWriter, queue, queuedBytes, file, index, writer, capture, gui,
                  manifest, sent>>
  BY Zenon DEF AppendDirect
<1>2. tally \in Tallies /\ failed \in BOOLEAN
  BY DEF MoreTypes
<1> DEFINE Good(t) == t \in Tallies /\ SameButDropped(tally, t)
                      /\ t.received = tally.received /\ t.dropped = tally.dropped
<1>3. Good(tally)
  BY <1>2 DEF SameButDropped
<1>4. ASSUME NEW s \in Direct PROVE Good(Recorded(s))
  <2>1. CASE Recorded(s) = tally
    BY <1>3, <2>1
  <2>2. CASE Recorded(s) = [tally EXCEPT !.direct = @ \union {s}]
    <3>1. PICK d \in SUBSET Direct : d = tally.direct \union {s}
      BY <1>2 DEF Tallies
    <3>2. Recorded(s) = [tally EXCEPT !.direct = d]
      BY <2>2, <3>1
    <3> QED
      BY <1>2, <3>2 DEF Tallies, SameButDropped
  <2> QED
    BY <2>1, <2>2 DEF Recorded
<1>5. ASSUME NEW t, NEW b \in BOOLEAN, Good(t) PROVE Good([t EXCEPT !.roverLost = @ \/ b])
  <2>1. PICK r \in BOOLEAN : r = (t.roverLost \/ b)
    OBVIOUS
  <2>2. [t EXCEPT !.roverLost = @ \/ b] = [t EXCEPT !.roverLost = r]
    BY <2>1
  <2> QED
    BY <1>5, <2>2 DEF Tallies, SameButDropped
<1> HIDE DEF Good
<1> DEFINE Fine == Good(tally') /\ failed' \in BOOLEAN /\ (failed => failed')
<1>6. LoseRow => Fine
  BY <1>3 DEF LoseRow
<1>7. ASSUME NEW s \in Direct, tally' = Recorded(s), failed' = TRUE \/ failed' = failed PROVE Fine
  <2>1. Good(tally')
    BY <1>4, <1>7
  <2> QED
    BY <1>2, <1>7, <2>1
<1>8. ASSUME NEW s \in Direct, WriteRow(s) PROVE Fine
  BY <1>7, <1>8 DEF WriteRow
<1>9. UNCHANGED <<tally, failed>> => Fine
  BY <1>2, <1>3
<1>10. Fine
  <2> HIDE DEF Fine
  <2>1. CASE AppendImuReceived
    BY <1>6, <1>7, <1>8, <2>1, Zenon DEF AppendImuReceived
  <2>2. CASE AppendImuAligned
    BY <1>6, <1>8, <1>9, <2>2, Zenon DEF AppendImuAligned
  <2>3. CASE AppendLidarImu
    BY <1>6, <1>8, <1>9, <2>3, Zenon DEF AppendLidarImu
  <2>4. CASE AppendTimeSync
    BY <1>6, <1>8, <2>4, Zenon DEF AppendTimeSync
  <2>5. CASE AppendRoverRtcm
    <3>1. ASSUME NEW lost \in BOOLEAN, "rover" \in Direct, failed' = failed,
                 tally' = [Recorded("rover") EXCEPT !.roverLost = @ \/ lost]
          PROVE  Fine
      <4>1. Good(tally')
        BY <1>4, <1>5, <3>1
      <4> QED
        BY <1>2, <3>1, <4>1 DEF Fine
    <3> QED
      BY <1>6, <2>5, <3>1, Zenon DEF AppendRoverRtcm
  <2>6. CASE AppendBaseRtcm
    BY <1>6, <1>8, <2>6, Zenon DEF AppendBaseRtcm
  <2>7. CASE AppendGnss
    BY <1>6, <1>8, <2>7, Zenon DEF AppendGnss
  <2> QED
    BY <2>1, <2>2, <2>3, <2>4, <2>5, <2>6, <2>7 DEF AppendDirect
<1> QED
  BY <1>1, <1>10 DEF DirectMove, Good

\* The actions that leave all the counters and both queues alone.
QuietAction ==
  \/ \E f \in FrameSets : CheckFrameSet(f)
  \/ \E b \in Batches : CheckLidar(b)
  \/ MarkAppendFailed \/ RollOver \/ WritePayload \/ MarkPayloadFailed \/ WriterThrows
  \/ WriterStops \/ Stop \/ FinishStop

StartAction == \E policy \in Policies, mode \in Modes, opens \in BOOLEAN : Start(policy, mode, opens)

\* What those actions do to the rest.
QuietMove ==
  /\ UNCHANGED <<queue, queuedBytes, tally, index>>
  /\ failed' \in BOOLEAN /\ (failed => failed')
  /\ sent' \in [frames : 0 .. MaxFrames, batches : Nat, sessions : Nat]
  /\ session' \in [open : BOOLEAN, mode : Modes \union {"full"}, policy : Policies \union {"received"}]
  /\ active' \in BOOLEAN /\ stopWriter' \in BOOLEAN /\ gui' \in {"idle", "joining"}
  /\ manifest' \in {"none", "incomplete", "complete"}
  /\ \/ capture'.kind # "frame" /\ sent'.frames = sent.frames
     \/ capture.kind # "frame" /\ sent'.frames = sent.frames + 1
     \/ capture' = capture /\ sent'.frames = sent.frames
  /\ capture.kind = "failing" => capture'.kind = "failing" \/ failed'
  /\ \/ Busy' = Busy /\ writer'.job = writer.job
     \/ ~Busy' /\ (~Busy \/ failed')

LEMMA FinishOutcome ==
  ASSUME FinishStop
  PROVE  \E flushed \in BOOLEAN, committed \in BOOLEAN :
           LET closed == failed \/ Lacks \/ ~flushed
           IN /\ failed' = (closed \/ ~committed)
              /\ manifest' = IF committed THEN (IF closed THEN "incomplete" ELSE "complete") ELSE manifest
<1>1. PICK f \in Closings("frame"), l \in Closings("lidar"), rest \in BOOLEAN, committed \in BOOLEAN :
        LET closed == failed \/ Lacks \/ ~f.ok \/ ~l.ok \/ ~rest
        IN /\ failed' = (closed \/ ~committed)
           /\ manifest' = IF committed THEN (IF closed THEN "incomplete" ELSE "complete") ELSE manifest
  BY Zenon DEF FinishStop
<1>2. CASE f.ok /\ l.ok /\ rest
  <2> WITNESS TRUE \in BOOLEAN, committed \in BOOLEAN
  <2> QED
    BY <1>1, <1>2
<1>3. CASE ~(f.ok /\ l.ok /\ rest)
  <2> WITNESS FALSE \in BOOLEAN, committed \in BOOLEAN
  <2> QED
    BY <1>1, <1>3
<1> QED
  BY <1>2, <1>3

LEMMA QuietIsMove ==
  ASSUME Types, MoreTypes, StopInv, QuietAction
  PROVE  QuietMove
<1>1. /\ active \in BOOLEAN /\ stopWriter \in BOOLEAN /\ failed \in BOOLEAN
      /\ session \in [open : BOOLEAN, mode : Modes \union {"full"}, policy : Policies \union {"received"}]
      /\ gui \in {"idle", "joining"} /\ manifest \in {"none", "incomplete", "complete"}
      /\ sent \in [frames : 0 .. MaxFrames, batches : Nat, sessions : Nat]
      /\ MaxFrames \in Nat
  BY LimitsAssumption DEF MoreTypes
<1>2. NoJob.kind = "none"
  BY DEF NoJob
<1>3. ASSUME NEW f \in FrameSets, CheckFrameSet(f) PROVE QuietMove
  <2>1. /\ UNCHANGED <<active, session, stopWriter, failed, queue, queuedBytes, tally, index, writer, gui,
                       manifest>>
        /\ capture = NoJob /\ sent.frames < MaxFrames /\ sent' = [sent EXCEPT !.frames = @ + 1]
    BY <1>3, Zenon DEF CheckFrameSet
  <2>2. PICK n \in 0 .. MaxFrames : n = sent.frames + 1
    BY <1>1, <2>1
  <2>3. sent' = [sent EXCEPT !.frames = n]
    BY <2>1, <2>2
  <2>4. /\ sent' \in [frames : 0 .. MaxFrames, batches : Nat, sessions : Nat]
        /\ sent'.frames = sent.frames + 1
    BY <1>1, <2>2, <2>3
  <2>5. Busy' = Busy
    BY <2>1 DEF Busy
  <2> QED
    BY <1>1, <1>2, <2>1, <2>4, <2>5 DEF QuietMove
<1>4. ASSUME NEW b \in Batches, CheckLidar(b) PROVE QuietMove
  <2>1. /\ UNCHANGED <<active, session, stopWriter, failed, queue, queuedBytes, tally, index, writer, gui,
                       manifest>>
        /\ capture = NoJob /\ sent' = [sent EXCEPT !.batches = @ + 1] /\ capture' = b
    BY <1>4, Zenon DEF CheckLidar
  <2>2. PICK n \in Nat : n = sent.batches + 1
    BY <1>1
  <2>3. sent' = [sent EXCEPT !.batches = n]
    BY <2>1, <2>2
  <2>4. /\ sent' \in [frames : 0 .. MaxFrames, batches : Nat, sessions : Nat]
        /\ sent'.frames = sent.frames
    BY <1>1, <2>3
  <2>5. Busy' = Busy /\ capture'.kind # "frame"
    BY <2>1, JobsAreJobs DEF Busy
  <2> QED
    BY <1>1, <1>2, <2>1, <2>4, <2>5 DEF QuietMove
<1>5. CASE MarkAppendFailed
  <2>1. /\ UNCHANGED <<active, session, stopWriter, queue, queuedBytes, tally, index, writer, gui,
                       manifest, sent>>
        /\ capture' = NoJob /\ failed' = TRUE
    BY <1>5, Zenon DEF MarkAppendFailed
  <2>2. Busy' = Busy /\ capture'.kind # "frame"
    BY <1>2, <2>1 DEF Busy
  <2> QED
    BY <1>1, <2>1, <2>2 DEF QuietMove
<1>6. CASE WritePayload
  <2>1. /\ UNCHANGED <<active, session, stopWriter, failed, queue, queuedBytes, tally, index, capture, gui,
                       manifest, sent>>
        /\ writer.pc = "taken" /\ writer'.job = writer.job /\ writer'.pc \in {"payload", "failing"}
    <3>1. writer \in Writers
      BY DEF Types
    <3> QED
      BY <1>6, <3>1 DEF WritePayload, Writers
  <2>2. Busy' = Busy
    BY <2>1 DEF Busy
  <2> QED
    BY <1>1, <2>1, <2>2 DEF QuietMove
<1>11. CASE RollOver
  <2>1. UNCHANGED <<active, session, stopWriter, failed, queue, queuedBytes, tally, index, capture, gui,
                    manifest, sent>>
    BY <1>11, Zenon DEF RollOver
  <2>2. writer.pc = "taken" /\ writer'.job = writer.job /\ writer'.pc \in {"taken", "failing"}
    BY <1>11, RollOverKeepsJob DEF Types
  <2>3. Busy' = Busy
    BY <2>2 DEF Busy
  <2> QED
    BY <1>1, <2>1, <2>2, <2>3 DEF QuietMove
<1>7. CASE MarkPayloadFailed \/ WriterThrows
  <2>1. /\ UNCHANGED <<active, session, stopWriter, queue, queuedBytes, tally, index, capture, gui,
                       manifest, sent>>
        /\ failed' = TRUE /\ writer'.pc \in {"idle", "exited"}
    BY <1>7 DEF MarkPayloadFailed, WriterThrows
  <2>2. ~Busy'
    BY <2>1 DEF Busy
  <2> QED
    BY <1>1, <2>1, <2>2 DEF QuietMove
<1>8. CASE WriterStops
  <2>1. /\ UNCHANGED <<active, session, stopWriter, failed, queue, queuedBytes, tally, index, capture, gui,
                       manifest, sent>>
        /\ writer.pc = "idle" /\ writer'.pc = "exited"
    BY <1>8 DEF WriterStops
  <2>2. ~Busy /\ ~Busy'
    BY <2>1 DEF Busy
  <2> QED
    BY <1>1, <2>1, <2>2 DEF QuietMove
<1>9. CASE Stop
  <2>1. /\ UNCHANGED <<session, failed, queue, queuedBytes, tally, index, capture, writer, manifest, sent>>
        /\ active' = FALSE /\ stopWriter' = TRUE /\ gui' = "joining"
    BY <1>9, Zenon DEF Stop
  <2>2. Busy' = Busy
    BY <2>1 DEF Busy
  <2> QED
    BY <1>1, <2>1, <2>2 DEF QuietMove
<1>10. CASE FinishStop
  <2>1. /\ UNCHANGED <<active, stopWriter, queue, queuedBytes, tally, index, capture, sent>>
        /\ gui' = "idle" /\ session' = [session EXCEPT !.open = FALSE]
        /\ writer.pc \in {"exited", "none"} /\ writer' = [pc |-> "none", job |-> NoJob]
    BY <1>10, Zenon DEF FinishStop
  <2>2. PICK flushed \in BOOLEAN, committed \in BOOLEAN :
          LET closed == failed \/ Lacks \/ ~flushed
          IN /\ failed' = (closed \/ ~committed)
             /\ manifest' = IF committed THEN (IF closed THEN "incomplete" ELSE "complete") ELSE manifest
    BY <1>10, FinishOutcome
  <2>3. failed' \in BOOLEAN /\ (failed => failed')
    BY <2>2
  <2>4. manifest' \in {"none", "incomplete", "complete"}
    BY <1>1, <2>2
  <2>5. session' \in [open : BOOLEAN, mode : Modes \union {"full"}, policy : Policies \union {"received"}]
    BY <1>1, <2>1
  <2>6. ~Busy /\ ~Busy'
    BY <2>1 DEF Busy
  <2> QED
    BY <1>1, <2>1, <2>3, <2>4, <2>5, <2>6 DEF QuietMove
<1> QED
  BY <1>3, <1>4, <1>5, <1>6, <1>7, <1>8, <1>9, <1>10, <1>11 DEF QuietAction

(* Every step is one of these moves.                                       *)
Move == \/ QuietMove \/ FrameSetMove \/ LidarMove \/ DirectMove \/ TakeMove \/ IndexFrameMove
        \/ IndexBatchMove

LEMMA NextIsMove ==
  ASSUME Types, MoreTypes, BudgetInv, PartialInv, StopInv, Next
  PROVE  StartAction \/ Move
<1>1. Next => \/ QuietAction \/ StartAction \/ AppendFrameSet \/ AppendFrameSetThrows
              \/ AppendLidar \/ AppendLidarThrows \/ AppendDirect \/ TakeJob \/ IndexFrameSet \/ IndexBatch
  BY Zenon DEF Next, Capture, Writer, Gui, QuietAction, StartAction
<1>2. QuietAction => Move
  BY QuietIsMove DEF Move
<1>3. AppendFrameSet \/ AppendFrameSetThrows => Move
  BY FrameSetIsMove, FrameSetThrowsMove DEF Move
<1>4. AppendLidar \/ AppendLidarThrows => Move
  BY LidarIsMove DEF Move
<1>5. AppendDirect => Move
  BY DirectIsMove DEF Move
<1>6. TakeJob => Move
  BY TakeIsMove DEF Move
<1>7. IndexFrameSet => Move
  BY IndexFrameIsMove DEF Move
<1>8. IndexBatch => Move
  BY IndexBatchIsMove DEF Move
<1> QED
  BY <1>1, <1>2, <1>3, <1>4, <1>5, <1>6, <1>7, <1>8

LEMMA CertainStays == ASSUME MoreTypes, Move PROVE Certain' => Certain
<1>1. CASE QuietMove
  BY <1>1 DEF QuietMove, Certain
<1>2. CASE FrameSetMove \/ LidarMove
  BY <1>2 DEF FrameSetMove, LidarMove, Certain
<1>3. CASE DirectMove
  BY <1>3 DEF DirectMove, Certain
<1>4. CASE TakeMove
  BY <1>4 DEF TakeMove, Certain
<1>5. CASE IndexFrameMove \/ IndexBatchMove
  BY <1>5 DEF IndexFrameMove, IndexBatchMove, Certain
<1> QED
  BY <1>1, <1>2, <1>3, <1>4, <1>5 DEF Move

LEMMA MoreTypesMove == ASSUME MoreTypes, Move PROVE MoreTypes'
<1>1. CASE QuietMove
  <2>1. tally' \in Tallies
    BY <1>1 DEF QuietMove, MoreTypes
  <2> QED
    BY <1>1, <2>1 DEF QuietMove, MoreTypes
<1>2. CASE FrameSetMove
  BY <1>2 DEF FrameSetMove, MoreTypes
<1>3. CASE LidarMove
  BY <1>3 DEF LidarMove, MoreTypes
<1>4. CASE DirectMove
  BY <1>4 DEF DirectMove, MoreTypes
<1>5. CASE TakeMove
  BY <1>5 DEF TakeMove, MoreTypes
<1>6. CASE IndexFrameMove
  BY <1>6 DEF IndexFrameMove, MoreTypes
<1>7. CASE IndexBatchMove
  BY <1>7 DEF IndexBatchMove, MoreTypes
<1> QED
  BY <1>1, <1>2, <1>3, <1>4, <1>5, <1>6, <1>7 DEF Move

\* A session that starts begins its accounts at zero.
LEMMA StartFresh ==
  ASSUME MoreTypes, StopInv, ImagesInv, Numbers, StartAction
  PROVE  AccountsInv'
<1>1. PICK policy \in Policies, mode \in Modes, opens \in BOOLEAN : Start(policy, mode, opens)
  BY DEF StartAction
<1>2. /\ UNCHANGED <<capture, gui>> /\ gui = "idle" /\ ~session.open
      /\ sent' = [sent EXCEPT !.sessions = IF opens THEN @ + 1 ELSE @]
      /\ session' = [open |-> opens, mode |-> mode, policy |-> policy]
      /\ active' = opens /\ stopWriter' = FALSE /\ failed' = ~opens
      /\ tally' = FreshTally /\ queue' = [frames |-> <<>>, lidar |-> <<>>] /\ queuedBytes' = 0
      /\ index' = [k \in Kinds |-> <<>>]
      /\ writer' = [pc |-> IF opens /\ mode = "full" THEN "idle" ELSE "none", job |-> NoJob]
      /\ manifest' = IF opens THEN "incomplete" ELSE "none"
  BY <1>1, Zenon DEF Start
<1>3. /\ sent \in [frames : 0 .. MaxFrames, batches : Nat, sessions : Nat]
      /\ gui \in {"idle", "joining"}
  BY DEF MoreTypes
<1>4. /\ sent' \in [frames : 0 .. MaxFrames, batches : Nat, sessions : Nat]
      /\ sent'.frames = sent.frames
  <2>1. PICK n \in Nat : n = IF opens THEN sent.sessions + 1 ELSE sent.sessions
    BY <1>3
  <2>2. sent' = [sent EXCEPT !.sessions = n]
    BY <1>2, <2>1
  <2> QED
    BY <1>3, <2>2
<1>5. FreshTally \in Tallies
  BY DEF FreshTally, Tallies
<1>6. MoreTypes'
  BY <1>2, <1>3, <1>4, <1>5 DEF MoreTypes
<1>7. /\ queue'.frames = <<>> /\ queue'.lidar = <<>> /\ index'.frame = <<>> /\ index'.lidar = <<>>
      /\ ~Busy'
  BY <1>2 DEF Kinds, Busy
<1>8. BudgetInv'
  <2>1. QueueFrames \in Nat /\ QueueBatches \in Nat /\ QueueBytes \in Nat
    BY LimitsAssumption
  <2>2. Len(queue'.frames) = 0 /\ Len(queue'.lidar) = 0
    BY <1>7
  <2>3. BytesIn(queue'.frames) = 0 /\ BytesIn(queue'.lidar) = 0
    BY <1>7, BytesOfFew
  <2>4. queuedBytes' = 0
    BY <1>2
  <2> QED
    BY <2>1, <2>2, <2>3, <2>4 DEF BudgetInv
<1>9. ImagesInv'
  <2> SUFFICES ASSUME NEW c \in Cameras
               PROVE  /\ tally'.received[c] + One(capture'.kind = "frame") <= sent'.frames
                      /\ tally'.images[c] + tally'.dropped[c] + Count(queue'.frames, c) + Hand(c)' <=
                           tally'.received[c]
                      /\ Certain' => tally'.images[c] + tally'.dropped[c] + Count(queue'.frames, c) + Hand(c)' =
                           tally'.received[c]
                      /\ tally'.images[c] = Count(index'.frame, c)
    BY DEF ImagesInv
  <2>1. tally'.received[c] = 0 /\ tally'.images[c] = 0 /\ tally'.dropped[c] = 0
    BY <1>2 DEF FreshTally
  <2>2. Count(queue'.frames, c) = 0 /\ Count(index'.frame, c) = 0
    BY <1>7, CountOfFew
  <2>3. Hand(c)' = 0
    BY <1>7 DEF Hand, One
  <2>4. One(capture'.kind = "frame") <= sent'.frames /\ One(capture'.kind = "frame") \in Nat
    <3>1. tally.received[c] + One(capture.kind = "frame") <= sent.frames
      BY DEF ImagesInv
    <3>2. tally.received[c] \in Nat /\ sent.frames \in Nat /\ One(capture.kind = "frame") \in {0, 1}
      BY DEF Numbers, One
    <3>3. \A r, s, o \in Nat : r + o <= s => o <= s
      OBVIOUS
    <3> QED
      BY <1>2, <1>4, <3>1, <3>2, <3>3
  <2> QED
    BY <2>1, <2>2, <2>3, <2>4
<1>10. BatchesInv'
  <2>1. tally'.batches = 0 /\ tally'.queuedBatches = 0
    BY <1>2 DEF FreshTally
  <2>2. Len(queue'.lidar) = 0 /\ Len(index'.lidar) = 0
    BY <1>7
  <2>3. One(Busy' /\ writer'.job.kind = "lidar") = 0
    BY <1>7 DEF One
  <2> QED
    BY <2>1, <2>2, <2>3 DEF BatchesInv
<1>11. PartialInv'
  BY <1>7 DEF PartialInv
<1>12. StopInv'
  BY <1>2, <1>3, <1>7 DEF StopInv
<1>13. CompleteInv'
  BY <1>2 DEF CompleteInv
<1> QED
  BY <1>6, <1>8, <1>9, <1>10, <1>11, <1>12, <1>13 DEF AccountsInv

(* The byte total follows the queues.                                      *)
LEMMA BudgetMove ==
  ASSUME Numbers, Numbers', BudgetInv, Certain' => Certain, Move
  PROVE  BudgetInv'
<1>1. /\ BytesIn(queue.frames) \in Nat /\ BytesIn(queue.lidar) \in Nat
      /\ Len(queue.frames) \in Nat /\ Len(queue.lidar) \in Nat
  BY DEF Numbers
<1>2. /\ BytesIn(queue'.frames) \in Nat /\ BytesIn(queue'.lidar) \in Nat
      /\ Len(queue'.frames) \in Nat /\ Len(queue'.lidar) \in Nat
  BY DEF Numbers
<1>3. /\ QueueFrames \in Nat /\ QueueBatches \in Nat /\ QueueBytes \in Nat
      /\ queuedBytes \in 0 .. QueueBytes /\ queuedBytes \in Nat
  BY LimitsAssumption DEF BudgetInv
<1>4. /\ Len(queue.frames) <= QueueFrames /\ Len(queue.lidar) <= QueueBatches
      /\ BytesIn(queue.frames) + BytesIn(queue.lidar) <= queuedBytes
      /\ Certain => queuedBytes = BytesIn(queue.frames) + BytesIn(queue.lidar)
  BY DEF BudgetInv
<1> DEFINE f == BytesIn(queue.frames)
           l == BytesIn(queue.lidar)
           ff == BytesIn(queue'.frames)
           ll == BytesIn(queue'.lidar)
<1>5. ASSUME Len(queue'.frames) <= QueueFrames, Len(queue'.lidar) <= QueueBatches,
             queuedBytes' \in 0 .. QueueBytes,
             queuedBytes + (ff + ll) <= queuedBytes' + (f + l),
             Certain' => queuedBytes + (ff + ll) = queuedBytes' + (f + l)
      PROVE  BudgetInv'
  <2>1. f \in Nat /\ l \in Nat /\ ff \in Nat /\ ll \in Nat /\ queuedBytes' \in Nat
    BY <1>1, <1>2, <1>3, <1>5
  <2>2. f + l <= queuedBytes /\ (Certain => queuedBytes = f + l)
    BY <1>4
  <2>3. queuedBytes + (ff + ll) <= queuedBytes' + (f + l)
    BY <1>5
  <2> HIDE DEF f, l, ff, ll
  <2>4. ff + ll <= queuedBytes'
    <3>1. \A q, qq, a, b \in Nat : a <= q /\ q + b <= qq + a => b <= qq
      OBVIOUS
    <3>2. f + l \in Nat /\ ff + ll \in Nat
      BY <2>1
    <3> QED
      BY <1>3, <2>1, <2>2, <2>3, <3>1, <3>2
  <2>5. Certain' => queuedBytes' = ff + ll
    <3>1. \A q, qq, a, b \in Nat : q = a /\ q + b = qq + a => qq = b
      OBVIOUS
    <3>2. f + l \in Nat /\ ff + ll \in Nat
      BY <2>1
    <3> QED
      BY <1>3, <1>5, <2>1, <2>2, <3>1, <3>2
  <2> QED
    BY <1>5, <2>4, <2>5 DEF BudgetInv, ff, ll
<1>6. CASE UNCHANGED <<queue, queuedBytes>>
  <2>1. queuedBytes + (ff + ll) = queuedBytes' + (f + l) /\ queuedBytes + (ff + ll) <= queuedBytes' + (f + l)
    BY <1>1, <1>3, <1>6
  <2> QED
    BY <1>3, <1>4, <1>5, <1>6, <2>1
<1>7. CASE QuietMove \/ DirectMove \/ IndexFrameMove \/ IndexBatchMove
  BY <1>6, <1>7 DEF QuietMove, DirectMove, IndexFrameMove, IndexBatchMove
<1>8. CASE FrameSetMove
  <2>1. /\ queue'.lidar = queue.lidar /\ Len(queue'.frames) <= QueueFrames
        /\ queuedBytes' \in 0 .. QueueBytes /\ queuedBytes' + f = queuedBytes + ff
    BY <1>8 DEF FrameSetMove
  <2>2. queuedBytes' \in Nat
    BY <1>3, <2>1
  <2>3. \A q, qq, a, b, c \in Nat : qq + a = q + b => q + (b + c) = qq + (a + c) /\ q + (b + c) <= qq + (a + c)
    OBVIOUS
  <2>4. queuedBytes + (ff + l) = queuedBytes' + (f + l) /\ queuedBytes + (ff + l) <= queuedBytes' + (f + l)
    <3>1. f \in Nat /\ l \in Nat /\ ff \in Nat
      BY <1>1, <1>2
    <3> HIDE DEF f, l, ff
    <3> QED
      BY <1>3, <2>1, <2>2, <2>3, <3>1
  <2>5. ll = l
    BY <2>1
  <2> HIDE DEF f, l, ff, ll
  <2> QED
    BY <1>4, <1>5, <2>1, <2>4, <2>5
<1>9. CASE LidarMove
  <2>1. /\ queue'.frames = queue.frames /\ Len(queue'.lidar) <= QueueBatches
        /\ queuedBytes' \in 0 .. QueueBytes
        /\ queuedBytes + ll <= queuedBytes' + l
        /\ Certain' => queuedBytes + ll = queuedBytes' + l
    BY <1>9 DEF LidarMove
  <2>2. queuedBytes' \in Nat
    BY <1>3, <2>1
  <2>3. /\ queuedBytes + (f + ll) <= queuedBytes' + (f + l)
        /\ Certain' => queuedBytes + (f + ll) = queuedBytes' + (f + l)
    <3>1. f \in Nat /\ l \in Nat /\ ll \in Nat /\ queuedBytes \in Nat
      BY <1>1, <1>2, <1>3
    <3> HIDE DEF f, l, ll
    <3>2. PICK q \in Nat, qq \in Nat : q = queuedBytes /\ qq = queuedBytes'
      BY <2>2, <3>1
    <3>3. ASSUME q + ll <= qq + l PROVE q + (f + ll) <= qq + (f + l)
      BY <3>1, <3>3
    <3>4. ASSUME q + ll = qq + l PROVE q + (f + ll) = qq + (f + l)
      BY <3>1, <3>4
    <3> QED
      BY <2>1, <3>2, <3>3, <3>4
  <2>4. ff = f
    BY <2>1
  <2> HIDE DEF f, l, ff, ll
  <2> QED
    BY <1>4, <1>5, <2>1, <2>3, <2>4
<1>10. CASE TakeMove
  <2>1. /\ Len(queue'.frames) <= Len(queue.frames)
        /\ Len(queue'.lidar) + One(writer'.job.kind = "lidar") = Len(queue.lidar)
        /\ queuedBytes' \in 0 .. QueueBytes /\ queuedBytes' + (f + l) = queuedBytes + (ff + ll)
    BY <1>10 DEF TakeMove
  <2>2. Len(queue'.frames) <= QueueFrames /\ Len(queue'.lidar) <= QueueBatches
    <3>1. One(writer'.job.kind = "lidar") \in {0, 1}
      BY DEF One
    <3>2. \A m, n, k : m \in Nat /\ n \in Nat /\ k \in Nat /\ m <= n /\ n <= k => m <= k
      OBVIOUS
    <3>3. \A m, n, o : m \in Nat /\ n \in Nat /\ o \in {0, 1} /\ m + o = n => m <= n
      OBVIOUS
    <3>4. Len(queue'.lidar) <= Len(queue.lidar)
      BY <1>1, <1>2, <2>1, <3>1, <3>3
    <3>5. Len(queue'.frames) <= QueueFrames
      BY <1>1, <1>2, <1>3, <1>4, <2>1, <3>2
    <3>6. Len(queue'.lidar) <= QueueBatches
      BY <1>1, <1>2, <1>3, <1>4, <3>2, <3>4
    <3> QED
      BY <3>5, <3>6
  <2>3. queuedBytes + (ff + ll) <= queuedBytes' + (f + l)
    BY <1>1, <1>2, <1>3, <2>1
  <2> HIDE DEF f, l, ff, ll
  <2> QED
    BY <1>5, <2>1, <2>2, <2>3
<1> QED
  BY <1>7, <1>8, <1>9, <1>10 DEF Move

(* Every image received is in the index, in the queue, in the writer's     *)
(* hand, or counted as dropped.                                            *)
Known(c) == tally.images[c] + tally.dropped[c] + Count(queue.frames, c) + Hand(c)

LEMMA ImagesFollow ==
  ASSUME Numbers, Numbers', ImagesInv, Certain' => Certain, NEW c \in Cameras,
         tally'.received[c] + One(capture'.kind = "frame") + sent.frames <=
           tally.received[c] + One(capture.kind = "frame") + sent'.frames,
         Known(c)' + tally.received[c] <= Known(c) + tally'.received[c],
         Certain' => Known(c)' + tally.received[c] = Known(c) + tally'.received[c],
         tally'.images[c] + Count(index.frame, c) = tally.images[c] + Count(index'.frame, c)
  PROVE  /\ tally'.received[c] + One(capture'.kind = "frame") <= sent'.frames
         /\ Known(c)' <= tally'.received[c] /\ (Certain' => Known(c)' = tally'.received[c])
         /\ tally'.images[c] = Count(index'.frame, c)
<1>1. /\ tally.received[c] \in Nat /\ tally'.received[c] \in Nat /\ tally.images[c] \in Nat
      /\ tally'.images[c] \in Nat /\ Count(index.frame, c) \in Nat /\ Count(index'.frame, c) \in Nat
      /\ sent.frames \in Nat /\ sent'.frames \in Nat
  BY DEF Numbers
<1>2. Known(c) \in Nat
  <2>1. /\ tally.images[c] \in Nat /\ tally.dropped[c] \in Nat /\ Count(queue.frames, c) \in Nat
        /\ Hand(c) \in Nat
    BY DEF Numbers
  <2> QED
    BY <2>1 DEF Known
<1>3. Known(c)' \in Nat
  <2>1. /\ tally'.images[c] \in Nat /\ tally'.dropped[c] \in Nat /\ Count(queue'.frames, c) \in Nat
        /\ Hand(c)' \in Nat
    BY DEF Numbers
  <2> QED
    BY <2>1 DEF Known
<1>4. /\ tally.received[c] + One(capture.kind = "frame") <= sent.frames
      /\ Known(c) <= tally.received[c] /\ (Certain => Known(c) = tally.received[c])
      /\ tally.images[c] = Count(index.frame, c)
  BY DEF ImagesInv, Known
<1>5. \A a, b, r, s \in Nat : a <= r /\ b + r <= a + s => b <= s
  OBVIOUS
<1>6. \A b, r, s \in Nat : b + r = r + s => b = s
  OBVIOUS
<1>7. Known(c)' <= tally'.received[c]
  BY <1>1, <1>2, <1>3, <1>4, <1>5
<1>8. ASSUME Certain' PROVE Known(c)' = tally'.received[c]
  <2>1. Known(c)' + tally.received[c] = tally.received[c] + tally'.received[c]
    BY <1>4, <1>8
  <2> QED
    BY <1>1, <1>3, <1>6, <2>1
<1>9. tally'.images[c] = Count(index'.frame, c)
  <2>1. tally'.images[c] + Count(index.frame, c) = Count(index.frame, c) + Count(index'.frame, c)
    BY <1>4
  <2> QED
    BY <1>1, <1>6, <2>1
<1>10. tally'.received[c] + One(capture'.kind = "frame") <= sent'.frames
  <2>1. One(capture.kind = "frame") \in Nat /\ One(capture'.kind = "frame") \in Nat
    BY DEF One
  <2>2. \A r, o, s, t, p, u \in Nat : r + o <= s /\ (t + p) + s <= (r + o) + u => t + p <= u
    OBVIOUS
  <2> QED
    BY <1>1, <1>4, <2>1, <2>2
<1> QED
  BY <1>7, <1>8, <1>9, <1>10

LEMMA ImagesMove ==
  ASSUME Types, Numbers, Numbers', ImagesInv, Certain' => Certain, Move
  PROVE  ImagesInv'
<1> SUFFICES ASSUME NEW c \in Cameras
             PROVE  /\ tally'.received[c] + One(capture'.kind = "frame") <= sent'.frames
                    /\ Known(c)' <= tally'.received[c] /\ (Certain' => Known(c)' = tally'.received[c])
                    /\ tally'.images[c] = Count(index'.frame, c)
  BY DEF ImagesInv, Known
<1>1. /\ tally.received[c] \in Nat /\ tally'.received[c] \in Nat /\ tally.images[c] \in Nat
      /\ tally'.images[c] \in Nat /\ Count(index.frame, c) \in Nat /\ Count(index'.frame, c) \in Nat
      /\ sent.frames \in Nat /\ sent'.frames \in Nat
      /\ tally.dropped[c] \in Nat /\ Count(queue.frames, c) \in Nat /\ Hand(c) \in Nat
      /\ tally'.dropped[c] \in Nat /\ Count(queue'.frames, c) \in Nat /\ Hand(c)' \in Nat
  BY DEF Numbers
<1>2. /\ Known(c) = tally.images[c] + tally.dropped[c] + Count(queue.frames, c) + Hand(c)
      /\ Known(c)' = tally'.images[c] + tally'.dropped[c] + Count(queue'.frames, c) + Hand(c)'
  BY DEF Known
<1>3. /\ One(capture.kind = "frame") = IF capture.kind = "frame" THEN 1 ELSE 0
      /\ One(capture'.kind = "frame") = IF capture'.kind = "frame" THEN 1 ELSE 0
  BY DEF One
<1>4. /\ Hand(c) = IF Busy /\ c \in writer.job.images THEN 1 ELSE 0
      /\ Hand(c)' = IF Busy' /\ c \in writer'.job.images THEN 1 ELSE 0
  BY DEF Hand, One
<1> DEFINE arrives == tally'.received[c] + One(capture'.kind = "frame") + sent.frames <=
                        tally.received[c] + One(capture.kind = "frame") + sent'.frames
           atMost  == Known(c)' + tally.received[c] <= Known(c) + tally'.received[c]
           exactly == Certain' => Known(c)' + tally.received[c] = Known(c) + tally'.received[c]
           indexed == tally'.images[c] + Count(index.frame, c) = tally.images[c] + Count(index'.frame, c)
<1>5. ASSUME tally'.received = tally.received,
             (capture' = capture \/ capture'.kind # "frame") /\ sent'.frames = sent.frames
      PROVE  arrives
  BY <1>1, <1>3, <1>5
<1>6. ASSUME tally'.received = tally.received, tally'.images = tally.images, tally'.dropped = tally.dropped,
             queue'.frames = queue.frames, index'.frame = index.frame, Hand(c)' = Hand(c)
      PROVE  atMost /\ exactly /\ indexed
  BY <1>1, <1>2, <1>6
<1>7. CASE QuietMove
  <2>1. /\ UNCHANGED <<queue, tally, index>>
        /\ \/ capture'.kind # "frame" /\ sent'.frames = sent.frames
           \/ capture.kind # "frame" /\ sent'.frames = sent.frames + 1
           \/ capture' = capture /\ sent'.frames = sent.frames
        /\ \/ Busy' = Busy /\ writer'.job = writer.job
           \/ ~Busy' /\ (~Busy \/ failed')
    BY <1>7 DEF QuietMove
  <2>2. arrives
    BY <1>1, <1>3, <2>1
  <2>3. Hand(c)' = Hand(c) \/ (Hand(c)' = 0 /\ ~Certain')
    BY <1>4, <2>1 DEF Certain
  <2>4. atMost /\ exactly
    BY <1>1, <1>2, <2>1, <2>3
  <2>5. indexed
    BY <2>1
  <2> HIDE DEF arrives, atMost, exactly, indexed
  <2>6. arrives /\ atMost /\ exactly /\ indexed
    BY <2>2, <2>4, <2>5
  <2> QED
    BY <2>6, ImagesFollow DEF arrives, atMost, exactly, indexed
<1>8. CASE FrameSetMove
  <2>1. /\ tally'.images = tally.images /\ UNCHANGED <<index, writer, sent>>
        /\ tally'.received[c] <= tally.received[c] + 1
        /\ capture.kind = "frame" /\ capture'.kind # "frame"
    BY <1>8 DEF FrameSetMove, SameButDropped
  <2>2. LET before == tally.dropped[c] + Count(queue.frames, c) + tally'.received[c]
            after  == tally'.dropped[c] + Count(queue'.frames, c) + tally.received[c]
        IN after <= before /\ (Certain' => after = before)
    BY <1>8 DEF FrameSetMove
  <2>3. arrives
    BY <1>1, <1>3, <2>1
  <2>4. Hand(c)' = Hand(c)
    BY <1>4, <2>1 DEF Busy
  <2>6. /\ Known(c)' = tally.images[c] + tally'.dropped[c] + Count(queue'.frames, c) + Hand(c)
    BY <1>2, <2>1, <2>4
  <2>7. atMost /\ exactly
    <3>1. /\ tally'.dropped[c] + Count(queue'.frames, c) + tally.received[c] <=
               tally.dropped[c] + Count(queue.frames, c) + tally'.received[c]
          /\ Certain' => tally'.dropped[c] + Count(queue'.frames, c) + tally.received[c] =
                           tally.dropped[c] + Count(queue.frames, c) + tally'.received[c]
      BY <2>2
    <3>2. PICK i \in Nat, h \in Nat, d \in Nat, q \in Nat, r \in Nat, dd \in Nat, qq \in Nat, rr \in Nat :
            /\ i = tally.images[c] /\ h = Hand(c) /\ d = tally.dropped[c] /\ q = Count(queue.frames, c)
            /\ r = tally.received[c] /\ dd = tally'.dropped[c] /\ qq = Count(queue'.frames, c)
            /\ rr = tally'.received[c]
      BY <1>1
    <3>3. Known(c) = i + d + q + h /\ Known(c)' = i + dd + qq + h
      BY <1>2, <2>6, <3>2
    <3>4. atMost
      <4>1. dd + qq + r <= d + q + rr
        BY <3>1, <3>2
      <4>2. (i + dd + qq + h) + r <= (i + d + q + h) + rr
        BY <4>1
      <4> QED
        BY <3>2, <3>3, <4>2
    <3>5. ASSUME Certain' PROVE Known(c)' + tally.received[c] = Known(c) + tally'.received[c]
      <4>1. dd + qq + r = d + q + rr
        BY <3>1, <3>2, <3>5
      <4>2. (i + dd + qq + h) + r = (i + d + q + h) + rr
        BY <4>1
      <4> QED
        BY <3>2, <3>3, <4>2
    <3> QED
      BY <3>4, <3>5
  <2>8. indexed
    BY <2>1
  <2> HIDE DEF arrives, atMost, exactly, indexed
  <2>9. arrives /\ atMost /\ exactly /\ indexed
    BY <2>3, <2>7, <2>8
  <2> QED
    BY <2>9, ImagesFollow DEF arrives, atMost, exactly, indexed
<1>9. CASE LidarMove \/ DirectMove \/ IndexBatchMove
  <2>1. /\ tally'.received = tally.received /\ tally'.images = tally.images /\ tally'.dropped = tally.dropped
        /\ queue'.frames = queue.frames /\ index'.frame = index.frame /\ sent' = sent
        /\ capture' = capture \/ capture'.kind # "frame"
        /\ writer' = writer \/ (writer.job.kind = "lidar" /\ writer.pc = "payload" /\ writer'.pc = "idle")
    BY <1>9 DEF LidarMove, DirectMove, IndexBatchMove, SameButDropped
  <2>2. ASSUME writer.job.kind = "lidar", writer.pc = "payload", writer'.pc = "idle"
        PROVE  Hand(c)' = Hand(c)
    <3>1. writer.job \in Jobs
      BY <2>2 DEF Types, Busy
    <3>2. writer.job.images = {}
      BY <2>2, <3>1, JobsAreJobs, InputsAssumption DEF Jobs
    <3> QED
      BY <1>4, <2>2, <3>2 DEF Busy
  <2>3. Hand(c)' = Hand(c)
    <3>1. CASE writer' = writer
      BY <1>4, <3>1 DEF Busy
    <3> QED
      BY <2>1, <2>2, <3>1
  <2>4. arrives
    BY <1>5, <2>1
  <2>5. atMost /\ exactly /\ indexed
    BY <1>6, <2>1, <2>3
  <2> HIDE DEF arrives, atMost, exactly, indexed
  <2>6. arrives /\ atMost /\ exactly /\ indexed
    BY <2>4, <2>5
  <2> QED
    BY <2>6, ImagesFollow DEF arrives, atMost, exactly, indexed
<1>10. CASE TakeMove
  <2>1. /\ UNCHANGED <<tally, index, capture, sent>> /\ writer.pc = "idle" /\ writer'.pc = "taken"
        /\ Count(queue'.frames, c) + One(c \in writer'.job.images) = Count(queue.frames, c)
    BY <1>10 DEF TakeMove
  <2>2. Hand(c) = 0 /\ Hand(c)' = One(c \in writer'.job.images)
    BY <1>4, <2>1 DEF Busy, One
  <2>3. arrives
    BY <1>5, <2>1
  <2>4. \A i, d, q, h, r \in Nat : (i + d + q + h) + r = (i + d + (q + h) + 0) + r
    OBVIOUS
  <2>5. /\ Known(c) = tally.images[c] + tally.dropped[c] + (Count(queue'.frames, c) + Hand(c)') + 0
        /\ Known(c)' = tally.images[c] + tally.dropped[c] + Count(queue'.frames, c) + Hand(c)'
    BY <1>2, <2>1, <2>2
  <2>6. Known(c)' + tally.received[c] = Known(c) + tally.received[c]
    BY <1>1, <2>4, <2>5
  <2>7. Known(c)' + tally.received[c] \in Nat
    BY <1>1, <2>5
  <2>8. atMost /\ exactly
    BY <2>1, <2>6, <2>7
  <2>9. indexed
    BY <2>1
  <2> HIDE DEF arrives, atMost, exactly, indexed
  <2>10. arrives /\ atMost /\ exactly /\ indexed
    BY <2>3, <2>8, <2>9
  <2> QED
    BY <2>10, ImagesFollow DEF arrives, atMost, exactly, indexed
<1>11. CASE IndexFrameMove
  <2>1. /\ UNCHANGED <<queue, capture, sent>> /\ writer.pc = "payload" /\ writer'.pc = "idle"
        /\ tally'.received = tally.received /\ tally'.dropped = tally.dropped
        /\ indexed
        /\ tally'.images[c] <= tally.images[c] + One(c \in writer.job.images)
        /\ Certain' => tally'.images[c] = tally.images[c] + One(c \in writer.job.images)
    BY <1>11 DEF IndexFrameMove
  <2>2. Hand(c)' = 0 /\ Hand(c) = One(c \in writer.job.images)
    BY <1>4, <2>1 DEF Busy, One
  <2>3. arrives
    BY <1>5, <2>1
  <2>4. \A i, ii, d, q, h, r \in Nat :
          /\ ii <= i + h => (ii + d + q + 0) + r <= (i + d + q + h) + r
          /\ ii = i + h => (ii + d + q + 0) + r = (i + d + q + h) + r
    OBVIOUS
  <2>5. /\ Known(c) = tally.images[c] + tally.dropped[c] + Count(queue.frames, c) + Hand(c)
        /\ Known(c)' = tally'.images[c] + tally.dropped[c] + Count(queue.frames, c) + 0
        /\ tally'.images[c] <= tally.images[c] + Hand(c)
        /\ Certain' => tally'.images[c] = tally.images[c] + Hand(c)
    BY <1>2, <2>1, <2>2
  <2>6. atMost /\ exactly
    BY <1>1, <2>1, <2>4, <2>5
  <2> HIDE DEF arrives, atMost, exactly, indexed
  <2>7. arrives /\ atMost /\ exactly /\ indexed
    BY <2>1, <2>3, <2>6
  <2> QED
    BY <2>7, ImagesFollow DEF arrives, atMost, exactly, indexed
<1> QED
  BY <1>7, <1>8, <1>9, <1>10, <1>11 DEF Move

(* Every batch queued is in the index, in the queue or in the writer's     *)
(* hand.                                                                   *)
LEMMA BatchesMove ==
  ASSUME Numbers, Numbers', BatchesInv, Certain' => Certain, Move
  PROVE  BatchesInv'
<1> DEFINE held == One(Busy /\ writer.job.kind = "lidar")
           left == One(Busy' /\ writer'.job.kind = "lidar")
<1>1. /\ tally.batches \in Nat /\ tally'.batches \in Nat /\ tally.queuedBatches \in Nat
      /\ tally'.queuedBatches \in Nat /\ Len(queue.lidar) \in Nat /\ Len(queue'.lidar) \in Nat
      /\ Len(index.lidar) \in Nat /\ Len(index'.lidar) \in Nat
  BY DEF Numbers
<1>2. held \in Nat /\ left \in Nat
  BY DEF One
<1>3. /\ Certain => tally.queuedBatches = tally.batches + Len(queue.lidar) + held
      /\ tally.batches = Len(index.lidar)
  BY DEF BatchesInv
<1>4. ASSUME tally'.batches + Len(index.lidar) = tally.batches + Len(index'.lidar),
             Certain' => tally'.queuedBatches = tally'.batches + Len(queue'.lidar) + left
      PROVE  BatchesInv'
  <2>1. tally'.batches = Len(index'.lidar)
    <3>1. \A a, b, c \in Nat : a + b = b + c => a = c
      OBVIOUS
    <3>2. tally'.batches + Len(index.lidar) = Len(index.lidar) + Len(index'.lidar)
      BY <1>3, <1>4
    <3> QED
      BY <1>1, <3>1, <3>2
  <2> QED
    BY <1>4, <2>1 DEF BatchesInv
<1>5. ASSUME tally'.batches = tally.batches, tally'.queuedBatches = tally.queuedBatches,
             queue'.lidar = queue.lidar, index'.lidar = index.lidar, left = held \/ ~Certain'
      PROVE  BatchesInv'
  <2>1. Certain' => tally'.queuedBatches = tally'.batches + Len(queue'.lidar) + left
    BY <1>3, <1>5
  <2>2. tally'.batches + Len(index.lidar) = tally.batches + Len(index'.lidar)
    BY <1>5
  <2> QED
    BY <1>4, <2>1, <2>2
<1>6. CASE QuietMove
  <2>1. /\ UNCHANGED <<queue, tally, index>>
        /\ \/ Busy' = Busy /\ writer'.job = writer.job
           \/ ~Busy' /\ (~Busy \/ failed')
    BY <1>6 DEF QuietMove
  <2>2. left = held \/ ~Certain'
    BY <2>1 DEF One, Certain
  <2> QED
    BY <1>5, <2>1, <2>2
<1>7. CASE FrameSetMove \/ DirectMove
  <2>1. /\ tally'.batches = tally.batches /\ tally'.queuedBatches = tally.queuedBatches
        /\ queue'.lidar = queue.lidar /\ UNCHANGED <<index, writer>>
    BY <1>7 DEF FrameSetMove, DirectMove, SameButDropped
  <2>2. left = held
    BY <2>1 DEF Busy
  <2> QED
    BY <1>5, <2>1, <2>2
<1>8. CASE IndexFrameMove
  <2>1. /\ tally'.batches = tally.batches /\ tally'.queuedBatches = tally.queuedBatches
        /\ UNCHANGED queue /\ index'.lidar = index.lidar
        /\ writer.job.kind = "frame" /\ writer'.pc = "idle"
    BY <1>8 DEF IndexFrameMove
  <2>2. left = held
    BY <2>1 DEF Busy, One
  <2> QED
    BY <1>5, <2>1, <2>2
<1>9. CASE LidarMove
  <2>1. /\ tally'.batches = tally.batches /\ UNCHANGED <<index, writer>>
        /\ tally'.queuedBatches + Len(queue.lidar) = tally.queuedBatches + Len(queue'.lidar)
    BY <1>9 DEF LidarMove
  <2>2. left = held
    BY <2>1 DEF Busy
  <2>3. ASSUME Certain' PROVE tally'.queuedBatches = tally'.batches + Len(queue'.lidar) + left
    <3>1. tally.queuedBatches = tally.batches + Len(queue.lidar) + held
      BY <1>3, <2>3
    <3> HIDE DEF held, left
    <3>2. PICK q \in Nat, qq \in Nat, l \in Nat, ll \in Nat, b \in Nat, h \in Nat :
            /\ q = tally.queuedBatches /\ qq = tally'.queuedBatches /\ l = Len(queue.lidar)
            /\ ll = Len(queue'.lidar) /\ b = tally.batches /\ h = held
      BY <1>1, <1>2
    <3>3. qq + l = q + ll /\ q = b + l + h
      BY <2>1, <3>1, <3>2
    <3>4. qq = b + ll + h
      BY <3>3
    <3> QED
      BY <2>1, <2>2, <3>2, <3>4
  <2>4. tally'.batches + Len(index.lidar) = tally.batches + Len(index'.lidar)
    BY <2>1
  <2> QED
    BY <1>4, <2>3, <2>4
<1>10. CASE TakeMove
  <2>1. /\ UNCHANGED <<tally, index>> /\ writer.pc = "idle" /\ writer'.pc = "taken"
        /\ Len(queue'.lidar) + One(writer'.job.kind = "lidar") = Len(queue.lidar)
    BY <1>10 DEF TakeMove
  <2>2. held = 0 /\ left = One(writer'.job.kind = "lidar")
    BY <2>1 DEF Busy, One
  <2>3. ASSUME Certain' PROVE tally'.queuedBatches = tally'.batches + Len(queue'.lidar) + left
    <3>1. tally.queuedBatches = tally.batches + Len(queue.lidar) + 0
      BY <1>3, <2>2, <2>3
    <3>2. Len(queue.lidar) = Len(queue'.lidar) + left
      BY <2>1, <2>2
    <3> HIDE DEF held, left
    <3> QED
      BY <1>1, <1>2, <2>1, <3>1, <3>2
  <2>4. tally'.batches + Len(index.lidar) = tally.batches + Len(index'.lidar)
    BY <2>1
  <2> QED
    BY <1>4, <2>3, <2>4
<1>11. CASE IndexBatchMove
  <2>1. /\ UNCHANGED queue /\ tally'.queuedBatches = tally.queuedBatches
        /\ writer.pc = "payload" /\ writer.job.kind = "lidar" /\ writer'.pc = "idle"
        /\ tally'.batches + Len(index.lidar) = tally.batches + Len(index'.lidar)
        /\ Certain' => tally'.batches = tally.batches + 1
    BY <1>11 DEF IndexBatchMove
  <2>2. held = 1 /\ left = 0
    BY <2>1 DEF Busy, One
  <2>3. ASSUME Certain' PROVE tally'.queuedBatches = tally'.batches + Len(queue'.lidar) + left
    <3>1. tally.queuedBatches = tally.batches + Len(queue.lidar) + 1
      BY <1>3, <2>2, <2>3
    <3>2. \A b, l \in Nat : b + l + 1 = (b + 1) + l + 0
      OBVIOUS
    <3>3. tally.batches + Len(queue.lidar) + 1 = (tally.batches + 1) + Len(queue.lidar) + 0
      BY <1>1, <3>2
    <3> HIDE DEF held, left
    <3> QED
      BY <2>1, <2>2, <2>3, <3>1, <3>3
  <2> QED
    BY <1>4, <2>1, <2>3
<1> QED
  BY <1>6, <1>7, <1>8, <1>9, <1>10, <1>11 DEF Move

LEMMA PartialMove ==
  ASSUME PartialInv, Move
  PROVE  PartialInv'
<1>1. CASE IndexFrameMove
  BY <1>1 DEF IndexFrameMove
<1>2. CASE QuietMove \/ FrameSetMove \/ LidarMove \/ DirectMove \/ TakeMove \/ IndexBatchMove
  <2>1. /\ tally'.partialSets = tally.partialSets /\ index'.frame = index.frame
        /\ failed => failed'
    BY <1>2 DEF QuietMove, FrameSetMove, LidarMove, DirectMove, TakeMove, IndexBatchMove, SameButDropped
  <2> QED
    BY <2>1 DEF PartialInv
<1> QED
  BY <1>1, <1>2 DEF Move

(* The stop: an append finds nothing to do once active_ is cleared, and    *)
(* the writer ends by itself only with empty queues.                       *)
WorkMove ==
  /\ UNCHANGED <<active, session, stopWriter, gui, manifest>> /\ (failed => failed')
  /\ \/ writer' = writer /\ (~active => queue' = queue)
     \/ writer.pc = "idle" /\ writer'.pc = "taken"
     \/ writer.pc = "taken" /\ writer'.pc \in {"taken", "payload", "failing"}
     \/ writer.pc \in {"taken", "payload", "failing"} /\ writer'.pc = "idle"
     \/ writer.pc \in {"taken", "payload"} /\ writer'.pc = "exited" /\ failed'
     \/ writer.pc = "idle" /\ writer'.pc = "exited" /\ Drained /\ queue' = queue

LEMMA WorkIsMove ==
  ASSUME Types, MoreTypes, Next, ~StartAction, ~Stop, ~FinishStop
  PROVE  WorkMove
<1>1. failed \in BOOLEAN /\ writer \in Writers
  BY DEF MoreTypes, Types
<1>2. ASSUME NEW f \in FrameSets, CheckFrameSet(f) PROVE WorkMove
  BY <1>2, Zenon DEF CheckFrameSet, WorkMove
<1>3. ASSUME NEW b \in Batches, CheckLidar(b) PROVE WorkMove
  BY <1>3, Zenon DEF CheckLidar, WorkMove
<1>4. CASE AppendFrameSet
  <2>1. UNCHANGED <<active, session, stopWriter, gui, manifest, writer>>
    BY <1>4, Zenon DEF AppendFrameSet
  <2>2. ~active => queue' = queue
    <3>1. CASE ~Receiving
      BY <1>4, <3>1, Zenon DEF AppendFrameSet
    <3> QED
      BY <3>1 DEF Receiving
  <2>3. failed => failed'
    <3>1. CASE ~Receiving
      <4>1. failed' = failed
        BY <1>4, <3>1, Zenon DEF AppendFrameSet
      <4> QED
        BY <4>1
    <3> QED
      BY <3>1 DEF Receiving
  <2> QED
    BY <2>1, <2>2, <2>3 DEF WorkMove
<1>5. CASE AppendFrameSetThrows
  <2>1. UNCHANGED <<active, session, stopWriter, gui, manifest, writer, failed>> /\ active
    BY <1>5, Zenon DEF AppendFrameSetThrows, Receiving
  <2> QED
    BY <2>1 DEF WorkMove
<1>6. CASE AppendLidar
  <2>1. UNCHANGED <<active, session, stopWriter, gui, manifest, writer>>
    BY <1>6, Zenon DEF AppendLidar
  <2>2. ~active => queue' = queue
    <3>1. CASE ~Receiving
      BY <1>6, <3>1, Zenon DEF AppendLidar
    <3> QED
      BY <3>1 DEF Receiving
  <2>3. failed => failed'
    <3>1. CASE ~Receiving
      <4>1. failed' = failed
        BY <1>6, <3>1, Zenon DEF AppendLidar
      <4> QED
        BY <4>1
    <3> QED
      BY <3>1 DEF Receiving
  <2> QED
    BY <2>1, <2>2, <2>3 DEF WorkMove
<1>7. CASE AppendLidarThrows
  <2>1. UNCHANGED <<active, session, stopWriter, gui, manifest, writer, failed, queue>>
    BY <1>7, Zenon DEF AppendLidarThrows
  <2> QED
    BY <2>1 DEF WorkMove
<1>8. CASE MarkAppendFailed
  BY <1>8 DEF MarkAppendFailed, WorkMove
<1>9. CASE AppendDirect
  <2>1. DirectMove
    BY <1>9, DirectIsMove
  <2> QED
    BY <2>1 DEF DirectMove, WorkMove
<1>10. CASE TakeJob
  BY <1>10 DEF TakeJob, WorkMove
<1>11. CASE WritePayload
  <2>1. writer'.pc \in {"payload", "failing"} /\ writer.pc = "taken"
    BY <1>1, <1>11 DEF WritePayload, Writers
  <2> QED
    BY <1>11, <2>1 DEF WritePayload, WorkMove
<1>17. CASE RollOver
  <2>1. /\ writer.pc = "taken" /\ writer'.pc \in {"taken", "failing"}
        /\ UNCHANGED <<active, session, stopWriter, gui, manifest, failed>>
    BY <1>1, <1>17, RollOverKeepsJob, Zenon DEF RollOver
  <2> QED
    BY <2>1 DEF WorkMove
<1>12. CASE MarkPayloadFailed
  BY <1>12 DEF MarkPayloadFailed, WorkMove
<1>13. CASE WriterThrows
  BY <1>13 DEF WriterThrows, WorkMove
<1>14. CASE WriterStops
  BY <1>14 DEF WriterStops, WorkMove
<1>15. CASE IndexFrameSet
  <2>1. /\ UNCHANGED <<active, session, stopWriter, gui, manifest>>
        /\ writer.pc = "payload" /\ writer' = [pc |-> "idle", job |-> NoJob]
    BY <1>15, Zenon DEF IndexFrameSet
  <2>2. CASE failed
    <3>1. failed' = failed
      BY <1>15, <2>2, Zenon DEF IndexFrameSet
    <3> QED
      BY <2>1, <3>1 DEF WorkMove
  <2>3. CASE ~failed
    BY <2>1, <2>3 DEF WorkMove
  <2> QED
    BY <2>2, <2>3
<1>16. CASE IndexBatch
  <2>1. IndexBatchMove
    BY <1>16, IndexBatchIsMove
  <2> QED
    BY <2>1 DEF IndexBatchMove, WorkMove
<1> QED
  BY <1>2, <1>3, <1>4, <1>5, <1>6, <1>7, <1>8, <1>9, <1>10, <1>11, <1>12, <1>13, <1>14, <1>15, <1>16,
     <1>17, Zenon DEF Next, Capture, Writer, Gui, StartAction

LEMMA StopStep ==
  ASSUME Types, MoreTypes, StopInv, Next, ~StartAction
  PROVE  StopInv'
<1>1. CASE Stop
  BY <1>1 DEF Stop, StopInv
<1>2. CASE FinishStop
  <2>1. /\ UNCHANGED <<active, stopWriter, queue>> /\ gui = "joining" /\ gui' = "idle"
        /\ session' = [session EXCEPT !.open = FALSE] /\ writer'.pc = "none"
    BY <1>2 DEF FinishStop
  <2>2. ~session'.open
    BY <2>1 DEF MoreTypes
  <2> QED
    BY <2>1, <2>2 DEF StopInv
<1>3. CASE ~Stop /\ ~FinishStop
  <2>1. WorkMove
    BY <1>3, WorkIsMove
  <2>2. /\ UNCHANGED <<active, session, stopWriter, gui, manifest>> /\ (failed => failed')
    BY <2>1 DEF WorkMove
  <2>3. /\ writer.pc = "none" => writer'.pc = "none"
        /\ writer.pc # "none" => writer'.pc # "none"
    BY <2>1 DEF WorkMove
  <2>4. ASSUME writer'.pc = "exited", ~failed'
        PROVE  queue'.frames = <<>> /\ queue'.lidar = <<>> /\ ~active'
    <3>1. CASE writer' = writer /\ (~active => queue' = queue)
      BY <2>2, <2>4, <3>1 DEF StopInv
    <3>2. CASE writer.pc = "idle" /\ writer'.pc = "exited" /\ Drained /\ queue' = queue
      BY <2>2, <3>2 DEF Drained, StopInv
    <3> QED
      BY <2>1, <2>4, <3>1, <3>2 DEF WorkMove
  <2> QED
    BY <2>2, <2>3, <2>4 DEF StopInv
<1> QED
  BY <1>1, <1>2, <1>3

(* A complete manifest is written only after the join, and nothing that it *)
(* speaks of moves until the next start.                                   *)
LEMMA CompleteStep ==
  ASSUME Types, MoreTypes, StopInv, CompleteInv, Next, ~StartAction, Move
  PROVE  CompleteInv'
<1> SUFFICES ASSUME manifest' = "complete", session'.mode = "full", ~failed'
             PROVE  /\ ~session'.open /\ queue'.frames = <<>> /\ queue'.lidar = <<>>
                    /\ Aligned' => tally'.partialSets = 0 /\ \A c \in Cameras : tally'.images[c] > 0
  BY DEF CompleteInv
<1>1. CASE FinishStop
  <2>1. /\ gui = "joining" /\ writer.pc \in {"exited", "none"} /\ session' = [session EXCEPT !.open = FALSE]
        /\ UNCHANGED <<queue, tally>>
    BY <1>1 DEF FinishStop
  <2>2. ~failed /\ ~Lacks
    <3>1. PICK flushed \in BOOLEAN, committed \in BOOLEAN :
            LET closed == failed \/ Lacks \/ ~flushed
            IN /\ failed' = (closed \/ ~committed)
               /\ manifest' = IF committed THEN (IF closed THEN "incomplete" ELSE "complete") ELSE manifest
      BY <1>1, FinishOutcome
    <3> QED
      BY <3>1
  <2>3. /\ ~session'.open /\ session'.mode = session.mode /\ session'.policy = session.policy
    BY <2>1 DEF MoreTypes
  <2>4. queue.frames = <<>> /\ queue.lidar = <<>>
    BY <2>1, <2>2, <2>3 DEF StopInv
  <2>5. ASSUME Aligned PROVE tally.partialSets = 0 /\ \A c \in Cameras : tally.images[c] > 0
    <3>1. tally.partialSets = 0 /\ \A c \in Cameras : tally.images[c] # 0
      BY <2>2, <2>3, <2>5 DEF Lacks
    <3>2. \A c \in Cameras : tally.images[c] \in Nat
      BY DEF MoreTypes, Tallies
    <3> QED
      BY <3>1, <3>2
  <2>6. Aligned' <=> Aligned
    BY <2>3 DEF Aligned
  <2> QED
    BY <2>1, <2>3, <2>4, <2>5, <2>6
<1>2. CASE Stop
  BY <1>2 DEF Stop, StopInv
<1>3. CASE ~Stop /\ ~FinishStop
  <2>1. WorkMove
    BY <1>3, WorkIsMove
  <2>2. /\ UNCHANGED <<active, session, manifest>> /\ ~failed
    BY <2>1 DEF WorkMove
  <2>3. /\ ~session.open /\ queue.frames = <<>> /\ queue.lidar = <<>>
        /\ Aligned => tally.partialSets = 0 /\ \A c \in Cameras : tally.images[c] > 0
    BY <2>2 DEF CompleteInv
  <2>4. ~active /\ writer.pc = "none"
    BY <2>3 DEF StopInv
  <2>5. queue' = queue
    BY <2>1, <2>4 DEF WorkMove
  <2>6. tally'.images = tally.images /\ tally'.partialSets = tally.partialSets
    <3>1. CASE QuietMove \/ FrameSetMove \/ LidarMove \/ DirectMove
      BY <3>1 DEF QuietMove, FrameSetMove, LidarMove, DirectMove, SameButDropped
    <3>2. CASE TakeMove \/ IndexFrameMove \/ IndexBatchMove
      BY <2>4, <3>2 DEF TakeMove, IndexFrameMove, IndexBatchMove
    <3> QED
      BY <3>1, <3>2 DEF Move
  <2>7. Aligned' <=> Aligned
    BY <2>2 DEF Aligned
  <2> QED
    BY <2>2, <2>3, <2>5, <2>6, <2>7
<1> QED
  BY <1>1, <1>2, <1>3

LEMMA AccountsStep ==
  ASSUME IInv, IInv', AccountsInv, [Next]_vars
  PROVE  AccountsInv'
<1>1. Types /\ Types'
  BY DEF IInv
<1>2. MoreTypes /\ BudgetInv /\ ImagesInv /\ BatchesInv /\ PartialInv /\ StopInv /\ CompleteInv
  BY DEF AccountsInv
<1>3. Numbers
  BY <1>1, <1>2, NumbersCount
<1>4. CASE UNCHANGED vars
  <2>1. /\ UNCHANGED <<active, session, stopWriter, failed, queue, queuedBytes, tally, index, writer,
                       capture, gui, manifest, sent>>
    BY <1>4 DEF vars
  <2>2. (Busy' <=> Busy) /\ (Certain' <=> Certain) /\ (Aligned' <=> Aligned)
    BY <2>1 DEF Busy, Certain, Aligned
  <2>3. \A c \in Cameras : Hand(c)' = Hand(c)
    BY <2>1, <2>2 DEF Hand
  <2>4. MoreTypes' /\ BudgetInv' /\ StopInv'
    BY <1>2, <2>1, <2>2 DEF MoreTypes, BudgetInv, StopInv
  <2>5. ImagesInv'
    BY <1>2, <2>1, <2>2, <2>3 DEF ImagesInv
  <2>6. BatchesInv' /\ PartialInv' /\ CompleteInv'
    BY <1>2, <2>1, <2>2 DEF BatchesInv, PartialInv, CompleteInv
  <2> QED
    BY <2>4, <2>5, <2>6 DEF AccountsInv
<1>5. CASE StartAction
  BY <1>2, <1>3, <1>5, StartFresh
<1>6. CASE Next /\ ~StartAction
  <2>1. Move
    BY <1>1, <1>2, <1>6, NextIsMove
  <2>2. MoreTypes' /\ (Certain' => Certain)
    BY <1>2, <2>1, MoreTypesMove, CertainStays
  <2>3. Numbers'
    BY <1>1, <2>2, NumbersCount, PTL
  <2>4. BudgetInv' /\ ImagesInv' /\ BatchesInv' /\ PartialInv'
    BY <1>1, <1>2, <1>3, <2>1, <2>2, <2>3, BudgetMove, ImagesMove, BatchesMove, PartialMove
  <2>5. StopInv' /\ CompleteInv'
    BY <1>1, <1>2, <1>6, <2>1, StopStep, CompleteStep
  <2> QED
    BY <2>2, <2>4, <2>5 DEF AccountsInv
<1> QED
  BY <1>4, <1>5, <1>6

LEMMA AccountsInit == Init => AccountsInv
<1> SUFFICES ASSUME Init PROVE AccountsInv
  OBVIOUS
<1>1. /\ active = FALSE /\ session = [open |-> FALSE, mode |-> "full", policy |-> "received"]
      /\ stopWriter = FALSE /\ failed = FALSE /\ queue = [frames |-> <<>>, lidar |-> <<>>]
      /\ queuedBytes = 0 /\ tally = FreshTally /\ index = [k \in Kinds |-> <<>>]
      /\ writer = [pc |-> "none", job |-> NoJob] /\ capture = NoJob /\ gui = "idle"
      /\ manifest = "none" /\ sent = [frames |-> 0, batches |-> 0, sessions |-> 0]
  BY DEF Init
<1>2. FreshTally \in Tallies /\ MaxFrames \in Nat
  BY LimitsAssumption DEF FreshTally, Tallies
<1>3. sent \in [frames : 0 .. MaxFrames, batches : Nat, sessions : Nat]
  BY <1>1, <1>2
<1>4. MoreTypes
  BY <1>1, <1>2, <1>3 DEF MoreTypes
<1>5. /\ queue.frames = <<>> /\ queue.lidar = <<>> /\ index.frame = <<>> /\ index.lidar = <<>>
      /\ ~Busy /\ capture.kind = "none"
  BY <1>1 DEF Kinds, Busy, NoJob
<1>6. BudgetInv
  <2>1. QueueFrames \in Nat /\ QueueBatches \in Nat /\ QueueBytes \in Nat
    BY LimitsAssumption
  <2>2. Len(queue.frames) = 0 /\ Len(queue.lidar) = 0
    BY <1>5
  <2>3. BytesIn(queue.frames) = 0 /\ BytesIn(queue.lidar) = 0
    BY <1>5, BytesOfFew
  <2> QED
    BY <1>1, <2>1, <2>2, <2>3 DEF BudgetInv
<1>7. ImagesInv
  <2> SUFFICES ASSUME NEW c \in Cameras
               PROVE  /\ tally.received[c] + One(capture.kind = "frame") <= sent.frames
                      /\ tally.images[c] + tally.dropped[c] + Count(queue.frames, c) + Hand(c) = tally.received[c]
                      /\ tally.received[c] = 0
                      /\ tally.images[c] = Count(index.frame, c)
    BY DEF ImagesInv
  <2>1. tally.received[c] = 0 /\ tally.images[c] = 0 /\ tally.dropped[c] = 0
    BY <1>1 DEF FreshTally
  <2>2. Count(queue.frames, c) = 0 /\ Count(index.frame, c) = 0
    BY <1>5, CountOfFew
  <2>3. Hand(c) = 0 /\ One(capture.kind = "frame") = 0 /\ sent.frames = 0
    BY <1>1, <1>5 DEF Hand, One
  <2> QED
    BY <2>1, <2>2, <2>3
<1>8. BatchesInv
  <2>1. tally.batches = 0 /\ tally.queuedBatches = 0
    BY <1>1 DEF FreshTally
  <2>2. Len(queue.lidar) = 0 /\ Len(index.lidar) = 0
    BY <1>5
  <2>3. One(Busy /\ writer.job.kind = "lidar") = 0
    BY <1>5 DEF One
  <2> QED
    BY <2>1, <2>2, <2>3 DEF BatchesInv
<1>9. PartialInv /\ StopInv /\ CompleteInv
  BY <1>1, <1>5 DEF PartialInv, StopInv, CompleteInv
<1> QED
  BY <1>4, <1>6, <1>7, <1>8, <1>9 DEF AccountsInv

(* The inductive invariant of the accounts: what is queued, what is in the *)
(* writer's hand and what has been counted add up in every state in which  *)
(* no failure is recorded or on its way.                                   *)
THEOREM AccountsCorrect == Spec => []AccountsInv
<1>1. IInv /\ AccountsInv /\ [Next]_vars /\ IInv' => AccountsInv'
  BY AccountsStep
<1> QED
  BY <1>1, AccountsInit, RecorderCorrect, PTL DEF Spec

(* appendFrameSet, appendLidar and writerLoopImpl: both queues stay within *)
(* their limits and within the byte budget, and queued_payload_bytes_ is   *)
(* the sum of what is queued until a failed append has been recorded.      *)
THEOREM BudgetCorrect == Spec => []QueueBudget
<1>1. IInv /\ AccountsInv => QueueBudget
  <2> SUFFICES ASSUME IInv, AccountsInv PROVE QueueBudget
    OBVIOUS
  <2>1. Types /\ MoreTypes /\ BudgetInv /\ ImagesInv
    BY DEF IInv, AccountsInv
  <2>2. Numbers
    BY <2>1, NumbersCount
  <2>3. ASSUME NEW c \in Cameras
        PROVE  /\ tally.received[c] \in 0 .. MaxFrames /\ tally.dropped[c] \in 0 .. MaxFrames
               /\ tally.images[c] \in 0 .. MaxFrames
    <3>1. /\ tally.received[c] \in Nat /\ tally.dropped[c] \in Nat /\ tally.images[c] \in Nat
          /\ Count(queue.frames, c) \in Nat /\ Hand(c) \in Nat
      BY <2>2 DEF Numbers
    <3>2. /\ tally.received[c] + One(capture.kind = "frame") <= sent.frames
          /\ tally.images[c] + tally.dropped[c] + Count(queue.frames, c) + Hand(c) <= tally.received[c]
      BY <2>1 DEF ImagesInv
    <3>3. sent.frames \in 0 .. MaxFrames /\ MaxFrames \in Nat /\ One(capture.kind = "frame") \in Nat
      BY <2>1, LimitsAssumption DEF MoreTypes, One
    <3>4. PICK r \in Nat, d \in Nat, i \in Nat, q \in Nat, h \in Nat, o \in Nat :
            /\ r = tally.received[c] /\ d = tally.dropped[c] /\ i = tally.images[c]
            /\ q = Count(queue.frames, c) /\ h = Hand(c) /\ o = One(capture.kind = "frame")
      BY <3>1, <3>3
    <3>5. r + o <= sent.frames /\ i + d + q + h <= r
      BY <3>2, <3>4
    <3>6. r <= MaxFrames /\ d <= MaxFrames /\ i <= MaxFrames
      BY <3>3, <3>5
    <3> QED
      BY <3>3, <3>4, <3>6
  <2>4. /\ tally.received \in [Cameras -> 0 .. MaxFrames] /\ tally.dropped \in [Cameras -> 0 .. MaxFrames]
        /\ tally.images \in [Cameras -> 0 .. MaxFrames]
    <3>1. /\ tally.received \in [Cameras -> Nat] /\ tally.dropped \in [Cameras -> Nat]
          /\ tally.images \in [Cameras -> Nat]
      BY <2>1 DEF MoreTypes, Tallies
    <3> QED
      BY <2>3, <3>1
  <2>5. TypeOK
    <3>1. queue.frames \in Seq(FrameSets) /\ queue.lidar \in Seq(Batches)
      BY <2>1 DEF Types, Queues
    <3>2. /\ writer.pc \in {"none", "idle", "taken", "payload", "failing", "exited"}
          /\ writer.job \in Jobs \union {NoJob} /\ capture \in Jobs \union {NoJob, Failing}
      BY <2>1 DEF Types, Writers
    <3>3. /\ active \in BOOLEAN /\ stopWriter \in BOOLEAN /\ failed \in BOOLEAN
          /\ session \in [open : BOOLEAN, mode : Modes \union {"full"}, policy : Policies \union {"received"}]
          /\ tally.direct \subseteq Direct
          /\ gui \in {"idle", "joining"} /\ manifest \in {"none", "incomplete", "complete"}
      BY <2>1 DEF MoreTypes, Tallies
    <3>4. queuedBytes \in 0 .. QueueBytes
      BY <2>1 DEF BudgetInv
    <3> QED
      BY <2>4, <3>1, <3>2, <3>3, <3>4 DEF TypeOK
  <2> QED
    BY <2>1, <2>5 DEF QueueBudget, BudgetInv, Certain
<1> QED
  BY <1>1, RecorderCorrect, AccountsCorrect, PTL

(* What stop writes with complete=1: every image that reached the queue    *)
(* policy is in the index or counted as dropped, every queued batch is in  *)
(* the index, and an aligned dataset lacks no lane and no image of a set.  *)
THEOREM CompleteCorrect == Spec => []CompleteAccounts
<1>1. IInv /\ AccountsInv => CompleteAccounts
  <2> SUFFICES ASSUME IInv, AccountsInv, manifest = "complete", session.mode = "full", ~failed,
                      capture.kind # "failing"
               PROVE  /\ \A c \in Cameras :
                           /\ tally.received[c] = tally.images[c] + tally.dropped[c]
                           /\ tally.images[c] = Count(index.frame, c)
                           /\ Aligned => tally.images[c] > 0
                      /\ tally.queuedBatches = tally.batches /\ tally.batches = Len(index.lidar)
                      /\ Aligned => \A i \in DOMAIN index.frame : index.frame[i].images = Cameras
    BY DEF CompleteAccounts, Count
  <2>1. Types /\ MoreTypes /\ ImagesInv /\ BatchesInv /\ PartialInv /\ StopInv /\ CompleteInv
    BY DEF IInv, AccountsInv
  <2>2. Numbers
    BY <2>1, NumbersCount
  <2>3. Certain
    BY DEF Certain
  <2>4. /\ ~session.open /\ queue.frames = <<>> /\ queue.lidar = <<>>
        /\ Aligned => tally.partialSets = 0 /\ \A c \in Cameras : tally.images[c] > 0
    BY <2>1 DEF CompleteInv
  <2>5. ~Busy
    BY <2>1, <2>4 DEF StopInv, Busy
  <2>6. ASSUME NEW c \in Cameras
        PROVE  /\ tally.received[c] = tally.images[c] + tally.dropped[c]
               /\ tally.images[c] = Count(index.frame, c)
    <3>1. /\ tally.images[c] + tally.dropped[c] + Count(queue.frames, c) + Hand(c) = tally.received[c]
          /\ tally.images[c] = Count(index.frame, c)
      BY <2>1, <2>3 DEF ImagesInv
    <3>2. Count(queue.frames, c) = 0 /\ Hand(c) = 0
      BY <2>4, <2>5, CountOfFew DEF Hand, One
    <3>3. tally.images[c] \in Nat /\ tally.dropped[c] \in Nat
      BY <2>2 DEF Numbers
    <3>4. \A a, b \in Nat : a + b + 0 + 0 = a + b
      OBVIOUS
    <3>5. tally.images[c] + tally.dropped[c] + 0 + 0 = tally.images[c] + tally.dropped[c]
      BY <3>3, <3>4
    <3> QED
      BY <3>1, <3>2, <3>5
  <2>7. tally.queuedBatches = tally.batches /\ tally.batches = Len(index.lidar)
    <3>1. /\ tally.queuedBatches = tally.batches + Len(queue.lidar) + One(Busy /\ writer.job.kind = "lidar")
          /\ tally.batches = Len(index.lidar)
      BY <2>1, <2>3 DEF BatchesInv
    <3>2. Len(queue.lidar) = 0 /\ One(Busy /\ writer.job.kind = "lidar") = 0
      BY <2>4, <2>5 DEF One
    <3>3. tally.batches \in Nat
      BY <2>2 DEF Numbers
    <3> QED
      BY <3>1, <3>2, <3>3
  <2>8. Aligned => \A i \in DOMAIN index.frame : index.frame[i].images = Cameras
    BY <2>1, <2>4 DEF PartialInv
  <2> QED
    BY <2>4, <2>6, <2>7, <2>8
<1> QED
  BY <1>1, RecorderCorrect, AccountsCorrect, PTL

--------------------------------------------------------------------------------
(***************************************************************************)
(* The payloads behind the rows: while nothing has failed, a row's payload *)
(* is in the stream of the last chunk or in the file of a closed one.      *)
(***************************************************************************)
RowHeld(k, i) == index[k][i].offset + index[k][i].bytes <= disk[k].held[index[k][i].chunk]
RowWaits(k, i) == index[k][i].chunk = file[k].chunk /\ disk[k].stream = "open"

\* A session goes on, and nothing has failed or is about to be seen to fail.
Healthy == session.open /\ ~failed /\ writer.pc # "failing"

HeldInv ==
  Healthy =>
    /\ writer.pc = "payload" => disk[writer.job.kind].stream = "open"
    /\ \A k \in Kinds :
         /\ disk[k].stream # "bad"
         /\ \A i \in DOMAIN index[k] : RowWaits(k, i) \/ RowHeld(k, i)

EndInv == manifest = "complete" => PayloadsHeld

\* A good close leaves every row's payload in its file.
LEMMA ClosedRows ==
  ASSUME IInv, DiskInv, HeldInv, Healthy, NEW k \in Kinds, NEW c \in Closings(k), c.ok,
         NEW i \in DOMAIN index[k]
  PROVE  /\ index[k][i].offset + index[k][i].bytes <= c.held[index[k][i].chunk]
         /\ index[k][i].chunk \in 1 .. Len(c.held)
<1>1. Types
  BY DEF IInv
<1>2. /\ index[k][i].chunk \in 1 .. file[k].chunk /\ file[k].chunk \in Nat
      /\ index[k][i].chunk = file[k].chunk => index[k][i].offset + index[k][i].bytes <= file[k].size
  BY <1>1, RowTypes DEF IInv, BytesInv, RowsLaidOut
<1>3. /\ c.held \in Seq(Nat) /\ Len(c.held) = file[k].chunk
      /\ \/ disk[k].stream = "closed" /\ c.held = disk[k].held
         \/ /\ disk[k].stream = "open" /\ c.held[file[k].chunk] = file[k].size
            /\ \A j \in 1 .. (file[k].chunk - 1) : c.held[j] = disk[k].held[j]
  BY <1>1, ClosingsAre
<1>4. (index[k][i].chunk = file[k].chunk /\ disk[k].stream = "open") \/ RowHeld(k, i)
  BY DEF HeldInv, RowWaits
<1>5. CASE disk[k].stream = "closed"
  BY <1>2, <1>3, <1>4, <1>5 DEF RowHeld
<1>6. CASE disk[k].stream = "open" /\ index[k][i].chunk = file[k].chunk
  BY <1>2, <1>3, <1>6
<1>7. CASE disk[k].stream = "open" /\ index[k][i].chunk # file[k].chunk
  <2>1. index[k][i].chunk \in 1 .. (file[k].chunk - 1)
    BY <1>2, <1>7
  <2>2. c.held[index[k][i].chunk] = disk[k].held[index[k][i].chunk]
    BY <1>3, <1>7, <2>1
  <2> QED
    BY <1>2, <1>3, <1>4, <1>7, <2>2 DEF RowHeld
<1> QED
  BY <1>3, <1>5, <1>6, <1>7

\* What every step but a start and the end of a stop does to the session.
LEMMA WhileOpen ==
  ASSUME Types, MoreTypes, StopInv, Next, ~StartAction, ~FinishStop
  PROVE  /\ UNCHANGED <<session, manifest>> /\ (failed => failed')
         /\ ~session.open => writer.pc = "none"
<1>1. CASE Stop
  BY <1>1 DEF Stop, StopInv
<1>2. CASE ~Stop
  <2>1. WorkMove
    BY <1>2, WorkIsMove
  <2> QED
    BY <2>1 DEF WorkMove, StopInv
<1> QED
  BY <1>1, <1>2

LEMMA RollOverHeld ==
  ASSUME IInv, DiskInv, HeldInv, MoreTypes, RollOver
  PROVE  HeldInv'
<1> SUFFICES ASSUME Healthy' PROVE HeldInv'
  BY DEF HeldInv
<1>1. Types
  BY DEF IInv
<1>0. PICK k \in Kinds : writer.job.kind = k
  BY <1>1, JobsAreJobs DEF RollOver, Types, Busy
<1>2. k \in Kinds /\ writer.pc = "taken" /\ UNCHANGED <<session, failed, index>>
  BY DEF RollOver
<1>3. PICK c \in Closings(k), opens \in BOOLEAN :
        /\ file' = IF c.ok THEN [file EXCEPT ![k] = [chunk |-> @.chunk + 1, size |-> 0]] ELSE file
        /\ disk' = [disk EXCEPT ![k] = [stream |-> IF c.ok /\ opens THEN "open" ELSE "closed",
                                       held |-> IF c.ok THEN Append(c.held, 0) ELSE c.held]]
        /\ writer' = [writer EXCEPT !.pc = IF c.ok /\ opens THEN @ ELSE "failing"]
  BY <1>0, Zenon DEF RollOver
<1>4. c.ok /\ opens
  <2>1. CASE ~(c.ok /\ opens)
    <3>1. writer' = [writer EXCEPT !.pc = "failing"]
      BY <1>3, <2>1
    <3>2. writer'.pc = "failing"
      BY <1>1, <3>1 DEF Types, Writers
    <3> QED
      BY <3>2 DEF Healthy
  <2> QED
    BY <2>1
<1>5. disk' = [disk EXCEPT ![k] = [stream |-> "open", held |-> Append(c.held, 0)]]
  BY <1>3, <1>4
<1>6. Healthy /\ writer'.pc # "payload"
  BY <1>1, <1>2, RollOverKeepsJob DEF Healthy, Types
<1>7. \A l \in Kinds \ {k} : file'[l] = file[l] /\ disk'[l] = disk[l]
  BY <1>1, <1>2, <1>3, <1>4, <1>5 DEF Types, Files, DiskInv, Disks
<1>8. disk'[k].stream = "open" /\ disk'[k].held = Append(c.held, 0)
  BY <1>2, <1>5 DEF DiskInv, Disks
<1>9. ASSUME NEW i \in DOMAIN index[k] PROVE RowHeld(k, i)'
  <2>1. /\ index[k][i].offset + index[k][i].bytes <= c.held[index[k][i].chunk]
        /\ index[k][i].chunk \in 1 .. Len(c.held)
    BY <1>2, <1>3, <1>4, <1>6, ClosedRows
  <2>2. c.held \in Seq(Nat)
    BY <1>1, <1>2, ClosingsAre
  <2>3. Append(c.held, 0)[index[k][i].chunk] = c.held[index[k][i].chunk]
    BY <2>1, <2>2
  <2> QED
    BY <1>2, <1>8, <2>1, <2>3 DEF RowHeld
<1>10. ASSUME NEW l \in Kinds \ {k}
       PROVE  /\ disk'[l].stream # "bad"
              /\ \A i \in DOMAIN index'[l] : RowWaits(l, i)' \/ RowHeld(l, i)'
  BY <1>2, <1>6, <1>7 DEF HeldInv, RowWaits, RowHeld
<1> QED
  BY <1>2, <1>6, <1>8, <1>9, <1>10 DEF HeldInv

LEMMA PayloadHeld ==
  ASSUME IInv, DiskInv, HeldInv, MoreTypes, WritePayload
  PROVE  HeldInv'
<1> SUFFICES ASSUME Healthy' PROVE HeldInv'
  BY DEF HeldInv
<1> DEFINE k == writer.job.kind
<1>1. Types
  BY DEF IInv
<1>2. /\ k \in Kinds /\ writer.pc = "taken" /\ UNCHANGED <<session, failed, index>> /\ writer.job \in Jobs
      /\ ~Rolls(writer.job)
  BY <1>1, JobsAreJobs DEF WritePayload, Types, Busy
<1>3. PICK n \in 0 .. writer.job.bytes :
        /\ file' = [file EXCEPT ![k].size = @ + n]
        /\ disk' = [disk EXCEPT ![k].stream = IF n = writer.job.bytes THEN @ ELSE "bad"]
        /\ writer' = [writer EXCEPT !.pc = IF n = writer.job.bytes THEN "payload" ELSE "failing"]
  BY Zenon DEF WritePayload
<1>4. n = writer.job.bytes
  <2>1. CASE n # writer.job.bytes
    <3>1. writer' = [writer EXCEPT !.pc = "failing"]
      BY <1>3, <2>1
    <3>2. writer'.pc = "failing"
      BY <1>1, <3>1 DEF Types, Writers
    <3> QED
      BY <3>2 DEF Healthy
  <2> QED
    BY <2>1
<1>5. disk' = disk
  BY <1>2, <1>3, <1>4 DEF DiskInv, Disks
<1>6. \A l \in Kinds : file'[l].chunk = file[l].chunk
  BY <1>1, <1>2, <1>3 DEF Types, Files
<1>7. Healthy
  BY <1>2 DEF Healthy
<1>8. disk[k].stream = "open"
  <2>1. disk[k].stream # "closed"
    BY <1>2 DEF Rolls
  <2>2. disk[k].stream # "bad"
    BY <1>2, <1>7 DEF HeldInv
  <2> QED
    BY <1>2, <2>1, <2>2, DiskTypes
<1>9. writer'.job = writer.job
  BY <1>1, <1>3 DEF Types, Writers
<1>10. \A l \in Kinds : \A i \in DOMAIN index'[l] : RowWaits(l, i)' \/ RowHeld(l, i)'
  BY <1>2, <1>5, <1>6, <1>7 DEF HeldInv, RowWaits, RowHeld
<1> QED
  BY <1>2, <1>5, <1>7, <1>8, <1>9, <1>10 DEF HeldInv

\* The row that is committed is of the payload that ends the open chunk.
LEMMA IndexHeld ==
  ASSUME IInv, DiskInv, HeldInv, MoreTypes, IndexFrameSet \/ IndexBatch
  PROVE  HeldInv'
<1> SUFFICES ASSUME Healthy' PROVE HeldInv'
  BY DEF HeldInv
<1> DEFINE k == writer.job.kind
<1>1. Types
  BY DEF IInv
<1>2. /\ writer.pc = "payload" /\ writer' = [pc |-> "idle", job |-> NoJob]
      /\ UNCHANGED <<session, file, disk>> /\ (failed => failed')
  <2>1. CASE IndexFrameSet
    <3>1. CASE failed
      BY <2>1, <3>1, Zenon DEF IndexFrameSet
    <3>2. CASE ~failed
      BY <2>1, <3>2, Zenon DEF IndexFrameSet
    <3> QED
      BY <3>1, <3>2
  <2>2. CASE IndexBatch
    <3>1. CASE failed
      BY <2>2, <3>1, Zenon DEF IndexBatch
    <3>2. CASE ~failed
      BY <2>2, <3>2, Zenon DEF IndexBatch
    <3> QED
      BY <3>1, <3>2
  <2> QED
    BY <2>1, <2>2
<1>3. k \in Kinds
  BY <1>1, <1>2, JobsAreJobs DEF Types, Busy
<1>4. Healthy /\ disk[k].stream = "open"
  BY <1>2 DEF Healthy, HeldInv
<1>5. /\ \A l \in Kinds \ {k} : index'[l] = index[l]
      /\ \/ index'[k] = index[k]
         \/ \E r : index'[k] = Append(index[k], r) /\ r.chunk = file[k].chunk
  <2>1. index \in Indices
    BY <1>1 DEF Types
  <2>2. CASE IndexFrameSet
    <3>1. k = "frame"
      BY <2>2 DEF IndexFrameSet
    <3>2. CASE failed
      BY <2>2, <3>2, Zenon DEF IndexFrameSet
    <3>3. CASE ~failed
      <4>1. PICK ok : index' = [index EXCEPT !.frame = Append(@, [Row(writer.job) EXCEPT !.images = ok])]
        BY <2>2, <3>3, Zenon DEF IndexFrameSet
      <4> DEFINE r == [Row(writer.job) EXCEPT !.images = ok]
      <4>2. r.chunk = file[k].chunk
        BY DEF Row
      <4> HIDE DEF r
      <4>3. index' = [index EXCEPT !["frame"] = Append(index["frame"], r)]
        BY <4>1 DEF r
      <4> QED
        BY <2>1, <3>1, <4>2, <4>3 DEF Indices, Kinds
    <3> QED
      BY <3>2, <3>3
  <2>3. CASE IndexBatch
    <3>1. k = "lidar"
      BY <2>3 DEF IndexBatch
    <3>2. CASE index' = index
      BY <3>2
    <3>3. CASE index' = [index EXCEPT !.lidar = Append(@, Row(writer.job))]
      <4> DEFINE r == Row(writer.job)
      <4>1. r.chunk = file[k].chunk
        BY DEF Row
      <4> HIDE DEF r
      <4>2. index' = [index EXCEPT !["lidar"] = Append(index["lidar"], r)]
        BY <3>3 DEF r
      <4> QED
        BY <2>1, <3>1, <4>1, <4>2 DEF Indices, Kinds
    <3> QED
      BY <2>3, <3>2, <3>3, Zenon DEF IndexBatch
  <2> QED
    BY <2>2, <2>3
<1> HIDE DEF k
<1>6. ASSUME NEW l \in Kinds, NEW i \in DOMAIN index[l]
      PROVE  RowWaits(l, i) \/ RowHeld(l, i)
  BY <1>4 DEF HeldInv
<1>7. \A l \in Kinds : disk'[l].stream # "bad"
  BY <1>2, <1>4 DEF HeldInv
<1>8. ASSUME NEW l \in Kinds, NEW i \in DOMAIN index'[l]
      PROVE  RowWaits(l, i)' \/ RowHeld(l, i)'
  <2>1. CASE index'[l] = index[l]
    BY <1>2, <1>6, <2>1 DEF RowWaits, RowHeld
  <2>2. CASE l = k /\ index'[k] # index[k]
    <3>1. PICK r : index'[k] = Append(index[k], r) /\ r.chunk = file[k].chunk
      BY <1>5, <2>2
    <3>2. index[k] \in Seq(Rows)
      BY <1>1, <1>3 DEF Types, Indices
    <3>3. /\ i \in DOMAIN index[k] \/ i = Len(index[k]) + 1
          /\ i \in DOMAIN index[k] => index'[k][i] = index[k][i]
          /\ i = Len(index[k]) + 1 => index'[k][i] = r
      BY <2>2, <3>1, <3>2
    <3>4. CASE i \in DOMAIN index[k]
      BY <1>2, <1>6, <2>2, <3>3, <3>4 DEF RowWaits, RowHeld
    <3>5. CASE i = Len(index[k]) + 1
      BY <1>2, <1>4, <2>2, <3>1, <3>3, <3>5 DEF RowWaits
    <3> QED
      BY <3>3, <3>4, <3>5
  <2> QED
    BY <1>5, <2>1, <2>2
<1> QED
  BY <1>2, <1>7, <1>8 DEF HeldInv

\* Only the commit of a row and a start move the indexes.
LEMMA IndexStays ==
  ASSUME Next, ~IndexFrameSet, ~IndexBatch, ~StartAction
  PROVE  index' = index
<1>1. CASE Capture
  <2>1. ASSUME NEW f \in FrameSets, CheckFrameSet(f) PROVE index' = index
    BY <2>1, Zenon DEF CheckFrameSet
  <2>2. ASSUME NEW b \in Batches, CheckLidar(b) PROVE index' = index
    BY <2>2, Zenon DEF CheckLidar
  <2>3. AppendFrameSet => index' = index
    BY Zenon DEF AppendFrameSet
  <2>4. AppendFrameSetThrows \/ AppendLidarThrows \/ MarkAppendFailed => index' = index
    BY Zenon DEF AppendFrameSetThrows, AppendLidarThrows, MarkAppendFailed
  <2>5. AppendLidar => index' = index
    BY Zenon DEF AppendLidar
  <2> QED
    BY <1>1, <2>1, <2>2, <2>3, <2>4, <2>5, Zenon DEF Capture
<1>2. CASE AppendDirect
  BY <1>2, Zenon DEF AppendDirect
<1>3. CASE Writer
  <2>1. TakeJob \/ WriterStops => index' = index
    BY Zenon DEF TakeJob, WriterStops
  <2>2. RollOver \/ WritePayload => index' = index
    BY Zenon DEF RollOver, WritePayload
  <2>3. MarkPayloadFailed \/ WriterThrows => index' = index
    BY Zenon DEF MarkPayloadFailed, WriterThrows
  <2> QED
    BY <1>3, <2>1, <2>2, <2>3, Zenon DEF Writer
<1>4. CASE Gui
  <2>1. Stop \/ FinishStop => index' = index
    BY Zenon DEF Stop, FinishStop
  <2> QED
    BY <1>4, <2>1, Zenon DEF Gui, StartAction
<1> QED
  BY <1>1, <1>2, <1>3, <1>4, Zenon DEF Next

\* The other steps: an unhealthy recording does not recover.
LEMMA OthersHeld ==
  ASSUME IInv, HeldInv, MoreTypes, StopInv, Next, ~StartAction, ~FinishStop, ~RollOver,
         ~WritePayload, ~IndexFrameSet, ~IndexBatch
  PROVE  HeldInv'
<1> SUFFICES ASSUME Healthy' PROVE HeldInv'
  BY DEF HeldInv
<1>1. Types
  BY DEF IInv
<1>2. UNCHANGED <<file, disk, index>>
  BY FilesStay, IndexStays DEF StartAction
<1>3. UNCHANGED session /\ (failed => failed')
  BY <1>1, WhileOpen
<1>4. writer.pc = "failing" => writer'.pc = "failing" \/ failed'
  <2>1. CASE writer' = writer
    BY <2>1
  <2>2. CASE MarkPayloadFailed \/ WriterThrows
    BY <2>2 DEF MarkPayloadFailed, WriterThrows
  <2>3. TakeJob \/ WriterStops => writer.pc = "idle"
    BY Zenon DEF TakeJob, WriterStops
  <2>4. CASE Writer
    BY <2>2, <2>3, <2>4 DEF Writer
  <2>5. CASE Capture \/ AppendDirect \/ Stop
    <3>1. ASSUME NEW f \in FrameSets, CheckFrameSet(f) PROVE writer' = writer
      BY <3>1, Zenon DEF CheckFrameSet
    <3>2. ASSUME NEW b \in Batches, CheckLidar(b) PROVE writer' = writer
      BY <3>2, Zenon DEF CheckLidar
    <3>3. AppendFrameSet => writer' = writer
      BY Zenon DEF AppendFrameSet
    <3>4. AppendFrameSetThrows \/ AppendLidarThrows \/ MarkAppendFailed => writer' = writer
      BY Zenon DEF AppendFrameSetThrows, AppendLidarThrows, MarkAppendFailed
    <3>5. AppendLidar => writer' = writer
      BY Zenon DEF AppendLidar
    <3>6. AppendDirect \/ Stop => writer' = writer
      BY Zenon DEF AppendDirect, Stop
    <3>7. writer' = writer
      BY <2>5, <3>1, <3>2, <3>3, <3>4, <3>5, <3>6, Zenon DEF Capture
    <3> QED
      BY <2>1, <3>7
  <2> QED
    BY <2>4, <2>5, Zenon DEF Next, Gui, StartAction
<1>5. Healthy
  BY <1>3, <1>4 DEF Healthy
<1>6. writer'.pc = "payload" => writer.pc = "payload" /\ writer'.job = writer.job
  <2>1. TakeJob => writer'.pc = "taken"
    BY DEF TakeJob
  <2>2. WriterStops \/ MarkPayloadFailed \/ WriterThrows => writer'.pc # "payload"
    BY DEF WriterStops, MarkPayloadFailed, WriterThrows
  <2>3. CASE Writer
    BY <2>1, <2>2, <2>3 DEF Writer
  <2>4. CASE Capture \/ AppendDirect \/ Stop
    <3>1. ASSUME NEW f \in FrameSets, CheckFrameSet(f) PROVE writer' = writer
      BY <3>1, Zenon DEF CheckFrameSet
    <3>2. ASSUME NEW b \in Batches, CheckLidar(b) PROVE writer' = writer
      BY <3>2, Zenon DEF CheckLidar
    <3>3. AppendFrameSet => writer' = writer
      BY Zenon DEF AppendFrameSet
    <3>4. AppendFrameSetThrows \/ AppendLidarThrows \/ MarkAppendFailed => writer' = writer
      BY Zenon DEF AppendFrameSetThrows, AppendLidarThrows, MarkAppendFailed
    <3>5. AppendLidar => writer' = writer
      BY Zenon DEF AppendLidar
    <3>6. AppendDirect \/ Stop => writer' = writer
      BY Zenon DEF AppendDirect, Stop
    <3>7. writer' = writer
      BY <2>4, <3>1, <3>2, <3>3, <3>4, <3>5, <3>6, Zenon DEF Capture
    <3> QED
      BY <3>7
  <2> QED
    BY <2>3, <2>4, Zenon DEF Next, Gui, StartAction
<1> QED
  BY <1>2, <1>5, <1>6 DEF HeldInv, RowWaits, RowHeld

\* stop() writes complete=1 only after both closes have succeeded.
LEMMA EndStep ==
  ASSUME IInv, DiskInv, MoreTypes, StopInv, HeldInv, EndInv, Next, ~StartAction
  PROVE  EndInv'
<1> SUFFICES ASSUME manifest' = "complete" PROVE PayloadsHeld'
  BY DEF EndInv
<1>1. Types
  BY DEF IInv
<1>2. CASE FinishStop
  <2>1. /\ gui = "joining" /\ writer.pc \in {"exited", "none"} /\ UNCHANGED index
    BY <1>2, Zenon DEF FinishStop
  <2>2. session.open /\ manifest = "incomplete"
    BY <2>1 DEF StopInv
  <2>3. PICK f \in Closings("frame"), b \in Closings("lidar"), rest \in BOOLEAN, committed \in BOOLEAN :
          /\ disk' = [k \in Kinds |-> [stream |-> "closed", held |-> IF k = "frame" THEN f.held ELSE b.held]]
          /\ manifest' = IF committed
                         THEN (IF failed \/ Lacks \/ ~f.ok \/ ~b.ok \/ ~rest THEN "incomplete" ELSE "complete")
                         ELSE manifest
    BY <1>2, Zenon DEF FinishStop
  <2>4. ~failed /\ f.ok /\ b.ok
    <3>1. CASE ~committed
      BY <2>2, <2>3, <3>1
    <3>2. CASE failed \/ ~f.ok \/ ~b.ok
      BY <2>2, <2>3, <3>2
    <3> QED
      BY <3>1, <3>2
  <2>5. Healthy
    BY <2>1, <2>2, <2>4 DEF Healthy
  <2>6. \A i \in DOMAIN index["frame"] :
          index["frame"][i].offset + index["frame"][i].bytes <= f.held[index["frame"][i].chunk]
    BY <2>3, <2>4, <2>5, ClosedRows DEF Kinds
  <2>7. \A i \in DOMAIN index["lidar"] :
          index["lidar"][i].offset + index["lidar"][i].bytes <= b.held[index["lidar"][i].chunk]
    BY <2>3, <2>4, <2>5, ClosedRows DEF Kinds
  <2>8. disk'["frame"].held = f.held /\ disk'["lidar"].held = b.held
    BY <2>3 DEF Kinds
  <2> QED
    BY <2>1, <2>6, <2>7, <2>8 DEF PayloadsHeld, Kinds
<1>3. CASE ~FinishStop
  <2>1. UNCHANGED <<session, manifest>> /\ (~session.open => writer.pc = "none")
    BY <1>1, <1>3, WhileOpen
  <2>2. writer.pc = "none" /\ PayloadsHeld
    BY <2>1 DEF StopInv, EndInv
  <2>3. ~RollOver /\ ~WritePayload /\ ~IndexFrameSet /\ ~IndexBatch
    BY <2>2 DEF RollOver, WritePayload, IndexFrameSet, IndexBatch
  <2>4. UNCHANGED <<disk, index>>
    BY <1>3, <2>3, FilesStay, IndexStays DEF StartAction
  <2> QED
    BY <2>2, <2>4 DEF PayloadsHeld
<1> QED
  BY <1>2, <1>3

LEMMA HeldStep ==
  ASSUME IInv, DiskInv, AccountsInv, HeldInv, EndInv, [Next]_vars
  PROVE  HeldInv' /\ EndInv'
<1>1. Types /\ MoreTypes /\ StopInv
  BY DEF IInv, AccountsInv
<1>2. CASE UNCHANGED vars
  <2>1. UNCHANGED <<session, failed, file, disk, index, writer, manifest>>
    BY <1>2, Zenon DEF vars
  <2> QED
    BY <2>1 DEF HeldInv, EndInv, Healthy, RowWaits, RowHeld, PayloadsHeld
<1>3. CASE StartAction
  <2>1. PICK policy \in Policies, mode \in Modes, opens \in BOOLEAN : Start(policy, mode, opens)
    BY <1>3, Zenon DEF StartAction
  <2>2. /\ disk' = [k \in Kinds |-> FreshDisk] /\ index' = [k \in Kinds |-> <<>>]
        /\ writer'.pc # "payload" /\ manifest' # "complete"
    BY <2>1 DEF Start
  <2>3. \A k \in Kinds : disk'[k].stream = "closed" /\ DOMAIN index'[k] = {}
    BY <2>2 DEF FreshDisk
  <2> QED
    BY <2>2, <2>3 DEF HeldInv, EndInv
<1>4. CASE Next /\ ~StartAction
  <2>1. EndInv'
    BY <1>1, <1>4, EndStep
  <2>2. CASE FinishStop
    <3>1. session' = [session EXCEPT !.open = FALSE]
      BY <2>2, Zenon DEF FinishStop
    <3>2. ~session'.open
      BY <1>1, <3>1 DEF MoreTypes
    <3> QED
      BY <2>1, <3>2 DEF HeldInv, Healthy
  <2>3. CASE RollOver
    BY <1>1, <2>1, <2>3, RollOverHeld
  <2>4. CASE WritePayload
    BY <1>1, <2>1, <2>4, PayloadHeld
  <2>5. CASE IndexFrameSet \/ IndexBatch
    BY <1>1, <2>1, <2>5, IndexHeld
  <2>6. CASE ~FinishStop /\ ~RollOver /\ ~WritePayload /\ ~IndexFrameSet /\ ~IndexBatch
    BY <1>1, <1>4, <2>1, <2>6, OthersHeld
  <2> QED
    BY <2>2, <2>3, <2>4, <2>5, <2>6
<1> QED
  BY <1>2, <1>3, <1>4

(* openNextCameraChunk, openNextLidarChunk and closeFiles: under           *)
(* complete=1 every row points at bytes that its chunk file holds and that *)
(* belong to no other row, although rows are committed while their         *)
(* payloads may still be buffered, and any write, flush or open may fail.  *)
THEOREM BytesCorrect == Spec => []CompleteHasPayloads
<1>1. Init => HeldInv /\ EndInv
  <2> SUFFICES ASSUME Init PROVE HeldInv /\ EndInv
    OBVIOUS
  <2>1. ~session.open /\ manifest = "none"
    BY DEF Init
  <2> QED
    BY <2>1 DEF HeldInv, Healthy, EndInv
<1>2. IInv /\ DiskInv /\ AccountsInv /\ HeldInv /\ EndInv /\ [Next]_vars => (HeldInv /\ EndInv)'
  BY HeldStep
<1>3. IInv /\ EndInv => CompleteHasPayloads
  BY DEF IInv, BytesInv, EndInv, CompleteHasPayloads
<1> QED
  BY <1>1, <1>2, <1>3, RecorderCorrect, AccountsCorrect, PTL DEF Spec
================================================================================
