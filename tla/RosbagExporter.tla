---------------------------- MODULE RosbagExporter -----------------------------
(***************************************************************************)
(* exportDatasetToRosbag (dataset/rosbag_exporter.cpp): a dataset becomes  *)
(* one ROS1 bag file or one ROS2 bag directory, written beside the output  *)
(* and swapped with it at the end.                                         *)
(*                                                                         *)
(* The export runs on the GUI thread; its progress callback runs the event *)
(* loop, in which the user may press Cancel.  A step is one row of an      *)
(* index, or one operation on the output.  Any of them may fail, and the   *)
(* viewer may be killed between two of them.                               *)
(***************************************************************************)
EXTENDS DatasetDirectory, FiniteSets

CONSTANTS
  Directories, \* the datasets that are exported
  ChunkTarget, \* kChunkTargetBytes, in records
  Period,      \* kFramePeriodNs
  AnchorGap,   \* the least distance of two receive-time anchors
  AnchorReach  \* the farthest anchor a position is timed by

ASSUME ExporterAssumption ==
  /\ {ChunkTarget, Period, AnchorGap} \subseteq Nat \ {0}
  /\ AnchorReach \in Nat

\* What a directory holds: times are unsigned and fit the ROS time of the format,
\* the offset of a point is signed.
IndexRows ==
  [at : Nat, flaw : {"none", "row", "exposure", "loose", "device", "batch", "range", "payload",
                      "overlap", "unsynced"},
   model : {"livox", "xt32"}, points : Seq(Int), span : Nat]
ASSUME DirectoriesAssumption ==
  \A d \in Directories :
    /\ d.rows \in [Files -> Seq(IndexRows)]
    /\ \A f \in Files : \A i \in DOMAIN d.rows[f] :
         /\ d.rows[f][i].flaw \in {"exposure", "loose"} => f \in Cams
         /\ d.rows[f][i].flaw \in {"device", "batch"} => f = "lidar"
    /\ d.manifest.version \in Nat /\ {d.manifest.images, d.manifest.lidarImu} \subseteq BOOLEAN
    /\ d.gnss \in [positions : Seq([elapsed : Nat]), quality : Seq([elapsed : Nat]),
                  anchors : Seq([elapsed : Nat, stamp : Nat]),
                  malformed : SUBSET {"positions", "quality", "anchors"}]

VARIABLES
  dataset,   \* dataset_root, as it is on disk
  request,   \* the format, whether to overwrite, and (not in the code) what was there
  disk,      \* what is at the output, the temporary and the backup path
  bag,       \* the writer
  export,    \* the locals of the function
  cancelled  \* the progress dialog was cancelled

exportVars == <<dataset, request, disk, bag, export, cancelled>>

\* The order in which the streams are written.
Order == <<"cam0", "cam1", "cam2", "cam3", "imu0", "imu1", "lidar", "lidarImu", "position",
           "quality">>

NoDirectory == [files |-> {}]
NoFrame == [active |-> FALSE, start |-> 0, points |-> <<>>]
NoExport == [pc |-> "check", stream |-> 1, row |-> 1, sequence |-> 0, previous |-> 0,
         frame |-> NoFrame, error |-> "none"]

--------------------------------------------------------------------------------
(***************************************************************************)
(* What may be exported: the version, the v6 layout, the index files.      *)
(***************************************************************************)
\* readV6DatasetLayout
LayoutAccepted(m) ==
  /\ m.wellFormed /\ m.complete /\ m.known
  /\ m.time \in {"unix", "boot"} /\ m.common
  /\ m.mode \in {"full", "imu-only"}
  /\ m.mode = "full" <=> m.images
  /\ m.mode = "full" /\ (m.lidar # "none") # m.lidarImu => m.lidar = "point-time"
  /\ m.mode # "full" => m.lidar = "none"

\* The streams that get topics: as declared (v6), or as found.
ExportsCameras(d)  == IF Strict(d) THEN d.manifest.images ELSE HasCameras(d)
ExportsLidar(d)    == IF Strict(d) THEN DeclaresLidar(d) ELSE Rows(d, "lidar") # <<>>
ExportsLidarImu(d) == IF Strict(d) THEN d.manifest.lidarImu ELSE Rows(d, "lidarImu") # <<>>
Exports(d, s) ==
  CASE s \in Cams       -> ExportsCameras(d)
    [] s \in Imus       -> TRUE
    [] s = "lidar"      -> ExportsLidar(d)
    [] s = "lidarImu"   -> ExportsLidarImu(d)
    [] s = "position"   -> d.gnss.positions # <<>>
    [] s = "quality"    -> d.gnss.quality # <<>>

\* For v6 a declared stream has its file, and rows; another has no file.
AsDeclared(d, f, declared) ==
  IF declared THEN f \in d.files /\ Rows(d, f) # <<>> ELSE f \notin d.files

\* The first pass, which counts the rows of every index.
CountAccepted(d) ==
  /\ IF Strict(d)
     THEN /\ Cams \cap d.files = (IF d.manifest.images THEN Cams ELSE {})
          /\ d.manifest.images => /\ Rows(d, "cam0") # <<>>
                                  /\ \A c \in Cams : Len(Rows(d, c)) = Len(Rows(d, "cam0"))
          /\ \E i \in Imus : Rows(d, i) # <<>>
          /\ AsDeclared(d, "lidar", ExportsLidar(d))
          /\ AsDeclared(d, "lidarImu", ExportsLidarImu(d))
     ELSE HasCameras(d) \/ Cams \cap d.files = {}
  /\ Imus \subseteq d.files

\* gnss_bag::load: positions have no common clock, and are timed by the nearest
\* receive-time anchor of the onboard IMUs.
AnchorsOf(samples) ==
  FoldLeft(LAMBDA kept, a : IF kept = <<>> \/ a.elapsed - Last(kept).elapsed >= AnchorGap
                            THEN Append(kept, a) ELSE kept,
           <<>>, samples)
Anchors(d) == AnchorsOf(d.gnss.anchors)
AnchorsRegress(d) ==
  \E i \in 2 .. Len(d.gnss.anchors) :
    d.gnss.anchors[i].elapsed < Last(AnchorsOf(SubSeq(d.gnss.anchors, 1, i - 1))).elapsed
Distance(a, b) == IF a > b THEN a - b ELSE b - a
\* The later anchor only when it is strictly nearer.
Nearest(anchors, t) ==
  LET after == {i \in DOMAIN anchors : anchors[i].elapsed >= t}
      next  == Min(after)
  IN IF after = {} THEN Last(anchors)
     ELSE IF next > 1 /\ Distance(anchors[next - 1].elapsed, t) <= Distance(anchors[next].elapsed, t)
     THEN anchors[next - 1] ELSE anchors[next]
StampOf(d, t) == LET a == Nearest(Anchors(d), t) IN a.stamp + t - a.elapsed
Timed(d, t) ==
  LET a == Nearest(Anchors(d), t)
  IN Distance(a.elapsed, t) <= AnchorReach /\ a.stamp + t >= a.elapsed
GnssRows(d) == d.gnss.positions \o d.gnss.quality
\* readCsv: a malformed row throws, wherever it is.  The anchors are read only
\* when there is something to time by them.
GnssParsed(d) == {"positions", "quality"} \cap d.gnss.malformed = {}
GnssAccepted(d) ==
  /\ GnssParsed(d)
  /\ GnssRows(d) # <<>> => /\ "anchors" \notin d.gnss.malformed
                           /\ d.gnss.anchors # <<>> /\ ~AnchorsRegress(d)
                           /\ \A i \in DOMAIN GnssRows(d) : Timed(d, GnssRows(d)[i].elapsed)

\* Every check before the output is touched: the first pass with the rows of the
\* GNSS files, then the times of these rows.
FirstPassAccepted(d) ==
  /\ d.manifest.version <= 6
  /\ Strict(d) => LayoutAccepted(d.manifest)
  /\ CountAccepted(d)
  /\ GnssParsed(d)
SecondPassAccepted(d) ==
  /\ GnssAccepted(d)
  /\ GnssRows(d) # <<>> \/ \E f \in Files : Exports(d, f) /\ Rows(d, f) # <<>>

--------------------------------------------------------------------------------
(***************************************************************************)
(* The writers.  A message is its topic, its time and the row, the points  *)
(* or the position it was made from.                                       *)
(***************************************************************************)
NewBag(topics) ==
  [topics |-> topics, records |-> <<>>, chunk |-> <<>>, embedded |-> {}, index |-> <<>>,
   chunks |-> <<>>, count |-> 0, indexAt |-> 0, metadata |-> <<>>]

Message(topic, at, of) == [kind |-> "message", topic |-> topic, at |-> at, of |-> of]

\* The entries with one of the values in that field, in their order.
Where(entries, field, values) ==
  FoldLeft(LAMBDA kept, e : IF e[field] \in values THEN Append(kept, e) ELSE kept, <<>>, entries)
TimesAt(entries) == {entries[i].at : i \in DOMAIN entries}
OfTopic(entries, t) == Where(entries, "topic", {t})
CountsOf(entries) == [t \in {entries[i].topic : i \in DOMAIN entries} |-> Len(OfTopic(entries, t))]
IndexRecord(b, t) ==
  IF OfTopic(b.index, t) = <<>> THEN <<>>
  ELSE <<[kind |-> "index", topic |-> t, entries |-> OfTopic(b.index, t)]>>
IndexRecords(b) == FlattenSeq([i \in DOMAIN b.topics |-> IndexRecord(b, b.topics[i])])

\* flushChunk: the chunk, the index of each of its connections, and what the
\* end of the file will say about it.
\* Fault: the index of the chunk is not cleared.
FlushChunk_Fault(b) ==
  IF b.index = <<>> THEN b
  ELSE [b EXCEPT
          !.records = @ \o <<[kind |-> "chunk", data |-> b.chunk]>> \o IndexRecords(b),
          !.chunks  = Append(@, [position |-> Len(b.records) + 1, start |-> Min(TimesAt(b.index)),
                                 end |-> Max(TimesAt(b.index)), counts |-> CountsOf(b.index)]),
          !.chunk   = <<>>]
FlushChunk(b) ==
  IF b.index = <<>> THEN b
  ELSE [b EXCEPT
          !.records = @ \o <<[kind |-> "chunk", data |-> b.chunk]>> \o IndexRecords(b),
          !.chunks  = Append(@, [position |-> Len(b.records) + 1, start |-> Min(TimesAt(b.index)),
                                 end |-> Max(TimesAt(b.index)), counts |-> CountsOf(b.index)]),
          !.chunk   = <<>>,
          !.index   = <<>>]

\* Ros1BagWriter::writeMessageNs: the first message of a connection brings the
\* connection record into its chunk.
Ros1Message(b, m) ==
  LET known == IF m.topic \in b.embedded THEN b.chunk
               ELSE Append(b.chunk, [kind |-> "connection", topic |-> m.topic])
      next  == [b EXCEPT
                  !.embedded = @ \cup {m.topic},
                  !.chunk    = Append(known, m),
                  !.index    = Append(@, [topic |-> m.topic, at |-> m.at, offset |-> Len(known)]),
                  !.count    = @ + 1]
  IN IF Len(next.chunk) >= ChunkTarget THEN FlushChunk(next) ELSE next

\* Ros2BagWriter::writeMessageNs: an insertion in the open transaction.
Ros2Message(b, m) ==
  [b EXCEPT !.records = Append(@, m), !.count = @ + 1]

Put(b, m) == IF request.format = "ros1" THEN Ros1Message(b, m) ELSE Ros2Message(b, m)
PutAll(b, messages) == FoldLeft(Put, b, messages)

\* finish(): ROS1 lists the connections and the chunks, and lets the header
\* point there; ROS2 commits the transaction and writes metadata.yaml.
Ros1Finished(b) ==
  LET f == FlushChunk(b)
  IN [f EXCEPT !.records = @ \o [i \in DOMAIN f.topics |-> [kind |-> "connection", topic |-> f.topics[i]]]
                             \o [i \in DOMAIN f.chunks |-> [kind |-> "chunkInfo", chunk |-> f.chunks[i]]],
               !.indexAt = Len(f.records) + 1]
Ros2Finished(b) ==
  [b EXCEPT !.metadata = <<[count |-> b.count, start |-> Min(TimesAt(b.records)),
                            end |-> Max(TimesAt(b.records)), counts |-> CountsOf(b.records)]>>]
Finished(b) == IF request.format = "ros1" THEN Ros1Finished(b) ELSE Ros2Finished(b)

--------------------------------------------------------------------------------
(***************************************************************************)
(* LidarFrameAccumulator: points join the frame of their 100 ms window.    *)
(***************************************************************************)
\* XT32 points carry their own times, and are sorted (stable_sort); Livox points
\* are spread evenly over the interval of the batch.
OwnTimes(r) ==
  LET n      == Len(r.points)
      sorted == InPlaces({[at |-> r.at + r.points[i], stream |-> "lidar", index |-> i] : i \in 1 .. n})
  IN  [i \in 1 .. n |-> sorted[i].at]
SpreadTimes(r) ==
  LET n == Len(r.points)
  IN  [i \in 1 .. n |-> r.at + (IF n = 1 THEN 0 ELSE ((i - 1) * r.span + (n - 1) \div 2) \div (n - 1))]
PointTimes(r) == IF r.model = "xt32" THEN OwnTimes(r) ELSE SpreadTimes(r)

FrameFrom(start, t) == [active |-> TRUE, start |-> start, points |-> <<t>>]
\* A point before the window drops what the frame has collected.  A point before
\* the first of its frame has an offset that does not fit, which fails.
AddPoint(s, t) ==
  IF ~s.frame.active \/ t < s.frame.start
  THEN [s EXCEPT !.frame = FrameFrom(t, t)]
  ELSE IF t >= s.frame.start + Period
  THEN [s EXCEPT !.done  = Append(@, s.frame),
                 !.frame = FrameFrom(s.frame.start + ((t - s.frame.start) \div Period) * Period, t)]
  ELSE IF t < Head(s.frame.points)
  THEN [s EXCEPT !.fits = FALSE]
  ELSE [s EXCEPT !.frame.points = Append(@, t)]
Accumulated(frame, r) ==
  FoldLeft(AddPoint, [frame |-> frame, done |-> <<>>, fits |-> TRUE], PointTimes(r))

\* makeRos1PointCloud2
Cloud(frame) == Message(<<"lidar", "points">>, Head(frame.points), frame.points)
Clouds(frames) == [i \in DOMAIN frames |-> Cloud(frames[i])]

--------------------------------------------------------------------------------
(***************************************************************************)
(* The steps of the export.                                                *)
(***************************************************************************)
RowsOf(d, s) ==
  CASE s = "position" -> d.gnss.positions
    [] s = "quality"  -> d.gnss.quality
    [] OTHER          -> Rows(d, s)
TopicsOf(s) ==
  CASE s \in Cams      -> <<<<s, "image">>, <<s, "exposure">>>>
    [] s = "lidar"     -> <<<<s, "points">>>>
    [] s = "position"  -> <<<<s, "fix">>, <<s, "receiver">>, <<s, "recording">>>>
    [] OTHER           -> <<<<s, "data">>>>
Topics(d) ==
  FlattenSeq([k \in DOMAIN Order |-> IF Exports(d, Order[k]) THEN TopicsOf(Order[k]) ELSE <<>>])

\* The messages made of a row; LiDAR rows are collected into frames first.
Messages(d, s, i) ==
  LET r == RowsOf(d, s)[i]
      m(topic, at) == Message(<<s, topic>>, at, i)
  IN CASE s \in Cams      -> <<m("image", r.at), m("exposure", r.at)>>
       [] s = "position"  -> LET at == StampOf(d, r.elapsed)
                             IN <<m("fix", at), m("receiver", at), m("recording", at)>>
       [] s = "quality"   -> <<m("data", StampOf(d, r.elapsed))>>
       [] OTHER           -> <<m("data", r.at)>>

\* The parser of the row and parseTimestampUs, readContainerPayload.
TimeAccepted(d, r) == r.flaw \notin ExporterRefuses /\ InEpoch(d, r.at)
Readable(r)        == r.flaw # "range"

\* What an index row must satisfy to be exported.  The order of LiDAR rows is
\* compared once a frame is complete, that of the others from the second row on.
RowAccepted(d, s, i) ==
  LET r == RowsOf(d, s)[i]
  IN s \in Files =>
       /\ TimeAccepted(d, r)
       /\ s \in Chunked => Readable(r)
       /\ Strict(d) /\ s \in {"lidar", "lidarImu"} => r.flaw # "unsynced"
       /\ s = "lidar" => /\ Strict(d) /\ ~d.manifest.lidarImu => r.model = "xt32"
                         /\ r.flaw # "payload"
                         /\ Accumulated(export.frame, r).fits
       /\ export.sequence # 0 => r.at >= export.previous
       /\ Strict(d) /\ s \in Cams => r.at = Rows(d, "cam0")[i].at

Fail(why) == export' = [export EXCEPT !.pc = "cleanUp", !.error = why]

\* The argument checks and the first pass; then the writer is opened.
UsableOutput ==
  /\ disk.output # "other"
  /\ disk.output # "none" => request.overwrite
Check ==
  /\ export.pc = "check"
  /\ IF ~UsableOutput THEN Fail("output") /\ UNCHANGED <<disk, bag>>
     ELSE IF ~FirstPassAccepted(dataset) THEN Fail("dataset") /\ UNCHANGED <<disk, bag>>
     ELSE IF cancelled /\ dataset.gnss.positions # <<>> THEN Fail("cancelled") /\ UNCHANGED <<disk, bag>>
     ELSE IF ~SecondPassAccepted(dataset) THEN Fail("dataset") /\ UNCHANGED <<disk, bag>>
     ELSE /\ export' = [export EXCEPT !.pc = "rows"]
          /\ disk' = [disk EXCEPT !.temporary = "partial"]
          /\ bag' = NewBag(Topics(dataset))
  /\ UNCHANGED <<dataset, request, cancelled>>

\* One row of the current stream, after which the cancel button is looked at.
IsCurrentRow(s, i) ==
  /\ export.pc = "rows" /\ export.stream <= Len(Order) /\ s = Order[export.stream]
  /\ Exports(dataset, s) /\ i = export.row /\ i <= Len(RowsOf(dataset, s))
Continue(progress) ==
  export' = IF cancelled THEN [progress EXCEPT !.pc = "cleanUp", !.error = "cancelled"] ELSE progress
RefuseRow(s, i) ==
  /\ IsCurrentRow(s, i) /\ ~RowAccepted(dataset, s, i)
  /\ Fail("dataset")
  /\ UNCHANGED <<dataset, request, disk, bag, cancelled>>
WriteRow(s, i) ==
  /\ IsCurrentRow(s, i) /\ s # "lidar" /\ RowAccepted(dataset, s, i)
  /\ bag' = PutAll(bag, Messages(dataset, s, i))
  /\ Continue([export EXCEPT !.row = @ + 1, !.sequence = @ + 1,
                         !.previous = IF s \in Files THEN Rows(dataset, s)[i].at ELSE 0])
  /\ UNCHANGED <<dataset, request, disk, cancelled>>
WriteLidarRow(i) ==
  /\ IsCurrentRow("lidar", i) /\ RowAccepted(dataset, "lidar", i)
  /\ \E a \in {Accumulated(export.frame, Rows(dataset, "lidar")[i])} :
       /\ bag' = PutAll(bag, Clouds(a.done))
       /\ Continue([export EXCEPT !.row = @ + 1, !.sequence = @ + Len(a.done), !.frame = a.frame,
                              !.previous = Rows(dataset, "lidar")[i].at])
  /\ UNCHANGED <<dataset, request, disk, cancelled>>

\* The end of a stream, with the last LiDAR frame, and the check before the next.
EndStream ==
  /\ export.pc = "rows" /\ export.stream <= Len(Order)
  /\ Exports(dataset, Order[export.stream])
       => export.row > Len(RowsOf(dataset, Order[export.stream]))
  /\ IF cancelled THEN Fail("cancelled") /\ UNCHANGED bag
     ELSE /\ bag' = IF export.frame.active THEN Put(bag, Cloud(export.frame)) ELSE bag
          /\ export' = [NoExport EXCEPT !.pc = IF export.stream = Len(Order) THEN "finish" ELSE "rows",
                                    !.stream = export.stream + 1]
  /\ UNCHANGED <<dataset, request, disk, cancelled>>

FinishBag ==
  /\ export.pc = "finish"
  /\ IF bag.count = 0 THEN Fail("dataset") /\ UNCHANGED <<disk, bag>>
     ELSE /\ bag' = Finished(bag)
          /\ disk' = [disk EXCEPT !.temporary = "new"]
          /\ IF cancelled THEN Fail("cancelled")
             ELSE export' = [export EXCEPT !.pc = IF disk.output = "none" THEN "replace" ELSE "setAside"]
  /\ UNCHANGED <<dataset, request, cancelled>>

\* The swap: the old output is kept under another name until the new one is in
\* place, and put back when that fails.  Putting it back may fail as well.
\* Fault: the old output is removed first.
SetAside_Fault ==
  /\ export.pc = "setAside"
  /\ disk' = [disk EXCEPT !.output = "none"]
  /\ export' = [export EXCEPT !.pc = "replace"]
  /\ UNCHANGED <<dataset, request, bag, cancelled>>
SetAside ==
  /\ export.pc = "setAside"
  /\ disk' = [disk EXCEPT !.backup = disk.output, !.output = "none"]
  /\ export' = [export EXCEPT !.pc = "replace"]
  /\ UNCHANGED <<dataset, request, bag, cancelled>>
Replace ==
  /\ export.pc = "replace"
  /\ disk' = [disk EXCEPT !.output = disk.temporary, !.temporary = "none"]
  /\ export' = [export EXCEPT !.pc = IF disk.backup = "none" THEN "done" ELSE "drop"]
  /\ UNCHANGED <<dataset, request, bag, cancelled>>
ReplaceFails ==
  /\ export.pc = "replace"
  /\ \/ disk' = [disk EXCEPT !.output = disk.backup, !.backup = "none"]
     \/ disk.backup # "none" /\ UNCHANGED disk
  /\ Fail("disk")
  /\ UNCHANGED <<dataset, request, bag, cancelled>>
DropBackup ==
  /\ export.pc = "drop"
  /\ disk' = [disk EXCEPT !.backup = "none"] \/ UNCHANGED disk
  /\ export' = [export EXCEPT !.pc = "done"]
  /\ UNCHANGED <<dataset, request, bag, cancelled>>

\* A file operation before the swap throws.
DiskFails ==
  /\ export.pc \in {"check", "rows", "finish", "setAside"}
  /\ Fail("disk")
  /\ UNCHANGED <<dataset, request, disk, bag, cancelled>>
\* The catch blocks, and remove_all, whose own failure is ignored.
CleanUp ==
  /\ export.pc = "cleanUp"
  /\ disk' = [disk EXCEPT !.temporary = "none"] \/ UNCHANGED disk
  /\ export' = [export EXCEPT !.pc = "done"]
  /\ UNCHANGED <<dataset, request, bag, cancelled>>

PressCancel ==
  /\ export.pc \in {"check", "rows", "finish"} /\ ~cancelled /\ cancelled' = TRUE
  /\ UNCHANGED <<dataset, request, disk, bag, export>>
Killed ==
  /\ export.pc # "done" /\ export' = [export EXCEPT !.pc = "killed"]
  /\ export.pc # "killed"
  /\ UNCHANGED <<dataset, request, disk, bag, cancelled>>

Exporting ==
  \/ \E s \in Range(Order), i \in {export.row} : RefuseRow(s, i) \/ WriteRow(s, i)
  \/ WriteLidarRow(export.row)
  \/ Check \/ EndStream \/ FinishBag \/ SetAside \/ Replace \/ ReplaceFails \/ DropBackup
  \/ CleanUp

Requests == [format : {"ros1", "ros2"}, overwrite : BOOLEAN, found : {"none", "old", "other"}]
Called(r) ==
  /\ request = r
  /\ disk = [output |-> r.found, temporary |-> "none", backup |-> "none"]
  /\ bag = NewBag(<<>>) /\ export = NoExport /\ cancelled = FALSE
ExportInit == dataset \in Directories /\ \E r \in Requests : Called(r)

ExportNext == Exporting \/ DiskFails \/ PressCancel \/ Killed

--------------------------------------------------------------------------------
ExportTypeOK ==
  /\ dataset = NoDirectory \/ dataset \in Directories
  /\ request \in Requests
  /\ disk \in [output : {"none", "old", "other", "new"}, temporary : {"none", "partial", "new"},
              backup : {"none", "old"}]
  /\ export.pc \in {"check", "rows", "finish", "setAside", "replace", "drop", "cleanUp", "done", "killed"}
  /\ export.error \in {"none", "output", "dataset", "cancelled", "disk"}
  /\ export.stream \in 1 .. Len(Order) + 1 /\ export.row \in Nat \ {0}
  /\ cancelled \in BOOLEAN

\* Whatever fails and whenever the viewer is killed, what was at the output is
\* there or beside it under its other name, or the whole new bag is in its
\* place; and an export that was refused or cancelled has changed nothing.
OldOrNewSurvives ==
  /\ request.found # "none" => disk.output = "new" \/ request.found \in {disk.output, disk.backup}
  /\ export.pc = "done" => (disk.output = "new" <=> export.error = "none")
  /\ export.pc = "done" /\ export.error \notin {"none", "disk"}
       => disk.output = request.found /\ disk.backup = "none"

\* ROS1: the index of a chunk lists its messages, each once and where it is; the
\* end of the file describes every chunk; a connection is declared before its
\* first message and again at the end, where the header points.
ChunkAt(b)   == {k \in DOMAIN b.records : b.records[k].kind = "chunk"}
Holds(chunk) == {[topic |-> chunk[i].topic, at |-> chunk[i].at, offset |-> i - 1] :
                   i \in {j \in DOMAIN chunk : chunk[j].kind = "message"}}
EndsIndex(b, k, n) ==
  /\ k + n <= Len(b.records) /\ \A j \in k + 1 .. k + n : b.records[j].kind = "index"
  /\ k + n < Len(b.records) => b.records[k + n + 1].kind # "index"
IndexOf(b, k) ==
  LET n == CHOOSE n \in 0 .. Len(b.records) : EndsIndex(b, k, n)
  IN  FlattenSeq([j \in 1 .. n |-> b.records[k + j].entries])
Described(b, k, info) ==
  /\ info.position = k
  /\ \A m \in Holds(b.records[k].data) : info.start <= m.at /\ m.at <= info.end
  /\ \A t \in DOMAIN info.counts :
       info.counts[t] = Cardinality({m \in Holds(b.records[k].data) : m.topic = t})
DeclaredBefore(b, k, t) ==
  \E l \in ChunkAt(b) :
    /\ l <= k
    /\ \E i \in DOMAIN b.records[l].data :
         b.records[l].data[i].kind = "connection" /\ b.records[l].data[i].topic = t
Ros1Indexed(b) ==
  /\ b.indexAt > 0 /\ b.records[b.indexAt].kind = "connection"
  /\ \A k \in b.indexAt .. Len(b.records) : b.records[k].kind # "chunk"
  /\ {b.records[k].topic : k \in {j \in b.indexAt .. Len(b.records) :
                                   b.records[j].kind = "connection"}} = Range(b.topics)
  /\ \A k \in ChunkAt(b) :
       /\ Range(IndexOf(b, k)) = Holds(b.records[k].data)
       /\ Len(IndexOf(b, k)) = Cardinality(Holds(b.records[k].data))
       /\ \E i \in DOMAIN b.chunks : Described(b, k, b.chunks[i])
       /\ \A m \in Holds(b.records[k].data) :
            m.topic \in Range(b.topics) /\ DeclaredBefore(b, k, m.topic)
\* ROS2: metadata.yaml agrees with the messages of the database.
Ros2Described(b) ==
  \E m \in Range(b.metadata) :
    /\ m.count = Len(b.records)
    /\ \A i \in DOMAIN b.records : m.start <= b.records[i].at /\ b.records[i].at <= m.end
    /\ \A i \in DOMAIN b.records : b.records[i].topic \in Range(b.topics)
                                 /\ b.records[i].topic \in DOMAIN m.counts

\* The messages of a bag, in the order they were written.
MessagesOf(chunk) == Where(chunk, "kind", {"message"})
Written(b) ==
  IF request.format = "ros2" THEN b.records
  ELSE FlattenSeq([k \in DOMAIN b.records |->
                     IF b.records[k].kind = "chunk" THEN MessagesOf(b.records[k].data) ELSE <<>>])
PointsInOrder(d) ==
  LET times == [j \in DOMAIN Rows(d, "lidar") |-> PointTimes(Rows(d, "lidar")[j])]
  IN  \A i, j \in DOMAIN times : \A k \in DOMAIN times[i], l \in DOMAIN times[j] :
        i < j \/ (i = j /\ k <= l) => times[i][k] <= times[j][l]
PointsOf(clouds) == FlattenSeq([i \in DOMAIN clouds |-> clouds[i].of])
AllPoints(d) == FlattenSeq([j \in DOMAIN Rows(d, "lidar") |-> PointTimes(Rows(d, "lidar")[j])])
HoldsStream(b, d, s) ==
  LET found == Where(Written(b), "topic", Range(TopicsOf(s)))
  IN  IF s = "lidar"
      THEN /\ \A i \in DOMAIN found : Last(found[i].of) - found[i].at < Period
           /\ PointsInOrder(d) => PointsOf(found) = AllPoints(d)
      ELSE found = FlattenSeq([i \in 1 .. Len(RowsOf(d, s)) |-> Messages(d, s, i)])

\* A bag that was put in place can be read back through its index, and has the
\* messages of every row of the dataset, in order; LiDAR frames stay within
\* their window and, when the points of the dataset are in order, lose none.
BagHoldsTheDataset ==
  disk.output = "new" =>
    /\ IF request.format = "ros1" THEN Ros1Indexed(bag) ELSE Ros2Described(bag)
    /\ \A i \in DOMAIN Order : Exports(dataset, Order[i]) => HoldsStream(bag, dataset, Order[i])
================================================================================
