--------------------------- MODULE DatasetDirectory ----------------------------
(***************************************************************************)
(* A recorded dataset as its readers find it on disk: what the viewer's    *)
(* recorder writes (DatasetRecorder::writeManifest in main_window.cpp),    *)
(* what the validator accepts (dataset/dataset_browser.cpp) and what the   *)
(* page of DatasetTimeline makes of it.                                    *)
(*                                                                         *)
(* A row of an index is its time, what is wrong with it, and for LiDAR the *)
(* model and the times of its points:                                      *)
(*   "row"      none of the readers takes it: it does not parse, or a      *)
(*              value is out of every reader's range                       *)
(*   "exposure" an exposure that the camera does not have                  *)
(*   "loose"    an image beyond kMaximumJpegBytes, or a time that only the *)
(*              lenient parser of the image index takes                    *)
(*   "device"   the device type or the time type of a batch is over 255    *)
(*   "batch"    the number of a batch does not fit 32 bits                 *)
(*   "range"    its bytes are not all in the container                     *)
(*   "payload"  its bytes are not a JPEG, or their point metadata is wrong *)
(*   "overlap"  its bytes are also those of an earlier row                 *)
(*   "unsynced" its time source is missing or not synchronized             *)
(* The readers share no parser, and do not refuse the same rows.           *)
(***************************************************************************)
EXTENDS DatasetTimeline, Integers, FiniteSetsExt

CONSTANTS
  Epoch,      \* kMinimumRkClockRealtimeUs
  Jitter,     \* the jitter that is always allowed
  JumpFloor,  \* the longest gap that is never an error, whatever the rate
  JumpFactor  \* the longest gap that is never an error, in median intervals

ASSUME DirectoryAssumption == {Epoch, Jitter, JumpFloor, JumpFactor} \subseteq Nat

Cams   == {"cam0", "cam1", "cam2", "cam3"}
Imus   == {"imu0", "imu1"}
Files  == Cams \cup Sensors
Chunked == Cams \cup {"lidar"}

NoRtcm == [data |-> FALSE, index |-> FALSE, declared |-> FALSE, header |-> TRUE, rows |-> <<>>,
           bytes |-> 0, batches |-> 0, declaredBytes |-> 0, lost |-> 0]
NoSync == [present |-> FALSE, declared |-> FALSE, header |-> TRUE, rows |-> <<>>, samples |-> 0,
           transitions |-> 0]
\* The rows of the GNSS files, and the files with one that is malformed.
NoGnss == [positions |-> <<>>, quality |-> <<>>, anchors |-> <<>>, malformed |-> {}]

\* A directory without a manifest: version 0, a legacy layout.  A storage field
\* that is not known declares no stream.
NoManifest == [version |-> 0, wellFormed |-> TRUE, complete |-> FALSE, known |-> TRUE, mode |-> "full",
               time |-> "other", common |-> FALSE, images |-> FALSE, lidar |-> "none",
               lidarImu |-> FALSE, counts |-> [f \in Files |-> 0], points |-> 0]

\* writeManifest: the fields the readers look at.
Manifest(s, counts, points) ==
  [version    |-> 6,
   wellFormed |-> TRUE,
   complete   |-> s.complete,
   known      |-> TRUE,
   mode       |-> s.mode,
   time       |-> s.time,
   common     |-> s.policy = "aligned",
   images     |-> s.mode = "full",
   lidar      |-> IF s.mode = "full" /\ s.lidar THEN "point-time" ELSE "none",
   lidarImu   |-> s.lidar /\ s.lidarHasImu,
   counts     |-> counts,
   points     |-> points]

Strict(d) == d.manifest.version = 6
UnixTime(d) == Strict(d) /\ d.manifest.time = "unix"
BootTime(d) == Strict(d) /\ d.manifest.time = "boot"
InEpoch(d, t) == UnixTime(d) => t >= Epoch

\* The rows of a file that is there; a missing file has none.
Rows(d, f) == IF f \in d.files THEN d.rows[f] ELSE <<>>

\* The rows that the validator, the page and the exporter do not parse.
\* Fault: the validator reads the times of images with the lenient parser.
ValidatorRefuses_Fault == {"row", "exposure"}
ValidatorRefuses == {"row", "exposure", "loose"}
PageRefuses      == {"row", "exposure", "device", "batch"}
ExporterRefuses  == {"row", "loose", "batch"}
Parsed(d, f) ==
  FoldLeft(LAMBDA kept, r : IF r.flaw \in ValidatorRefuses THEN kept ELSE Append(kept, r), <<>>, Rows(d, f))
TimesIn(d, f) == [i \in DOMAIN Parsed(d, f) |-> Parsed(d, f)[i].at]
Points(rows) == FoldSeq(LAMBDA r, sum : Len(r.points) + sum, 0, rows)

--------------------------------------------------------------------------------
(***************************************************************************)
(* validatePrismDatasetImpl.  Each operator below says of one part of the  *)
(* directory that no error is reported for it; warnings are left out.      *)
(***************************************************************************)
LowerMedian(s) == SortSeq(s, LAMBDA a, b : a < b)[(Len(s) - 1) \div 2 + 1]

\* analyzeTimestamps: every time is later than the one before it, and no gap is
\* both far beyond the usual jitter and beyond the limit for any stream.
Intervals(times) ==
  SelectSeq([i \in 1 .. Len(times) - 1 |-> times[i + 1] - times[i]], LAMBDA g : g > 0)
JumpsTooFar(gaps) ==
  LET median     == LowerMedian(gaps)
      deviations == [i \in DOMAIN gaps |-> IF gaps[i] > median THEN gaps[i] - median
                                                               ELSE median - gaps[i]]
      allowance  == Max({Jitter, median \div 2, 6 * LowerMedian(deviations)})
  IN \E i \in DOMAIN gaps : /\ gaps[i] > median
                            /\ gaps[i] >= median + allowance
                            /\ gaps[i] > Max({JumpFloor, JumpFactor * median})
TimesSound(times) ==
  /\ Monotonic(times)
  /\ Len(times) >= 2 => ~JumpsTooFar(Intervals(times))

\* checkManifestCount: only v6 declares the counts.
CountSound(d, f, n) == Strict(d) => d.manifest.counts[f] = n

\* The rows of an index: readContainer for those with bytes in a container.
RowSound(d, f, r) ==
  /\ r.flaw \notin ValidatorRefuses /\ InEpoch(d, r.at)
  /\ f \in Chunked => r.flaw # "range"
  /\ f \in Cams => r.flaw # "payload"
  /\ Strict(d) /\ f \in {"lidar", "lidarImu"} => r.flaw # "unsynced"
StreamSound(d, f) ==
  /\ \A i \in DOMAIN Rows(d, f) : RowSound(d, f, Rows(d, f)[i])
  /\ TimesSound(TimesIn(d, f))
  /\ CountSound(d, f, Len(TimesIn(d, f)))

\* The manifest: fields once each, a version this viewer knows and, for v6, a
\* complete recording in a time domain that all streams share.
ManifestSound(d) ==
  /\ d.manifest.wellFormed
  /\ d.manifest.version <= 6
  /\ Strict(d) => /\ d.manifest.complete
                  /\ d.manifest.mode \in {"full", "imu-only"}
                  /\ UnixTime(d) \/ BootTime(d)
                  /\ d.manifest.common

\* All camera indexes or none; for v6 as declared, and declared in full mode.
HasCameras(d) == Cams \subseteq d.files
CameraSetSound(d) ==
  /\ HasCameras(d) \/ Cams \cap d.files = {}
  /\ Strict(d) => /\ d.manifest.images <=> HasCameras(d)
                  /\ d.manifest.mode = "full" <=> d.manifest.images
\* The four cameras show the same frames at the same times.
CamerasSound(d) ==
  /\ CameraSetSound(d)
  /\ HasCameras(d) => /\ \A c \in Cams : StreamSound(d, c)
                      /\ \A c \in Cams : TimesIn(d, c) = TimesIn(d, "cam0")

ImusSound(d) ==
  /\ \A i \in Imus : i \in d.files /\ StreamSound(d, i)
  /\ \E i \in Imus : TimesIn(d, i) # <<>>

DeclaresLidar(d) == d.manifest.lidar # "none"
LidarSound(d) ==
  /\ Strict(d) => /\ DeclaresLidar(d) <=> "lidar" \in d.files
                  /\ ~(d.manifest.mode = "imu-only" /\ DeclaresLidar(d))
                  /\ d.manifest.points = Points(Parsed(d, "lidar"))
                  /\ "lidar" \in d.files => TimesIn(d, "lidar") # <<>>
  /\ StreamSound(d, "lidar")

\* A full recording has both LiDAR streams, unless every batch is from the
\* LiDAR without an IMU.
OnlyXt32(d) ==
  /\ d.manifest.lidar = "point-time" /\ TimesIn(d, "lidar") # <<>>
  /\ \A i \in DOMAIN Parsed(d, "lidar") : Parsed(d, "lidar")[i].model = "xt32"
LidarImuSound(d) ==
  /\ Strict(d) => /\ d.manifest.lidarImu <=> "lidarImu" \in d.files
                  /\ d.manifest.mode = "full" => \/ {"lidar", "lidarImu"} \subseteq d.files
                                                 \/ {"lidar", "lidarImu"} \cap d.files = {}
                                                 \/ "lidar" \in d.files /\ OnlyXt32(d)
                  /\ "lidarImu" \in d.files => TimesIn(d, "lidarImu") # <<>>
  /\ StreamSound(d, "lidarImu")

\* validateRawRtcm: the index covers the whole binary file without a gap, and
\* the Agent lost nothing of the rover's stream before it reached the viewer.
Bytes(rows) == FoldSeq(LAMBDA r, sum : r.size + sum, 0, rows)
RtcmSound(d, r) ==
  /\ r.declared => r.data /\ r.index
  /\ r.data \/ r.index => r.declared \/ ~Strict(d)
  /\ r.data <=> r.index
  /\ r.index => /\ r.header
                /\ \A i \in DOMAIN r.rows : /\ r.rows[i].inPlace /\ r.rows[i].size > 0
                                            /\ i > 1 => r.rows[i - 1].elapsed <= r.rows[i].elapsed
                                            /\ r.rows[i].lost = 0
                /\ Bytes(r.rows) = r.bytes
  /\ r.declared => /\ r.batches = Len(r.rows)
                   /\ r.declaredBytes = Bytes(r.rows)
                   /\ r.lost = 0

\* time_sync.csv: providers that fit the time domain, and a board that is
\* online when it is synchronized.
SyncRowSound(d, r) ==
  /\ r.inPlace
  /\ r.provider \in {0, 1, 2, 255}
  /\ Strict(d) => \/ BootTime(d) /\ r.provider = 0
                  \/ UnixTime(d) /\ r.provider \in {1, 2, 255}
  /\ IF Strict(d) THEN r.provider > 2 \/ r.synced ELSE r.synced <=> r.provider # 0
  /\ r.synced => r.online
Transitions(rows) == Cardinality({i \in 2 .. Len(rows) : rows[i].provider # rows[i - 1].provider})
TimeSyncSound(d) ==
  LET s == d.sync IN
  /\ s.declared => s.present /\ s.rows # <<>>
  /\ s.present /\ Strict(d) => s.declared
  /\ s.present => /\ s.header
                  /\ \A i \in DOMAIN s.rows : /\ SyncRowSound(d, s.rows[i])
                                              /\ i > 1 => s.rows[i - 1].elapsed <= s.rows[i].elapsed
  /\ s.declared => s.samples = Len(s.rows) /\ s.transitions = Transitions(s.rows)

\* checkOverlappingRanges
RangesSound(d) ==
  \A f \in Chunked : \A i \in DOMAIN Rows(d, f) : Rows(d, f)[i].flaw # "overlap"

NotEmpty(d) == HasCameras(d) \/ \E f \in Sensors : TimesIn(d, f) # <<>>

\* The order in which the parts are looked at.
Stages == <<"manifest", "cameras", "imus", "lidar", "lidarImu", "retired", "rtcm", "timeSync",
            "ranges", "empty">>
Sound(d, stage) ==
  CASE stage = "manifest" -> ManifestSound(d)
    [] stage = "cameras"  -> CamerasSound(d)
    [] stage = "imus"     -> ImusSound(d)
    [] stage = "lidar"    -> LidarSound(d)
    [] stage = "lidarImu" -> LidarImuSound(d)
    [] stage = "retired"  -> ~d.retired
    [] stage = "rtcm"     -> RtcmSound(d, d.rover) /\ RtcmSound(d, d.base)
    [] stage = "timeSync" -> TimeSyncSound(d)
    [] stage = "ranges"   -> RangesSound(d)
    [] stage = "empty"    -> NotEmpty(d)

--------------------------------------------------------------------------------
(***************************************************************************)
(* The directory as the page reads it.                                     *)
(***************************************************************************)
Flawed(d, f, flaws) == {i \in DOMAIN Rows(d, f) : Rows(d, f)[i].flaw \in flaws}
PageView(d) ==
  LET frames == Min({Len(Rows(d, c)) : c \in Cams})
  IN [NoData EXCEPT
        !.kind     = "legacy",
        !.readable = TRUE,
        !.indexes  = Cardinality(Cams \cap d.files),
        !.frames   = [i \in 1 .. frames |-> d.rows["cam0"][i].at],
        !.rows     = [s \in Sensors |-> [i \in DOMAIN Rows(d, s) |-> Rows(d, s)[i].at]],
        !.broken   = {s \in Sensors : Flawed(d, s, PageRefuses) # {}}
                       \cup {x \in {"cameras"} : \E c \in Cams : Flawed(d, c, PageRefuses) # {}}
                       \cup {x \in {"container"} : Flawed(d, "lidar", {"range"}) # {}},
        !.retired  = d.retired]
================================================================================
