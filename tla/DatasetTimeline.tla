---------------------------- MODULE DatasetTimeline ----------------------------
(***************************************************************************)
(* What the dataset page reads from a directory, and the timeline it plays *)
(* (loadRecordedDataset in main_window.cpp, dataset/dataset_playback.cpp,  *)
(* the camera indexes of dataset/dataset_browser.cpp).                     *)
(***************************************************************************)
EXTENDS Naturals, Sequences, SequencesExt

Sensors == {"imu0", "imu1", "lidar", "lidarImu"}

(***************************************************************************)
(* A directory as the page reads it: kind; readable, whether               *)
(* its identity can be read; indexes, the number of cam*.tum files;        *)
(* frames, the times of its frame sets (steps, for RAW8); entries, the     *)
(* image shown at each of them (0: none); bad, the images that cannot be   *)
(* read; rows, the times of each sensor's index; broken, the files with a  *)
(* row that does not parse or a range outside of its container; dark, the  *)
(* LiDAR batches whose points cannot be read; retired, whether gps_rtk.csv *)
(* exists; ordinal, a RAW8 dataset without usable timing.                  *)
(***************************************************************************)
Unread(name) ==
  [name |-> name, kind |-> "none", readable |-> FALSE, indexes |-> 0, frames |-> <<>>,
   entries |-> <<>>, bad |-> {}, rows |-> [s \in Sensors |-> <<>>], broken |-> {},
   dark |-> {}, retired |-> FALSE, ordinal |-> FALSE]
NoData == Unread("")

\* requireMonotonic over a whole index.
Monotonic(times) == \A i \in 2 .. Len(times) : times[i - 1] < times[i]

OnboardImuLoads(d, s) == s \notin d.broken /\ Monotonic(d.rows[s])
LidarLoads(d)    == {"lidar", "container"} \cap d.broken = {} /\ Monotonic(d.rows["lidar"])
LidarImuLoads(d) == "lidarImu" \notin d.broken /\ Monotonic(d.rows["lidarImu"])

\* eventPriority: of events at the same time.
Priority == [imu0 |-> 0, imu1 |-> 1, camera |-> 2, lidar |-> 3, lidarImu |-> 4]

\* The times of a stream; frames without usable timing are not played.
EventStreams == {"camera"} \cup Sensors
Times(d, s)  == IF s # "camera" THEN d.rows[s] ELSE IF d.ordinal THEN <<>> ELSE d.frames
Event(d, s, i) == [at |-> Times(d, s)[i], stream |-> s, index |-> i]
Events(d)      == UNION {{Event(d, s, i) : i \in DOMAIN Times(d, s)} : s \in EventStreams}

\* The order of a stable sort: events of one stream keep theirs.
Before(e, f) ==
  \/ e.at < f.at
  \/ e.at = f.at /\ \/ Priority[e.stream] < Priority[f.stream]
                    \/ e.stream = f.stream /\ e.index < f.index

\* Events in order: each at the place that the number of events before it gives.
Place(e, events) == Cardinality({f \in events : Before(f, e)}) + 1
InPlaces(events) ==
  [i \in 1 .. Cardinality(events) |-> CHOOSE e \in events : Place(e, events) = i]

\* The timeline of a dataset.
Sorted(d) == InPlaces(Events(d))

\* loadDatasetPlaybackData accepts the dataset.
PlaybackLoads(d) ==
  /\ Monotonic(d.frames)
  /\ OnboardImuLoads(d, "imu0") /\ OnboardImuLoads(d, "imu1") /\ LidarLoads(d) /\ LidarImuLoads(d)
  /\ ~d.retired

\* The checks of loadRecordedDataset that keep the old dataset: the indexes of
\* all cameras or of none, rows that parse, something to show, a timeline.
IndexesOfAllOrNone(d) == d.indexes \in {0, 4}
ImageIndexLoads(d)    == "cameras" \notin d.broken /\ (d.indexes = 0 \/ d.frames # <<>>)
HasRecords(d)         == d.frames # <<>> \/ \E s \in Sensors : d.rows[s] # <<>>
LegacyLoads(d) ==
  IndexesOfAllOrNone(d) /\ ImageIndexLoads(d) /\ HasRecords(d) /\ PlaybackLoads(d)
================================================================================
