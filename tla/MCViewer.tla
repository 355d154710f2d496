------------------------------- MODULE MCViewer --------------------------------
(***************************************************************************)
(* One instance for the parts of the viewer that share no state with each  *)
(* other: the CORS session, the dataset page, the readers of a dataset,    *)
(* the online update.  Only the chosen part acts.                          *)
(***************************************************************************)
EXTENDS CorsSession, DatasetPage, DatasetReaders, ViewerUpdate

CONSTANT Parts
VARIABLE part

viewerVars == <<part, vars, pageVars, readersVars, updateVars>>

\* The readers have a directory only when they are the part that acts.
ViewerInit ==
  /\ part \in Parts
  /\ Init /\ PageInit /\ UpdateInit
  /\ IF part = "readers" THEN ReadersInit
     ELSE /\ dataset = NoDirectory /\ validation = NotValidated
          /\ Called([format |-> "ros1", overwrite |-> FALSE, found |-> "none"])

ViewerNext ==
  \/ part = "cors" /\ Next /\ UNCHANGED <<pageVars, readersVars, updateVars, part>>
  \/ part = "page" /\ PageNext /\ UNCHANGED <<vars, readersVars, updateVars, part>>
  \/ part = "readers" /\ ReadersNext /\ UNCHANGED <<vars, pageVars, updateVars, part>>
  \/ part = "update" /\ UpdateNext /\ UNCHANGED <<vars, pageVars, readersVars, part>>

\* The fair actions of a part that was not chosen are never enabled.
ViewerSpec ==
  ViewerInit /\ [][ViewerNext]_viewerVars /\ CorsFairness /\ PageFairness /\ UpdateFairness

--------------------------------------------------------------------------------
(***************************************************************************)
(* Datasets of the page: a walk with all streams and one LiDAR batch that  *)
(* cannot be read, an IMU-only one, RAW8 ones with and without timing, and *)
(* two that do not load.                                                   *)
(***************************************************************************)
Legacy == [NoData EXCEPT !.kind = "legacy", !.readable = TRUE]
Raw8   == [NoData EXCEPT !.kind = "raw8", !.readable = TRUE]
MCDatasets == {
  [Legacy EXCEPT !.name = "walk", !.indexes = 4, !.frames = <<2, 4>>, !.entries = <<1, 2>>,
                 !.rows = [imu0 |-> <<1, 2>>, imu1 |-> <<>>, lidar |-> <<2, 3>>, lidarImu |-> <<3>>],
                 !.dark = {2}],
  [Legacy EXCEPT !.name = "imu",
                 !.rows = [imu0 |-> <<1, 4>>, imu1 |-> <<1>>, lidar |-> <<>>, lidarImu |-> <<>>]],
  [Legacy EXCEPT !.name = "part", !.indexes = 3],
  [Raw8 EXCEPT !.name = "raw", !.frames = <<1, 2, 5>>, !.entries = <<1, 1, 2>>],
  [Raw8 EXCEPT !.name = "ordinal", !.frames = <<0, 0>>, !.entries = <<1, 0>>, !.ordinal = TRUE],
  [Raw8 EXCEPT !.name = "broken", !.broken = {"cameras"}]}

--------------------------------------------------------------------------------
(***************************************************************************)
(* Directories of the readers, as the recorder of the device and of the    *)
(* viewer write them, and the same with one thing wrong.                   *)
(***************************************************************************)
Plain(times) ==
  [i \in DOMAIN times |-> [at |-> times[i], flaw |-> "none", model |-> "livox", points |-> <<>>,
                           span |-> 0]]
Batch(t, model, points, span) ==
  [at |-> t, flaw |-> "none", model |-> model, points |-> points, span |-> span]
Provider(p) == [elapsed |-> 1, provider |-> p, synced |-> TRUE, online |-> TRUE, inPlace |-> TRUE]
Synced == [NoSync EXCEPT !.present = TRUE, !.declared = TRUE, !.rows = <<Provider(1), Provider(2)>>,
                         !.samples = 2, !.transitions = 1]
Rover == [NoRtcm EXCEPT !.data = TRUE, !.index = TRUE, !.declared = TRUE, !.bytes = 2, !.batches = 1,
                        !.rows = <<[elapsed |-> 1, size |-> 2, lost |-> 0, inPlace |-> TRUE]>>,
                        !.declaredBytes = 2]
Session(policy, mode, lidar) ==
  [policy |-> policy, mode |-> mode, time |-> "unix", lidar |-> lidar, lidarHasImu |-> TRUE,
   complete |-> TRUE]
MCRows ==
  [f \in Files |-> CASE f \in Cams      -> Plain(<<10, 12>>)
                     [] f = "imu0"      -> Plain(<<10, 11, 12>>)
                     [] f = "imu1"      -> Plain(<<11>>)
                     [] f = "lidar"     -> <<Batch(10, "livox", <<0, 0, 0>>, 3),
                                             Batch(14, "livox", <<0, 0>>, 3)>>
                     [] f = "lidarImu"  -> Plain(<<11, 13>>)]
Recorded(s, rows) ==
  LET files == {f \in Files : /\ f \in Cams => s.mode = "full"
                              /\ f = "lidar" => s.lidar /\ s.mode = "full"
                              /\ f = "lidarImu" => s.lidar}
      counts == [f \in Files |-> IF f \in files THEN Len(rows[f]) ELSE 0]
      points == IF "lidar" \in files THEN Points(rows["lidar"]) ELSE 0
  IN [files |-> files, rows |-> rows, manifest |-> Manifest(s, counts, points), retired |-> FALSE,
      rover |-> Rover, base |-> NoRtcm, sync |-> Synced, gnss |-> NoGnss]

Anchored(t, stamp) == [elapsed |-> t, stamp |-> stamp]
Whole == Recorded(Session("aligned", "full", TRUE), MCRows)
ImuOnly == Recorded(Session("aligned", "imu-only", FALSE), MCRows)
MCDirectories == {
  Whole,
  [Whole EXCEPT !.rows["cam2"][2].flaw = "payload"],
  [Whole EXCEPT !.rows["cam2"][2].flaw = "range"],
  [Whole EXCEPT !.rows["imu0"][2].flaw = "row"],
  [Whole EXCEPT !.rows["cam1"][1].flaw = "exposure"],
  [Whole EXCEPT !.rows["cam3"][2].flaw = "loose"],
  [Whole EXCEPT !.rows["lidar"][1].flaw = "device"],
  [Whole EXCEPT !.rows["lidar"][2].flaw = "batch"],
  [Whole EXCEPT !.gnss.malformed = {"quality"}],
  [Whole EXCEPT !.gnss.malformed = {"anchors"}],
  [ImuOnly EXCEPT !.manifest.known = FALSE],
  [Whole EXCEPT !.rows["lidar"] = <<Batch(10, "livox", <<0, 0, 0>>, 5), Batch(12, "livox", <<0, 0>>, 1)>>],
  [Whole EXCEPT !.gnss = [positions |-> <<[elapsed |-> 3]>>, quality |-> <<[elapsed |-> 4]>>,
                          anchors |-> <<Anchored(1, 10), Anchored(2, 11), Anchored(4, 13)>>,
                          malformed |-> {}]],
  Recorded(Session("aligned", "full", TRUE), [MCRows EXCEPT !["lidarImu"] = <<>>]),
  Recorded(Session("aligned", "full", TRUE),
           [MCRows EXCEPT !["lidar"] = <<Batch(11, "xt32", <<2, -1, 0>>, 0), Batch(14, "xt32", <<0>>, 0)>>]),
  ImuOnly,
  Recorded(Session("received", "full", TRUE), MCRows),
  [Whole EXCEPT !.manifest = NoManifest, !.rover.declared = FALSE, !.sync = NoSync]}
================================================================================
