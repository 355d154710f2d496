--------------------------- MODULE MCDatasetRecorder ---------------------------
(***************************************************************************)
(* DatasetRecorder with two camera lanes and a device that sends a few     *)
(* frame sets and batches: whole and partial frame sets in and out of      *)
(* order, one that no queue can hold, one with bad metadata and one whose  *)
(* time is not the trigger's.                                              *)
(***************************************************************************)
EXTENDS DatasetRecorder

MCCameras == {0, 1}
MCTimes   == {1, 2}

FrameSet(t, lanes, size) ==
  [kind |-> "frame", at |-> t, images |-> lanes, bytes |-> size, valid |-> TRUE, synced |-> TRUE]

MCFrameSets ==
  {FrameSet(2, {0, 1}, 2), FrameSet(2, {0}, 1), FrameSet(2, {0, 1}, 4),
   [FrameSet(1, {0, 1}, 2) EXCEPT !.valid = FALSE, !.synced = FALSE],
   [FrameSet(2, {0, 1}, 2) EXCEPT !.synced = FALSE]}

MCBatches ==
  {[kind |-> "lidar", at |-> t, images |-> {}, bytes |-> 2, valid |-> TRUE, synced |-> ok] :
     t \in {2}, ok \in BOOLEAN}
===============================================================================
