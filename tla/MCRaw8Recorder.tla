--------------------------- MODULE MCRaw8Recorder ---------------------------
(***************************************************************************)
(* Small instances of Raw8Recorder for TLC.                                *)
(***************************************************************************)
EXTENDS Raw8Recorder

(* Two cameras and ids that wrap after their first value: the recorder      *)
(* counts three images (IdSpace - 1) before its own limit stops it.        *)
MCCameras == 0 .. 1
MCSensors == {0}
MCSizes == {1, 2}
MCOrigins == {3}
MCRequired == {}
=============================================================================
