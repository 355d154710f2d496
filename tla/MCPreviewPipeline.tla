------------------------ MODULE MCPreviewPipeline ------------------------
(* Two cameras, so that a group can stay incomplete, and the two decode     *)
(* workers of the viewer; trigger counters that wrap at four.               *)
EXTENDS PreviewPipeline

MCCameras == {0, 1}
MCWorkers == 2

=============================================================================
