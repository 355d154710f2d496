------------------------- MODULE MCCaptureSession -------------------------
(* Two requests, so that one can be made while the late reply of the other  *)
(* is on its way, and two captures, so that one can inherit from the other. *)
EXTENDS CaptureSession

MCRequests == 2
MCCaptures == 2

=============================================================================
