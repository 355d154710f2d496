---------------------------- MODULE DatasetReaders -----------------------------
(***************************************************************************)
(* The three readers of one recorded directory: the validator, the page    *)
(* and the ROS bag export.  The user validates, then exports; the          *)
(* validation goes through the parts of the directory and may be cancelled *)
(* between two rows.                                                       *)
(***************************************************************************)
EXTENDS RosbagExporter

VARIABLE
  validation \* where the validation is, the parts with errors, whether it was cancelled

readersVars == <<exportVars, validation>>

Validated == validation.stage > Len(Stages)
Valid     == Validated /\ validation.errors = {} /\ ~validation.cancelled

\* One part of validatePrismDatasetImpl.
ValidateStage ==
  /\ ~Validated
  /\ \E stage \in {Stages[validation.stage]} :
       validation' = [validation EXCEPT !.stage = @ + 1,
                                        !.errors = IF Sound(dataset, stage) THEN @ ELSE @ \cup {stage}]
  /\ UNCHANGED exportVars
CancelValidation ==
  /\ ~Validated
  /\ validation' = [stage |-> Len(Stages) + 1, errors |-> {}, cancelled |-> TRUE]
  /\ UNCHANGED exportVars

NotValidated == [stage |-> 1, errors |-> {}, cancelled |-> FALSE]
ReadersInit == ExportInit /\ validation = NotValidated
ReadersNext ==
  \/ ValidateStage
  \/ CancelValidation
  \/ Validated /\ ExportNext /\ UNCHANGED validation
ReadersSpec == ReadersInit /\ [][ReadersNext]_readersVars

ReadersTypeOK ==
  /\ ExportTypeOK
  /\ validation.stage \in 1 .. Len(Stages) + 1 /\ validation.errors \subseteq Range(Stages)
  /\ validation.cancelled \in BOOLEAN

\* The validator, the page and the exporter agree: what is reported as valid can
\* be opened, and its export is not refused, except for what the validator does
\* not look at: camera indexes without a frame, and
\*   for the page, the device type, the time type and the number of a LiDAR batch;
\*   for the export, the number of a LiDAR batch, the metadata and the order of
\*   its points, the storage fields of streams that are not there, and all of the
\*   GNSS files.
HasFrames(d) == HasCameras(d) => \A c \in Cams : Rows(d, c) # <<>>
BatchesSound(d, flaws) == \A i \in DOMAIN Rows(d, "lidar") : Rows(d, "lidar")[i].flaw \notin flaws
Opens(d) == HasFrames(d) /\ BatchesSound(d, {"device", "batch"})
Exportable(d) ==
  /\ HasFrames(d) /\ BatchesSound(d, {"batch", "payload"}) /\ PointsInOrder(d)
  /\ Strict(d) => d.manifest.known
  /\ GnssAccepted(d)
ValidIsUsable ==
  /\ ReadersTypeOK
  /\ Valid => /\ Opens(dataset) => LegacyLoads(PageView(dataset))
              /\ Exportable(dataset) => export.error # "dataset"
================================================================================
