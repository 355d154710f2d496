----------------------------- MODULE ViewerProofs -----------------------------
(***************************************************************************)
(* Proofs about the parts of the viewer that MCViewer checks together.     *)
(*                                                                         *)
(* The ROS bag export, under the validation of DatasetReaders: for any     *)
(* directory and any dataset, what was at the output of an export survives *)
(* failures, cancellation and the death of the viewer.  And the readers    *)
(* agree: a directory that the validator reports as valid can be opened    *)
(* and exported, row by row and whatever its size.                         *)
(*                                                                         *)
(* The online update: for any number of updates, polls and waits, neither  *)
(* the installed package nor the running viewer is lost, whichever process *)
(* dies and whichever rename fails.                                        *)
(*                                                                         *)
(* The dataset page: for any datasets and rates, what it shows belongs to  *)
(* one position, and no image is of another sample than the frame shown.   *)
(*                                                                         *)
(* The CORS session: for any number of sessions, configurations, polls and *)
(* interventions of another client, a module left running is reported, and *)
(* the panel settles.                                                      *)
(***************************************************************************)
EXTENDS CorsSession, DatasetPage, DatasetReaders, ViewerUpdate, TotalsProofs

USE DEF exportVars

ExportPhases == {"check", "rows", "finish", "setAside", "replace", "drop", "cleanUp", "done", "killed"}
ExportErrors == {"none", "output", "dataset", "cancelled", "disk"}
Disks  == [output : {"none", "old", "other", "new"}, temporary : {"none", "partial", "new"},
           backup : {"none", "old"}]

(* The parts of ExportTypeOK that the argument needs: the three paths and   *)
(* the two fields of the function that say how far it is.                  *)
Fields ==
  /\ request \in Requests /\ disk \in Disks
  /\ DOMAIN export = DOMAIN NoExport
  /\ export.pc \in ExportPhases /\ export.error \in ExportErrors

Untouched == disk.output = request.found /\ disk.backup = "none"
Kept      == request.found # "none" => request.found \in {disk.output, disk.backup}

(* What is on disk while the export is where it is.  Up to the swap only   *)
(* the temporary changes; between the two renames the old output is the    *)
(* backup; after the second one the new bag is at the output.              *)
BeforeSwap ==
  export.pc \in {"check", "rows", "finish", "setAside"} => Untouched /\ export.error = "none"
OnlyOldIsReplaced ==
  /\ export.pc \in {"rows", "finish", "setAside"} => request.found # "other"
  /\ export.pc = "setAside" => request.found = "old" /\ disk.temporary = "new"
BetweenRenames ==
  export.pc = "replace" => /\ disk.output = "none" /\ disk.temporary = "new"
                           /\ disk.backup = request.found /\ export.error = "none"
AfterSwap == export.pc = "drop" => disk.output = "new" /\ export.error = "none"
Undone ==
  export.pc = "cleanUp" => /\ export.error # "none" /\ disk.output # "new" /\ Kept
                           /\ export.error # "disk" => Untouched

ExportInv ==
  /\ Fields /\ BeforeSwap /\ OnlyOldIsReplaced /\ BetweenRenames /\ AfterSwap /\ Undone
  /\ OldOrNewSurvives

--------------------------------------------------------------------------------
LEMMA ExportInitInv == ExportInit => ExportInv
<1> SUFFICES ASSUME ExportInit PROVE ExportInv
  OBVIOUS
<1>1. PICK r \in Requests : Called(r)
  BY DEF ExportInit
<1>2. request = r /\ disk = [output |-> r.found, temporary |-> "none", backup |-> "none"]
  BY <1>1 DEF Called
<1>3. disk \in Disks
  BY <1>2 DEF Disks, Requests
<1>4. export = NoExport /\ export.pc = "check" /\ export.error = "none"
  BY <1>1 DEF Called, NoExport
<1> QED
  BY <1>2, <1>3, <1>4 DEF ExportInv, Fields, ExportPhases, ExportErrors, BeforeSwap, OnlyOldIsReplaced,
     BetweenRenames, AfterSwap, Undone, Untouched, Kept, OldOrNewSurvives

(* What the helpers of the function do to its position.                    *)
LEMMA FailTo ==
  ASSUME DOMAIN export = DOMAIN NoExport, NEW why, Fail(why)
  PROVE  /\ DOMAIN export' = DOMAIN NoExport
         /\ export'.pc = "cleanUp" /\ export'.error = why
BY DEF Fail, NoExport

LEMMA ContinueTo ==
  ASSUME NEW progress, DOMAIN progress = DOMAIN NoExport, Continue(progress)
  PROVE  /\ DOMAIN export' = DOMAIN NoExport
         /\ \/ export'.pc = "cleanUp" /\ export'.error = "cancelled"
            \/ export'.pc = progress.pc /\ export'.error = progress.error
BY DEF Continue, NoExport

(***************************************************************************)
(* The steps that leave the disk alone: a row, a failure, the end of a     *)
(* stream.                                                                 *)
(***************************************************************************)
(* Such a step stays before the swap or goes to the clean-up.              *)
LEMMA QuietStep ==
  ASSUME ExportInv, UNCHANGED <<request, disk>>, DOMAIN export' = DOMAIN NoExport,
         export.pc \in {"check", "rows", "finish", "setAside"},
         \/ export'.pc = "cleanUp" /\ export'.error \in ExportErrors \ {"none"}
         \/ export.pc = "rows" /\ export'.pc \in {"rows", "finish"} /\ export'.error = "none"
  PROVE  ExportInv'
BY DEF ExportInv, Fields, Requests, ExportPhases, ExportErrors, BeforeSwap, OnlyOldIsReplaced, BetweenRenames, AfterSwap,
   Undone, Untouched, Kept, OldOrNewSurvives

LEMMA RowStep ==
  ASSUME ExportInv, NEW s, NEW i, RefuseRow(s, i) \/ WriteRow(s, i)
  PROVE  ExportInv'
<1> USE DEF ExportInv, Fields, BeforeSwap
<1>1. CASE RefuseRow(s, i)
  BY <1>1, FailTo, QuietStep DEF RefuseRow, IsCurrentRow, ExportErrors
<1>2. CASE WriteRow(s, i)
  <2> DEFINE progress == [export EXCEPT !.row = @ + 1, !.sequence = @ + 1,
                            !.previous = IF s \in Files THEN Rows(dataset, s)[i].at ELSE 0]
  <2>1. DOMAIN progress = DOMAIN NoExport /\ progress.pc = "rows" /\ progress.error = "none"
    BY <1>2 DEF WriteRow, IsCurrentRow
  <2>2. Continue(progress) /\ UNCHANGED <<request, disk>>
    BY <1>2 DEF WriteRow
  <2> HIDE DEF progress
  <2>3. export.pc = "rows"
    BY <1>2 DEF WriteRow, IsCurrentRow
  <2> QED
    BY <2>1, <2>2, <2>3, ContinueTo, QuietStep DEF ExportErrors
<1> QED
  BY <1>1, <1>2

LEMMA LidarRowStep ==
  ASSUME ExportInv, NEW i, WriteLidarRow(i)
  PROVE  ExportInv'
<1> USE DEF ExportInv, Fields, BeforeSwap
<1>1. PICK a : Continue([export EXCEPT !.row = @ + 1, !.sequence = @ + Len(a.done), !.frame = a.frame,
                              !.previous = Rows(dataset, "lidar")[i].at])
  BY Zenon DEF WriteLidarRow
<1> DEFINE progress == [export EXCEPT !.row = @ + 1, !.sequence = @ + Len(a.done), !.frame = a.frame,
                              !.previous = Rows(dataset, "lidar")[i].at]
<1>2. export.pc = "rows" /\ UNCHANGED <<request, disk>>
  BY DEF WriteLidarRow, IsCurrentRow
<1>3. DOMAIN progress = DOMAIN NoExport /\ progress.pc = "rows" /\ progress.error = "none"
  BY <1>2
<1>4. Continue(progress)
  BY <1>1
<1> HIDE DEF progress
<1> QED
  BY <1>2, <1>3, <1>4, ContinueTo, QuietStep DEF ExportErrors

LEMMA EndStreamStep ==
  ASSUME ExportInv, EndStream
  PROVE  ExportInv'
<1> USE DEF ExportInv, Fields
<1>1. export.pc = "rows" /\ UNCHANGED <<request, disk>>
  BY DEF EndStream
<1>2. CASE cancelled
  BY <1>1, <1>2, FailTo, QuietStep DEF EndStream, ExportErrors
<1>3. CASE ~cancelled
  <2>1. /\ DOMAIN export' = DOMAIN NoExport
        /\ export'.pc \in {"rows", "finish"} /\ export'.error = "none"
    BY <1>3, Zenon DEF EndStream, NoExport
  <2> QED
    BY <1>1, <2>1, QuietStep
<1> QED
  BY <1>2, <1>3

LEMMA DiskFailsStep ==
  ASSUME ExportInv, DiskFails
  PROVE  ExportInv'
BY FailTo, QuietStep DEF DiskFails, ExportInv, Fields, ExportErrors

(***************************************************************************)
(* The steps that touch the disk.                                          *)
(***************************************************************************)
LEMMA CheckStep ==
  ASSUME ExportInv, Check
  PROVE  ExportInv'
<1> USE DEF ExportInv, Fields, BeforeSwap
<1>1. export.pc = "check" /\ request' = request
  BY DEF Check
<1>2. CASE \E why \in ExportErrors \ {"none"} : Fail(why) /\ disk' = disk
  BY <1>1, <1>2, FailTo, QuietStep
<1>3. CASE /\ UsableOutput /\ export' = [export EXCEPT !.pc = "rows"]
           /\ disk' = [disk EXCEPT !.temporary = "partial"]
  <2>1. DOMAIN export' = DOMAIN NoExport /\ export'.pc = "rows" /\ export'.error = "none"
    BY <1>1, <1>3 DEF NoExport
  <2>2. disk' \in Disks /\ disk'.output = request.found /\ disk'.backup = "none"
    BY <1>1, <1>3 DEF Disks, Untouched
  <2>3. request.found # "other"
    BY <1>1, <1>3 DEF UsableOutput, Untouched
  <2> QED
    BY <1>1, <2>1, <2>2, <2>3 DEF ExportPhases, ExportErrors, OnlyOldIsReplaced, BetweenRenames, AfterSwap, Undone,
       Untouched, OldOrNewSurvives
<1> QED
  BY <1>2, <1>3 DEF Check, ExportErrors

LEMMA FinishStep ==
  ASSUME ExportInv, FinishBag
  PROVE  ExportInv'
<1> USE DEF ExportInv, Fields, BeforeSwap
<1>1. export.pc = "finish" /\ request' = request /\ export.error = "none" /\ Untouched
      /\ request.found \in {"none", "old"}
  BY DEF FinishBag, OnlyOldIsReplaced, Requests
<1>2. CASE bag.count = 0
  BY <1>1, <1>2, FailTo, QuietStep DEF FinishBag, ExportErrors
<1>3. CASE bag.count # 0
  <2>1. disk' = [disk EXCEPT !.temporary = "new"]
    BY <1>3 DEF FinishBag
  <2>2. disk' \in Disks /\ disk'.output = request.found /\ disk'.backup = "none"
        /\ disk'.temporary = "new"
    BY <1>1, <2>1 DEF Disks, Untouched
  <2>3. CASE Fail("cancelled")
    BY <1>1, <2>2, <2>3, FailTo DEF ExportPhases, ExportErrors, OnlyOldIsReplaced, BetweenRenames, AfterSwap,
       Undone, Untouched, Kept, OldOrNewSurvives
  <2>4. CASE export' = [export EXCEPT !.pc = IF disk.output = "none" THEN "replace" ELSE "setAside"]
    <3>1. /\ DOMAIN export' = DOMAIN NoExport /\ export'.error = "none"
          /\ export'.pc = IF disk.output = "none" THEN "replace" ELSE "setAside"
      BY <1>1, <2>4 DEF NoExport
    <3> QED
      BY <1>1, <2>2, <3>1 DEF ExportPhases, ExportErrors, OnlyOldIsReplaced, BetweenRenames, AfterSwap, Undone,
         Untouched, OldOrNewSurvives
  <2> QED
    BY <1>3, <2>3, <2>4 DEF FinishBag
<1> QED
  BY <1>2, <1>3

LEMMA ExportSwapStep ==
  ASSUME ExportInv, SetAside \/ Replace \/ ReplaceFails
  PROVE  ExportInv'
<1> USE DEF ExportInv, Fields
<1>1. CASE SetAside
  <2>1. /\ export.pc = "setAside" /\ request' = request /\ export.error = "none"
        /\ disk.output = "old" /\ request.found = "old" /\ disk.temporary = "new"
    BY <1>1 DEF SetAside, BeforeSwap, OnlyOldIsReplaced, Untouched
  <2>2. disk' = [disk EXCEPT !.backup = disk.output, !.output = "none"]
    BY <1>1 DEF SetAside
  <2>3. disk'.output = "none" /\ disk'.temporary = "new" /\ disk'.backup = "old"
    BY <2>1, <2>2 DEF Disks
  <2>4. disk' \in Disks
    BY <2>1, <2>2, Zenon DEF Disks
  <2>5. DOMAIN export' = DOMAIN NoExport /\ export'.pc = "replace" /\ export'.error = "none"
    BY <1>1, <2>1 DEF SetAside, NoExport
  <2> QED
    BY <2>1, <2>3, <2>4, <2>5 DEF ExportPhases, ExportErrors, BeforeSwap, OnlyOldIsReplaced, BetweenRenames,
       AfterSwap, Undone, OldOrNewSurvives
<1>2. CASE Replace
  <2>1. /\ export.pc = "replace" /\ request' = request /\ export.error = "none"
        /\ disk.output = "none" /\ disk.temporary = "new" /\ disk.backup = request.found
    BY <1>2 DEF Replace, BetweenRenames
  <2>2. disk' = [disk EXCEPT !.output = disk.temporary, !.temporary = "none"]
    BY <1>2 DEF Replace
  <2>3. disk'.output = "new" /\ disk'.backup = request.found
    BY <2>1, <2>2 DEF Disks
  <2>4. disk' \in Disks
    BY <2>1, <2>2, Zenon DEF Disks
  <2>5. /\ DOMAIN export' = DOMAIN NoExport /\ export'.error = "none"
        /\ export'.pc \in {"done", "drop"}
    BY <1>2, <2>1 DEF Replace, NoExport
  <2> QED
    BY <2>1, <2>3, <2>4, <2>5 DEF ExportPhases, ExportErrors, BeforeSwap, OnlyOldIsReplaced, BetweenRenames,
       AfterSwap, Undone, OldOrNewSurvives
<1>3. CASE ReplaceFails
  <2>1. /\ export.pc = "replace" /\ request' = request
        /\ disk.output = "none" /\ disk.backup = request.found
    BY <1>3 DEF ReplaceFails, BetweenRenames
  <2>2. disk' = [disk EXCEPT !.output = disk.backup, !.backup = "none"] \/ disk' = disk
    BY <1>3 DEF ReplaceFails
  <2>3. /\ disk'.output # "new" /\ request.found \in {disk'.output, disk'.backup}
    BY <2>1, <2>2, Zenon DEF Disks
  <2>4. disk' \in Disks
    BY <2>1, <2>2, Zenon DEF Disks
  <2>5. DOMAIN export' = DOMAIN NoExport /\ export'.pc = "cleanUp" /\ export'.error = "disk"
    BY <1>3, FailTo DEF ReplaceFails
  <2> QED
    BY <2>1, <2>3, <2>4, <2>5 DEF ExportPhases, ExportErrors, BeforeSwap, OnlyOldIsReplaced, BetweenRenames,
       AfterSwap, Undone, Kept, OldOrNewSurvives
<1> QED
  BY <1>1, <1>2, <1>3

LEMMA EndStep ==
  ASSUME ExportInv, DropBackup \/ CleanUp \/ Killed
  PROVE  ExportInv'
<1> USE DEF ExportInv, Fields
<1>1. CASE DropBackup
  <2>1. export.pc = "drop" /\ request' = request /\ disk.output = "new" /\ export.error = "none"
    BY <1>1 DEF DropBackup, AfterSwap
  <2>2. disk'.output = "new" /\ disk' \in Disks
    BY <1>1, <2>1 DEF DropBackup, Disks
  <2>3. DOMAIN export' = DOMAIN NoExport /\ export'.pc = "done" /\ export'.error = "none"
    BY <1>1, <2>1 DEF DropBackup, NoExport
  <2> QED
    BY <2>1, <2>2, <2>3 DEF ExportPhases, ExportErrors, BeforeSwap, OnlyOldIsReplaced, BetweenRenames,
       AfterSwap, Undone, OldOrNewSurvives
<1>2. CASE CleanUp
  <2>1. export.pc = "cleanUp" /\ request' = request
    BY <1>2 DEF CleanUp
  <2>2. disk'.output = disk.output /\ disk'.backup = disk.backup /\ disk' \in Disks
    BY <1>2, <2>1 DEF CleanUp, Disks
  <2>3. /\ DOMAIN export' = DOMAIN NoExport /\ export'.pc = "done"
        /\ export'.error = export.error
    BY <1>2, <2>1 DEF CleanUp, NoExport
  <2> QED
    BY <2>1, <2>2, <2>3 DEF ExportPhases, ExportErrors, BeforeSwap, OnlyOldIsReplaced, BetweenRenames,
       AfterSwap, Undone, Untouched, Kept, OldOrNewSurvives
<1>3. CASE Killed
  <2>1. UNCHANGED <<request, disk>> /\ export.pc # "done" /\ export.pc # "killed"
    BY <1>3 DEF Killed
  <2>2. /\ DOMAIN export' = DOMAIN NoExport /\ export'.pc = "killed"
        /\ export'.error = export.error
    BY <1>3 DEF Killed, NoExport
  <2> QED
    BY <2>1, <2>2 DEF ExportPhases, ExportErrors, BeforeSwap, OnlyOldIsReplaced, BetweenRenames,
       AfterSwap, Undone, Untouched, Kept, OldOrNewSurvives
<1> QED
  BY <1>1, <1>2, <1>3

--------------------------------------------------------------------------------
LEMMA Unchanged ==
  ASSUME ExportInv, UNCHANGED <<request, disk, export>>
  PROVE  ExportInv'
BY DEF ExportInv, Fields, BeforeSwap, OnlyOldIsReplaced, BetweenRenames, AfterSwap, Undone, Untouched, Kept,
   OldOrNewSurvives

(* Every step of the readers keeps the invariant.                          *)
THEOREM ExportCorrect == ReadersSpec => []ExportInv
<1>1. ReadersInit => ExportInv
  BY ExportInitInv DEF ReadersInit
<1>2. ExportInv /\ [ReadersNext]_readersVars => ExportInv'
  <2> SUFFICES ASSUME ExportInv, [ReadersNext]_readersVars PROVE ExportInv'
    OBVIOUS
  <2>1. CASE ValidateStage \/ CancelValidation \/ UNCHANGED readersVars \/ PressCancel
    BY <2>1, Unchanged DEF ValidateStage, CancelValidation, readersVars, PressCancel
  <2>2. CASE Exporting
    BY <2>2, RowStep, LidarRowStep, CheckStep, EndStreamStep, FinishStep, ExportSwapStep, EndStep DEF Exporting
  <2>3. CASE DiskFails \/ Killed
    BY <2>3, DiskFailsStep, EndStep
  <2> QED
    BY <2>1, <2>2, <2>3 DEF ReadersNext, ExportNext
<1> QED
  BY <1>1, <1>2, PTL DEF ReadersSpec

(* Whatever fails, and whenever the viewer is killed, what was at the      *)
(* output of an export is there, or beside it, or replaced by the whole    *)
(* new bag; an export refused or cancelled changed nothing.                *)
THEOREM SurvivalCorrect == ReadersSpec => []OldOrNewSurvives
<1>1. ExportInv => OldOrNewSurvives
  BY DEF ExportInv
<1> QED
  BY <1>1, ExportCorrect, PTL

--------------------------------------------------------------------------------
(***************************************************************************)
(* The online update.                                                      *)
(***************************************************************************)
USE DEF updateVars

HelperRecords ==
  [pc : {"begin", "wait", "setAside", "place", "restore", "launch", "watch", "kill", "discard",
         "rollback", "ended"},
   count : Nat, ready : BOOLEAN, cancelled : BOOLEAN, backup : {"none", "old"},
   staged : {"none", "new"}, known : BOOLEAN,
   result : {"none", "gaveUp", "kept", "installed", "rollback", "stuck", "died"}]

TypeInv == UpdateTypeOK /\ helpers \in Seq(HelperRecords)

Dialogs    == [phase : {"none", "release", "manifest", "package"}, offered : BOOLEAN,
               verified : BOOLEAN]
Installers == [step : {"none", "list", "extract", "poll", "failed", "handoff"},
               tries : 0 .. Attempts, helper : 0 .. Len(helpers)]

(* Nothing has been done to the installed package.                         *)
Settled == target = "old" /\ child = "none" /\ relaunched = 0

(* A helper that has not touched a package ...                             *)
AtRest(r) ==
  /\ r.backup = "none" /\ r.staged = "new"
  /\ \/ r.pc \in {"begin", "wait"} /\ r.result = "none"
     \/ r.pc = "ended" /\ r.result \in {"gaveUp", "died"}

(* ... and what the packages and the viewers are once it has begun to, at  *)
(* each line of the script and after each of its ends.                     *)
MovesOld(r) ==
  \/ r.pc = "setAside" /\ r.backup = "none" /\ r.staged = "new" /\ Settled
  \/ r.pc \in {"place", "restore"} /\ r.backup = "old" /\ target = "none" /\ child = "none"
MovesNew(r) ==
  /\ r.backup = "old"
  /\ \/ r.pc = "launch" /\ target = "new" /\ child = "none"
     \/ r.pc \in {"watch", "kill"} /\ target = "new" /\ child # "none"
     \/ r.pc = "discard" /\ target = "new" /\ child \in {"dead", "exited"}
     \/ r.pc = "rollback" /\ target = "none" /\ child \in {"dead", "exited"}
Left(r) ==
  \/ r.result \in {"stuck", "died"} /\ r.backup = "old" /\ relaunched = 0
  \/ r.result = "installed" /\ r.backup = "old" /\ target = "new" /\ relaunched = 0
  \/ /\ r.result \in {"kept", "rollback"} /\ r.backup = "none" /\ target = "old"
     /\ child \notin {"starting", "up"} /\ relaunched \in {0, 1}
Moved(r) ==
  \/ r.result = "none" /\ relaunched = 0 /\ (MovesOld(r) \/ MovesNew(r))
  \/ r.pc = "ended" /\ Left(r)

(* At most one helper is not cancelled, the one the installer knows; only  *)
(* it touches a package, and only after the viewer is gone.                *)
HelperInOrder(h) ==
  /\ helpers[h].cancelled => AtRest(helpers[h])
  /\ ~helpers[h].cancelled => /\ h = installer.helper
                              /\ \/ AtRest(helpers[h]) /\ Settled
                                 \/ Moved(helpers[h]) /\ parent = "gone"
HelperInv ==
  /\ \A h \in DOMAIN helpers : HelperInOrder(h)
  /\ (\A h \in DOMAIN helpers : helpers[h].cancelled) => Settled

InstallerInv ==
  /\ installer.step \in {"none", "list", "extract"} => installer.helper = 0
  /\ installer.step = "handoff" => parent # "running"
  /\ parent = "quitting" => ~inUse

UpdateInv == TypeInv /\ HelperInv /\ InstallerInv

--------------------------------------------------------------------------------
LEMMA UpdateInitInv == UpdateInit => UpdateInv
<1> SUFFICES ASSUME UpdateInit PROVE UpdateInv
  OBVIOUS
<1>1. helpers \in Seq(HelperRecords) /\ Len(helpers) = 0 /\ DOMAIN helpers = {}
  BY DEF UpdateInit
<1>2. 0 \in 0 .. Attempts /\ 0 \in 0 .. MaxPresses
  BY UpdateAssumption
<1>3. installer.step = "none" /\ installer.helper = 0 /\ installer.tries = 0
  BY DEF UpdateInit, NoInstaller
<1>4. UpdateTypeOK
  <2>1. installer \in [step : {"none", "list", "extract", "poll", "failed", "handoff"},
                       tries : 0 .. Attempts, helper : 0 .. Len(helpers)]
    BY <1>1, <1>2 DEF UpdateInit, NoInstaller
  <2>2. dialog \in [phase : {"none", "release", "manifest", "package"}, offered : BOOLEAN,
                    verified : BOOLEAN]
    BY DEF UpdateInit, NoDialog
  <2>3. \A h \in DOMAIN helpers : FALSE
    BY <1>1
  <2> QED
    BY <1>2, <2>1, <2>2, <2>3, Zenon DEF UpdateInit, UpdateTypeOK
<1> QED
  BY <1>1, <1>3, <1>4 DEF UpdateInit, UpdateInv, TypeInv, HelperInv, InstallerInv, Settled

(***************************************************************************)
(* The helpers.                                                            *)
(***************************************************************************)
LEMMA HelperTypes ==
  ASSUME TypeInv, NEW h \in DOMAIN helpers
  PROVE  helpers[h] \in HelperRecords
BY DEF TypeInv

(* A step of one helper keeps the invariant if it leaves it idle, or with  *)
(* the packages and the viewers as its new position says.                  *)
LEMMA OneHelperMoves ==
  ASSUME UpdateInv, NEW h \in DOMAIN helpers, NEW r \in HelperRecords,
         helpers' = [helpers EXCEPT ![h] = r], r.cancelled = helpers[h].cancelled, OnlyHelpers,
         target' \in {"none", "old", "new"}, relaunched' \in Nat,
         child' \in {"none", "starting", "up", "dead", "exited"},
         r.cancelled => AtRest(r) /\ UNCHANGED <<target, child, relaunched>>,
         ~r.cancelled => (AtRest(r) /\ Settled') \/ (Moved(r)' /\ parent = "gone")
  PROVE  UpdateInv'
<1>1. /\ DOMAIN helpers' = DOMAIN helpers /\ Len(helpers') = Len(helpers)
      /\ helpers' \in Seq(HelperRecords)
  BY DEF UpdateInv, TypeInv
<1>2. \A g \in DOMAIN helpers : helpers'[g] = IF g = h THEN r ELSE helpers[g]
  OBVIOUS
<1>3. TypeInv'
  <2>1. \A g \in DOMAIN helpers' : helpers'[g] \in HelperRecords
    BY <1>1
  <2> QED
    BY <1>1, <2>1 DEF UpdateInv, TypeInv, UpdateTypeOK, OnlyHelpers, HelperRecords
<1>4. HelperInv'
  <2>1. ASSUME NEW g \in DOMAIN helpers
        PROVE  HelperInOrder(g)'
    <3>1. HelperInOrder(g) /\ HelperInOrder(h)
      BY DEF UpdateInv, HelperInv
    <3>2. UNCHANGED <<installer, parent>>
      BY DEF OnlyHelpers
    <3>3. CASE g = h
      <4>1. helpers'[g] = r
        BY <1>2, <3>3
      <4> QED
        BY <3>1, <3>2, <3>3, <4>1 DEF HelperInOrder
    <3>4. CASE g # h /\ helpers[g].cancelled
      BY <1>2, <3>1, <3>4 DEF HelperInOrder
    <3>5. CASE g # h /\ ~helpers[g].cancelled
      <4>1. helpers'[g] = helpers[g] /\ g = installer.helper /\ h # installer.helper
        BY <1>2, <3>1, <3>5 DEF HelperInOrder
      <4>2. UNCHANGED <<target, child, relaunched>>
        BY <3>1, <4>1 DEF HelperInOrder
      <4>3. UNCHANGED Settled /\ UNCHANGED Moved(helpers[g])
        BY <4>1, <4>2 DEF Settled, Moved, MovesOld, MovesNew, Left
      <4> QED
        BY <3>1, <3>2, <3>5, <4>1, <4>3 DEF HelperInOrder
    <3> QED
      BY <3>3, <3>4, <3>5
  <2>2. ASSUME \A g \in DOMAIN helpers' : helpers'[g].cancelled
        PROVE  Settled'
    <3>1. \A g \in DOMAIN helpers : helpers[g].cancelled
      BY <1>1, <1>2, <2>2
    <3>2. Settled /\ UNCHANGED <<target, child, relaunched>>
      BY <3>1 DEF UpdateInv, HelperInv
    <3> QED
      BY <3>2 DEF Settled
  <2> QED
    BY <1>1, <2>1, <2>2 DEF HelperInv
<1>5. InstallerInv'
  BY DEF UpdateInv, InstallerInv, OnlyHelpers
<1> QED
  BY <1>3, <1>4, <1>5 DEF UpdateInv

(* What a helper's record becomes, and that it stays a record of a helper. *)
LEMMA EndsRecord ==
  ASSUME NEW h, NEW result \in {"gaveUp", "kept", "installed", "stuck", "died"},
         helpers[h] \in HelperRecords, Ends(h, result)
  PROVE  \E r \in HelperRecords :
            /\ helpers' = [helpers EXCEPT ![h] = r]
            /\ r.pc = "ended" /\ r.result = result /\ r.cancelled = helpers[h].cancelled
            /\ r.backup = helpers[h].backup /\ r.staged = helpers[h].staged
<1> DEFINE r == [helpers[h] EXCEPT !.pc = "ended", !.result = result]
<1>1. helpers' = [helpers EXCEPT ![h] = r]
  BY Zenon DEF Ends
<1>2. r \in HelperRecords
  <2>1. ASSUME NEW old \in HelperRecords
        PROVE  [old EXCEPT !.pc = "ended", !.result = result] \in HelperRecords
    BY ZenonT(60) DEF HelperRecords
  <2> QED
    BY <2>1, Zenon
<1>3. /\ r.pc = "ended" /\ r.result = result /\ r.cancelled = helpers[h].cancelled
      /\ r.backup = helpers[h].backup /\ r.staged = helpers[h].staged
  BY DEF HelperRecords
<1> HIDE DEF r
<1> QED
  BY <1>1, <1>2, <1>3, Zenon

LEMMA GoesRecord ==
  ASSUME NEW h, NEW pc \in {"setAside", "restore", "kill", "discard", "rollback"},
         helpers[h] \in HelperRecords, HelperGoes(h, pc)
  PROVE  \E r \in HelperRecords :
            /\ helpers' = [helpers EXCEPT ![h] = r]
            /\ r.pc = pc /\ r.result = helpers[h].result /\ r.cancelled = helpers[h].cancelled
            /\ r.backup = helpers[h].backup /\ r.staged = helpers[h].staged
<1> DEFINE r == [helpers[h] EXCEPT !.pc = pc]
<1>1. helpers' = [helpers EXCEPT ![h] = r]
  BY Zenon DEF HelperGoes
<1>2. /\ r \in HelperRecords
      /\ r.pc = pc /\ r.result = helpers[h].result /\ r.cancelled = helpers[h].cancelled
      /\ r.backup = helpers[h].backup /\ r.staged = helpers[h].staged
  BY DEF HelperRecords
<1> HIDE DEF r
<1> QED
  BY <1>1, <1>2, Zenon

LEMMA CountsRecord ==
  ASSUME NEW h, helpers[h] \in HelperRecords, helpers' = [helpers EXCEPT ![h].count = @ + 1]
  PROVE  \E r \in HelperRecords :
            /\ helpers' = [helpers EXCEPT ![h] = r]
            /\ r.pc = helpers[h].pc /\ r.result = helpers[h].result
            /\ r.cancelled = helpers[h].cancelled
            /\ r.backup = helpers[h].backup /\ r.staged = helpers[h].staged
<1> DEFINE r == [helpers[h] EXCEPT !.count = @ + 1]
<1>1. helpers' = [helpers EXCEPT ![h] = r]
  BY Zenon
<1>2. /\ r \in HelperRecords
      /\ r.pc = helpers[h].pc /\ r.result = helpers[h].result /\ r.cancelled = helpers[h].cancelled
      /\ r.backup = helpers[h].backup /\ r.staged = helpers[h].staged
  BY DEF HelperRecords
<1> HIDE DEF r
<1> QED
  BY <1>1, <1>2, Zenon

(* Until its viewer is gone and it was not cancelled, a helper only waits. *)
LEMMA WaitingStep ==
  ASSUME UpdateInv, NEW h \in DOMAIN helpers, Begin(h) \/ AwaitExit(h)
  PROVE  UpdateInv'
<1>1. helpers[h] \in HelperRecords /\ HelperInOrder(h)
  BY HelperTypes DEF UpdateInv, HelperInv
<1>2. /\ helpers[h].pc \in {"begin", "wait"} /\ OnlyHelpers
      /\ UNCHANGED <<target, child, relaunched>>
  BY DEF Begin, AwaitExit, At
<1>3. /\ target' \in {"none", "old", "new"} /\ relaunched' \in Nat
      /\ child' \in {"none", "starting", "up", "dead", "exited"}
  BY <1>2 DEF UpdateInv, TypeInv, UpdateTypeOK
<1>4. AtRest(helpers[h]) /\ helpers[h].result = "none" /\ (~helpers[h].cancelled => Settled /\ Settled')
  BY <1>1, <1>2 DEF HelperInOrder, Moved, MovesOld, MovesNew, AtRest, Settled
<1>5. CASE Ends(h, "gaveUp")
  <2>1. PICK r \in HelperRecords :
            /\ helpers' = [helpers EXCEPT ![h] = r]
            /\ r.pc = "ended" /\ r.result = "gaveUp" /\ r.cancelled = helpers[h].cancelled
            /\ r.backup = helpers[h].backup /\ r.staged = helpers[h].staged
    BY <1>1, <1>5, EndsRecord
  <2> QED
    BY <1>2, <1>3, <1>4, <2>1, OneHelperMoves, Zenon DEF AtRest
<1>6. CASE helpers' = [helpers EXCEPT ![h].pc = "wait", ![h].ready = TRUE]
  <2> DEFINE r == [helpers[h] EXCEPT !.pc = "wait", !.ready = TRUE]
  <2>1. helpers' = [helpers EXCEPT ![h] = r]
    BY <1>6, Zenon
  <2>2. r \in HelperRecords
    <3>1. ASSUME NEW old \in HelperRecords
          PROVE  [old EXCEPT !.pc = "wait", !.ready = TRUE] \in HelperRecords
      BY Zenon DEF HelperRecords
    <3> QED
      BY <1>1, <3>1, Zenon
  <2>3. /\ r.pc = "wait" /\ r.result = "none" /\ r.cancelled = helpers[h].cancelled
        /\ r.backup = helpers[h].backup /\ r.staged = helpers[h].staged
    BY <1>1, <1>4 DEF HelperRecords
  <2> HIDE DEF r
  <2> QED
    BY <1>2, <1>3, <1>4, <2>1, <2>2, <2>3, OneHelperMoves, Zenon DEF AtRest
<1>7. CASE helpers' = [helpers EXCEPT ![h].count = @ + 1]
  <2>1. PICK r \in HelperRecords :
            /\ helpers' = [helpers EXCEPT ![h] = r]
            /\ r.pc = helpers[h].pc /\ r.result = helpers[h].result
            /\ r.cancelled = helpers[h].cancelled
            /\ r.backup = helpers[h].backup /\ r.staged = helpers[h].staged
    BY <1>1, <1>7, CountsRecord, Zenon
  <2> QED
    BY <1>2, <1>3, <1>4, <2>1, OneHelperMoves, Zenon DEF AtRest
<1>8. CASE ~GivesUp(h) /\ parent = "gone" /\ HelperGoes(h, "setAside")
  <2>1. PICK r \in HelperRecords :
            /\ helpers' = [helpers EXCEPT ![h] = r]
            /\ r.pc = "setAside" /\ r.result = helpers[h].result
            /\ r.cancelled = helpers[h].cancelled
            /\ r.backup = helpers[h].backup /\ r.staged = helpers[h].staged
    BY <1>1, <1>8, GoesRecord
  <2>2. ~r.cancelled /\ Moved(r)'
    BY <1>4, <1>8, <2>1 DEF GivesUp, Moved, MovesOld, AtRest, Settled
  <2> QED
    BY <1>2, <1>3, <1>8, <2>1, <2>2, OneHelperMoves, Zenon
<1> QED
  BY <1>5, <1>6, <1>7, <1>8 DEF Begin, AwaitExit

(* Whoever is further on is the one helper that counts.                    *)
LEMMA MovingHelper ==
  ASSUME UpdateInv, NEW h \in DOMAIN helpers, helpers[h].pc \notin {"begin", "wait", "ended"}
  PROVE  /\ helpers[h] \in HelperRecords /\ helpers[h].result = "none" /\ ~helpers[h].cancelled
         /\ relaunched = 0 /\ parent = "gone" /\ (MovesOld(helpers[h]) \/ MovesNew(helpers[h]))
         /\ target \in {"none", "old", "new"}
         /\ child \in {"none", "starting", "up", "dead", "exited"}
<1>1. helpers[h] \in HelperRecords /\ HelperInOrder(h)
  BY HelperTypes DEF UpdateInv, HelperInv
<1> QED
  BY <1>1 DEF HelperInOrder, AtRest, Moved, UpdateInv, TypeInv, UpdateTypeOK

(* From the two renames to the end of the script.                          *)
LEMMA EndingStep ==
  ASSUME UpdateInv, NEW h \in DOMAIN helpers, helpers[h].pc \notin {"begin", "wait", "ended"},
         NEW result \in {"kept", "installed", "stuck", "died"}, Ends(h, result), OnlyHelpers,
         target' \in {"none", "old", "new"}, child' = child, relaunched' \in Nat,
         \/ /\ result \in {"stuck", "died"} /\ helpers[h].backup = "old"
            /\ UNCHANGED <<target, relaunched>>
         \/ result = "died" /\ helpers[h].pc = "setAside" /\ UNCHANGED <<target, relaunched>>
         \/ result = "installed" /\ helpers[h].pc = "watch" /\ UNCHANGED <<target, relaunched>>
         \/ /\ result = "kept" /\ helpers[h].pc = "setAside" /\ target' = target
            /\ relaunched' = relaunched + 1
  PROVE  UpdateInv'
<1>1. /\ helpers[h] \in HelperRecords /\ helpers[h].result = "none" /\ ~helpers[h].cancelled
      /\ relaunched = 0 /\ parent = "gone" /\ (MovesOld(helpers[h]) \/ MovesNew(helpers[h]))
      /\ child \in {"none", "starting", "up", "dead", "exited"}
  BY MovingHelper
<1>2. PICK r \in HelperRecords :
          /\ helpers' = [helpers EXCEPT ![h] = r]
          /\ r.pc = "ended" /\ r.result = result /\ r.cancelled = helpers[h].cancelled
          /\ r.backup = helpers[h].backup /\ r.staged = helpers[h].staged
  BY <1>1, EndsRecord
<1>3. (AtRest(r) /\ Settled') \/ Moved(r)'
  BY <1>1, <1>2 DEF AtRest, Settled, Moved, MovesOld, MovesNew, Left
<1> QED
  BY <1>1, <1>2, <1>3, OneHelperMoves, Zenon

LEMMA GoingStep ==
  ASSUME UpdateInv, NEW h \in DOMAIN helpers, helpers[h].pc \notin {"begin", "wait", "ended"},
         NEW pc \in {"restore", "kill", "discard", "rollback"}, HelperGoes(h, pc), OnlyHelpers,
         relaunched' = relaunched,
         \/ pc = "restore" /\ helpers[h].pc = "place" /\ UNCHANGED <<target, child>>
         \/ pc = "kill" /\ helpers[h].pc = "watch" /\ UNCHANGED <<target, child>>
         \/ /\ pc = "discard" /\ helpers[h].pc = "kill"
            /\ child' \in {"dead", "exited"} /\ target' = target
         \/ pc = "rollback" /\ helpers[h].pc = "discard" /\ target' = "none" /\ child' = child
  PROVE  UpdateInv'
<1>1. /\ helpers[h] \in HelperRecords /\ helpers[h].result = "none" /\ ~helpers[h].cancelled
      /\ relaunched = 0 /\ parent = "gone" /\ (MovesOld(helpers[h]) \/ MovesNew(helpers[h]))
      /\ target \in {"none", "old", "new"} /\ child \in {"none", "starting", "up", "dead", "exited"}
  BY MovingHelper
<1>2. PICK r \in HelperRecords :
          /\ helpers' = [helpers EXCEPT ![h] = r]
          /\ r.pc = pc /\ r.result = helpers[h].result /\ r.cancelled = helpers[h].cancelled
          /\ r.backup = helpers[h].backup /\ r.staged = helpers[h].staged
  BY <1>1, GoesRecord
<1>3. Moved(r)'
  BY <1>1, <1>2 DEF Moved, MovesOld, MovesNew
<1>4. /\ target' \in {"none", "old", "new"} /\ relaunched' \in Nat
      /\ child' \in {"none", "starting", "up", "dead", "exited"}
  BY <1>1
<1> QED
  BY <1>1, <1>2, <1>3, <1>4, OneHelperMoves, Zenon

LEMMA PutBackStep ==
  ASSUME UpdateInv, NEW h \in DOMAIN helpers, Restore(h) \/ RollBack(h)
  PROVE  UpdateInv'
<1>1. PICK result \in {"kept", "rollback"} : PutBack(h, result)
  BY DEF Restore, RollBack
<1>2. helpers[h].pc \in {"restore", "rollback"} /\ OnlyHelpers /\ child' = child
  BY DEF Restore, RollBack, At
<1>3. /\ helpers[h] \in HelperRecords /\ helpers[h].result = "none" /\ ~helpers[h].cancelled
      /\ relaunched = 0 /\ parent = "gone" /\ (MovesOld(helpers[h]) \/ MovesNew(helpers[h]))
      /\ target \in {"none", "old", "new"} /\ child \in {"none", "starting", "up", "dead", "exited"}
  BY <1>2, MovingHelper
<1>4. helpers[h].backup = "old" /\ child \in {"none", "dead", "exited"}
  BY <1>2, <1>3 DEF MovesOld, MovesNew
<1>5. CASE Ends(h, "stuck") /\ UNCHANGED <<target, relaunched>>
  BY <1>2, <1>3, <1>4, <1>5, EndingStep
<1>6. CASE /\ target' = helpers[h].backup /\ Relaunch
           /\ helpers' = [helpers EXCEPT ![h].pc = "ended", ![h].result = result, ![h].backup = "none"]
  <2> DEFINE put == [helpers[h] EXCEPT !.pc = "ended", !.result = result, !.backup = "none"]
  <2>1. helpers' = [helpers EXCEPT ![h] = put]
    BY <1>6, Zenon
  <2>2. put \in HelperRecords
    <3>1. ASSUME NEW old \in HelperRecords
          PROVE  [old EXCEPT !.pc = "ended", !.result = result, !.backup = "none"] \in HelperRecords
      BY Zenon DEF HelperRecords
    <3> QED
      BY <1>3, <3>1, Zenon
  <2>3. put.pc = "ended" /\ put.result = result /\ put.cancelled = helpers[h].cancelled /\ put.backup = "none"
    BY <1>3 DEF HelperRecords
  <2> HIDE DEF put
  <2>4. PICK r \in HelperRecords :
          /\ helpers' = [helpers EXCEPT ![h] = r]
          /\ r.pc = "ended" /\ r.result = result /\ r.cancelled = helpers[h].cancelled /\ r.backup = "none"
    BY <2>1, <2>2, <2>3, Zenon
  <2>5. target' = "old" /\ relaunched' = 1
    BY <1>3, <1>4, <1>6 DEF Relaunch
  <2>6. Moved(r)'
    BY <1>1, <1>2, <1>4, <2>4, <2>5 DEF Moved, Left
  <2> QED
    BY <1>2, <1>3, <2>4, <2>5, <2>6, OneHelperMoves, Zenon
<1> QED
  BY <1>1, <1>5, <1>6 DEF PutBack

LEMMA HelperSwapStep ==
  ASSUME UpdateInv, NEW h \in DOMAIN helpers, SetOldAside(h) \/ PlaceNew(h) \/ Launch(h)
  PROVE  UpdateInv'
<1>1. helpers[h].pc \in {"setAside", "place", "launch"} /\ OnlyHelpers
  BY Zenon DEF SetOldAside, PlaceNew, Launch, At
<1>2. /\ helpers[h] \in HelperRecords /\ helpers[h].result = "none" /\ ~helpers[h].cancelled
      /\ relaunched = 0 /\ parent = "gone" /\ (MovesOld(helpers[h]) \/ MovesNew(helpers[h]))
      /\ target \in {"none", "old", "new"} /\ child \in {"none", "starting", "up", "dead", "exited"}
  BY <1>1, MovingHelper
<1>3. CASE SetOldAside(h)
  <2>1. helpers[h].pc = "setAside" /\ target = "old" /\ child = "none" /\ child' = child
    BY <1>2, <1>3 DEF SetOldAside, At, MovesOld, MovesNew, Settled
  <2>2. CASE Ends(h, "kept") /\ target' = target /\ Relaunch
    BY <1>1, <1>2, <2>1, <2>2, EndingStep DEF Relaunch
  <2>3. CASE /\ helpers' = [helpers EXCEPT ![h].pc = "place", ![h].backup = target]
             /\ target' = "none" /\ relaunched' = relaunched
    <3> DEFINE aside == [helpers[h] EXCEPT !.pc = "place", !.backup = "old"]
    <3>1. helpers' = [helpers EXCEPT ![h] = aside]
      BY <2>1, <2>3, Zenon
    <3>2. aside \in HelperRecords
      <4>1. ASSUME NEW old \in HelperRecords
            PROVE  [old EXCEPT !.pc = "place", !.backup = "old"] \in HelperRecords
        BY Zenon DEF HelperRecords
      <4> QED
        BY <1>2, <4>1, Zenon
    <3>3. /\ aside.pc = "place" /\ aside.result = "none"
         /\ aside.cancelled = helpers[h].cancelled /\ aside.backup = "old"
      BY <1>2 DEF HelperRecords
    <3> HIDE DEF aside
    <3>4. PICK r \in HelperRecords :
            /\ helpers' = [helpers EXCEPT ![h] = r]
            /\ r.pc = "place" /\ r.result = "none" /\ r.cancelled = helpers[h].cancelled /\ r.backup = "old"
      BY <3>1, <3>2, <3>3, Zenon
    <3>5. Moved(r)'
      BY <1>2, <2>1, <2>3, <3>4 DEF Moved, MovesOld
    <3> QED
      BY <1>1, <1>2, <2>1, <2>3, <3>4, <3>5, OneHelperMoves, Zenon
  <2> QED
    BY <1>3, <2>2, <2>3 DEF SetOldAside
<1>4. CASE PlaceNew(h)
  <2>1. /\ helpers[h].pc = "place" /\ helpers[h].backup = "old" /\ child = "none"
        /\ UNCHANGED <<child, relaunched>>
    BY <1>2, <1>4 DEF PlaceNew, At, MovesOld, MovesNew
  <2>2. CASE HelperGoes(h, "restore") /\ target' = target
    BY <1>1, <2>1, <2>2, GoingStep
  <2>3. CASE target' = "new" /\ helpers' = [helpers EXCEPT ![h].pc = "launch", ![h].staged = "none"]
    <3> DEFINE placed == [helpers[h] EXCEPT !.pc = "launch", !.staged = "none"]
    <3>1. helpers' = [helpers EXCEPT ![h] = placed]
      BY <2>3, Zenon
    <3>2. placed \in HelperRecords
      <4>1. ASSUME NEW old \in HelperRecords
            PROVE  [old EXCEPT !.pc = "launch", !.staged = "none"] \in HelperRecords
        BY Zenon DEF HelperRecords
      <4> QED
        BY <1>2, <4>1, Zenon
    <3>3. /\ placed.pc = "launch" /\ placed.result = "none"
         /\ placed.cancelled = helpers[h].cancelled /\ placed.backup = "old"
      BY <1>2, <2>1 DEF HelperRecords
    <3> HIDE DEF placed
    <3>4. PICK r \in HelperRecords :
            /\ helpers' = [helpers EXCEPT ![h] = r]
            /\ r.pc = "launch" /\ r.result = "none" /\ r.cancelled = helpers[h].cancelled /\ r.backup = "old"
      BY <3>1, <3>2, <3>3, Zenon
    <3>5. Moved(r)'
      BY <1>2, <2>1, <2>3, <3>4 DEF Moved, MovesNew
    <3> QED
      BY <1>1, <1>2, <2>1, <2>3, <3>4, <3>5, OneHelperMoves, Zenon
  <2> QED
    BY <1>4, <2>2, <2>3 DEF PlaceNew
<1>5. CASE Launch(h)
  <2>1. /\ helpers[h].pc = "launch" /\ helpers[h].backup = "old" /\ target = "new"
        /\ child' = "starting" /\ UNCHANGED <<target, relaunched>>
    BY <1>2, <1>5, Zenon DEF Launch, At, MovesOld, MovesNew
  <2>2. PICK known \in BOOLEAN :
          helpers' = [helpers EXCEPT ![h].pc = "watch", ![h].count = 0, ![h].known = known]
    BY <1>5, Zenon DEF Launch
  <2> DEFINE launched == [helpers[h] EXCEPT !.pc = "watch", !.count = 0, !.known = known]
  <2>3. helpers' = [helpers EXCEPT ![h] = launched]
    BY <2>2, Zenon
  <2>4. launched \in HelperRecords
    <3>1. ASSUME NEW old \in HelperRecords
          PROVE  [old EXCEPT !.pc = "watch", !.count = 0, !.known = known] \in HelperRecords
      <4> DEFINE zeroed == [old EXCEPT !.pc = "watch", !.count = 0]
      <4>1. zeroed \in HelperRecords
        <5>1. 0 \in Nat
          OBVIOUS
        <5> QED
          BY <5>1, Zenon DEF HelperRecords
      <4> HIDE DEF zeroed
      <4>2. [zeroed EXCEPT !.known = known] \in HelperRecords
        BY <4>1 DEF HelperRecords
      <4>3. [old EXCEPT !.pc = "watch", !.count = 0, !.known = known] = [zeroed EXCEPT !.known = known]
        BY DEF zeroed
      <4> QED
        BY <4>2, <4>3
    <3> QED
      BY <1>2, <3>1, Zenon
  <2>5. /\ launched.pc = "watch" /\ launched.result = "none"
       /\ launched.cancelled = helpers[h].cancelled /\ launched.backup = "old"
    BY <1>2, <2>1 DEF HelperRecords
  <2> HIDE DEF launched
  <2>6. PICK r \in HelperRecords :
          /\ helpers' = [helpers EXCEPT ![h] = r]
          /\ r.pc = "watch" /\ r.result = "none" /\ r.cancelled = helpers[h].cancelled /\ r.backup = "old"
    BY <2>3, <2>4, <2>5, Zenon
  <2>7. Moved(r)'
    BY <1>2, <2>1, <2>6 DEF Moved, MovesNew
  <2> QED
    BY <1>1, <1>2, <2>1, <2>6, <2>7, OneHelperMoves, Zenon
<1> QED
  BY <1>3, <1>4, <1>5

LEMMA WatchStep ==
  ASSUME UpdateInv, NEW h \in DOMAIN helpers, Watch(h) \/ Kill(h) \/ Discard(h)
  PROVE  UpdateInv'
<1>1. helpers[h].pc \in {"watch", "kill", "discard"} /\ OnlyHelpers
  BY DEF Watch, Kill, Discard, At
<1>2. /\ helpers[h] \in HelperRecords /\ helpers[h].result = "none" /\ ~helpers[h].cancelled
      /\ relaunched = 0 /\ parent = "gone" /\ (MovesOld(helpers[h]) \/ MovesNew(helpers[h]))
      /\ target \in {"none", "old", "new"} /\ child \in {"none", "starting", "up", "dead", "exited"}
  BY <1>1, MovingHelper
<1>3. helpers[h].backup = "old" /\ target = "new" /\ child # "none"
  BY <1>1, <1>2 DEF MovesOld, MovesNew
<1>4. CASE Watch(h)
  <2>1. helpers[h].pc = "watch" /\ UNCHANGED <<target, child, relaunched>>
    BY <1>4 DEF Watch, At
  <2>2. CASE Ends(h, "installed")
    BY <1>1, <1>2, <2>1, <2>2, EndingStep
  <2>3. CASE HelperGoes(h, "kill")
    BY <1>1, <1>2, <2>1, <2>3, GoingStep
  <2>4. CASE helpers' = [helpers EXCEPT ![h].count = @ + 1]
    <3>1. PICK r \in HelperRecords :
            /\ helpers' = [helpers EXCEPT ![h] = r]
            /\ r.pc = helpers[h].pc /\ r.result = helpers[h].result
            /\ r.cancelled = helpers[h].cancelled
            /\ r.backup = helpers[h].backup /\ r.staged = helpers[h].staged
      BY <1>2, <2>4, CountsRecord, Zenon
    <3>2. Moved(r)'
      BY <1>2, <1>3, <2>1, <3>1 DEF Moved, MovesNew
    <3> QED
      BY <1>1, <1>2, <2>1, <3>1, <3>2, OneHelperMoves, Zenon
  <2> QED
    BY <1>4, <2>2, <2>3, <2>4 DEF Watch
<1>5. CASE Kill(h)
  <2>1. /\ helpers[h].pc = "kill" /\ UNCHANGED <<target, relaunched>> /\ HelperGoes(h, "discard")
        /\ child' \in {"dead", "exited"}
    BY <1>5 DEF Kill, At, ReapsChild
  <2> QED
    BY <1>1, <2>1, GoingStep
<1>6. CASE Discard(h)
  <2>1. helpers[h].pc = "discard" /\ UNCHANGED <<child, relaunched>>
    BY <1>6 DEF Discard, At
  <2>2. CASE target' = "none" /\ HelperGoes(h, "rollback")
    BY <1>1, <2>1, <2>2, GoingStep
  <2>3. CASE Ends(h, "stuck") /\ target' = target
    BY <1>1, <1>2, <1>3, <2>1, <2>3, EndingStep
  <2> QED
    BY <1>6, <2>2, <2>3 DEF Discard
<1> QED
  BY <1>4, <1>5, <1>6

(* A helper may die anywhere.                                              *)
LEMMA DeathStep ==
  ASSUME UpdateInv, NEW h \in DOMAIN helpers, HelperDies(h)
  PROVE  UpdateInv'
<1>1. /\ helpers[h].pc # "ended" /\ Ends(h, "died") /\ OnlyHelpers
      /\ UNCHANGED <<target, child, relaunched>>
  BY DEF HelperDies
<1>2. /\ target' \in {"none", "old", "new"} /\ relaunched' \in Nat
      /\ child' \in {"none", "starting", "up", "dead", "exited"}
  BY <1>1 DEF UpdateInv, TypeInv, UpdateTypeOK
<1>3. CASE helpers[h].pc \in {"begin", "wait"}
  <2>1. helpers[h] \in HelperRecords /\ HelperInOrder(h)
    BY HelperTypes DEF UpdateInv, HelperInv
  <2>2. AtRest(helpers[h]) /\ (~helpers[h].cancelled => Settled /\ Settled')
    BY <1>1, <1>3, <2>1 DEF HelperInOrder, Moved, MovesOld, MovesNew, AtRest, Settled
  <2>3. PICK r \in HelperRecords :
            /\ helpers' = [helpers EXCEPT ![h] = r]
            /\ r.pc = "ended" /\ r.result = "died" /\ r.cancelled = helpers[h].cancelled
            /\ r.backup = helpers[h].backup /\ r.staged = helpers[h].staged
    BY <1>1, <2>1, EndsRecord
  <2> QED
    BY <1>1, <1>2, <2>2, <2>3, OneHelperMoves, Zenon DEF AtRest
<1>4. CASE helpers[h].pc \notin {"begin", "wait"}
  <2>1. helpers[h].pc = "setAside" \/ helpers[h].backup = "old"
    BY <1>1, <1>4, MovingHelper DEF MovesOld, MovesNew
  <2> QED
    BY <1>1, <1>2, <1>4, <2>1, EndingStep
<1> QED
  BY <1>3, <1>4

(***************************************************************************)
(* The viewer, while it is there: no helper has touched a package.         *)
(***************************************************************************)
LEMMA Present ==
  ASSUME UpdateInv, parent # "gone"
  PROVE  Settled /\ \A h \in DOMAIN helpers : AtRest(helpers[h])
BY DEF UpdateInv, HelperInv, HelperInOrder

(* A step of the viewer that leaves the helpers' records of the right type *)
(* and its own variables in their types.                                   *)
LEMMA ViewerTypes ==
  ASSUME UpdateInv, helpers' \in Seq(HelperRecords), dialog' \in Dialogs, installer' \in Installers',
         parent' \in {"running", "quitting", "gone"}, inUse' \in BOOLEAN,
         presses' \in 0 .. MaxPresses, UNCHANGED <<target, child, relaunched>>
  PROVE  TypeInv'
<1>1. \A h \in DOMAIN helpers' : helpers'[h] \in HelperRecords
  OBVIOUS
<1> QED
  BY <1>1 DEF UpdateInv, TypeInv, UpdateTypeOK, Dialogs, Installers, HelperRecords

LEMMA Cancelling ==
  ASSUME UpdateInv, parent # "gone", helpers' = Cancelled(helpers), UNCHANGED <<target, child, relaunched>>,
         installer'.helper \in {0, installer.helper},
         installer.step = "handoff" => installer'.helper = installer.helper
  PROVE  HelperInv' /\ helpers' \in Seq(HelperRecords) /\ Len(helpers') = Len(helpers)
<1>1. Settled /\ Settled' /\ \A h \in DOMAIN helpers : AtRest(helpers[h])
  BY Present DEF Settled
<1>2. CASE installer.helper = 0 \/ installer.step = "handoff"
  <2>1. helpers' = helpers
    BY <1>2 DEF Cancelled
  <2>2. \A h \in DOMAIN helpers : h # 0
    BY DEF UpdateInv, TypeInv
  <2>3. \A h \in DOMAIN helpers : ~helpers[h].cancelled => h = installer'.helper
    BY <1>2, <2>2 DEF UpdateInv, HelperInv, HelperInOrder
  <2> QED
    BY <1>1, <2>1, <2>3 DEF HelperInv, HelperInOrder, UpdateInv, TypeInv
<1>3. CASE installer.helper # 0 /\ installer.step # "handoff"
  <2>1. helpers' = [helpers EXCEPT ![installer.helper] = [helpers[installer.helper] EXCEPT !.cancelled = TRUE]]
    BY <1>3 DEF Cancelled
  <2>2. installer.helper \in DOMAIN helpers
    BY <1>3 DEF UpdateInv, TypeInv, UpdateTypeOK
  <2>3. helpers[installer.helper] \in HelperRecords
    BY <2>2, HelperTypes DEF UpdateInv
  <2> DEFINE told == [helpers[installer.helper] EXCEPT !.cancelled = TRUE]
  <2>4. told \in HelperRecords /\ told.cancelled = TRUE
    BY <2>3, Zenon DEF HelperRecords
  <2>5. AtRest(told)
    BY <1>1, <2>2, <2>3 DEF AtRest, HelperRecords
  <2> HIDE DEF told
  <2>6. helpers' \in Seq(HelperRecords) /\ Len(helpers') = Len(helpers) /\ DOMAIN helpers' = DOMAIN helpers
    BY <2>1, <2>2, <2>4 DEF told, UpdateInv, TypeInv
  <2>7. \A h \in DOMAIN helpers : helpers'[h] = IF h = installer.helper THEN told ELSE helpers[h]
    BY <2>1 DEF told
  <2>8. \A h \in DOMAIN helpers : helpers[h].cancelled \/ h = installer.helper
    BY DEF UpdateInv, HelperInv, HelperInOrder
  <2>9. \A h \in DOMAIN helpers : helpers'[h].cancelled /\ AtRest(helpers'[h])
    <3> TAKE h \in DOMAIN helpers
    <3>1. CASE h = installer.helper
      BY <2>4, <2>5, <2>7, <3>1
    <3>2. CASE h # installer.helper
      <4>1. helpers'[h] = helpers[h]
        BY <2>7, <3>2
      <4> QED
        BY <1>1, <2>8, <3>2, <4>1
    <3> QED
      BY <3>1, <3>2
  <2> QED
    BY <1>1, <2>6, <2>9 DEF HelperInv, HelperInOrder
<1> QED
  BY <1>2, <1>3

(* The dialog alone.                                                       *)
LEMMA DialogStep ==
  ASSUME UpdateInv, dialog' \in Dialogs, presses' \in 0 .. MaxPresses,
         UNCHANGED <<installer, parent, inUse, helpers, target, child, relaunched>>
  PROVE  UpdateInv'
<1>1. TypeInv'
  BY ViewerTypes DEF UpdateInv, TypeInv, UpdateTypeOK, Installers
<1>2. HelperInv' /\ InstallerInv'
  BY DEF UpdateInv, HelperInv, HelperInOrder, InstallerInv, Settled, Moved, MovesOld, MovesNew, Left
<1> QED
  BY <1>1, <1>2 DEF UpdateInv

(* The installer begins anew, fails, or goes with its dialog.              *)
LEMMA InstallerStep ==
  ASSUME UpdateInv, parent = "running", dialog' \in Dialogs, presses' \in 0 .. MaxPresses,
         UNCHANGED <<parent, inUse, target, child, relaunched>>,
         helpers' = Cancelled(helpers), installer' \in Installers,
         installer'.helper \in {0, installer.helper},
         installer'.step \in {"none", "list"} => installer'.helper = 0,
         installer'.step \in {"none", "list", "failed"}
  PROVE  UpdateInv'
<1>1. installer.step # "handoff"
  BY DEF UpdateInv, InstallerInv
<1>2. HelperInv' /\ helpers' \in Seq(HelperRecords) /\ Len(helpers') = Len(helpers)
  BY <1>1, Cancelling
<1>3. TypeInv'
  <2>1. installer' \in Installers'
    BY <1>2 DEF Installers
  <2> QED
    BY <1>2, <2>1, ViewerTypes DEF UpdateInv, TypeInv, UpdateTypeOK
<1>4. InstallerInv'
  BY DEF InstallerInv
<1> QED
  BY <1>2, <1>3, <1>4 DEF UpdateInv

LEMMA FailStep ==
  ASSUME UpdateInv, parent = "running", FailInstaller,
         UNCHANGED <<parent, inUse, target, child, relaunched, presses>>
  PROVE  UpdateInv'
<1>1. installer \in Installers /\ dialog \in Dialogs /\ presses \in 0 .. MaxPresses
  BY DEF UpdateInv, TypeInv, UpdateTypeOK, Installers, Dialogs
<1>2. /\ installer' \in Installers /\ installer'.step = "failed"
      /\ installer'.helper = installer.helper
  BY <1>1 DEF FailInstaller, Installers
<1>3. dialog' \in Dialogs /\ helpers' = Cancelled(helpers)
  BY <1>1, Zenon DEF FailInstaller, Dialogs
<1> QED
  BY <1>1, <1>2, <1>3, InstallerStep

LEMMA InstallStep ==
  ASSUME UpdateInv, parent = "running", Install, presses' \in 0 .. MaxPresses,
         UNCHANGED <<parent, inUse, target, child, relaunched>>
  PROVE  UpdateInv'
<1>1. CASE inUse
  <2>1. dialog' \in Dialogs /\ UNCHANGED <<installer, helpers>>
    BY <1>1, Zenon DEF Install, Dialogs, NoDialog
  <2> QED
    BY <2>1, DialogStep
<1>2. CASE ~inUse
  <2>1. helpers' = Cancelled(helpers) /\ dialog' \in Dialogs
    <3>1. NoDialog \in Dialogs
      BY DEF NoDialog, Dialogs
    <3>2. [NoDialog EXCEPT !.verified = TRUE] \in Dialogs
      BY <3>1, Zenon DEF Dialogs
    <3> QED
      BY <1>2, <3>1, <3>2, Zenon DEF Install, Started
  <2>2. 0 \in 0 .. Attempts /\ 0 \in 0 .. Len(helpers)
    BY UpdateAssumption DEF UpdateInv, TypeInv
  <2>3. /\ installer' \in Installers /\ installer'.step \in {"list", "failed"}
        /\ installer'.helper = 0
    BY <1>2, <2>2 DEF Install, Started, Installers, NoInstaller
  <2> QED
    BY <2>1, <2>3, InstallerStep
<1> QED
  BY <1>1, <1>2

LEMMA ButtonStep ==
  ASSUME UpdateInv, CheckForUpdate \/ Download \/ CancelDownload \/ CloseDialog \/ PressInstall
  PROVE  UpdateInv'
<1>1. parent = "running" /\ presses' \in 0 .. MaxPresses
  BY UpdateAssumption DEF CheckForUpdate, Download, CancelDownload, CloseDialog, PressInstall, Pressed,
     UpdateInv, TypeInv, UpdateTypeOK
<1>2. dialog \in Dialogs /\ NoDialog \in Dialogs
  BY DEF UpdateInv, TypeInv, UpdateTypeOK, Dialogs, NoDialog
<1>3. CASE CheckForUpdate \/ Download \/ CancelDownload
  <2>1. dialog' \in Dialogs
    BY <1>2, <1>3, Zenon DEF CheckForUpdate, Download, CancelDownload, Dialogs
  <2> QED
    BY <1>1, <1>3, <2>1, DialogStep DEF CheckForUpdate, Download, CancelDownload
<1>4. CASE CloseDialog
  <2>1. 0 \in 0 .. Attempts /\ 0 \in 0 .. Len(helpers)
    BY UpdateAssumption DEF UpdateInv, TypeInv
  <2>2. NoInstaller \in Installers /\ NoInstaller.step = "none" /\ NoInstaller.helper = 0
    BY <2>1 DEF NoInstaller, Installers
  <2> QED
    BY <1>1, <1>2, <1>4, <2>2, InstallerStep DEF CloseDialog
<1>5. CASE PressInstall
  BY <1>1, <1>5, InstallStep DEF PressInstall
<1> QED
  BY <1>3, <1>4, <1>5

LEMMA ReplyStep ==
  ASSUME UpdateInv, Reply
  PROVE  UpdateInv'
<1>1. /\ parent = "running" /\ presses' \in 0 .. MaxPresses /\ dialog \in Dialogs
      /\ UNCHANGED <<parent, inUse, target, child, relaunched>>
  BY DEF Reply, UpdateInv, TypeInv, UpdateTypeOK, Dialogs
<1>2. CASE Install
  BY <1>1, <1>2, InstallStep
<1>3. CASE UNCHANGED <<installer, helpers>> /\ ~Install
  <2>1. \A phase \in {"none", "manifest"}, offered \in BOOLEAN :
           /\ [dialog EXCEPT !.phase = phase] \in Dialogs
           /\ [dialog EXCEPT !.phase = phase, !.offered = offered] \in Dialogs
    BY <1>1, Zenon DEF Dialogs
  <2>2. dialog' \in Dialogs
    BY <1>3, <2>1, Zenon DEF Reply
  <2> QED
    BY <1>1, <1>3, <2>2, DialogStep
<1> QED
  BY <1>2, <1>3 DEF Reply

(* A helper is started when all the earlier ones are cancelled.            *)
LEMMA CommandStep ==
  ASSUME UpdateInv, CommandEnds
  PROVE  UpdateInv'
<1>1. /\ parent = "running" /\ installer.step \in {"list", "extract"} /\ installer.helper = 0
      /\ UNCHANGED <<parent, inUse, target, child, relaunched, presses>>
  BY DEF CommandEnds, UpdateInv, InstallerInv
<1>2. installer \in Installers /\ dialog \in Dialogs /\ presses \in 0 .. MaxPresses
  BY DEF UpdateInv, TypeInv, UpdateTypeOK, Installers, Dialogs
<1>3. CASE FailInstaller
  BY <1>1, <1>3, FailStep
<1>4. CASE installer' = [installer EXCEPT !.step = "extract"] /\ UNCHANGED <<helpers, dialog>>
  <2>1. /\ installer' \in Installers' /\ installer'.step = "extract"
        /\ installer'.helper = installer.helper
    BY <1>2, <1>4 DEF Installers
  <2>2. TypeInv'
    BY <1>1, <1>2, <1>4, <2>1, ViewerTypes DEF UpdateInv, TypeInv, UpdateTypeOK
  <2>3. HelperInv'
    BY <1>1, <1>4, <2>1 DEF UpdateInv, HelperInv, HelperInOrder, Settled, Moved, MovesOld, MovesNew, Left
  <2>4. InstallerInv'
    BY <1>1, <2>1 DEF UpdateInv, InstallerInv
  <2> QED
    BY <2>2, <2>3, <2>4 DEF UpdateInv
<1>5. CASE /\ helpers' = Append(helpers, NewHelper)
           /\ installer' = [step |-> "poll", tries |-> 0, helper |-> Len(helpers) + 1]
           /\ dialog' = dialog
  <2>1. NewHelper \in HelperRecords /\ AtRest(NewHelper)
    BY DEF NewHelper, HelperRecords, AtRest
  <2>2. /\ helpers \in Seq(HelperRecords) /\ helpers' \in Seq(HelperRecords)
        /\ Len(helpers) \in Nat /\ Len(helpers') = Len(helpers) + 1
        /\ DOMAIN helpers' = DOMAIN helpers \cup {Len(helpers) + 1}
        /\ helpers'[Len(helpers) + 1] = NewHelper
        /\ \A h \in DOMAIN helpers : helpers'[h] = helpers[h] /\ h # 0
    BY <1>5, <2>1 DEF UpdateInv, TypeInv
  <2>3. installer' \in Installers'
    <3>1. 0 \in 0 .. Attempts /\ Len(helpers) + 1 \in 0 .. Len(helpers')
      BY <2>2, UpdateAssumption
    <3> QED
      BY <1>5, <3>1 DEF Installers
  <2>4. TypeInv'
    BY <1>1, <1>2, <1>5, <2>2, <2>3, ViewerTypes DEF UpdateInv, TypeInv, UpdateTypeOK
  <2>5. Settled /\ Settled' /\ \A h \in DOMAIN helpers : helpers[h].cancelled /\ AtRest(helpers[h])
    BY <1>1, <2>2, Present DEF UpdateInv, HelperInv, HelperInOrder, Settled
  <2>6. HelperInv'
    <3>1. ASSUME NEW h \in DOMAIN helpers'
          PROVE  AtRest(helpers'[h]) /\ (~helpers'[h].cancelled => h = Len(helpers) + 1)
      BY <2>1, <2>2, <2>5
    <3>2. installer'.helper = Len(helpers) + 1
      BY <1>5
    <3> QED
      BY <2>5, <3>1, <3>2 DEF HelperInv, HelperInOrder
  <2>7. InstallerInv'
    BY <1>1, <1>5 DEF UpdateInv, InstallerInv
  <2> QED
    BY <2>4, <2>6, <2>7 DEF UpdateInv
<1> QED
  BY <1>3, <1>4, <1>5 DEF CommandEnds

LEMMA PollStep ==
  ASSUME UpdateInv, PollReady
  PROVE  UpdateInv'
<1>1. /\ parent = "running" /\ installer.step = "poll"
      /\ UNCHANGED <<inUse, target, child, relaunched, presses>>
  BY DEF PollReady
<1>2. /\ installer \in Installers /\ dialog \in Dialogs /\ presses \in 0 .. MaxPresses
      /\ helpers \in Seq(HelperRecords) /\ inUse \in BOOLEAN
  BY DEF UpdateInv, TypeInv, UpdateTypeOK, Installers, Dialogs
<1>3. CASE FailInstaller /\ parent' = parent
  BY <1>1, <1>3, FailStep
<1>4. CASE /\ ~inUse /\ installer' = [installer EXCEPT !.step = "handoff"]
           /\ dialog' = [dialog EXCEPT !.verified = TRUE]
           /\ parent' = "quitting" /\ helpers' = helpers
  <2>1. /\ installer' \in Installers' /\ installer'.step = "handoff"
        /\ installer'.helper = installer.helper
    BY <1>2, <1>4, Zenon DEF Installers
  <2>2. dialog' \in Dialogs
    BY <1>2, <1>4, Zenon DEF Dialogs
  <2>3. TypeInv'
    BY <1>1, <1>2, <1>4, <2>1, <2>2, ViewerTypes
  <2>4. Settled /\ Settled' /\ \A h \in DOMAIN helpers : AtRest(helpers[h])
    BY <1>1, Present DEF Settled
  <2>5. HelperInv'
    BY <1>4, <2>1, <2>4 DEF UpdateInv, HelperInv, HelperInOrder
  <2>6. InstallerInv'
    BY <1>1, <1>4, <2>1 DEF InstallerInv
  <2> QED
    BY <2>3, <2>5, <2>6 DEF UpdateInv
<1>5. CASE /\ ~(installer.tries + 1 >= Attempts)
           /\ installer' = [installer EXCEPT !.tries = @ + 1]
           /\ UNCHANGED <<dialog, helpers, parent>>
  <2>1. installer.tries + 1 \in 0 .. Attempts
    BY <1>2, <1>5, UpdateAssumption DEF Installers
  <2>2. /\ installer' \in Installers' /\ installer'.step = "poll"
        /\ installer'.helper = installer.helper
    BY <1>1, <1>2, <1>5, <2>1 DEF Installers
  <2>3. TypeInv'
    BY <1>1, <1>2, <1>5, <2>2, ViewerTypes
  <2>4. HelperInv'
    BY <1>1, <1>5, <2>2 DEF UpdateInv, HelperInv, HelperInOrder, Settled, Moved, MovesOld, MovesNew, Left
  <2>5. InstallerInv'
    BY <1>1, <1>5, <2>2 DEF UpdateInv, InstallerInv
  <2> QED
    BY <2>3, <2>4, <2>5 DEF UpdateInv
<1> QED
  BY <1>3, <1>4, <1>5 DEF PollReady

(* The viewer becomes busy, exits or dies; the new one starts or ends.     *)
LEMMA ProcessStep ==
  ASSUME UpdateInv, UseDevice \/ Exit \/ Crash \/ ChildStarts \/ ChildEnds
  PROVE  UpdateInv'
<1>1. /\ installer \in Installers /\ dialog \in Dialogs /\ presses \in 0 .. MaxPresses
      /\ helpers \in Seq(HelperRecords) /\ inUse \in BOOLEAN
      /\ parent \in {"running", "quitting", "gone"}
  BY DEF UpdateInv, TypeInv, UpdateTypeOK, Installers, Dialogs
<1>2. CASE UseDevice
  <2>1. TypeInv'
    BY <1>1, <1>2, ViewerTypes DEF UseDevice, Installers
  <2>2. HelperInv'
    BY <1>2 DEF UseDevice, UpdateInv, HelperInv, HelperInOrder, Settled, Moved, MovesOld, MovesNew, Left
  <2>3. InstallerInv'
    BY <1>2 DEF UseDevice, UpdateInv, InstallerInv
  <2> QED
    BY <2>1, <2>2, <2>3 DEF UpdateInv
<1>3. CASE Exit
  <2>1. /\ parent # "gone" /\ parent' = "gone" /\ helpers' = Cancelled(helpers)
        /\ UNCHANGED <<dialog, installer, inUse, target, child, relaunched, presses>>
    BY <1>3 DEF Exit
  <2>2. HelperInv' /\ helpers' \in Seq(HelperRecords) /\ Len(helpers') = Len(helpers)
    BY <2>1, Cancelling
  <2>3. TypeInv'
    <3>1. installer' \in Installers'
      BY <1>1, <2>1, <2>2 DEF Installers
    <3> QED
      BY <1>1, <2>1, <2>2, <3>1, ViewerTypes
  <2>4. InstallerInv'
    BY <2>1 DEF UpdateInv, InstallerInv
  <2> QED
    BY <2>2, <2>3, <2>4 DEF UpdateInv
<1>4. CASE Crash
  <2>1. /\ parent # "gone" /\ parent' = "gone"
        /\ UNCHANGED <<helpers, dialog, installer, inUse, target, child, relaunched, presses>>
    BY <1>4 DEF Crash
  <2>2. TypeInv'
    BY <1>1, <2>1, ViewerTypes DEF Installers
  <2>3. Settled /\ Settled' /\ \A h \in DOMAIN helpers : AtRest(helpers[h])
    BY <2>1, Present DEF Settled
  <2>4. HelperInv' /\ InstallerInv'
    BY <2>1, <2>3 DEF UpdateInv, HelperInv, HelperInOrder, InstallerInv
  <2> QED
    BY <2>2, <2>4 DEF UpdateInv
<1>5. CASE ChildStarts \/ ChildEnds
  <2>1. /\ child \in {"starting", "up"} /\ child' \in {"up", "dead", "exited"}
        /\ UNCHANGED <<helpers, dialog, installer, parent, inUse, target, relaunched, presses>>
    BY <1>5 DEF ChildStarts, ChildEnds, OnlyHelpers
  <2>2. TypeInv'
    BY <2>1 DEF UpdateInv, TypeInv, UpdateTypeOK
  <2>3. ASSUME NEW h \in DOMAIN helpers
        PROVE  HelperInOrder(h)'
    <3>1. HelperInOrder(h)
      BY DEF UpdateInv, HelperInv
    <3>2. ~Settled
      BY <2>1 DEF Settled
    <3>3. Moved(helpers[h]) => Moved(helpers[h])'
      BY <2>1 DEF Moved, MovesOld, MovesNew, Left, Settled
    <3> QED
      BY <2>1, <3>1, <3>2, <3>3 DEF HelperInOrder
  <2>4. HelperInv'
    BY <2>1, <2>3 DEF UpdateInv, HelperInv, Settled
  <2>5. InstallerInv'
    BY <2>1 DEF UpdateInv, InstallerInv
  <2> QED
    BY <2>2, <2>4, <2>5 DEF UpdateInv
<1> QED
  BY <1>2, <1>3, <1>4, <1>5

--------------------------------------------------------------------------------
LEMMA HelperStep ==
  ASSUME UpdateInv, NEW h \in DOMAIN helpers, Helper(h) \/ HelperDies(h)
  PROVE  UpdateInv'
BY WaitingStep, HelperSwapStep, PutBackStep, WatchStep, DeathStep DEF Helper

(* Every step of every process keeps the invariant.                        *)
THEOREM UpdateCorrect == UpdateSpec => []UpdateInv
<1>1. UpdateInit => UpdateInv
  BY UpdateInitInv
<1>2. UpdateInv /\ [UpdateNext]_updateVars => UpdateInv'
  <2> SUFFICES ASSUME UpdateInv, [UpdateNext]_updateVars PROVE UpdateInv'
    OBVIOUS
  <2>1. CASE \E h \in DOMAIN helpers : Helper(h) \/ HelperDies(h)
    BY <2>1, HelperStep
  <2>2. CASE UNCHANGED updateVars
    BY <2>2 DEF UpdateInv, TypeInv, UpdateTypeOK, HelperInv, HelperInOrder, InstallerInv, Settled, AtRest, Moved,
       MovesOld, MovesNew, Left
  <2> QED
    BY <2>1, <2>2, ButtonStep, ReplyStep, CommandStep, PollStep, ProcessStep DEF UpdateNext
<1> QED
  BY <1>1, <1>2, PTL DEF UpdateSpec

(* The invariant says who runs and what is installed.                      *)
LEMMA AtMostOneViewer == ASSUME UpdateInv PROVE Viewers <= 1
<1> DEFINE old == {v \in {"parent"} : parent # "gone"}
           new == {v \in {"child"} : child \in {"starting", "up"}}
<1>1. CASE Settled
  <2>1. new = {} /\ relaunched = 0
    BY <1>1 DEF Settled
  <2>2. old = {} \/ old = {"parent"}
    OBVIOUS
  <2>3. Cardinality(old \cup new) \in {0, 1}
    BY <2>1, <2>2, FS_EmptySet, FS_Singleton, Zenon
  <2> QED
    BY <2>1, <2>3 DEF Viewers
<1>2. CASE ~Settled
  <2>1. PICK h \in DOMAIN helpers : ~helpers[h].cancelled
    BY <1>2 DEF UpdateInv, HelperInv
  <2>2. Moved(helpers[h]) /\ parent = "gone"
    BY <1>2, <2>1 DEF UpdateInv, HelperInv, HelperInOrder
  <2>3. old = {}
    BY <2>2
  <2>4. CASE relaunched = 0
    <3>1. new = {} \/ new = {"child"}
      OBVIOUS
    <3>2. old \cup new = {} \/ old \cup new = {"child"}
      BY <2>3, <3>1
    <3>3. Cardinality(old \cup new) \in {0, 1}
      BY <3>2, FS_EmptySet, FS_Singleton, Zenon
    <3> QED
      BY <2>4, <3>3 DEF Viewers
  <2>5. CASE relaunched # 0
    <3>1. child \notin {"starting", "up"} /\ relaunched = 1
      BY <2>2, <2>5 DEF Moved, Left
    <3>2. old \cup new = {}
      BY <2>3, <3>1
    <3> QED
      BY <3>1, <3>2, FS_EmptySet DEF Viewers
  <2> QED
    BY <2>4, <2>5
<1> QED
  BY <1>1, <1>2

(* The installed package does not change under the running viewer, which   *)
(* gives way only when nothing needs it; the old package is never lost; a  *)
(* cancelled update changes nothing; a helper leaves the package that it   *)
(* reports; and two viewers never run at once.                             *)
THEOREM ViewerCorrect == UpdateSpec => []ViewerSurvives
<1>1. ASSUME UpdateInv PROVE ViewerSurvives
  <2>1. parent # "gone" => target = "old"
    BY <1>1, Present DEF Settled
  <2>2. target = "old" \/ \E h \in DOMAIN helpers : helpers[h].backup = "old"
    <3>1. ASSUME target # "old"
          PROVE  \E h \in DOMAIN helpers : helpers[h].backup = "old"
      <4>1. ~Settled
        BY <3>1 DEF Settled
      <4>2. PICK h \in DOMAIN helpers : ~helpers[h].cancelled
        BY <1>1, <4>1 DEF UpdateInv, HelperInv
      <4>3. Moved(helpers[h])
        BY <1>1, <4>1, <4>2 DEF UpdateInv, HelperInv, HelperInOrder
      <4>4. helpers[h].backup = "old"
        BY <3>1, <4>1, <4>3 DEF Moved, MovesOld, MovesNew, Left
      <4> QED
        BY <4>4
    <3> QED
      BY <3>1
  <2>3. ASSUME NEW h \in DOMAIN helpers
        PROVE  /\ helpers[h].cancelled => helpers[h].staged = "new" /\ helpers[h].backup = "none"
               /\ helpers[h].result = "installed" => target = "new" /\ helpers[h].backup = "old"
               /\ helpers[h].result \in {"kept", "rollback"} => target = "old"
    BY <1>1 DEF UpdateInv, HelperInv, HelperInOrder, AtRest, Moved, MovesOld, MovesNew, Left
  <2>4. parent = "quitting" => ~inUse
    BY <1>1 DEF UpdateInv, InstallerInv
  <2> QED
    BY <1>1, <2>1, <2>2, <2>3, <2>4, AtMostOneViewer DEF ViewerSurvives, UpdateInv, TypeInv
<1> QED
  BY <1>1, UpdateCorrect, PTL

--------------------------------------------------------------------------------
(***************************************************************************)
(* The timeline of a dataset.                                              *)
(***************************************************************************)
\* A downward closed set of indexes is an initial segment.
LEMMA InitialSegment ==
  ASSUME NEW n \in Nat, NEW S, S \subseteq 1 .. n, \A i \in S : \A j \in 1 .. i : j \in S
  PROVE  Cardinality(S) \in 0 .. n /\ S = 1 .. Cardinality(S)
<1> DEFINE out == {i \in 1 .. n + 1 : i \notin S}
<1>1. n + 1 \in out /\ out \subseteq Nat
  OBVIOUS
<1>2. PICK m \in out : \A k \in out : m <= k
  BY <1>1, LeastNatural, Zenon
<1>3. m \in 1 .. n + 1 /\ m \notin S
  BY <1>2
<1>4. S = 1 .. m - 1
  <2>1. ASSUME NEW i \in S PROVE i \in 1 .. m - 1
    <3>1. i \in 1 .. n
      OBVIOUS
    <3>2. CASE m <= i
      <4>1. m \in 1 .. i
        BY <1>3, <3>1, <3>2
      <4> QED
        BY <1>3, <4>1
    <3>3. CASE ~ (m <= i)
      BY <1>3, <3>1, <3>3
    <3> QED
      BY <3>2, <3>3
  <2>2. ASSUME NEW i \in 1 .. m - 1 PROVE i \in S
    <3>1. i \in 1 .. n + 1 /\ ~ (m <= i)
      BY <1>3
    <3>2. i \notin out
      BY <1>2, <3>1, Zenon
    <3> QED
      BY <3>1, <3>2
  <2> QED
    BY <2>1, <2>2, Zenon
<1>5. Cardinality(1 .. m - 1) = m - 1
  BY <1>3, FS_Interval
<1> QED
  BY <1>3, <1>4, <1>5

(* requireMonotonic compares neighbours only.                              *)
LEMMA MonotonicOrder ==
  ASSUME NEW times \in Seq(Nat), Monotonic(times), NEW i \in DOMAIN times, NEW j \in DOMAIN times, i < j
  PROVE  times[i] < times[j]
<1> DEFINE bad == {k \in DOMAIN times : i < k /\ ~ (times[i] < times[k])}
<1>1. ASSUME bad # {} PROVE FALSE
  <2>1. bad \subseteq Nat
    OBVIOUS
  <2>2. PICK k \in bad : \A x \in bad : k <= x
    BY <1>1, <2>1, LeastNatural, Zenon
  <2>3. k \in 1 .. Len(times) /\ i \in 1 .. Len(times) /\ i < k /\ ~ (times[i] < times[k])
    BY <2>2
  <2>4. k \in 2 .. Len(times) /\ k - 1 \in 1 .. Len(times)
    BY <2>3
  <2>5. times[k - 1] < times[k] /\ times[k - 1] \in Nat /\ times[k] \in Nat /\ times[i] \in Nat
    BY <2>3, <2>4 DEF Monotonic
  <2>6. CASE i = k - 1
    BY <2>3, <2>5, <2>6
  <2>7. CASE i # k - 1
    <3>1. i < k - 1 /\ ~ (k <= k - 1)
      BY <2>3, <2>7
    <3>2. ~ (times[i] < times[k - 1])
      BY <2>3, <2>5
    <3>3. k - 1 \in bad
      BY <2>4, <3>1, <3>2
    <3> QED
      BY <2>2, <3>1, <3>3, Zenon
  <2> QED
    BY <2>6, <2>7
<1> QED
  BY <1>1

Typed(d) == d.frames \in Seq(Nat) /\ d.rows \in [Sensors -> Seq(Nat)]

\* The times of a stream, and the events of the timeline, have their types ...
LEMMA TimesTyped ==
  ASSUME NEW d, Typed(d), NEW s \in EventStreams
  PROVE  Times(d, s) \in Seq(Nat)
<1>1. <<>> \in Seq(Nat)
  OBVIOUS
<1> QED
  BY <1>1 DEF Typed, Times, EventStreams

\* ... an event names its stream and its place in it ...
LEMMA EventTyped ==
  ASSUME NEW d, Typed(d), NEW e \in Events(d)
  PROVE  /\ e.stream \in EventStreams /\ e.index \in DOMAIN Times(d, e.stream) /\ e.index \in Nat \ {0}
         /\ e = Event(d, e.stream, e.index) /\ e.at = Times(d, e.stream)[e.index]
         /\ e.at \in Nat /\ Priority[e.stream] \in Nat
<1>0. PICK s \in EventStreams : e \in {Event(d, s, i) : i \in DOMAIN Times(d, s)}
  BY DEF Events
<1>1. PICK i \in DOMAIN Times(d, s) : e = Event(d, s, i)
  BY <1>0
<1>2. e.stream = s /\ e.index = i /\ e.at = Times(d, s)[i]
  BY <1>1 DEF Event
<1>3. Times(d, s) \in Seq(Nat)
  BY TimesTyped
<1>4. i \in Nat \ {0} /\ Times(d, s)[i] \in Nat
  BY <1>3
<1>5. Priority[s] \in Nat
  BY DEF Priority, EventStreams, Sensors
<1>6. e.stream \in EventStreams /\ e.index \in DOMAIN Times(d, e.stream) /\ e = Event(d, e.stream, e.index)
  BY <1>1, <1>2, Zenon
<1>7. e.at = Times(d, e.stream)[e.index] /\ Priority[e.stream] \in Nat
  BY <1>2, <1>5, Zenon
<1> QED
  BY <1>2, <1>4, <1>6, <1>7

\* ... and there are finitely many.
LEMMA EventsFinite ==
  ASSUME NEW d, Typed(d)
  PROVE  IsFiniteSet(Events(d)) /\ Cardinality(Events(d)) \in Nat
<1> DEFINE EventsOf(s) == {Event(d, s, i) : i \in DOMAIN Times(d, s)}
<1>1. ASSUME NEW s \in EventStreams PROVE IsFiniteSet(EventsOf(s))
  <2> DEFINE f == [i \in DOMAIN Times(d, s) |-> Event(d, s, i)]
  <2>1. IsFiniteSet(DOMAIN Times(d, s))
    <3>1. Times(d, s) \in Seq(Nat)
      BY TimesTyped
    <3>2. DOMAIN Times(d, s) = 1 .. Len(Times(d, s)) /\ Len(Times(d, s)) \in Int
      BY <3>1
    <3> QED
      BY <3>2, FS_Interval
  <2>2. f \in Surjection(DOMAIN Times(d, s), EventsOf(s))
    BY DEF Surjection
  <2> HIDE DEF f, EventsOf
  <2> QED
    BY <2>1, <2>2, FS_Surjection
<1> DEFINE sets == {EventsOf(s) : s \in EventStreams}
           g == [s \in EventStreams |-> EventsOf(s)]
<1>2. IsFiniteSet(EventStreams)
  <2>1. IsFiniteSet({"camera"}) /\ IsFiniteSet({"imu0"}) /\ IsFiniteSet({"imu1"})
        /\ IsFiniteSet({"lidar"}) /\ IsFiniteSet({"lidarImu"})
    BY FS_Singleton, Zenon
  <2>2. EventStreams = {"camera"} \cup ({"imu0"} \cup ({"imu1"} \cup ({"lidar"} \cup {"lidarImu"})))
    BY DEF EventStreams, Sensors
  <2>3. IsFiniteSet({"lidar"} \cup {"lidarImu"})
    BY <2>1, FS_Union, Zenon
  <2>4. IsFiniteSet({"imu1"} \cup ({"lidar"} \cup {"lidarImu"}))
    BY <2>1, <2>3, FS_Union, Zenon
  <2>5. IsFiniteSet({"imu0"} \cup ({"imu1"} \cup ({"lidar"} \cup {"lidarImu"})))
    BY <2>1, <2>4, FS_Union, Zenon
  <2> QED
    BY <2>1, <2>2, <2>5, FS_Union, Zenon
<1>3. g \in Surjection(EventStreams, sets)
  BY Zenon DEF Surjection
<1>4. \A T \in sets : IsFiniteSet(T)
  BY <1>1
<1>5. Events(d) = UNION sets
  BY DEF Events
<1> HIDE DEF g, sets, EventsOf
<1>6. IsFiniteSet(sets)
  BY <1>2, <1>3, FS_Surjection
<1>7. IsFiniteSet(Events(d))
  BY <1>4, <1>5, <1>6, FS_UNION
<1> QED
  BY <1>7, FS_CardinalityType

\* The order of the events of a dataset is total and strict.
LEMMA BeforeTotal ==
  ASSUME NEW d, Typed(d), NEW e \in Events(d), NEW f \in Events(d), NEW g \in Events(d)
  PROVE  /\ ~ Before(e, e)
         /\ Before(e, f) /\ Before(f, g) => Before(e, g)
         /\ e # f => Before(e, f) \/ Before(f, e)
<1>1. \A x \in Events(d) :
        /\ x.stream \in EventStreams /\ x.index \in Nat /\ x = Event(d, x.stream, x.index)
        /\ x.at \in Nat /\ Priority[x.stream] \in Nat
  BY EventTyped
<1>2. \A s, t \in EventStreams : Priority[s] = Priority[t] => s = t
  BY DEF EventStreams, Sensors, Priority
<1> HIDE DEF Priority
<1>3. ~ Before(e, e)
  BY <1>1 DEF Before
<1>4. Before(e, f) /\ Before(f, g) => Before(e, g)
  <2>1. e.stream = f.stream => Priority[e.stream] = Priority[f.stream]
    OBVIOUS
  <2>2. f.stream = g.stream => Priority[f.stream] = Priority[g.stream]
    OBVIOUS
  <2> DEFINE a == e.at
             b == f.at
             c == g.at
             pa == Priority[e.stream]
             pb == Priority[f.stream]
             pc == Priority[g.stream]
  <2>3. a \in Nat /\ b \in Nat /\ c \in Nat /\ pa \in Nat /\ pb \in Nat /\ pc \in Nat
        /\ e.index \in Nat /\ f.index \in Nat /\ g.index \in Nat
    BY <1>1
  <2> QED
    BY <2>1, <2>2, <2>3 DEF Before
<1>5. e # f => Before(e, f) \/ Before(f, e)
  <2>1. e.stream = f.stream /\ e.index = f.index => e = f
    BY <1>1
  <2> QED
    BY <1>1, <1>2, <2>1 DEF Before
<1> QED
  BY <1>3, <1>4, <1>5

(* The events of a finite set that their order makes a total one, in their *)
(* places: a sequence of all of them, each once, in their order.           *)
LEMMA InPlacesCorrect ==
  ASSUME NEW E, IsFiniteSet(E),
         \A e, f \in E : ~ Before(e, e) /\ (e # f => Before(e, f) \/ Before(f, e)),
         \A e, f, g \in E : Before(e, f) /\ Before(f, g) => Before(e, g)
  PROVE  /\ InPlaces(E) \in [1 .. Cardinality(E) -> E]
         /\ InPlaces(E) \in Seq(E) /\ Len(InPlaces(E)) = Cardinality(E)
         /\ \A i, j \in DOMAIN InPlaces(E) : i < j => Before(InPlaces(E)[i], InPlaces(E)[j])
         /\ \A e \in E : \E i \in DOMAIN InPlaces(E) : InPlaces(E)[i] = e
<1> DEFINE n == Cardinality(E)
           Below(e) == {f \in E : Before(f, e)}
           place == [e \in E |-> Place(e, E)]
<1>1. IsFiniteSet(E) /\ n \in Nat
  BY FS_CardinalityType
<1>2. \A e, f \in E : ~ Before(e, e) /\ (e # f => Before(e, f) \/ Before(f, e))
  OBVIOUS
<1>3. \A e, f, g \in E : Before(e, f) /\ Before(f, g) => Before(e, g)
  OBVIOUS
<1>4. ASSUME NEW e \in E
      PROVE  /\ IsFiniteSet(Below(e)) /\ Cardinality(Below(e)) \in Nat /\ Cardinality(Below(e)) < n
  <2>1. Below(e) \in SUBSET E /\ Below(e) # E
    BY <1>2
  <2>2. IsFiniteSet(Below(e)) /\ Cardinality(Below(e)) <= n /\ (n = Cardinality(Below(e)) => E = Below(e))
    BY <1>1, <2>1, FS_Subset
  <2>3. Cardinality(Below(e)) \in Nat
    BY <2>2, FS_CardinalityType
  <2> HIDE DEF Below, n
  <2> QED
    BY <1>1, <2>1, <2>2, <2>3
<1>5. ASSUME NEW e \in E, NEW f \in E, Before(e, f)
      PROVE  Cardinality(Below(e)) < Cardinality(Below(f))
  <2>1. Below(e) \in SUBSET Below(f) /\ Below(e) # Below(f)
    BY <1>2, <1>3, <1>5
  <2>2. IsFiniteSet(Below(f)) /\ Cardinality(Below(f)) \in Nat /\ Cardinality(Below(e)) \in Nat
    BY <1>4, Zenon
  <2> HIDE DEF Below
  <2>3. /\ Cardinality(Below(e)) <= Cardinality(Below(f))
        /\ Cardinality(Below(f)) = Cardinality(Below(e)) => Below(f) = Below(e)
    BY <2>1, <2>2, FS_Subset
  <2> QED
    BY <2>1, <2>2, <2>3
<1>6. \A e \in E : place[e] = Cardinality(Below(e)) + 1
  BY DEF Place
<1> HIDE DEF Below, place
<1>7. place \in Injection(E, 1 .. n)
  <2>1. \A e \in E : place[e] \in 1 .. n
    BY <1>1, <1>4, <1>6
  <2>2. place \in [E -> 1 .. n]
    BY <2>1 DEF place
  <2>3. ASSUME NEW e \in E, NEW f \in E, place[e] = place[f] PROVE e = f
    <3>1. ~ Before(e, f) /\ ~ Before(f, e)
      BY <1>4, <1>5, <1>6, <2>3
    <3> QED
      BY <1>2, <3>1
  <2> QED
    BY <2>2, <2>3 DEF Injection, IsInjective
<1>8. \A i \in 1 .. n : \E e \in E : place[e] = i
  <2>1. IsFiniteSet(1 .. n) /\ Cardinality(1 .. n) = n
    <3>1. 1 \in Int /\ n \in Int
      BY <1>1
    <3>2. IsFiniteSet(1 .. n) /\ Cardinality(1 .. n) = IF 1 > n THEN 0 ELSE n - 1 + 1
      BY <3>1, FS_Interval
    <3> HIDE DEF n
    <3> QED
      BY <1>1, <3>2
  <2>2. place \in Surjection(E, 1 .. n)
    BY <1>7, <2>1, FS_Injection
  <2> QED
    BY <2>2 DEF Surjection
<1> DEFINE T == InPlaces(E)
<1>9. T = [i \in 1 .. n |-> CHOOSE e \in E : Place(e, E) = i]
  BY DEF InPlaces
<1>10. \A i \in 1 .. n : T[i] \in E /\ place[T[i]] = i
  BY <1>8, <1>9 DEF place
<1> HIDE DEF T
<1>11. T \in [1 .. n -> E] /\ DOMAIN T = 1 .. n
  BY <1>9, <1>10
<1>12. T \in Seq(E) /\ Len(T) = n
  BY <1>1, <1>11
<1>13. ASSUME NEW i \in 1 .. n, NEW j \in 1 .. n, i < j PROVE Before(T[i], T[j])
  <2>1. T[i] # T[j]
    BY <1>10, <1>13
  <2>2. CASE Before(T[j], T[i])
    <3>1. Cardinality(Below(T[j])) < Cardinality(Below(T[i]))
      BY <1>5, <1>10, <2>2
    <3>2. place[T[j]] < place[T[i]]
      BY <1>4, <1>6, <1>10, <3>1
    <3> QED
      BY <1>10, <1>13, <3>2
  <2> QED
    BY <1>2, <1>10, <2>1, <2>2
<1>14. ASSUME NEW e \in E PROVE \E i \in 1 .. n : T[i] = e
  <2>1. place[e] \in 1 .. n
    BY <1>7 DEF Injection
  <2>2. T[place[e]] \in E /\ place[T[place[e]]] = place[e]
    BY <1>10, <2>1
  <2>3. T[place[e]] = e
    BY <1>7, <2>2 DEF Injection, IsInjective
  <2> QED
    BY <2>1, <2>3
<1> QED
  BY <1>11, <1>12, <1>13, <1>14 DEF T

(* stable_sort: the timeline is a sequence of all events of the dataset,   *)
(* each of them once, in their order.                                      *)
LEMMA SortedCorrect ==
  ASSUME NEW d, Typed(d)
  PROVE  /\ Sorted(d) \in [1 .. Cardinality(Events(d)) -> Events(d)]
         /\ Sorted(d) \in Seq(Events(d)) /\ Len(Sorted(d)) = Cardinality(Events(d))
         /\ \A i, j \in DOMAIN Sorted(d) : i < j => Before(Sorted(d)[i], Sorted(d)[j])
         /\ \A e \in Events(d) : \E i \in DOMAIN Sorted(d) : Sorted(d)[i] = e
<1>1. IsFiniteSet(Events(d))
  BY EventsFinite
<1>2. \A e, f \in Events(d) : ~ Before(e, e) /\ (e # f => Before(e, f) \/ Before(f, e))
  BY BeforeTotal
<1>3. \A e, f, g \in Events(d) : Before(e, f) /\ Before(f, g) => Before(e, g)
  BY BeforeTotal
<1> QED
  BY <1>1, <1>2, <1>3, InPlacesCorrect DEF Sorted

--------------------------------------------------------------------------------
(***************************************************************************)
(* The position in a timeline.                                             *)
(***************************************************************************)
Ordered(d) == \A s \in EventStreams : Monotonic(Times(d, s))

\* The last event of stream s among the first c of timeline T; 0 if none.
IsLast(T, c, s, n) ==
  /\ n \in Nat
  /\ n = 0 \/ \E i \in 1 .. c : T[i].stream = s /\ T[i].index = n
  /\ \A i \in 1 .. c : T[i].stream = s => T[i].index <= n

\* LastPassed, which ShownIsAtCursor speaks of, is that number.
LEMMA LastPassedIs ==
  ASSUME NEW p, NEW d, Typed(d), p.timeline = Sorted(d), p.cursor \in 0 .. Len(p.timeline),
         NEW s, NEW n, IsLast(p.timeline, p.cursor, s, n)
  PROVE  LastPassed(p, s) = n
<1> DEFINE T == p.timeline
           S == {0} \cup {T[i].index : i \in {j \in 1 .. p.cursor : T[j].stream = s}}
<1>1. \A i \in 1 .. p.cursor : T[i].index \in Nat
  <2>1. \A i \in DOMAIN T : T[i] \in Events(d)
    BY SortedCorrect
  <2>2. \A i \in 1 .. p.cursor : i \in DOMAIN T
    <3>1. DOMAIN T = 1 .. Len(T) /\ Len(T) \in Nat
      BY SortedCorrect, EventsFinite
    <3> HIDE DEF T
    <3> QED
      BY <3>1 DEF T
  <2> QED
    BY <2>1, <2>2, EventTyped
<1>2. LastPassed(p, s) = CHOOSE x \in S : \A y \in S : x >= y
  BY DEF LastPassed, Timeline, Max
<1>3. n \in S /\ n \in Nat /\ S \subseteq Nat
  BY <1>1 DEF IsLast
<1>4. \A y \in S : n >= y
  BY <1>1 DEF IsLast
<1> HIDE DEF S
<1>5. ASSUME NEW x \in S, \A y \in S : x >= y PROVE x = n
  <2>1. x \in Nat /\ x >= n /\ n >= x
    BY <1>3, <1>4, <1>5
  <2> QED
    BY <1>3, <2>1
<1> QED
  BY <1>2, <1>3, <1>4, <1>5, Zenon

\* Nothing was passed at the beginning.
LEMMA LastAtStart == ASSUME NEW T, NEW s PROVE IsLast(T, 0, s, 0)
BY DEF IsLast

\* The next event is the last of its stream.
LEMMA LastAfterNext ==
  ASSUME NEW d, Typed(d), Ordered(d), NEW T, T = Sorted(d),
         NEW c \in Nat, c + 1 \in DOMAIN T, NEW s, NEW n, IsLast(T, c, s, n)
  PROVE  IsLast(T, c + 1, s, IF T[c + 1].stream = s THEN T[c + 1].index ELSE n)
<1> DEFINE e == T[c + 1]
<1>1. e \in Events(d)
  BY SortedCorrect
<1>2. 1 .. c + 1 = (1 .. c) \cup {c + 1} /\ \A i \in 1 .. c : i \in DOMAIN T /\ i < c + 1
  <2>1. DOMAIN T = 1 .. Len(T) /\ Len(T) \in Nat
    BY SortedCorrect, EventsFinite
  <2> QED
    BY <2>1
<1>3. CASE e.stream # s
  BY <1>2, <1>3 DEF IsLast
<1>4. CASE e.stream = s
  <2>1. ASSUME NEW i \in 1 .. c, T[i].stream = s PROVE T[i].index <= e.index
    <3> DEFINE g == T[i]
               times == Times(d, s)
    <3>1. g \in Events(d) /\ Before(g, e)
      BY <1>2, SortedCorrect
    <3>2. /\ s \in EventStreams /\ g.index \in DOMAIN times /\ g.index \in Nat /\ g.at = times[g.index]
          /\ e.index \in DOMAIN times /\ e.index \in Nat /\ e.at = times[e.index]
          /\ g.at \in Nat /\ e.at \in Nat /\ Priority[s] \in Nat
      BY <1>1, <1>4, <2>1, <3>1, EventTyped
    <3>3. g.at < e.at \/ (g.at = e.at /\ g.index < e.index)
      BY <1>4, <2>1, <3>1, <3>2 DEF Before
    <3>4. CASE ~ (g.index <= e.index)
      <4>1. e.index < g.index
        BY <3>2, <3>4
      <4>2. times \in Seq(Nat) /\ Monotonic(times)
        BY <3>2, TimesTyped DEF Ordered
      <4> HIDE DEF times, g, e
      <4>3. times[e.index] < times[g.index]
        BY <3>2, <4>1, <4>2, MonotonicOrder, Zenon
      <4> QED
        BY <3>2, <3>3, <4>1, <4>3
    <3> QED
      BY <3>4
  <2>2. e.index \in Nat
    BY <1>1, EventTyped
  <2> HIDE DEF e
  <2>3. \A i \in 1 .. c + 1 : T[i].stream = s => T[i].index <= e.index
    BY <1>2, <2>1, <2>2 DEF e
  <2>4. \E i \in 1 .. c + 1 : T[i].stream = s /\ T[i].index = e.index
    BY <1>2, <1>4 DEF e
  <2>5. IsLast(T, c + 1, s, e.index)
    BY <2>2, <2>3, <2>4 DEF IsLast
  <2> QED
    BY <1>4, <2>5 DEF e
<1> QED
  BY <1>3, <1>4

\* upper_bound of a time in an index.
LEMMA UpToCorrect ==
  ASSUME NEW times \in Seq(Nat), Monotonic(times), NEW t \in Nat
  PROVE  /\ UpTo(times, t) \in 0 .. Len(times)
         /\ \A i \in DOMAIN times : times[i] <= t <=> i <= UpTo(times, t)
<1> DEFINE S == {i \in DOMAIN times : times[i] <= t}
<1>1. ASSUME NEW i \in S, NEW j \in 1 .. i PROVE j \in S
  <2>1. i \in 1 .. Len(times) /\ Len(times) \in Nat /\ j \in DOMAIN times /\ times[i] <= t
    OBVIOUS
  <2>2. i = j \/ times[j] < times[i]
    BY <2>1, MonotonicOrder
  <2>3. times[i] \in Nat /\ times[j] \in Nat
    BY <2>1
  <2> QED
    BY <2>1, <2>2, <2>3
<1>2. Len(times) \in Nat /\ S \subseteq 1 .. Len(times)
  OBVIOUS
<1> HIDE DEF S
<1>3. Cardinality(S) \in 0 .. Len(times) /\ S = 1 .. Cardinality(S)
  BY <1>1, <1>2, InitialSegment, Zenon
<1>4. UpTo(times, t) = Cardinality(S)
  BY DEF UpTo, S
<1>5. ASSUME NEW i \in DOMAIN times PROVE times[i] <= t <=> i <= Cardinality(S)
  <2>1. times[i] <= t <=> i \in S
    BY DEF S
  <2>2. i \in Nat \ {0}
    OBVIOUS
  <2>3. i \in S <=> i <= Cardinality(S)
    BY <1>3, <2>2
  <2> QED
    BY <2>1, <2>3
<1> QED
  BY <1>3, <1>4, <1>5

\* The first event after a time; what it passes of each stream is upper_bound.
LEMMA SeekPosition ==
  ASSUME NEW d, Typed(d), Ordered(d), NEW p, p.timeline = Sorted(d), NEW t \in Nat
  PROVE  /\ FirstAfter(p, t) \in 0 .. Len(p.timeline)
         /\ \A s \in EventStreams : IsLast(p.timeline, FirstAfter(p, t), s, UpTo(Times(d, s), t))
<1> DEFINE T == p.timeline
           S == {i \in DOMAIN T : T[i].at <= t}
<1>1. DOMAIN T = 1 .. Len(T) /\ Len(T) \in Nat
  BY SortedCorrect, EventsFinite
<1>2. \A i \in DOMAIN T : T[i] \in Events(d) /\ T[i].at \in Nat
  BY SortedCorrect, EventTyped
<1>3. ASSUME NEW i \in S, NEW j \in 1 .. i PROVE j \in S
  <2>1. i \in 1 .. Len(T) /\ j \in 1 .. Len(T) /\ j <= i
    BY <1>1
  <2>2. i = j \/ Before(T[j], T[i])
    BY <1>1, <2>1, SortedCorrect
  <2>3. T[j].at <= T[i].at
    BY <1>1, <1>2, <2>1, <2>2 DEF Before
  <2> QED
    BY <1>1, <1>2, <2>1, <2>3
<1>4. S \subseteq 1 .. Len(T)
  BY <1>1
<1>5. FirstAfter(p, t) = Cardinality(S)
  BY DEF FirstAfter, Timeline
<1> HIDE DEF S, T
<1>6. Cardinality(S) \in 0 .. Len(T) /\ S = 1 .. Cardinality(S)
  BY <1>1, <1>3, <1>4, InitialSegment, Zenon
<1>7. ASSUME NEW s \in EventStreams PROVE IsLast(T, Cardinality(S), s, UpTo(Times(d, s), t))
  <2> DEFINE times == Times(d, s)
             n == UpTo(times, t)
  <2>1. times \in Seq(Nat) /\ Monotonic(times)
    BY TimesTyped DEF Ordered
  <2> HIDE DEF times
  <2>2. n \in 0 .. Len(times) /\ Len(times) \in Nat /\ \A i \in DOMAIN times : times[i] <= t <=> i <= n
    BY <2>1, UpToCorrect
  <2>3. n = 0 \/ n \in DOMAIN times
    BY <2>1, <2>2
  <2> HIDE DEF n
  <2>4. ASSUME NEW i \in 1 .. Cardinality(S), T[i].stream = s PROVE T[i].index <= n
    <3>1. i \in S
      BY <1>6
    <3>2. i \in DOMAIN T /\ T[i].at <= t /\ T[i] \in Events(d)
      BY <1>2, <3>1 DEF S
    <3>3. T[i].index \in DOMAIN times /\ T[i].at = times[T[i].index]
      BY <2>4, <3>2, EventTyped DEF times
    <3> QED
      BY <2>2, <3>2, <3>3
  <2>5. ASSUME n \in DOMAIN times
        PROVE  \E j \in 1 .. Cardinality(S) : T[j].stream = s /\ T[j].index = n
    <3> DEFINE e == Event(d, s, n)
    <3>1. e \in Events(d) /\ e.stream = s /\ e.index = n /\ e.at = times[n]
      BY <2>5 DEF Events, Event, times
    <3>2. PICK i \in DOMAIN T : T[i] = e
      BY <3>1, SortedCorrect DEF T
    <3>3. times[n] <= t
      BY <2>2, <2>5
    <3>4. i \in S
      BY <3>1, <3>2, <3>3 DEF S
    <3>5. i \in 1 .. Cardinality(S)
      BY <1>6, <3>4
    <3> QED
      BY <3>1, <3>2, <3>5
  <2>6. IsLast(T, Cardinality(S), s, n)
    <3>1. n = 0 \/ \E j \in 1 .. Cardinality(S) : T[j].stream = s /\ T[j].index = n
      BY <2>3, <2>5
    <3>2. n \in Nat
      BY <2>2
    <3> QED
      BY <2>4, <3>1, <3>2 DEF IsLast
  <2> QED
    BY <2>6 DEF n, times
<1> QED
  BY <1>5, <1>6, <1>7 DEF T

--------------------------------------------------------------------------------
(***************************************************************************)
(* The invariant of the page.                                              *)
(***************************************************************************)
PageFields == {"held", "timeline", "root", "raw8", "metadataOnly", "current", "cursor", "playing", "timer",
               "anchor", "elapsed", "counts", "cloud", "lags", "pane", "wanted", "generation", "pending"}

(* What is held is a dataset or nothing, and the timeline is its own.      *)
HeldInv(p) ==
  /\ DOMAIN p = PageFields
  /\ p.held \in Datasets \/ p.held = Unread(p.held.name)
  /\ Ordered(p.held) /\ p.timeline = Sorted(p.held)

\* What is shown belongs to the position.
InStep(p) ==
  /\ \A s \in Counted : IsLast(p.timeline, p.cursor, s, p.counts[s])
  /\ \E n \in Nat : /\ IsLast(p.timeline, p.cursor, "lidar", n)
                    /\ \A i \in p.cloud : i <= n
                    /\ n \in p.cloud \cup p.held.dark \cup {0}
  /\ p.held.frames # <<>> /\ p.timeline # <<>> => IsLast(p.timeline, p.cursor, "camera", p.current)

PlaceTypes(p)  == p.current \in Nat \ {0} /\ p.counts \in [Counted -> Nat] /\ p.cloud \subseteq Nat
PositionInv(p) == PlaceTypes(p) /\ p.cursor \in 0 .. Len(p.timeline) /\ (~p.lags => InStep(p))

Timers == [on : BOOLEAN, at : 0 .. Horizon + DelayLimit]
ClockInv(p) ==
  /\ p.playing \in BOOLEAN /\ p.elapsed \in 0 .. Horizon /\ p.anchor \in Nat
  /\ p.timer \in Timers /\ (p.timer.on => p.playing)

Shown(p) == <<p.held.name, p.held.entries[p.current]>>
Images   == {NoImage} \cup UNION {{<<d.name, d.entries[f]>> : f \in DOMAIN d.frames} : d \in Datasets}
Posts    == [generation : Nat, image : Images]

PaneInv(p) ==
  p.pane # NoImage => p.held.frames # <<>> /\ p.pane = Shown(p) /\ (p.raw8 => p.pane = p.wanted)

(* A request or a result of the present generation is for the frame shown. *)
Latest(p) == p.raw8 /\ p.held.frames # <<>> /\ p.wanted = Shown(p)
RequestInv(p, work, sent) ==
  /\ p.generation \in Nat
  /\ \A q \in {p.pending, work} \ {NoRequest} :
       /\ <<q.of, q.entry>> \in Images /\ q.generation \in Nat /\ q.generation <= p.generation
       /\ q.generation = p.generation => Latest(p) /\ <<q.of, q.entry>> = p.wanted
  /\ sent \in Seq(Posts)
  /\ \A i \in DOMAIN sent :
       /\ sent[i].generation <= p.generation
       /\ sent[i].generation = p.generation => Latest(p) /\ sent[i].image \in {NoImage, p.wanted}

ImageInv(p, work, sent) == PaneInv(p) /\ RequestInv(p, work, sent)
PageOK(p, work, sent)   == HeldInv(p) /\ PositionInv(p) /\ ClockInv(p) /\ ImageInv(p, work, sent)

SameData(p, q)  == /\ DOMAIN q = DOMAIN p
                   /\ q.held = p.held /\ q.timeline = p.timeline /\ q.raw8 = p.raw8
SamePlace(p, q) == /\ q.current = p.current /\ q.cursor = p.cursor /\ q.counts = p.counts
                   /\ q.cloud = p.cloud /\ q.lags = p.lags
SameClock(p, q) == /\ q.playing = p.playing /\ q.timer = p.timer
                   /\ q.elapsed = p.elapsed /\ q.anchor = p.anchor
SameImage(p, q) == /\ q.pane = p.pane /\ q.wanted = p.wanted
                   /\ q.generation = p.generation /\ q.pending = p.pending

\* Nothing to show: the dataset that was cleared.
LEMMA EmptyHeld ==
  ASSUME NEW d, NEW n, d = Unread(n)
  PROVE  Typed(d) /\ Ordered(d) /\ Sorted(d) = <<>> /\ d.frames = <<>> /\ ~ d.ordinal
<1>1. d.frames = <<>> /\ d.ordinal = FALSE /\ d.rows = [s \in Sensors |-> <<>>]
  BY DEF Unread
<1>2. Typed(d)
  <2>1. <<>> \in Seq(Nat)
    OBVIOUS
  <2>2. [s \in Sensors |-> <<>>] \in [Sensors -> Seq(Nat)]
    BY <2>1
  <2> QED
    BY <1>1, <2>1, <2>2, Zenon DEF Typed
<1>3. \A s \in EventStreams : Times(d, s) = <<>>
  BY <1>1 DEF Times, EventStreams
<1>4. Ordered(d)
  BY <1>3 DEF Ordered, Monotonic
<1>5. Events(d) = {}
  BY <1>3 DEF Events
<1>6. Len(Sorted(d)) = 0 /\ Sorted(d) \in Seq(Events(d))
  BY <1>2, <1>5, SortedCorrect, FS_EmptySet
<1> QED
  BY <1>1, <1>2, <1>4, <1>6

\* What is held has its type; without usable timing there is no timeline.
LEMMA HeldTyped ==
  ASSUME NEW p, HeldInv(p)
  PROVE  /\ Typed(p.held)
         /\ p.held.ordinal => p.timeline = <<>>
         /\ p.held.frames # <<>> => p.held \in Datasets
         /\ DOMAIN p.timeline = 1 .. Len(p.timeline) /\ Len(p.timeline) \in Nat
<1>1. CASE p.held \in Datasets
  <2>1. Typed(p.held)
    BY <1>1, DatasetsAssumption DEF Typed
  <2>2. ASSUME p.held.ordinal PROVE p.timeline = <<>>
    <3>1. \A s \in Sensors : p.held.rows[s] = <<>>
      BY <1>1, <2>2, DatasetsAssumption, Zenon
    <3>2. \A s \in EventStreams : DOMAIN Times(p.held, s) = {}
      BY <2>2, <3>1 DEF Times, EventStreams
    <3>3. Events(p.held) = {}
      BY <3>2 DEF Events
    <3>4. Len(Sorted(p.held)) = 0 /\ Sorted(p.held) \in Seq(Events(p.held))
      BY <2>1, <3>3, SortedCorrect, FS_EmptySet
    <3> QED
      BY <3>4 DEF HeldInv
  <2>3. DOMAIN p.timeline = 1 .. Len(p.timeline) /\ Len(p.timeline) \in Nat
    BY <2>1, SortedCorrect DEF HeldInv
  <2> QED
    BY <1>1, <2>1, <2>2, <2>3
<1>2. CASE p.held = Unread(p.held.name)
  <2>1. p.held.frames = <<>> /\ ~ p.held.ordinal /\ Typed(p.held)
    BY <1>2, EmptyHeld
  <2>3. DOMAIN p.timeline = 1 .. Len(p.timeline) /\ Len(p.timeline) \in Nat
    BY <2>1, SortedCorrect DEF HeldInv
  <2> QED
    BY <2>1, <2>3
<1> QED
  BY <1>1, <1>2 DEF HeldInv

\* What a part of the page depends on.
LEMMA HeldSame == ASSUME NEW p, NEW q, HeldInv(p), SameData(p, q) PROVE HeldInv(q)
BY DEF HeldInv, SameData
LEMMA PositionSame ==
  ASSUME NEW p, NEW q, PositionInv(p), SameData(p, q), SamePlace(p, q) PROVE PositionInv(q)
BY DEF PositionInv, PlaceTypes, InStep, SameData, SamePlace
LEMMA ClockSame == ASSUME NEW p, NEW q, ClockInv(p), SameClock(p, q) PROVE ClockInv(q)
BY DEF ClockInv, SameClock
LEMMA ImageSame ==
  ASSUME NEW p, NEW q, NEW work, NEW sent, ImageInv(p, work, sent),
         SameData(p, q), SameImage(p, q), q.current = p.current
  PROVE  ImageInv(q, work, sent)
BY DEF ImageInv, PaneInv, RequestInv, Latest, Shown, SameData, SameImage

--------------------------------------------------------------------------------
(***************************************************************************)
(* The parts of the handlers.                                              *)
(***************************************************************************)
\* showDatasetFrame, showRawDatasetFrame: the frame, its image or the request
\* for it.
LEMMA ShowFrameKeeps ==
  ASSUME NEW p, NEW work, NEW sent, HeldInv(p), RequestInv(p, work, sent), p.raw8 => PaneInv(p),
         NEW f, f \in DOMAIN p.held.frames, NEW q, q = ShowFrame(p, f)
  PROVE  /\ SameData(p, q) /\ SameClock(p, q) /\ ImageInv(q, work, sent)
         /\ q.current = f /\ q.cursor = p.cursor /\ q.counts = p.counts /\ q.cloud = p.cloud /\ q.lags = p.lags
<1> DEFINE shown == <<p.held.name, p.held.entries[f]>>
<1>1. p.held.frames # <<>> /\ p.held \in Datasets
  <2>1. p.held.frames # <<>>
    OBVIOUS
  <2> QED
    BY <2>1, HeldTyped
<1>2. shown \in Images
  BY <1>1 DEF Images
<1>3. DOMAIN p = PageFields /\ p.generation \in Nat
  BY DEF HeldInv, RequestInv
<1>4. CASE ~ p.raw8
  <2>1. q = [[p EXCEPT !.current = f] EXCEPT !.pane = Picture(p.held, p.held.entries[f])]
    BY <1>4, <1>3 DEF ShowFrame, PageFields
  <2>2. /\ DOMAIN q = DOMAIN p /\ q.held = p.held /\ q.timeline = p.timeline /\ q.raw8 = p.raw8
        /\ q.playing = p.playing /\ q.timer = p.timer /\ q.elapsed = p.elapsed /\ q.anchor = p.anchor
        /\ q.wanted = p.wanted /\ q.generation = p.generation /\ q.pending = p.pending
        /\ q.cursor = p.cursor /\ q.counts = p.counts /\ q.cloud = p.cloud /\ q.lags = p.lags
        /\ q.current = f /\ q.pane = Picture(p.held, p.held.entries[f])
    BY <1>3, <2>1 DEF PageFields
  <2>3. q.pane \in {NoImage, shown}
    BY <2>2 DEF Picture
  <2>4. PaneInv(q)
    BY <1>1, <1>4, <2>2, <2>3 DEF PaneInv, Shown
  <2>5. RequestInv(q, work, sent)
    BY <1>4, <2>2 DEF RequestInv, Latest
  <2> QED
    BY <2>2, <2>4, <2>5 DEF SameData, SameClock, ImageInv
<1>5. CASE p.raw8
  <2> DEFINE entry   == p.held.entries[f]
             asked == [generation |-> p.generation + 1, entry |-> entry, of |-> p.held.name]
             kept    == entry # 0 /\ p.pane # NoImage /\ p.wanted = shown
  <2>1. q = ShowRaw([p EXCEPT !.current = f], f)
    BY <1>5, <1>3 DEF ShowFrame, PageFields
  <2>2. /\ DOMAIN q = DOMAIN p /\ q.held = p.held /\ q.timeline = p.timeline /\ q.raw8 = p.raw8
        /\ q.playing = p.playing /\ q.timer = p.timer /\ q.elapsed = p.elapsed /\ q.anchor = p.anchor
        /\ q.wanted = shown /\ q.generation = p.generation + 1 /\ q.pending = asked
        /\ q.cursor = p.cursor /\ q.counts = p.counts /\ q.cloud = p.cloud /\ q.lags = p.lags
        /\ q.current = f /\ q.pane = IF kept THEN p.pane ELSE NoImage
    BY <1>3, <2>1 DEF ShowRaw, Submitted, PageFields
  <2>3. PaneInv(q)
    BY <1>1, <1>5, <2>2 DEF PaneInv, Shown
  <2>4. Latest(q)
    BY <1>1, <1>5, <2>2 DEF Latest, Shown
  <2>5. ASSUME NEW r \in {q.pending, work} \ {NoRequest}
        PROVE  /\ <<r.of, r.entry>> \in Images /\ r.generation \in Nat /\ r.generation <= q.generation
               /\ r.generation = q.generation => Latest(q) /\ <<r.of, r.entry>> = q.wanted
    <3>1. CASE r = asked
      BY <1>2, <1>3, <2>2, <2>4, <3>1
    <3>2. CASE r = work /\ r # NoRequest
      <4>1. <<r.of, r.entry>> \in Images /\ r.generation \in Nat /\ r.generation <= p.generation
        BY <3>2 DEF RequestInv
      <4> QED
        BY <1>3, <2>2, <4>1
    <3> QED
      BY <2>2, <3>1, <3>2
  <2>6. ASSUME NEW i \in DOMAIN sent
        PROVE  sent[i].generation <= q.generation /\ sent[i].generation # q.generation
    <3>1. sent[i].generation <= p.generation /\ sent[i] \in Posts
      <4>1. sent \in Seq(Posts)
        BY DEF RequestInv
      <4>2. sent[i] \in Posts
        BY <4>1
      <4> QED
        BY <4>2 DEF RequestInv
    <3>2. sent[i].generation \in Nat
      BY <3>1 DEF Posts
    <3> QED
      BY <1>3, <2>2, <3>1, <3>2
  <2>7. RequestInv(q, work, sent)
    <3>1. q.generation \in Nat /\ sent \in Seq(Posts)
      BY <1>3, <2>2 DEF RequestInv
    <3> QED
      BY <2>5, <2>6, <3>1 DEF RequestInv
  <2> QED
    BY <2>2, <2>3, <2>7 DEF SameData, SameClock, ImageInv
<1> QED
  BY <1>4, <1>5

\* seekDatasetPlaybackToTimestamp: to the time of the frame that is shown.
LEMMA SeekKeeps ==
  ASSUME NEW p, NEW t \in Nat, HeldInv(p), PlaceTypes(p),
         p.current \in DOMAIN p.held.frames, t = p.held.frames[p.current], NEW q, q = Seek(p, t)
  PROVE  SameData(p, q) /\ SameClock(p, q) /\ SameImage(p, q) /\ q.current = p.current /\ PositionInv(q)
<1> DEFINE T == p.timeline
           c == FirstAfter(p, t)
           n == UpTo(p.held.rows["lidar"], t)
<1>1. DOMAIN p = PageFields /\ Ordered(p.held) /\ p.timeline = Sorted(p.held) /\ Typed(p.held)
  BY HeldTyped DEF HeldInv
<1>2. c \in 0 .. Len(T) /\ \A s \in EventStreams : IsLast(T, c, s, UpTo(Times(p.held, s), t))
  BY <1>1, SeekPosition, Zenon
<1>3. \A s \in Sensors : s # "camera" /\ Times(p.held, s) = p.held.rows[s] /\ s \in EventStreams
  BY DEF Times, Sensors, EventStreams
<1>4. \A s \in Sensors : IsLast(T, c, s, UpTo(p.held.rows[s], t))
  BY <1>2, <1>3
<1>5. CASE live
  <2>1. q = [[p EXCEPT !.cursor = c] EXCEPT !.lags = TRUE]
    BY <1>5 DEF Seek
  <2>2. /\ DOMAIN q = DOMAIN p /\ q.held = p.held /\ q.timeline = p.timeline /\ q.raw8 = p.raw8
        /\ q.playing = p.playing /\ q.timer = p.timer /\ q.elapsed = p.elapsed /\ q.anchor = p.anchor
        /\ q.pane = p.pane /\ q.wanted = p.wanted /\ q.generation = p.generation /\ q.pending = p.pending
        /\ q.cursor = c /\ q.counts = p.counts /\ q.lags = TRUE /\ q.current = p.current
        /\ q.cloud = p.cloud
    BY <1>1, <2>1 DEF PageFields
  <2> QED
    BY <1>2, <2>2 DEF SameData, SameClock, SameImage, PositionInv, PlaceTypes
<1>6. CASE ~ live
  <2>1. /\ DOMAIN q = DOMAIN p /\ q.held = p.held /\ q.timeline = p.timeline /\ q.raw8 = p.raw8
        /\ q.playing = p.playing /\ q.timer = p.timer /\ q.elapsed = p.elapsed /\ q.anchor = p.anchor
        /\ q.pane = p.pane /\ q.wanted = p.wanted /\ q.generation = p.generation /\ q.pending = p.pending
        /\ q.cursor = c /\ q.lags = FALSE /\ q.current = p.current
    BY <1>1, <1>6 DEF PageFields, Seek, ResetVisualization
  <2>2. /\ q.counts = [s \in Counted |-> UpTo(p.held.rows[s], t)]
        /\ q.cloud = IF n = 0 THEN {} ELSE {n} \ p.held.dark
    <3>1. Counted \subseteq Sensors /\ "lidar" \in Sensors
      BY DEF Counted, Sensors
    <3> QED
      BY <1>1, <1>6, <3>1 DEF PageFields, Seek, ResetVisualization
  <2>3. \A s \in Counted : q.counts[s] \in Nat /\ IsLast(T, c, s, q.counts[s])
    BY <1>4, <2>2 DEF Counted, IsLast
  <2>4. n \in Nat /\ IsLast(T, c, "lidar", n)
    <3>1. "lidar" \in Sensors
      BY DEF Sensors
    <3> HIDE DEF T, c
    <3>2. IsLast(T, c, "lidar", n)
      BY <1>4, <3>1
    <3> QED
      BY <3>2 DEF IsLast
  <2>5. p.timeline # <<>> => IsLast(T, c, "camera", p.current)
    <3>1. ASSUME p.timeline # <<>> PROVE UpTo(Times(p.held, "camera"), t) = p.current
      <4> DEFINE times == p.held.frames
      <4>1. Times(p.held, "camera") = times
        BY <3>1, HeldTyped DEF Times
      <4>2. times \in Seq(Nat) /\ Monotonic(times) /\ p.current \in DOMAIN times /\ t = times[p.current]
        BY <1>1, <4>1 DEF Typed, Ordered, EventStreams
      <4> HIDE DEF times
      <4> DEFINE u == UpTo(times, t)
      <4>3. u \in 0 .. Len(times) /\ \A i \in DOMAIN times : times[i] <= t <=> i <= u
        BY <4>2, UpToCorrect, Zenon
      <4>4. Len(times) \in Nat /\ DOMAIN times = 1 .. Len(times) /\ p.current \in Nat
        BY <4>2
      <4>5. p.current <= u
        BY <4>2, <4>3
      <4> HIDE DEF u
      <4>6. ASSUME p.current < u PROVE FALSE
        <5>1. u \in DOMAIN times /\ times[u] <= t
          BY <4>3, <4>4, <4>6
        <5>2. times[p.current] < times[u]
          BY <4>2, <4>6, <5>1, MonotonicOrder
        <5>3. times[u] \in Nat
          BY <4>2, <5>1
        <5> QED
          BY <4>2, <5>1, <5>2, <5>3
      <4>7. u = p.current
        BY <4>3, <4>4, <4>5, <4>6
      <4> QED
        BY <4>1, <4>7 DEF u
    <3> QED
      BY <1>2, <3>1 DEF EventStreams
  <2>6. InStep(q)
    <3>1. /\ \A i \in q.cloud : i <= n
          /\ n \in q.cloud \cup p.held.dark \cup {0}
      BY <2>2, <2>4
    <3> HIDE DEF n, c
    <3>2. \E m \in Nat : /\ IsLast(q.timeline, q.cursor, "lidar", m)
                         /\ \A i \in q.cloud : i <= m
                         /\ m \in q.cloud \cup q.held.dark \cup {0}
      BY <2>1, <2>4, <3>1, Zenon
    <3>3. ASSUME NEW s \in Counted PROVE IsLast(q.timeline, q.cursor, s, q.counts[s])
      <4>1. IsLast(T, c, s, q.counts[s])
        BY <2>3
      <4> QED
        BY <2>1, <4>1, Zenon
    <3>4. q.timeline # <<>> => IsLast(q.timeline, q.cursor, "camera", q.current)
      BY <2>1, <2>5
    <3> QED
      BY <3>2, <3>3, <3>4, Zenon DEF InStep
  <2>7. q.counts \in [Counted -> Nat] /\ q.cloud \subseteq Nat
    BY <2>2, <2>3, <2>4
  <2> QED
    BY <1>2, <2>1, <2>6, <2>7, Zenon DEF SameData, SameClock, SameImage, PositionInv, PlaceTypes
<1> QED
  BY <1>5, <1>6

\* A jump: the frame is shown, then the position follows.
LEMMA JumpKeeps ==
  ASSUME NEW p, NEW work, NEW sent, HeldInv(p), PlaceTypes(p), ClockInv(p),
         RequestInv(p, work, sent), p.raw8 => PaneInv(p),
         NEW f, f \in DOMAIN p.held.frames, NEW q, q = Seek(ShowFrame(p, f), p.held.frames[f])
  PROVE  PageOK(q, work, sent) /\ SameData(p, q) /\ SameClock(p, q)
<1> DEFINE r == ShowFrame(p, f)
           t == p.held.frames[f]
<1>1. /\ SameData(p, r) /\ SameClock(p, r) /\ ImageInv(r, work, sent)
      /\ r.current = f /\ r.cursor = p.cursor /\ r.counts = p.counts /\ r.cloud = p.cloud
  BY ShowFrameKeeps
<1>2. f \in Nat \ {0} /\ t \in Nat
  <2>1. p.held.frames \in Seq(Nat)
    BY HeldTyped DEF Typed
  <2> QED
    BY <2>1
<1> HIDE DEF r
<1>3. HeldInv(r)
  BY <1>1, HeldSame
<1>4. PlaceTypes(r) /\ r.current \in DOMAIN r.held.frames /\ t = r.held.frames[r.current]
  BY <1>1, <1>2 DEF PlaceTypes, SameData
<1>5. q = Seek(r, t)
  BY DEF r
<1> HIDE DEF t
<1>6. SameData(r, q) /\ SameClock(r, q) /\ SameImage(r, q) /\ q.current = r.current /\ PositionInv(q)
  BY <1>2, <1>3, <1>4, <1>5, SeekKeeps
<1>7. HeldInv(q) /\ ImageInv(q, work, sent)
  BY <1>1, <1>3, <1>6, HeldSame, ImageSame
<1>8. SameData(p, q) /\ SameClock(p, q)
  BY <1>1, <1>6 DEF SameData, SameClock
<1>9. ClockInv(q)
  BY <1>8, ClockSame
<1> QED
  BY <1>6, <1>7, <1>8, <1>9 DEF PageOK

\* Steps that leave everything but the clock alone.
LEMMA ClockOnly ==
  ASSUME NEW p, NEW q, NEW work, NEW sent, PageOK(p, work, sent),
         SameData(p, q), SamePlace(p, q), SameImage(p, q), ClockInv(q)
  PROVE  PageOK(q, work, sent)
BY HeldSame, PositionSame, ImageSame DEF PageOK, SamePlace

\* updateDatasetPlaybackControls: nothing plays in a capture or an export.
LEMMA ControlsKeeps ==
  ASSUME NEW p, NEW work, NEW sent, PageOK(p, work, sent), NEW free, NEW q, q = Controls(p, free)
  PROVE  PageOK(q, work, sent) /\ (q.playing => free)
<1>1. DOMAIN p = PageFields
  BY DEF PageOK, HeldInv
<1>2. CASE p.playing /\ ~ CanPlay(p, free)
  <2>1. q = [p EXCEPT !.playing = FALSE, !.timer = Off]
    BY <1>2 DEF Controls
  <2>2. /\ SameData(p, q) /\ SamePlace(p, q) /\ SameImage(p, q)
        /\ q.playing = FALSE /\ q.timer = Off /\ q.elapsed = p.elapsed /\ q.anchor = p.anchor
    BY <1>1, <2>1 DEF PageFields, SameData, SamePlace, SameImage
  <2>3. ClockInv(q)
    <3>1. Off \in Timers /\ Off.on = FALSE
      BY PageAssumption DEF Off, Timers
    <3> QED
      BY <2>2, <3>1, Zenon DEF PageOK, ClockInv
  <2> QED
    BY <2>2, <2>3, ClockOnly
<1>3. CASE ~ (p.playing /\ ~ CanPlay(p, free))
  BY <1>3 DEF Controls, CanPlay
<1> QED
  BY <1>2, <1>3

\* scheduleDatasetPlaybackStep
LEMMA ScheduleKeeps ==
  ASSUME NEW p, NEW work, NEW sent, PageOK(p, work, sent), NEW r \in Rates, NEW q, q = Schedule(p, r)
  PROVE  PageOK(q, work, sent) /\ q.playing = p.playing
<1>1. DOMAIN p = PageFields
  BY DEF PageOK, HeldInv
<1>2. PICK timer : /\ q = [p EXCEPT !.timer = timer]
                   /\ timer \in Timers /\ (timer.on => p.playing)
  <2>1. CASE ~ p.playing \/ AtEnd(p)
    <3>1. Off \in Timers /\ Off.on = FALSE
      BY PageAssumption DEF Off, Timers
    <3> QED
      BY <2>1, <3>1, Zenon DEF Schedule, Halted
  <2>2. CASE ~ (~ p.playing \/ AtEnd(p))
    <3> DEFINE wait == AwaitNext(p, r)
    <3>1. wait \in 0 .. DelayLimit
      <4>1. p.cursor \in Nat /\ p.cursor + 1 \in DOMAIN p.timeline
        <5>1. p.cursor \in 0 .. Len(p.timeline) /\ Len(p.timeline) \in Nat
              /\ DOMAIN p.timeline = 1 .. Len(p.timeline)
          BY HeldTyped DEF PageOK, PositionInv
        <5>2. ~ (p.cursor >= Len(p.timeline))
          BY <2>2 DEF AtEnd, Timeline
        <5> QED
          BY <5>1, <5>2
      <4> DEFINE next  == p.timeline[p.cursor + 1].at
                 delta == IF next > p.anchor THEN next - p.anchor ELSE 0
                 x     == delta + r - 1
                 due == x \div r
      <4>2. next \in Nat
        <5>1. p.timeline[p.cursor + 1] \in Events(p.held)
          BY <4>1, HeldTyped, SortedCorrect DEF PageOK, HeldInv
        <5> QED
          BY <5>1, HeldTyped, EventTyped DEF PageOK
      <4>3. p.anchor \in Nat /\ p.elapsed \in Nat /\ r \in Nat \ {0} /\ DelayLimit \in Nat \ {0}
        BY PageAssumption DEF PageOK, ClockInv
      <4> HIDE DEF next
      <4>4. x \in Nat
        BY <4>2, <4>3
      <4> HIDE DEF x
      <4>5. due \in Int
        BY <4>3, <4>4
      <4>6. wait = IF due <= p.elapsed THEN 0 ELSE Min({due - p.elapsed, DelayLimit})
        BY DEF AwaitNext, Timeline, next, x
      <4> HIDE DEF due, wait
      <4>7. CASE ~ (due <= p.elapsed)
        <5> DEFINE y == due - p.elapsed
                   S == {y, DelayLimit}
        <5>1. y \in Nat
          BY <4>3, <4>5, <4>7
        <5>2. Min(S) = CHOOSE m \in S : \A z \in S : m =< z
          BY DEF Min
        <5> HIDE DEF y
        <5>3. \E m \in S : \A z \in S : m =< z
          BY <4>3, <5>1
        <5>4. Min(S) \in S /\ \A z \in S : Min(S) =< z
          BY <5>2, <5>3
        <5>5. Min(S) \in 0 .. DelayLimit
          BY <4>3, <5>1, <5>4
        <5> QED
          BY <4>6, <4>7, <5>5 DEF y
      <4>8. CASE due <= p.elapsed
        BY <4>3, <4>6, <4>8
      <4> QED
        BY <4>7, <4>8
    <3> HIDE DEF wait
    <3> DEFINE timer == [on |-> TRUE, at |-> p.elapsed + wait]
    <3>2. q = [p EXCEPT !.timer = timer]
      BY <2>2 DEF Schedule, wait
    <3>3. p.elapsed + wait \in 0 .. Horizon + DelayLimit
      BY <3>1, PageAssumption DEF PageOK, ClockInv
    <3>4. timer \in Timers
      BY <3>3 DEF Timers
    <3> QED
      BY <2>2, <3>2, <3>4, Zenon
  <2> QED
    BY <2>1, <2>2
<1>3. /\ SameData(p, q) /\ SamePlace(p, q) /\ SameImage(p, q)
      /\ q.playing = p.playing /\ q.timer = timer /\ q.elapsed = p.elapsed /\ q.anchor = p.anchor
  BY <1>1, <1>2 DEF PageFields, SameData, SamePlace, SameImage
<1>4. ClockInv(q)
  BY <1>2, <1>3 DEF PageOK, ClockInv
<1> QED
  BY <1>3, <1>4, ClockOnly

\* restartDatasetPlaybackClock
LEMMA RestartKeeps ==
  ASSUME NEW p, NEW work, NEW sent, PageOK(p, work, sent), NEW r \in Rates, NEW q, q = RestartClock(p, r)
  PROVE  PageOK(q, work, sent) /\ q.playing = p.playing
<1>1. DOMAIN p = PageFields
  BY DEF PageOK, HeldInv
<1>2. CASE ~ p.playing \/ AtEnd(p)
  BY <1>2 DEF RestartClock
<1>3. CASE ~ (~ p.playing \/ AtEnd(p))
  <2> DEFINE i == Max({p.cursor, 1})
             anchor == p.timeline[i].at
             x == [p EXCEPT !.elapsed = 0, !.anchor = anchor]
  <2>1. i \in DOMAIN p.timeline
    <3>1. p.cursor \in 0 .. Len(p.timeline) /\ Len(p.timeline) \in Nat
          /\ DOMAIN p.timeline = 1 .. Len(p.timeline)
      BY HeldTyped DEF PageOK, PositionInv
    <3>2. ~ (p.cursor >= Len(p.timeline))
      BY <1>3 DEF AtEnd, Timeline
    <3> DEFINE c == p.cursor
               S == {c, 1}
    <3>3. i = CHOOSE m \in S : \A z \in S : m >= z
      BY DEF Max
    <3> HIDE DEF c, i
    <3>4. c \in Nat
      BY <3>1 DEF c
    <3>5. \E m \in S : \A z \in S : m >= z
      BY <3>4
    <3>6. i \in S /\ i >= 1
      BY <3>3, <3>5
    <3> QED
      BY <3>1, <3>2, <3>6 DEF c
  <2>2. anchor \in Nat
    <3>1. p.timeline[i] \in Events(p.held)
      BY <2>1, HeldTyped, SortedCorrect DEF PageOK, HeldInv
    <3> QED
      BY <3>1, HeldTyped, EventTyped DEF PageOK
  <2>3. q = Schedule(x, r)
    BY <1>3 DEF RestartClock, Timeline
  <2> HIDE DEF anchor
  <2>4. /\ SameData(p, x) /\ SamePlace(p, x) /\ SameImage(p, x)
        /\ x.playing = p.playing /\ x.timer = p.timer /\ x.elapsed = 0 /\ x.anchor = anchor
    BY <1>1 DEF PageFields, SameData, SamePlace, SameImage
  <2> HIDE DEF x
  <2>5. ClockInv(x)
    BY <2>2, <2>4, PageAssumption DEF PageOK, ClockInv
  <2>6. PageOK(x, work, sent)
    BY <2>4, <2>5, ClockOnly
  <2> QED
    BY <2>3, <2>4, <2>6, ScheduleKeeps
<1> QED
  BY <1>2, <1>3

\* resetDatasetPlaybackVisualization with the position at the beginning of a
\* dataset without frames, or of none.
LEMMA StartInStep ==
  ASSUME NEW q, q.cursor = 0, q.counts = [s \in Counted |-> 0], q.cloud = {}, q.current \in Nat \ {0},
         HeldInv(q), q.held.frames = <<>> \/ q.timeline = <<>>
  PROVE  PositionInv(q)
<1>1. \A s : IsLast(q.timeline, 0, s, 0)
  BY LastAtStart
<1>2. \A s \in Counted : q.counts[s] = 0
  OBVIOUS
<1>3. \A s \in Counted : IsLast(q.timeline, q.cursor, s, q.counts[s])
  BY <1>1, <1>2, Zenon
<1>4. \E n \in Nat : /\ IsLast(q.timeline, q.cursor, "lidar", n)
                     /\ \A i \in q.cloud : i <= n
                     /\ n \in q.cloud \cup q.held.dark \cup {0}
  <2>1. 0 \in Nat
    OBVIOUS
  <2> QED
    BY <1>1, <2>1, Zenon
<1>5. InStep(q)
  BY <1>3, <1>4, Zenon DEF InStep
<1>6. Len(q.timeline) \in Nat
  BY HeldTyped
<1> QED
  BY <1>5, <1>6 DEF PositionInv, PlaceTypes

\* resetDatasetPlaybackPosition
LEMMA ResetKeeps ==
  ASSUME NEW p, NEW work, NEW sent, PageOK(p, work, sent), ~ live, NEW q, q = ResetPosition(p)
  PROVE  PageOK(q, work, sent)
<1>1. DOMAIN p = PageFields
  BY DEF PageOK, HeldInv
<1> DEFINE x == Halted(p)
<1>2. /\ SameData(p, x) /\ SamePlace(p, x) /\ SameImage(p, x)
      /\ x.playing = p.playing /\ x.timer = Off /\ x.elapsed = p.elapsed /\ x.anchor = p.anchor
  BY <1>1 DEF PageFields, SameData, SamePlace, SameImage, Halted
<1>3. PageOK(x, work, sent)
  <2>1. Off \in Timers /\ Off.on = FALSE
    BY PageAssumption DEF Off, Timers
  <2>2. ClockInv(x)
    BY <1>2, <2>1 DEF PageOK, ClockInv
  <2> QED
    BY <1>2, <2>2, ClockOnly
<1>4. CASE p.held.frames # <<>>
  <2>1. q = Seek(ShowFrame(x, 1), x.held.frames[1])
    BY <1>2, <1>4 DEF ResetPosition, SameData
  <2> HIDE DEF x
  <2>2. 1 \in DOMAIN x.held.frames
    <3>1. x.held.frames \in Seq(Nat)
      BY <1>3, HeldTyped DEF PageOK, Typed
    <3> QED
      BY <1>2, <1>4, <3>1 DEF SameData
  <2> QED
    BY <1>3, <2>1, <2>2, JumpKeeps DEF PageOK, PositionInv, ImageInv
<1>5. CASE p.held.frames = <<>>
  <2> HIDE DEF x
  <2>1. q = [ResetVisualization(x) EXCEPT !.cursor = 0]
    BY <1>5, <1>2 DEF ResetPosition, x
  <2>2. /\ SameData(x, q) /\ SameClock(x, q) /\ SameImage(x, q) /\ q.current = x.current
        /\ q.cursor = 0 /\ q.counts = [s \in Counted |-> 0] /\ q.cloud = {}
    BY <1>1, <1>2, <2>1 DEF PageFields, ResetVisualization, SameData, SameClock, SameImage
  <2>3. HeldInv(q) /\ ClockInv(q) /\ ImageInv(q, work, sent)
    BY <1>3, <2>2, HeldSame, ClockSame, ImageSame DEF PageOK
  <2>4. q.held.frames = <<>> /\ q.current \in Nat \ {0}
    BY <1>2, <1>3, <1>5, <2>2 DEF SameData, PageOK, PositionInv, PlaceTypes
  <2>5. PositionInv(q)
    BY <2>2, <2>3, <2>4, StartInStep
  <2> QED
    BY <2>3, <2>5 DEF PageOK
<1> QED
  BY <1>4, <1>5

\* setDatasetPlaybackActive
LEMMA SetActiveKeeps ==
  ASSUME NEW p, NEW work, NEW sent, PageOK(p, work, sent), rate \in Rates,
         NEW on, NEW free, free => ~ live, NEW q, q = SetActive(p, on, free)
  PROVE  PageOK(q, work, sent) /\ (q.playing => free) /\ (~ on => SameData(p, q) /\ ~ q.playing)
<1>1. DOMAIN p = PageFields
  BY DEF PageOK, HeldInv
<1> DEFINE x == Halted(p)
           off == [x EXCEPT !.playing = FALSE]
           y == IF AtEnd(x) THEN ResetPosition(x) ELSE x
           z == [y EXCEPT !.playing = TRUE]
<1>2. Off \in Timers /\ Off.on = FALSE
  BY PageAssumption DEF Off, Timers
<1>3. /\ SameData(p, x) /\ SamePlace(p, x) /\ SameImage(p, x)
      /\ x.playing = p.playing /\ x.timer = Off /\ x.elapsed = p.elapsed /\ x.anchor = p.anchor
  BY <1>1 DEF PageFields, SameData, SamePlace, SameImage, Halted
<1>4. PageOK(x, work, sent)
  <2>1. ClockInv(x)
    BY <1>2, <1>3 DEF PageOK, ClockInv
  <2> QED
    BY <1>3, <2>1, ClockOnly
<1>5. /\ SameData(p, off) /\ SamePlace(p, off) /\ SameImage(p, off)
      /\ off.playing = FALSE /\ off.timer = Off /\ off.elapsed = p.elapsed /\ off.anchor = p.anchor
  BY <1>1 DEF PageFields, SameData, SamePlace, SameImage, Halted
<1>6. PageOK(off, work, sent)
  <2>1. ClockInv(off)
    BY <1>2, <1>5 DEF PageOK, ClockInv
  <2> QED
    BY <1>5, <2>1, ClockOnly
<1>7. CASE on /\ Timeline(x) # <<>> /\ free
  <2>1. q = Controls(RestartClock(z, rate), free)
    BY <1>7 DEF SetActive
  <2> HIDE DEF x
  <2>2. PageOK(y, work, sent)
    BY <1>4, <1>7, ResetKeeps
  <2> HIDE DEF y
  <2>3. DOMAIN y = PageFields
    BY <2>2 DEF PageOK, HeldInv
  <2>4. /\ SameData(y, z) /\ SamePlace(y, z) /\ SameImage(y, z)
        /\ z.playing = TRUE /\ z.timer = y.timer /\ z.elapsed = y.elapsed /\ z.anchor = y.anchor
    BY <2>3 DEF PageFields, SameData, SamePlace, SameImage
  <2> HIDE DEF z
  <2>5. ClockInv(z)
    BY <2>2, <2>4, Zenon DEF PageOK, ClockInv
  <2>6. PageOK(z, work, sent)
    BY <2>2, <2>4, <2>5, ClockOnly
  <2>7. PageOK(RestartClock(z, rate), work, sent)
    BY <2>6, RestartKeeps
  <2> QED
    BY <1>7, <2>1, <2>7, ControlsKeeps, Zenon
<1>8. CASE ~ (on /\ Timeline(x) # <<>> /\ free)
  <2>1. q = Controls(off, free)
    BY <1>8 DEF SetActive
  <2> HIDE DEF off
  <2>2. q = off
    BY <1>5, <2>1 DEF Controls
  <2> QED
    BY <1>5, <1>6, <2>2
<1> QED
  BY <1>7, <1>8

\* The position moves past the next event, which is shown.
LEMMA StepInStep ==
  ASSUME NEW p, NEW q, NEW e, HeldInv(p), PositionInv(p), p.cursor + 1 \in DOMAIN p.timeline,
         e = p.timeline[p.cursor + 1], SameData(p, q), q.cursor = p.cursor + 1, q.lags = p.lags,
         q.current = IF e.stream = "camera" THEN e.index ELSE p.current,
         q.counts = [s \in Counted |-> IF e.stream = s THEN e.index ELSE p.counts[s]],
         q.cloud = IF e.stream = "lidar" THEN p.cloud \cup {e.index} ELSE p.cloud
  PROVE  PositionInv(q)
<1> DEFINE T == p.timeline
           c == p.cursor
<1>1. /\ Typed(p.held) /\ Ordered(p.held) /\ T = Sorted(p.held)
      /\ DOMAIN T = 1 .. Len(T) /\ Len(T) \in Nat
  BY HeldTyped DEF HeldInv
<1>2. e \in Events(p.held) /\ e.index \in Nat \ {0}
  <2>1. e \in Events(p.held)
    BY <1>1, SortedCorrect
  <2> QED
    BY <1>1, <2>1, EventTyped
<1>3. c \in Nat
  BY <1>1 DEF PositionInv
<1>4. ASSUME NEW s, NEW n, IsLast(T, c, s, n)
      PROVE  IsLast(T, c + 1, s, IF e.stream = s THEN e.index ELSE n)
  BY <1>1, <1>3, <1>4, LastAfterNext
<1>5. q.cursor \in 0 .. Len(q.timeline)
  BY <1>1, <1>3 DEF SameData
<1>6. PlaceTypes(q)
  BY <1>2 DEF PositionInv, PlaceTypes
<1>7. ASSUME ~ p.lags PROVE InStep(q)
  <2>1. InStep(p)
    BY <1>7 DEF PositionInv
  <2>2. ASSUME NEW s \in Counted PROVE IsLast(T, c + 1, s, q.counts[s])
    <3>1. IsLast(T, c, s, p.counts[s])
      BY <2>1 DEF InStep
    <3>2. q.counts[s] = IF e.stream = s THEN e.index ELSE p.counts[s]
      OBVIOUS
    <3> HIDE DEF T, c
    <3> QED
      BY <1>4, <3>1, <3>2, Zenon
  <2>3. PICK n \in Nat : /\ IsLast(T, c, "lidar", n)
                         /\ \A i \in p.cloud : i <= n
                         /\ n \in p.cloud \cup p.held.dark \cup {0}
    BY <2>1 DEF InStep
  <2>4. \E m \in Nat : /\ IsLast(T, c + 1, "lidar", m)
                       /\ \A i \in q.cloud : i <= m
                       /\ m \in q.cloud \cup p.held.dark \cup {0}
    <3>1. CASE e.stream # "lidar"
      <4>1. IsLast(T, c + 1, "lidar", n)
        BY <1>4, <2>3, <3>1
      <4> QED
        BY <2>3, <3>1, <4>1
    <3>2. CASE e.stream = "lidar"
      <4>1. IsLast(T, c + 1, "lidar", e.index)
        BY <1>4, <2>3, <3>2
      <4>2. n <= e.index
        <5>1. CASE n = 0
          BY <1>2, <5>1
        <5>2. CASE \E i \in 1 .. c : T[i].stream = "lidar" /\ T[i].index = n
          <6>1. 1 .. c \subseteq 1 .. c + 1
            BY <1>3
          <6> HIDE DEF T, c
          <6> QED
            BY <4>1, <5>2, <6>1 DEF IsLast
        <5> QED
          BY <2>3, <5>1, <5>2 DEF IsLast
      <4>3. \A i \in q.cloud : i <= e.index
        <5>1. p.cloud \subseteq Nat
          BY DEF PositionInv, PlaceTypes
        <5> QED
          BY <1>2, <2>3, <3>2, <4>2, <5>1
      <4>4. e.index \in q.cloud
        BY <3>2
      <4> QED
        BY <1>2, <4>1, <4>3, <4>4
    <3> QED
      BY <3>1, <3>2
  <2>5. p.held.frames # <<>> /\ T # <<>> => IsLast(T, c + 1, "camera", q.current)
    <3>1. ASSUME p.held.frames # <<>>, T # <<>> PROVE IsLast(T, c, "camera", p.current)
      BY <2>1, <3>1 DEF InStep
    <3> HIDE DEF T, c
    <3> QED
      BY <1>4, <3>1
  <2>6. q.timeline = T /\ q.cursor = c + 1 /\ q.held = p.held
    BY DEF SameData
  <2> HIDE DEF T, c
  <2> QED
    BY <2>2, <2>4, <2>5, <2>6, Zenon DEF InStep
<1> QED
  BY <1>5, <1>6, <1>7 DEF PositionInv

\* dispatchDatasetPlaybackEvent for the next event.
LEMMA PassedKeeps ==
  ASSUME NEW p, NEW work, NEW sent, PageOK(p, work, sent), p.cursor + 1 \in DOMAIN p.timeline,
         Dispatches(p, p.timeline[p.cursor + 1]), NEW q, q = Passed(p)
  PROVE  PageOK(q, work, sent) /\ SameData(p, q) /\ SameClock(p, q) /\ q.cursor = p.cursor + 1
<1> DEFINE e == p.timeline[p.cursor + 1]
           r == Dispatch(p, e)
<1>1. DOMAIN p = PageFields /\ Typed(p.held) /\ HeldInv(p) /\ PositionInv(p)
  BY HeldTyped DEF PageOK, HeldInv
<1>2. /\ e \in Events(p.held) /\ e.stream \in EventStreams /\ e.index \in DOMAIN Times(p.held, e.stream)
  <2>1. e \in Events(p.held)
    BY <1>1, SortedCorrect DEF HeldInv
  <2> QED
    BY <1>1, <2>1, EventTyped
<1>3. q = [r EXCEPT !.cursor = @ + 1]
  BY DEF Passed, Timeline
<1> HIDE DEF e
<1>4. /\ SameData(p, r) /\ SameClock(p, r) /\ ImageInv(r, work, sent) /\ r.cursor = p.cursor /\ r.lags = p.lags
      /\ r.current = IF e.stream = "camera" THEN e.index ELSE p.current
      /\ r.counts = [s \in Counted |-> IF e.stream = s THEN e.index ELSE p.counts[s]]
      /\ r.cloud = IF e.stream = "lidar" THEN p.cloud \cup {e.index} ELSE p.cloud
  <2>0. p.counts \in [Counted -> Nat]
    BY <1>1 DEF PositionInv, PlaceTypes
  <2>1. CASE e.stream = "camera"
    <3>1. r = ShowFrame(p, e.index)
      BY <2>1 DEF Dispatch
    <3>2. e.index \in DOMAIN p.held.frames
      BY <1>2, <2>1 DEF Times
    <3> HIDE DEF r
    <3>3. /\ SameData(p, r) /\ SameClock(p, r) /\ ImageInv(r, work, sent) /\ r.current = e.index
          /\ r.cursor = p.cursor /\ r.counts = p.counts /\ r.cloud = p.cloud /\ r.lags = p.lags
      BY <3>1, <3>2, ShowFrameKeeps DEF PageOK, ImageInv
    <3>4. \A s \in Counted : e.stream # s
      BY <2>1 DEF Counted, Sensors
    <3> QED
      BY <2>0, <2>1, <3>3, <3>4
  <2>2. CASE e.stream = "lidar"
    <3>1. r = [p EXCEPT !.cloud = @ \cup {e.index}]
      BY <2>2 DEF Dispatch, Dispatches, ApplyLidar, e
    <3> HIDE DEF r
    <3>2. /\ SameData(p, r) /\ SameClock(p, r) /\ SameImage(p, r) /\ r.current = p.current
          /\ r.cursor = p.cursor /\ r.counts = p.counts /\ r.cloud = p.cloud \cup {e.index} /\ r.lags = p.lags
      BY <1>1, <3>1 DEF PageFields, SameData, SameClock, SameImage
    <3>3. \A s \in Counted : e.stream # s
      BY <2>2 DEF Counted, Sensors
    <3> QED
      BY <2>0, <2>2, <3>2, <3>3, ImageSame DEF PageOK
  <2>3. CASE e.stream # "camera" /\ e.stream # "lidar"
    <3>1. r = [p EXCEPT !.counts[e.stream] = e.index]
      BY <2>3 DEF Dispatch, ApplySample
    <3>2. e.stream \in Counted
      BY <1>2, <2>3 DEF EventStreams, Counted
    <3> HIDE DEF r
    <3>3. /\ SameData(p, r) /\ SameClock(p, r) /\ SameImage(p, r) /\ r.current = p.current
          /\ r.cursor = p.cursor /\ r.cloud = p.cloud /\ r.lags = p.lags
          /\ r.counts = [p.counts EXCEPT ![e.stream] = e.index]
      BY <1>1, <3>1 DEF PageFields, SameData, SameClock, SameImage
    <3>4. r.counts = [s \in Counted |-> IF e.stream = s THEN e.index ELSE p.counts[s]]
      BY <2>0, <3>2, <3>3
    <3> QED
      BY <2>3, <3>3, <3>4, ImageSame DEF PageOK
  <2> QED
    BY <2>1, <2>2, <2>3
<1> HIDE DEF r
<1>5. /\ SameData(r, q) /\ SameClock(r, q) /\ SameImage(r, q) /\ q.cursor = p.cursor + 1
      /\ q.current = r.current /\ q.counts = r.counts /\ q.cloud = r.cloud /\ q.lags = r.lags
  <2>1. DOMAIN r = PageFields
    BY <1>1, <1>4 DEF SameData
  <2> QED
    BY <1>3, <1>4, <2>1 DEF PageFields, SameData, SameClock, SameImage
<1>6. SameData(p, q) /\ SameClock(p, q)
  BY <1>4, <1>5 DEF SameData, SameClock
<1>7. PositionInv(q)
  BY <1>1, <1>4, <1>5, <1>6, StepInStep DEF e
<1>8. HeldInv(q) /\ ClockInv(q) /\ ImageInv(q, work, sent)
  BY <1>4, <1>5, <1>6, HeldSame, ClockSame, ImageSame DEF PageOK
<1> QED
  BY <1>5, <1>6, <1>7, <1>8 DEF PageOK

\* The function that Played defines; it exists for every number of events.
Plays(p, n) == CHOOSE after : after = [i \in 0 .. n |-> IF i = 0 THEN p ELSE Passed(after[i - 1])]

\* The least number of events it could not exist for is not 0.
LEMMA PlaysExist ==
  ASSUME NEW p, NEW n \in Nat
  PROVE  \E g : g = [i \in 0 .. n |-> IF i = 0 THEN p ELSE Passed(g[i - 1])]
<1> DEFINE To(k, g) == g = [i \in 0 .. k |-> IF i = 0 THEN p ELSE Passed(g[i - 1])]
           bad == {k \in Nat : ~ \E g : To(k, g)}
<1>1. ASSUME bad # {} PROVE FALSE
  <2>1. PICK k \in bad : \A j \in bad : k <= j
    <3>1. bad \subseteq Nat
      OBVIOUS
    <3> QED
      BY <1>1, <3>1, LeastNatural, Zenon
  <2>2. k # 0
    <3>1. To(0, [i \in 0 .. 0 |-> p])
      OBVIOUS
    <3> QED
      BY <2>1, <3>1, Zenon
  <2>3. k \in Nat \ {0} /\ k - 1 \in Nat /\ ~ (k <= k - 1)
    BY <2>1, <2>2
  <2>4. PICK g : To(k - 1, g)
    <3>1. k - 1 \notin bad
      BY <2>1, <2>3, Zenon
    <3> QED
      BY <2>3, <3>1
  <2> DEFINE h == [i \in 0 .. k |-> IF i = k THEN Passed(g[k - 1]) ELSE g[i]]
  <2>5. ASSUME NEW i \in 0 .. k PROVE h[i] = IF i = 0 THEN p ELSE Passed(h[i - 1])
    <3>1. CASE i = 0
      BY <2>3, <2>4, <3>1
    <3>2. CASE i = k
      BY <2>3, <3>2
    <3>3. CASE i # 0 /\ i # k
      <4>1. i \in 0 .. k - 1 /\ i - 1 \in 0 .. k - 1 /\ i - 1 # k /\ i - 1 \in 0 .. k
        BY <2>3, <3>3
      <4>2. g[i] = Passed(g[i - 1])
        BY <2>4, <3>3, <4>1
      <4> QED
        BY <3>3, <4>1, <4>2
    <3> QED
      BY <3>1, <3>2, <3>3
  <2>6. To(k, h)
    BY <2>5
  <2> QED
    BY <2>1, <2>6, Zenon
<1> QED
  BY <1>1, Zenon

\* processDatasetPlaybackEvents: events that are shown one after the other.
LEMMA PlayedKeeps ==
  ASSUME NEW p, NEW work, NEW sent, PageOK(p, work, sent), NEW n \in Nat,
         \A i \in p.cursor + 1 .. p.cursor + n : i \in DOMAIN p.timeline /\ Dispatches(p, p.timeline[i]),
         NEW q, q = Played(p, n)
  PROVE  PageOK(q, work, sent) /\ SameData(p, q) /\ SameClock(p, q)
<1> DEFINE g == Plays(p, n)
           Good(i) == /\ PageOK(g[i], work, sent) /\ SameData(p, g[i]) /\ SameClock(p, g[i])
                      /\ g[i].cursor = p.cursor + i
           bad == {i \in 0 .. n : ~ Good(i)}
<1>1. g = [i \in 0 .. n |-> IF i = 0 THEN p ELSE Passed(g[i - 1])]
  BY PlaysExist DEF Plays
<1>2. q = g[n]
  BY DEF Played, Plays
<1>3. p.cursor \in Nat
  <2>1. Len(p.timeline) \in Nat
    BY HeldTyped DEF PageOK
  <2> QED
    BY <2>1 DEF PageOK, PositionInv
<1> HIDE DEF g
<1>4. ASSUME bad # {} PROVE FALSE
  <2>1. PICK k \in bad : \A j \in bad : k <= j
    <3>1. bad \subseteq Nat
      OBVIOUS
    <3> HIDE DEF bad
    <3> QED
      BY <1>4, <3>1, LeastNatural, Zenon
  <2>2. k # 0
    <3>1. g[0] = p
      BY <1>1
    <3>2. Good(0)
      BY <1>3, <3>1 DEF SameData, SameClock
    <3> QED
      BY <2>1, <3>2
  <2>3. k \in 1 .. n /\ k - 1 \in 0 .. n /\ ~ (k <= k - 1)
    BY <2>1, <2>2
  <2>4. Good(k - 1)
    <3>1. k - 1 \notin bad
      BY <2>1, <2>3, Zenon
    <3> QED
      BY <2>3, <3>1
  <2> DEFINE x == g[k - 1]
  <2>5. g[k] = Passed(x)
    BY <1>1, <2>2, <2>3
  <2>6. PageOK(x, work, sent) /\ SameData(p, x) /\ SameClock(p, x) /\ x.cursor = p.cursor + (k - 1)
    BY <2>4
  <2> HIDE DEF x
  <2>7. x.cursor + 1 = p.cursor + k /\ p.cursor + k \in p.cursor + 1 .. p.cursor + n
    BY <1>3, <2>3, <2>6
  <2>8. x.cursor + 1 \in DOMAIN x.timeline /\ Dispatches(x, x.timeline[x.cursor + 1])
    <3>1. x.timeline = p.timeline /\ x.held = p.held
      BY <2>6 DEF SameData
    <3>2. p.cursor + k \in DOMAIN p.timeline /\ Dispatches(p, p.timeline[p.cursor + k])
      BY <2>7
    <3> QED
      BY <2>7, <3>1, <3>2 DEF Dispatches
  <2>9. /\ PageOK(g[k], work, sent) /\ SameData(x, g[k]) /\ SameClock(x, g[k])
        /\ g[k].cursor = x.cursor + 1
    BY <2>5, <2>6, <2>8, PassedKeeps
  <2>10. SameData(p, g[k]) /\ SameClock(p, g[k]) /\ g[k].cursor = p.cursor + k
    BY <2>6, <2>7, <2>9 DEF SameData, SameClock
  <2>11. Good(k)
    BY <2>9, <2>10
  <2> QED
    BY <2>1, <2>11
<1>5. n \in 0 .. n
  OBVIOUS
<1>6. Good(n)
  BY <1>4, <1>5
<1> QED
  BY <1>2, <1>6

\* The events of one turn are due and can be shown.
LEMMA TurnIs ==
  ASSUME NEW p, NEW work, NEW sent, PageOK(p, work, sent)
  PROVE  /\ Turn(p) \in 0 .. TurnLimit
         /\ \A i \in p.cursor + 1 .. p.cursor + Turn(p) :
              i \in DOMAIN p.timeline /\ Dispatches(p, p.timeline[i])
<1> DEFINE S == {n \in 0 .. TurnLimit : \A i \in p.cursor + 1 .. p.cursor + n :
                   OnTime(p, i) /\ Dispatches(p, p.timeline[i])}
           rest == {TurnLimit - n : n \in S}
<1>1. TurnLimit \in Nat /\ p.cursor \in Nat
  <2>1. Len(p.timeline) \in Nat
    BY HeldTyped DEF PageOK
  <2> QED
    BY <2>1, PageAssumption DEF PageOK, PositionInv
<1>2. 0 \in S /\ S \subseteq 0 .. TurnLimit
  BY <1>1
<1>3. Turn(p) = CHOOSE x \in S : \A y \in S : x >= y
  BY DEF Turn, Timeline, Max
<1>4. Turn(p) \in S
  <2> HIDE DEF S
  <2>1. rest \subseteq Nat /\ rest # {}
    BY <1>1, <1>2
  <2>2. PICK m \in rest : \A k \in rest : m <= k
    <3> HIDE DEF rest
    <3> QED
      BY <2>1, LeastNatural, Zenon
  <2>3. PICK x \in S : m = TurnLimit - x
    BY <2>2
  <2>4. ASSUME NEW y \in S PROVE x >= y
    <3>1. TurnLimit - x <= TurnLimit - y
      BY <2>2, <2>3
    <3> QED
      BY <1>1, <1>2, <2>3, <3>1
  <2> QED
    BY <1>3, <2>4
<1> QED
  BY <1>2, <1>4 DEF OnTime, Timeline

\* What the playback does after a turn.
LEMMA WaitsKeeps ==
  ASSUME NEW p, NEW work, NEW sent, PageOK(p, work, sent), p.playing, rate \in Rates,
         NEW n, NEW free, free, ~ live, NEW q, q = Waits(p, n, free)
  PROVE  PageOK(q, work, sent) /\ (q.playing => free)
<1>1. CASE AtEnd(p) \/ (n < TurnLimit /\ OnTime(p, p.cursor + 1))
  <2>1. q = SetActive(p, FALSE, free)
    BY <1>1, Zenon DEF Waits
  <2> QED
    BY <2>1, SetActiveKeeps, Zenon
<1>2. CASE ~ (AtEnd(p) \/ (n < TurnLimit /\ OnTime(p, p.cursor + 1))) /\ OnTime(p, p.cursor + 1)
  <2> DEFINE timer == [on |-> TRUE, at |-> p.elapsed]
  <2>1. q = [p EXCEPT !.timer = timer]
    BY <1>2 DEF Waits
  <2>2. timer \in Timers
    BY PageAssumption DEF PageOK, ClockInv, Timers
  <2>3. DOMAIN p = PageFields
    BY DEF PageOK, HeldInv
  <2>4. /\ SameData(p, q) /\ SamePlace(p, q) /\ SameImage(p, q)
        /\ q.playing = p.playing /\ q.timer = timer /\ q.elapsed = p.elapsed /\ q.anchor = p.anchor
    BY <2>1, <2>3, Zenon DEF PageFields, SameData, SamePlace, SameImage
  <2>5. ClockInv(q)
    BY <2>2, <2>4, Zenon DEF PageOK, ClockInv
  <2> QED
    BY <2>4, <2>5, ClockOnly, Zenon
<1>3. CASE ~ (AtEnd(p) \/ (n < TurnLimit /\ OnTime(p, p.cursor + 1))) /\ ~ OnTime(p, p.cursor + 1)
  <2>1. q = Schedule(p, rate)
    BY <1>3 DEF Waits
  <2> QED
    BY <2>1, ScheduleKeeps, Zenon
<1> QED
  BY <1>1, <1>2, <1>3, Zenon

--------------------------------------------------------------------------------
(***************************************************************************)
(* loadRecordedDataset.                                                    *)
(***************************************************************************)
\* No request and no result is of a generation that has just begun.
LEMMA NewGeneration ==
  ASSUME NEW p, NEW q, NEW work, NEW sent, RequestInv(p, work, sent),
         q.generation = p.generation + 1, q.pending = p.pending
  PROVE  RequestInv(q, work, sent)
<1>1. p.generation \in Nat /\ q.generation \in Nat /\ sent \in Seq(Posts)
  BY DEF RequestInv
<1>2. ASSUME NEW r \in {q.pending, work} \ {NoRequest}
      PROVE  /\ <<r.of, r.entry>> \in Images /\ r.generation \in Nat /\ r.generation <= q.generation
             /\ r.generation # q.generation
  <2>1. <<r.of, r.entry>> \in Images /\ r.generation \in Nat /\ r.generation <= p.generation
    BY DEF RequestInv
  <2> QED
    BY <1>1, <2>1
<1>3. ASSUME NEW i \in DOMAIN sent
      PROVE  sent[i].generation <= q.generation /\ sent[i].generation # q.generation
  <2>1. sent[i] \in Posts
    BY <1>1
  <2>2. sent[i].generation \in Nat /\ sent[i].generation <= p.generation
    BY <2>1 DEF RequestInv, Posts
  <2> QED
    BY <1>1, <2>2
<1> QED
  BY <1>1, <1>2, <1>3 DEF RequestInv

\* The times of what can be loaded are in order.
LEMMA RawOrdered == ASSUME NEW d \in Datasets, d.kind = "raw8" PROVE Ordered(d)
<1>1. ASSUME NEW s \in EventStreams PROVE Monotonic(Times(d, s))
  <2>1. Monotonic(<<>>)
    BY DEF Monotonic
  <2>2. CASE s = "camera" /\ ~ d.ordinal
    BY <2>2, DatasetsAssumption DEF Times
  <2>3. CASE s = "camera" /\ d.ordinal
    BY <2>1, <2>3 DEF Times
  <2>4. CASE s # "camera"
    <3>1. d.rows[s] = <<>>
      BY <2>4, DatasetsAssumption DEF EventStreams
    <3> QED
      BY <2>1, <2>4, <3>1 DEF Times
  <2> QED
    BY <2>2, <2>3, <2>4
<1> QED
  BY <1>1 DEF Ordered

\* requireMonotonic has seen every index.
LEMMA LegacyOrdered == ASSUME NEW d \in Datasets, d.kind # "raw8", LegacyLoads(d) PROVE Ordered(d)
<1>1. ~ d.ordinal
  BY DatasetsAssumption
<1>2. Monotonic(d.frames) /\ \A s \in Sensors : Monotonic(d.rows[s])
  BY DEF LegacyLoads, PlaybackLoads, OnboardImuLoads, LidarLoads, LidarImuLoads, Sensors
<1> QED
  BY <1>1, <1>2 DEF Ordered, Times, EventStreams

\* A RAW8 dataset takes the place of the old one before it is checked.
LEMMA ClearKeeps ==
  ASSUME NEW p, NEW work, NEW sent, PageOK(p, work, sent), NEW d, NEW q, q = ClearForRaw(p, d)
  PROVE  PageOK(q, work, sent) /\ SameClock(p, q)
         /\ q.generation = p.generation + 1 /\ q.pending = p.pending /\ q.pane = NoImage /\ q.raw8
         /\ q.cloud = {} /\ q.current = 1 /\ q.counts = [s \in Counted |-> 0]
<1> DEFINE none == Unread(d.name)
<1>1. DOMAIN p = PageFields
  BY DEF PageOK, HeldInv
<1>2. Typed(none) /\ Ordered(none) /\ Sorted(none) = <<>> /\ none.frames = <<>>
  BY EmptyHeld
<1>3. none.name = d.name
  BY DEF Unread
<1>4. none = Unread(none.name)
  BY <1>3
<1> DEFINE r == ResetVisualization(p)
           g == p.generation + 1
           x == [r EXCEPT !.held = none, !.timeline = <<>>, !.root = d.name, !.raw8 = TRUE]
<1>5. q = [x EXCEPT !.metadataOnly = TRUE, !.generation = g, !.cursor = 0, !.current = 1, !.pane = NoImage]
  BY Zenon DEF ClearForRaw, Renewed
<1>6. /\ DOMAIN r = PageFields /\ SameClock(p, r) /\ r.pending = p.pending
      /\ r.counts = [s \in Counted |-> 0] /\ r.cloud = {} /\ r.lags = FALSE
  BY <1>1 DEF PageFields, ResetVisualization, SameClock
<1> HIDE DEF none, r, g
<1>7. /\ DOMAIN x = PageFields /\ x.held = none /\ x.timeline = <<>> /\ x.raw8 = TRUE
      /\ x.counts = r.counts /\ x.cloud = r.cloud /\ x.lags = r.lags /\ x.pending = r.pending
      /\ SameClock(r, x)
  BY <1>6 DEF PageFields, SameClock
<1> HIDE DEF x
<1>8. /\ DOMAIN q = PageFields /\ q.held = none /\ q.timeline = <<>> /\ q.raw8 = TRUE /\ q.cursor = 0
      /\ q.current = 1 /\ q.generation = g /\ q.pane = NoImage
      /\ q.counts = r.counts /\ q.cloud = r.cloud /\ q.lags = r.lags /\ q.pending = r.pending
      /\ SameClock(x, q)
  BY <1>5, <1>7 DEF PageFields, SameClock
<1>9. SameClock(p, q)
  BY <1>6, <1>7, <1>8 DEF SameClock
<1>10. HeldInv(q)
  BY <1>2, <1>4, <1>8 DEF HeldInv
<1>11. PositionInv(q)
  BY <1>6, <1>8, <1>10, StartInStep
<1>12. ClockInv(q)
  BY <1>9, ClockSame DEF PageOK
<1>13. RequestInv(q, work, sent)
  BY <1>6, <1>8, NewGeneration DEF PageOK, ImageInv, g
<1> QED
  BY <1>6, <1>8, <1>9, <1>10, <1>11, <1>12, <1>13 DEF PageOK, ImageInv, PaneInv, g

\* The new dataset is shown from its first frame, or nothing is.
LEMMA LoadRawKeeps ==
  ASSUME NEW p, NEW work, NEW sent, PageOK(p, work, sent), NEW d \in Datasets, d.kind = "raw8",
         NEW q, q = LoadRaw(p, d)
  PROVE  PageOK(q, work, sent) /\ SameClock(p, q)
<1> DEFINE c == ClearForRaw(p, d)
           x == [c EXCEPT !.held = d, !.timeline = Sorted(d), !.metadataOnly = FALSE]
<1>1. /\ PageOK(c, work, sent) /\ SameClock(p, c)
      /\ c.generation = p.generation + 1 /\ c.pending = p.pending /\ c.pane = NoImage
  BY ClearKeeps
<1>2. CASE d.broken = {} /\ d.frames # <<>>
  <2>1. q = Seek(ShowFrame(x, 1), d.frames[1])
    BY <1>2 DEF LoadRaw
  <2> HIDE DEF c
  <2>2. DOMAIN c = PageFields
    BY <1>1 DEF PageOK, HeldInv
  <2>3. /\ DOMAIN x = PageFields /\ x.held = d /\ x.timeline = Sorted(d) /\ SameClock(c, x) /\ SamePlace(c, x)
        /\ x.generation = c.generation /\ x.pending = c.pending /\ x.pane = c.pane
    BY <2>2 DEF PageFields, SameClock, SamePlace
  <2> HIDE DEF x
  <2>4. HeldInv(x)
    BY <2>3, RawOrdered DEF HeldInv
  <2>5. PlaceTypes(x)
    BY <1>1, <2>3 DEF PageOK, PositionInv, PlaceTypes, SamePlace
  <2>6. RequestInv(x, work, sent)
    BY <1>1, <2>3, NewGeneration DEF PageOK, ImageInv
  <2>7. PaneInv(x) /\ ClockInv(x)
    BY <1>1, <2>3, ClockSame DEF PageOK, PaneInv
  <2>8. 1 \in DOMAIN x.held.frames
    <3>1. d.frames \in Seq(Nat)
      BY DatasetsAssumption
    <3> QED
      BY <1>2, <2>3, <3>1
  <2>9. PageOK(q, work, sent) /\ SameClock(x, q)
    BY <2>1, <2>3, <2>4, <2>5, <2>6, <2>7, <2>8, JumpKeeps
  <2> QED
    BY <1>1, <2>3, <2>9 DEF SameClock
<1>3. CASE ~ (d.broken = {} /\ d.frames # <<>>)
  BY <1>1, <1>3 DEF LoadRaw
<1> QED
  BY <1>2, <1>3

\* Any other dataset replaces the old one once it was read.
LEMMA LoadLegacyKeeps ==
  ASSUME NEW p, NEW work, NEW sent, PageOK(p, work, sent), NEW d \in Datasets, d.kind # "raw8",
         LegacyLoads(d), NEW q, q = LoadLegacy(p, d)
  PROVE  PageOK(q, work, sent) /\ SameClock(p, q)
<1> DEFINE x == [p EXCEPT !.held = d, !.timeline = Sorted(d), !.root = d.name, !.raw8 = FALSE,
                          !.metadataOnly = FALSE, !.generation = Renewed(p), !.cursor = 0]
<1>1. DOMAIN p = PageFields
  BY DEF PageOK, HeldInv
<1>2. /\ DOMAIN x = PageFields /\ x.held = d /\ x.timeline = Sorted(d) /\ ~ x.raw8 /\ SameClock(p, x)
      /\ x.generation = p.generation + 1 /\ x.pending = p.pending
      /\ x.current = p.current /\ x.cursor = 0 /\ x.counts = p.counts /\ x.cloud = p.cloud
  BY <1>1 DEF PageFields, Renewed, SameClock
<1>3. q = IF d.frames # <<>> THEN Seek(ShowFrame(x, 1), d.frames[1])
          ELSE [ResetVisualization(x) EXCEPT !.pane = NoImage]
  BY DEF LoadLegacy
<1> HIDE DEF x
<1>4. HeldInv(x)
  BY <1>2, LegacyOrdered DEF HeldInv
<1>5. RequestInv(x, work, sent) /\ ClockInv(x) /\ PlaceTypes(x)
  BY <1>2, NewGeneration, ClockSame DEF PageOK, ImageInv, PositionInv, PlaceTypes
<1>6. CASE d.frames # <<>>
  <2>1. 1 \in DOMAIN x.held.frames
    <3>1. d.frames \in Seq(Nat)
      BY DatasetsAssumption
    <3> QED
      BY <1>2, <1>6, <3>1
  <2>2. PageOK(q, work, sent) /\ SameClock(x, q)
    BY <1>2, <1>3, <1>4, <1>5, <1>6, <2>1, JumpKeeps
  <2> QED
    BY <1>2, <2>2 DEF SameClock
<1>7. CASE d.frames = <<>>
  <2>1. /\ SameData(x, q) /\ SameClock(x, q) /\ q.generation = x.generation /\ q.pending = x.pending
        /\ q.pane = NoImage /\ q.wanted = x.wanted /\ q.current = x.current /\ q.cursor = 0
        /\ q.counts = [s \in Counted |-> 0] /\ q.cloud = {}
    BY <1>2, <1>3, <1>7 DEF PageFields, ResetVisualization, SameData, SameClock
  <2>2. HeldInv(q) /\ ClockInv(q)
    BY <1>4, <1>5, <2>1, HeldSame, ClockSame
  <2>3. PositionInv(q)
    BY <1>2, <1>5, <1>7, <2>1, <2>2, StartInStep DEF SameData, PlaceTypes
  <2>4. RequestInv(q, work, sent)
    BY <1>2, <2>1, NewGeneration DEF PageOK, ImageInv
  <2> QED
    BY <1>2, <2>1, <2>2, <2>3, <2>4 DEF PageOK, ImageInv, PaneInv, SameClock
<1> QED
  BY <1>6, <1>7

\* Playback stops first, so the controls have nothing left to stop.
LEMMA LoadKeeps ==
  ASSUME NEW p, NEW work, NEW sent, PageOK(p, work, sent), rate \in Rates,
         NEW d \in Datasets, NEW q, q = Load(p, d)
  PROVE  PageOK(q, work, sent) /\ ~ q.playing
<1> DEFINE x == SetActive(p, FALSE, ~ live)
<1>1. PageOK(x, work, sent) /\ ~ x.playing
  BY SetActiveKeeps, Zenon
<1>2. q = IF ~ d.readable THEN x
          ELSE IF d.kind = "raw8" THEN Controls(LoadRaw(x, d), ~ live)
          ELSE IF LegacyLoads(d) THEN Controls(LoadLegacy(x, d), ~ live)
          ELSE x
  BY DEF Load
<1> HIDE DEF x
<1>3. ASSUME NEW y, PageOK(y, work, sent), SameClock(x, y) PROVE Controls(y, ~ live) = y
  BY <1>1, <1>3 DEF Controls, SameClock
<1>4. CASE d.kind = "raw8"
  <2>1. PageOK(LoadRaw(x, d), work, sent) /\ SameClock(x, LoadRaw(x, d))
    BY <1>1, <1>4, LoadRawKeeps
  <2> QED
    BY <1>1, <1>2, <1>3, <1>4, <2>1 DEF SameClock
<1>5. CASE d.kind # "raw8" /\ LegacyLoads(d)
  <2>1. PageOK(LoadLegacy(x, d), work, sent) /\ SameClock(x, LoadLegacy(x, d))
    BY <1>1, <1>5, LoadLegacyKeeps
  <2> QED
    BY <1>1, <1>2, <1>3, <1>5, <2>1 DEF SameClock
<1> QED
  BY <1>1, <1>2, <1>4, <1>5

--------------------------------------------------------------------------------
(***************************************************************************)
(* The decoder thread and its results.                                     *)
(***************************************************************************)
\* The timer is stopped.
LEMMA HaltedKeeps ==
  ASSUME NEW p, NEW work, NEW sent, PageOK(p, work, sent), NEW q, q = Halted(p)
  PROVE  /\ PageOK(q, work, sent) /\ SameData(p, q) /\ SamePlace(p, q)
         /\ q.playing = p.playing /\ q.elapsed = p.elapsed /\ q.anchor = p.anchor
<1>1. DOMAIN p = PageFields
  BY DEF PageOK, HeldInv
<1>2. /\ SameData(p, q) /\ SamePlace(p, q) /\ SameImage(p, q)
      /\ q.playing = p.playing /\ q.timer = Off /\ q.elapsed = p.elapsed /\ q.anchor = p.anchor
  BY <1>1 DEF Halted, PageFields, SameData, SamePlace, SameImage
<1>3. Off \in Timers /\ Off.on = FALSE
  BY PageAssumption DEF Off, Timers
<1>4. ClockInv(q)
  BY <1>2, <1>3 DEF PageOK, ClockInv
<1> QED
  BY <1>2, <1>4, ClockOnly

\* RawDatasetDecoder::run takes the request ...
LEMMA TakeKeeps ==
  ASSUME NEW p, NEW sent, PageOK(p, NoRequest, sent), NEW q, q = [p EXCEPT !.pending = NoRequest]
  PROVE  PageOK(q, p.pending, sent) /\ q.playing = p.playing
<1>1. DOMAIN p = PageFields
  BY DEF PageOK, HeldInv
<1>2. /\ SameData(p, q) /\ SamePlace(p, q) /\ SameClock(p, q)
      /\ q.pane = p.pane /\ q.wanted = p.wanted /\ q.generation = p.generation /\ q.pending = NoRequest
  BY <1>1 DEF PageFields, SameData, SamePlace, SameClock
<1>3. HeldInv(q) /\ PositionInv(q) /\ ClockInv(q)
  BY <1>2, HeldSame, PositionSame, ClockSame DEF PageOK
<1>4. PaneInv(q) /\ Shown(q) = Shown(p)
  BY <1>2 DEF PageOK, ImageInv, PaneInv, Shown, SameData, SamePlace
<1>5. Latest(q) <=> Latest(p)
  BY <1>2, <1>4 DEF Latest, SameData
<1>6. RequestInv(q, p.pending, sent)
  BY <1>2, <1>5, Zenon DEF PageOK, ImageInv, RequestInv
<1> QED
  BY <1>2, <1>3, <1>4, <1>6 DEF PageOK, ImageInv, SameClock

\* ... and sent what it decodes.
LEMMA DecodeKeeps ==
  ASSUME NEW p, NEW work, NEW sent, PageOK(p, work, sent), work # NoRequest,
         NEW post, post = [generation |-> work.generation,
                           image |-> Picture(CHOOSE x \in Datasets : x.name = work.of, work.entry)]
  PROVE  PageOK(p, NoRequest, Append(sent, post))
<1> DEFINE d == CHOOSE x \in Datasets : x.name = work.of
           image == <<work.of, work.entry>>
           more == Append(sent, post)
<1>1. /\ image \in Images /\ work.generation \in Nat /\ work.generation <= p.generation
      /\ work.generation = p.generation => Latest(p) /\ image = p.wanted
      /\ sent \in Seq(Posts) /\ p.generation \in Nat
  BY DEF PageOK, ImageInv, RequestInv
<1>2. d.name = work.of
  <2>1. image # NoImage
    BY DEF NoImage
  <2>2. PICK x \in Datasets : image \in {<<x.name, x.entries[f]>> : f \in DOMAIN x.frames}
    BY <1>1, <2>1 DEF Images
  <2>3. x.name = work.of
    BY <2>2
  <2> QED
    BY <2>3
<1>3. post.image \in {NoImage, image} /\ post.generation = work.generation
  <2>1. Picture(d, work.entry) \in {NoImage, image}
    BY <1>2 DEF Picture
  <2> QED
    BY <2>1
<1>4. post \in Posts
  <2>1. NoImage \in Images
    BY DEF Images
  <2> QED
    BY <1>1, <1>3, <2>1 DEF Posts
<1> HIDE DEF image, d
<1>5. /\ more \in Seq(Posts) /\ DOMAIN more = 1 .. Len(sent) + 1 /\ DOMAIN sent = 1 .. Len(sent)
      /\ \A i \in 1 .. Len(sent) : more[i] = sent[i]
      /\ more[Len(sent) + 1] = post /\ Len(sent) \in Nat
  BY <1>1, <1>4
<1> HIDE DEF more
<1>6. ASSUME NEW i \in DOMAIN more
      PROVE  /\ more[i].generation <= p.generation
             /\ more[i].generation = p.generation => Latest(p) /\ more[i].image \in {NoImage, p.wanted}
  <2>1. CASE i = Len(sent) + 1
    BY <1>1, <1>3, <1>5, <2>1
  <2>2. CASE i \in DOMAIN sent
    BY <1>5, <2>2 DEF PageOK, ImageInv, RequestInv
  <2> QED
    BY <1>5, <2>1, <2>2
<1>7. RequestInv(p, NoRequest, more)
  BY <1>1, <1>5, <1>6 DEF PageOK, ImageInv, RequestInv
<1> QED
  BY <1>7 DEF PageOK, ImageInv, more

\* A posted result is shown if it is of the last request, and gone then.
LEMMA ShowResultKeeps ==
  ASSUME NEW p, NEW work, NEW sent, PageOK(p, work, sent), sent # <<>>,
         NEW q, q = IF p.raw8 /\ Head(sent).generation = p.generation
                    THEN [p EXCEPT !.pane = Head(sent).image] ELSE p
  PROVE  PageOK(q, work, Tail(sent)) /\ q.playing = p.playing
<1>1. /\ sent \in Seq(Posts) /\ DOMAIN p = PageFields
  BY DEF PageOK, ImageInv, RequestInv, HeldInv
<1>2. /\ Tail(sent) \in Seq(Posts) /\ 1 \in DOMAIN sent /\ Head(sent) = sent[1]
      /\ \A i \in DOMAIN Tail(sent) : i + 1 \in DOMAIN sent /\ Tail(sent)[i] = sent[i + 1]
  BY <1>1
<1>3. RequestInv(p, work, Tail(sent))
  BY <1>2 DEF PageOK, ImageInv, RequestInv
<1>4. CASE ~ (p.raw8 /\ Head(sent).generation = p.generation)
  BY <1>3, <1>4 DEF PageOK, ImageInv
<1>5. CASE p.raw8 /\ Head(sent).generation = p.generation
  <2> DEFINE image == Head(sent).image
  <2>1. Latest(p) /\ image \in {NoImage, p.wanted}
    BY <1>2, <1>5 DEF PageOK, ImageInv, RequestInv
  <2>2. q = [p EXCEPT !.pane = image]
    BY <1>5
  <2> HIDE DEF image
  <2>3. /\ SameData(p, q) /\ SamePlace(p, q) /\ SameClock(p, q) /\ q.pane = image
        /\ q.wanted = p.wanted /\ q.generation = p.generation /\ q.pending = p.pending
    BY <1>1, <2>2 DEF PageFields, SameData, SamePlace, SameClock
  <2>4. HeldInv(q) /\ PositionInv(q) /\ ClockInv(q)
    BY <2>3, HeldSame, PositionSame, ClockSame DEF PageOK
  <2>5. Shown(q) = Shown(p) /\ (Latest(q) <=> Latest(p))
    BY <2>3 DEF Latest, Shown, SameData, SamePlace
  <2>6. PaneInv(q)
    BY <2>1, <2>3, <2>5 DEF PaneInv, Latest, SameData
  <2>7. RequestInv(q, work, Tail(sent))
    BY <1>3, <2>3, <2>5 DEF RequestInv
  <2> QED
    BY <2>3, <2>4, <2>6, <2>7 DEF PageOK, ImageInv, SameClock
<1> QED
  BY <1>4, <1>5

--------------------------------------------------------------------------------
(***************************************************************************)
(* The invariant of the page, over all handlers.                           *)
(***************************************************************************)
PageInv ==
  /\ PageOK(page, decoder, results)
  /\ page.playing => Free
  /\ rate \in Rates /\ live \in BOOLEAN
  /\ busy \in {"none", "open", "save", "validate", "export"}

(* It holds of the empty page that the viewer starts with, ...              *)
LEMMA PageStarts == PageInit => PageInv
<1> SUFFICES ASSUME PageInit PROVE PageInv
  OBVIOUS
<1>1. /\ DOMAIN page = PageFields /\ page.held = NoData /\ page.timeline = <<>> /\ page.raw8 = FALSE
      /\ page.current = 1 /\ page.cursor = 0 /\ page.playing = FALSE /\ page.timer = Off
      /\ page.elapsed = 0 /\ page.anchor = 0 /\ page.counts = [s \in Counted |-> 0] /\ page.cloud = {}
      /\ page.pane = NoImage /\ page.generation = 0 /\ page.pending = NoRequest
  <2>1. page = EmptyPage
    BY DEF PageInit
  <2>2. DOMAIN page = PageFields
    BY <2>1, Zenon DEF EmptyPage, PageFields
  <2>3. /\ page.held = NoData /\ page.timeline = <<>> /\ page.raw8 = FALSE /\ page.current = 1
        /\ page.cursor = 0 /\ page.playing = FALSE /\ page.timer = Off /\ page.elapsed = 0 /\ page.anchor = 0
    BY <2>1, Zenon DEF EmptyPage
  <2>4. /\ page.counts = [s \in Counted |-> 0] /\ page.cloud = {}
        /\ page.pane = NoImage /\ page.generation = 0 /\ page.pending = NoRequest
    BY <2>1, Zenon DEF EmptyPage
  <2> QED
    BY <2>2, <2>3, <2>4
<1>2. NoData = Unread(NoData.name)
  BY DEF NoData, Unread
<1>3. HeldInv(page)
  BY <1>1, <1>2, EmptyHeld DEF HeldInv
<1>4. PositionInv(page)
  BY <1>1, <1>3, StartInStep
<1>5. ClockInv(page)
  <2>1. Off \in Timers /\ Off.on = FALSE
    BY PageAssumption DEF Timers, Off
  <2>2. 0 \in 0 .. Horizon /\ 0 \in Nat
    BY PageAssumption
  <2>3. page.playing = FALSE /\ page.timer = Off /\ page.elapsed = 0 /\ page.anchor = 0
    BY <1>1
  <2>4. page.timer \in Timers /\ (page.timer.on => page.playing)
    BY <2>1, <2>3, Zenon
  <2> QED
    BY <2>2, <2>3, <2>4, Zenon DEF ClockInv
<1>6. ImageInv(page, NoRequest, <<>>)
  <2>1. <<>> \in Seq(Posts)
    OBVIOUS
  <2> QED
    BY <1>1, <2>1 DEF ImageInv, PaneInv, RequestInv
<1>7. rate = 1 /\ live = FALSE /\ busy = "none" /\ decoder = NoRequest /\ results = <<>>
  BY DEF PageInit
<1> QED
  BY <1>1, <1>3, <1>4, <1>5, <1>6, <1>7, PageAssumption, Zenon DEF PageInv, PageOK

(* ... and every handler keeps it: the parts it calls do, in their order.   *)
LEMMA PageSteps == PageInv /\ [PageNext]_pageVars => PageInv'
<1> SUFFICES ASSUME PageInv, [PageNext]_pageVars PROVE PageInv'
  OBVIOUS
<1>1. /\ PageOK(page, decoder, results) /\ (page.playing => Free) /\ rate \in Rates /\ live \in BOOLEAN
      /\ busy \in {"none", "open", "save", "validate", "export"} /\ (Free => ~ live)
  BY DEF PageInv, Free
<1>2. ASSUME PageOK(page', decoder, results), page'.playing => Free', UNCHANGED <<decoder, results>>,
             rate' \in Rates, live' \in BOOLEAN, busy' \in {"none", "open", "save", "validate", "export"}
      PROVE  PageInv'
  BY <1>2 DEF PageInv
<1>3. CASE Open
  <2>1. PageOK(page', decoder, results) /\ ~ page'.playing
    BY <1>1, <1>3, SetActiveKeeps, Zenon DEF Open
  <2> QED
    BY <1>1, <1>2, <1>3, <2>1, Zenon DEF Open
<1>4. CASE Choose
  <2>1. UNCHANGED <<rate, live, decoder, results>> /\ busy' = "none"
    BY <1>4 DEF Choose
  <2>2. CASE page' = page
    BY <1>1, <1>2, <2>1, <2>2 DEF Free
  <2>3. CASE \E d \in Datasets : page' = Load(page, d)
    <3>1. PageOK(page', decoder, results) /\ ~ page'.playing
      BY <1>1, <2>3, LoadKeeps
    <3> QED
      BY <1>1, <1>2, <2>1, <3>1
  <2> QED
    BY <1>4, <2>2, <2>3 DEF Choose
<1>5. CASE PlayOrPause
  <2>1. PageOK(page', decoder, results) /\ (page'.playing => Free)
    BY <1>1, <1>5, SetActiveKeeps DEF PlayOrPause
  <2> QED
    BY <1>1, <1>2, <1>5, <2>1 DEF PlayOrPause, Free
<1>6. CASE Validate
  BY <1>1, <1>2, <1>6 DEF Validate, Free
<1>7. CASE AskExport
  <2>1. UNCHANGED <<page, rate, live, decoder, results>> /\ busy' = "save" /\ ~ live
    BY <1>7, Zenon DEF AskExport
  <2> QED
    BY <1>1, <1>2, <2>1 DEF Free
<1>8. CASE StartExport
  <2>1. PageOK(page', decoder, results) /\ ~ page'.playing
    BY <1>1, <1>8, ControlsKeeps, Zenon DEF StartExport
  <2> QED
    BY <1>1, <1>2, <1>8, <2>1, Zenon DEF StartExport
<1>9. CASE Return
  <2>1. PageOK(page', decoder, results) /\ (page'.playing => ~ live)
    BY <1>1, <1>9, ControlsKeeps, Zenon DEF Return
  <2> QED
    BY <1>1, <1>2, <1>9, <2>1 DEF Return, Free
<1>10. CASE Capture
  <2>1. PageOK(page', decoder, results) /\ (page'.playing => live)
    BY <1>1, <1>10, ControlsKeeps DEF Capture
  <2> QED
    BY <1>1, <1>2, <1>10, <2>1, Zenon DEF Capture, Input, Free
<1>11. CASE Tick
  <2>1. DOMAIN page = PageFields
    BY <1>1 DEF PageOK, HeldInv
  <2>2. /\ SameData(page, page') /\ SamePlace(page, page') /\ SameImage(page, page')
        /\ page'.playing = page.playing /\ page'.timer = page.timer /\ page'.anchor = page.anchor
        /\ page'.elapsed = page.elapsed + 1
    BY <1>11, <2>1 DEF Tick, PageFields, SameData, SamePlace, SameImage
  <2>3. page.elapsed + 1 \in 0 .. Horizon
    BY <1>1, <1>11, PageAssumption DEF Tick, PageOK, ClockInv
  <2>4. ClockInv(page')
    BY <1>1, <2>2, <2>3 DEF PageOK, ClockInv
  <2>5. PageOK(page', decoder, results)
    BY <1>1, <2>2, <2>4, ClockOnly
  <2> QED
    BY <1>1, <1>2, <1>11, <2>2, <2>5 DEF Tick, Free
<1>12. CASE Timeout
  <2> DEFINE h == Halted(page)
             n == Turn(page)
             q == Played(h, n)
  <2>1. page.timer.on /\ page' = Waits(q, n, Free) /\ UNCHANGED <<rate, live, busy, decoder, results>>
    BY <1>12 DEF Timeout
  <2>2. page.playing /\ Free
    BY <1>1, <2>1 DEF PageOK, ClockInv
  <2>3. PageOK(h, decoder, results) /\ SameData(page, h) /\ SamePlace(page, h) /\ h.playing = page.playing
    BY <1>1, HaltedKeeps
  <2>4. n \in Nat /\ \A i \in page.cursor + 1 .. page.cursor + n :
                       i \in DOMAIN page.timeline /\ Dispatches(page, page.timeline[i])
    <3>1. TurnLimit \in Nat
      BY PageAssumption
    <3> QED
      BY <1>1, <3>1, TurnIs
  <2> HIDE DEF h, n
  <2>5. \A i \in h.cursor + 1 .. h.cursor + n :
          i \in DOMAIN h.timeline /\ Dispatches(h, h.timeline[i])
    BY <2>3, <2>4 DEF SameData, SamePlace, Dispatches
  <2>6. PageOK(q, decoder, results) /\ SameClock(h, q)
    BY <2>3, <2>4, <2>5, PlayedKeeps
  <2> HIDE DEF q
  <2>7. q.playing
    BY <2>2, <2>3, <2>6 DEF SameClock
  <2>8. PageOK(page', decoder, results) /\ (page'.playing => Free)
    BY <1>1, <2>1, <2>2, <2>6, <2>7, WaitsKeeps, Zenon
  <2> QED
    BY <1>1, <1>2, <2>1, <2>8 DEF Free
<1>13. CASE Take
  <2>1. PageOK(page', decoder', results) /\ page'.playing = page.playing
    BY <1>1, <1>13, TakeKeeps DEF Take
  <2> QED
    BY <1>1, <1>13, <2>1 DEF Take, PageInv, Free
<1>14. CASE Decode
  <2>1. PageOK(page, decoder', results')
    BY <1>1, <1>14, DecodeKeeps DEF Decode
  <2> QED
    BY <1>1, <1>14, <2>1 DEF Decode, PageInv, Free
<1>15. CASE ShowResult
  <2>1. PageOK(page', decoder, results') /\ page'.playing = page.playing
    BY <1>1, <1>15, ShowResultKeeps DEF ShowResult, IsCurrent
  <2> QED
    BY <1>1, <1>15, <2>1 DEF ShowResult, PageInv, Free
<1>16. ASSUME NEW f, MoveSlider(f) PROVE PageInv'
  <2> DEFINE x == Seek(ShowFrame(page, f), page.held.frames[f])
             y == Controls(x, Free)
  <2>1. page' = RestartClock(y, rate) /\ UNCHANGED <<rate, live, busy, decoder, results>>
        /\ f \in DOMAIN page.held.frames
    BY <1>16 DEF MoveSlider
  <2>2. PageOK(x, decoder, results)
    BY <1>1, <2>1, JumpKeeps DEF PageOK, PositionInv, ImageInv
  <2> HIDE DEF x
  <2>3. PageOK(y, decoder, results) /\ (y.playing => Free)
    BY <2>2, ControlsKeeps
  <2> HIDE DEF y
  <2>4. PageOK(page', decoder, results) /\ page'.playing = y.playing
    BY <1>1, <2>1, <2>3, RestartKeeps
  <2> QED
    BY <1>1, <1>2, <2>1, <2>3, <2>4 DEF Free
<1>17. ASSUME NEW r \in Rates, ChangeRate(r) PROVE PageInv'
  <2>1. PageOK(page', decoder, results) /\ page'.playing = page.playing
    BY <1>1, <1>17, RestartKeeps DEF ChangeRate
  <2> QED
    BY <1>1, <1>2, <1>17, <2>1 DEF ChangeRate, Free
<1>18. CASE UNCHANGED pageVars
  BY <1>1, <1>2, <1>18 DEF pageVars, Free
<1> QED
  BY <1>3, <1>4, <1>5, <1>6, <1>7, <1>8, <1>9, <1>10, <1>11, <1>12, <1>13, <1>14, <1>15, <1>16, <1>17,
     <1>18, Zenon DEF PageNext

(* For any datasets, limits and rates, the page is in order: its timeline   *)
(* is that of the dataset held, what is shown belongs to the position,      *)
(* nothing plays during a capture or an export, and what the decoder has    *)
(* in hand is of the present generation only if it is for the frame shown.  *)
THEOREM PageCorrect == PageSpec => []PageInv
<1> QED
  BY PageStarts, PageSteps, PTL DEF PageSpec

(* The pane never shows an image of another dataset or of another sample    *)
(* than the frame's, whatever the decoder still had in hand.                *)
THEOREM StaleCorrect == PageSpec => []NoStaleImage
<1>1. PageInv => NoStaleImage
  BY DEF PageInv, PageOK, ImageInv, PaneInv, Shown, NoStaleImage
<1> QED
  BY <1>1, PageCorrect, PTL

(* The frame, the IMU and the LiDAR samples shown are each the last before  *)
(* the position, after playing as after a jump.                             *)
THEOREM CursorCorrect == PageSpec => []ShownIsAtCursor
<1>1. ASSUME PageInv PROVE ShownIsAtCursor
  <2>1. HeldInv(page) /\ PositionInv(page) /\ ClockInv(page) /\ Typed(page.held)
    BY <1>1, HeldTyped DEF PageInv, PageOK
  <2>2. PageTypeOK
    BY <1>1, <2>1 DEF PageInv, PageTypeOK, HeldInv, PositionInv, PlaceTypes, ClockInv, Timers, Timeline
  <2>3. ASSUME NEW s, NEW n, IsLast(page.timeline, page.cursor, s, n) PROVE LastPassed(page, s) = n
    BY <2>1, <2>3, LastPassedIs DEF HeldInv, PositionInv
  <2>4. ASSUME ~ page.lags
        PROVE  /\ \A s \in Counted : page.counts[s] = LastPassed(page, s)
               /\ \A i \in page.cloud : i <= LastPassed(page, "lidar")
               /\ LastPassed(page, "lidar") \in page.cloud \cup page.held.dark \cup {0}
               /\ page.held.frames # <<>> /\ page.timeline # <<>> =>
                    page.current = LastPassed(page, "camera")
    <3>1. InStep(page)
      BY <2>1, <2>4 DEF PositionInv
    <3>2. \A s \in Counted : page.counts[s] = LastPassed(page, s)
      BY <2>3, <3>1 DEF InStep
    <3>3. /\ \A i \in page.cloud : i <= LastPassed(page, "lidar")
          /\ LastPassed(page, "lidar") \in page.cloud \cup page.held.dark \cup {0}
      BY <2>3, <3>1 DEF InStep
    <3>4. page.held.frames # <<>> /\ page.timeline # <<>> => page.current = LastPassed(page, "camera")
      BY <2>3, <3>1 DEF InStep
    <3> QED
      BY <3>2, <3>3, <3>4
  <2> QED
    BY <2>2, <2>4 DEF ShownIsAtCursor, Timeline
<1> QED
  BY <1>1, PageCorrect, PTL

--------------------------------------------------------------------------------
(***************************************************************************)
(* The readers of a directory agree: what the validator reports as valid   *)
(* can be opened and exported.                                             *)
(***************************************************************************)

(* A fold over a sequence goes through the sets of its indexes, taking the *)
(* largest out.                                                            *)
LEMMA WithoutMax ==
  ASSUME NEW k \in Nat, NEW S, S \subseteq 1 .. k + 1, S # {}
  PROVE  Max(S) \in S /\ S \ {Max(S)} \subseteq 1 .. k
<1> DEFINE others == {k + 1 - i : i \in S}
<1>0. \A i \in S : i \in Int /\ 1 <= i /\ i <= k + 1
  OBVIOUS
<1>1. others \subseteq Nat /\ others # {}
  <2>1. \A i \in S : k + 1 - i \in Nat
    BY <1>0
  <2>2. PICK i \in S : TRUE
    BY Zenon
  <2>3. k + 1 - i \in others
    OBVIOUS
  <2> QED
    BY <2>1, <2>3
<1>2. PICK m \in others : \A x \in others : m <= x
  BY <1>1, LeastNatural, Zenon
<1>3. PICK i \in S : m = k + 1 - i
  BY <1>2
<1>4. \A j \in S : i >= j
  <2>1. ASSUME NEW j \in S PROVE i >= j
    <3>1. k + 1 - j \in others
      OBVIOUS
    <3>2. m <= k + 1 - j
      BY <1>2, <3>1
    <3> HIDE DEF others
    <3> QED
      BY <1>0, <1>3, <3>2
  <2> QED
    BY <2>1
<1> HIDE DEF others
<1>5. Max(S) \in S /\ \A j \in S : Max(S) >= j
  BY <1>4, Zenon DEF Max
<1>6. ASSUME NEW j \in S, j # Max(S) PROVE j \in 1 .. k
  <2>1. Max(S) \in Int /\ Max(S) <= k + 1 /\ Max(S) >= j /\ j \in Int /\ 1 <= j
    BY <1>0, <1>5, Zenon
  <2> QED
    BY <1>6, <2>1
<1> QED
  BY <1>5, <1>6, Zenon

LEMMA MaxOfSegment ==
  ASSUME NEW k \in Nat
  PROVE  1 .. k + 1 # {} /\ Max(1 .. k + 1) = k + 1 /\ (1 .. k + 1) \ {k + 1} = 1 .. k
<1>1. k + 1 \in 1 .. k + 1
  OBVIOUS
<1>2. Max(1 .. k + 1) \in 1 .. k + 1 /\ (1 .. k + 1) \ {Max(1 .. k + 1)} \subseteq 1 .. k
  BY <1>1, WithoutMax, Zenon
<1> QED
  BY <1>2

(* Parsed keeps all rows when none of them is flawed.                      *)
ParsedUpTo(g, rows, S) ==
  IF S = {} THEN <<>>
  ELSE IF rows[Max(S)].flaw \in ValidatorRefuses THEN g[S \ {Max(S)}] ELSE Append(g[S \ {Max(S)}], rows[Max(S)])
LEMMA ParsedExists ==
  ASSUME NEW rows, NEW n \in Nat
  PROVE  \E g : g = [S \in SUBSET (1 .. n) |-> ParsedUpTo(g, rows, S)]
<1> DEFINE Has(k) == \E g : g = [S \in SUBSET (1 .. k) |-> ParsedUpTo(g, rows, S)]
           bad == {k \in Nat : ~ Has(k)}
<1>1. Has(0)
  <2> DEFINE g == [S \in SUBSET (1 .. 0) |-> <<>>]
  <2>1. g = [S \in SUBSET (1 .. 0) |-> ParsedUpTo(g, rows, S)]
    BY DEF ParsedUpTo
  <2> QED
    BY <2>1, Zenon
<1>2. ASSUME NEW k \in Nat, Has(k) PROVE Has(k + 1)
  <2>1. PICK g : g = [S \in SUBSET (1 .. k) |-> ParsedUpTo(g, rows, S)]
    BY <1>2
  <2> DEFINE h == [S \in SUBSET (1 .. k + 1) |-> ParsedUpTo(g, rows, S)]
  <2>2. ASSUME NEW S \in SUBSET (1 .. k + 1) PROVE ParsedUpTo(h, rows, S) = ParsedUpTo(g, rows, S)
    <3>1. CASE S = {}
      BY <3>1 DEF ParsedUpTo
    <3>2. CASE S # {}
      <4>1. S \ {Max(S)} \in SUBSET (1 .. k) /\ S \ {Max(S)} \in SUBSET (1 .. k + 1)
        BY <3>2, WithoutMax, Zenon
      <4>2. h[S \ {Max(S)}] = ParsedUpTo(g, rows, S \ {Max(S)})
        BY <4>1
      <4>3. g[S \ {Max(S)}] = ParsedUpTo(g, rows, S \ {Max(S)})
        BY <2>1, <4>1
      <4> HIDE DEF h
      <4> QED
        BY <4>2, <4>3 DEF ParsedUpTo
    <3> QED
      BY <3>1, <3>2
  <2>3. h = [S \in SUBSET (1 .. k + 1) |-> ParsedUpTo(h, rows, S)]
    BY <2>2, Zenon
  <2> QED
    BY <2>3, Zenon
<1> HIDE DEF Has
<1>3. ASSUME bad # {} PROVE FALSE
  <2>1. PICK k \in bad : \A x \in bad : k <= x
    BY <1>3, LeastNatural, Zenon
  <2>2. k # 0 /\ k \in Nat
    BY <1>1, <2>1
  <2>3. k - 1 \in Nat /\ Has(k - 1)
    BY <2>1, <2>2
  <2>4. Has(k - 1 + 1)
    BY <1>2, <2>3
  <2> QED
    BY <2>1, <2>2, <2>4
<1> QED
  BY <1>3, Zenon DEF Has

LEMMA ParsedAll ==
  ASSUME NEW d, NEW f, NEW R, Rows(d, f) \in Seq(R),
         \A i \in DOMAIN Rows(d, f) : Rows(d, f)[i].flaw \notin ValidatorRefuses
  PROVE  Parsed(d, f) = Rows(d, f)
<1> DEFINE rows == Rows(d, f)
           n == Len(rows)
           iter == CHOOSE g : g = [S \in SUBSET (1 .. n) |-> ParsedUpTo(g, rows, S)]
<1>1. n \in Nat /\ DOMAIN rows = 1 .. n
  OBVIOUS
<1>2. iter = [S \in SUBSET (1 .. n) |-> ParsedUpTo(iter, rows, S)]
  BY <1>1, ParsedExists
<1>3. Parsed(d, f) = iter[1 .. n]
  BY <1>1, Zenon DEF Parsed, FoldLeft, MapThenFoldSet, ParsedUpTo
<1> DEFINE bad == {k \in 0 .. n : iter[1 .. k] # SubSeq(rows, 1, k)}
<1> HIDE DEF iter
<1>4. ASSUME bad # {} PROVE FALSE
  <2>0. bad \subseteq Nat
    BY <1>1
  <2>1. PICK k \in bad : \A x \in bad : k <= x
    BY <1>4, <2>0, LeastNatural, Zenon
  <2>2. CASE k = 0
    BY <1>1, <1>2, <2>1, <2>2 DEF ParsedUpTo
  <2>3. CASE k # 0
    <3>1. k - 1 \in 0 .. n /\ k \in 1 .. n /\ k - 1 \in Nat /\ k - 1 + 1 = k
      BY <1>1, <2>1, <2>3
    <3>2. iter[1 .. k - 1] = SubSeq(rows, 1, k - 1)
      BY <2>1, <3>1
    <3>3. 1 .. k # {} /\ Max(1 .. k) = k /\ (1 .. k) \ {k} = 1 .. k - 1
      <4>1. 1 .. k - 1 + 1 # {} /\ Max(1 .. k - 1 + 1) = k - 1 + 1 /\ (1 .. k - 1 + 1) \ {k - 1 + 1} = 1 .. k - 1
        BY <3>1, MaxOfSegment, Zenon
      <4> QED
        BY <3>1, <4>1
    <3>4. iter[1 .. k] = ParsedUpTo(iter, rows, 1 .. k)
      <4>1. 1 .. k \in SUBSET (1 .. n)
        BY <1>1, <3>1
      <4> HIDE DEF n
      <4> QED
        BY <1>2, <4>1
    <3>5. rows[k].flaw \notin ValidatorRefuses
      BY <1>1, <3>1
    <3>6. iter[1 .. k] = Append(SubSeq(rows, 1, k - 1), rows[k])
      BY <3>2, <3>3, <3>4, <3>5, Zenon DEF ParsedUpTo
    <3>7. Append(SubSeq(rows, 1, k - 1), rows[k]) = SubSeq(rows, 1, k)
      BY <1>1, <3>1
    <3> QED
      BY <2>1, <3>6, <3>7, Zenon
  <2> QED
    BY <2>2, <2>3
<1>5. iter[1 .. n] = SubSeq(rows, 1, n)
  BY <1>1, <1>4
<1>6. SubSeq(rows, 1, n) = rows
  BY <1>1
<1> QED
  BY <1>3, <1>5, <1>6

--------------------------------------------------------------------------------
(***************************************************************************)
(* What the validator has established of a directory without errors.       *)
(***************************************************************************)
AllSound(d) == \A k \in 1 .. Len(Stages) : Sound(d, Stages[k])

LEMMA SoundParts ==
  ASSUME NEW d, AllSound(d)
  PROVE  /\ ManifestSound(d) /\ CamerasSound(d) /\ ImusSound(d) /\ LidarSound(d) /\ LidarImuSound(d)
         /\ ~ d.retired
<1>1. Len(Stages) = 10 /\ Stages[1] = "manifest" /\ Stages[2] = "cameras" /\ Stages[3] = "imus"
      /\ Stages[4] = "lidar" /\ Stages[5] = "lidarImu" /\ Stages[6] = "retired"
  BY DEF Stages
<1>2. \A k \in 1 .. 10 : Sound(d, Stages[k])
  BY <1>1 DEF AllSound
<1>3. Sound(d, "manifest") /\ Sound(d, "cameras") /\ Sound(d, "imus") /\ Sound(d, "lidar")
      /\ Sound(d, "lidarImu") /\ Sound(d, "retired")
  BY <1>1, <1>2
<1> QED
  BY <1>3 DEF Sound

LEMMA RowsTyped ==
  ASSUME NEW d \in Directories, NEW f \in Files
  PROVE  /\ Rows(d, f) \in Seq(IndexRows) /\ Len(Rows(d, f)) \in Nat
         /\ DOMAIN Rows(d, f) = 1 .. Len(Rows(d, f))
         /\ \A i \in DOMAIN Rows(d, f) : Rows(d, f)[i] \in IndexRows
<1>1. d.rows[f] \in Seq(IndexRows)
  BY DirectoriesAssumption
<1>2. Rows(d, f) \in Seq(IndexRows)
  BY <1>1 DEF Rows
<1> QED
  BY <1>2

(* Which rows can have which flaws.                                        *)
LEMMA FlawsOfRows ==
  ASSUME NEW d \in Directories, NEW f \in Files, NEW i \in DOMAIN Rows(d, f)
  PROVE  /\ Rows(d, f)[i].flaw \in {"exposure", "loose"} => f \in Cams
         /\ Rows(d, f)[i].flaw \in {"device", "batch"} => f = "lidar"
<1>1. Rows(d, f) = d.rows[f]
  BY DEF Rows
<1> QED
  BY <1>1, DirectoriesAssumption

(* Every row of a sound stream parses, and the rows are in order.          *)
LEMMA SoundStream ==
  ASSUME NEW d \in Directories, NEW f \in Files, StreamSound(d, f)
  PROVE  /\ TimesIn(d, f) = [i \in DOMAIN Rows(d, f) |-> Rows(d, f)[i].at]
         /\ Parsed(d, f) = Rows(d, f)
         /\ TimesIn(d, f) \in Seq(Nat) /\ Len(TimesIn(d, f)) = Len(Rows(d, f))
         /\ DOMAIN TimesIn(d, f) = 1 .. Len(Rows(d, f))
         /\ Monotonic(TimesIn(d, f))
         /\ \A i \in DOMAIN Rows(d, f) : RowSound(d, f, Rows(d, f)[i])
<1>1. \A i \in DOMAIN Rows(d, f) : RowSound(d, f, Rows(d, f)[i])
  BY DEF StreamSound
<1>2. Parsed(d, f) = Rows(d, f)
  BY <1>1, RowsTyped, ParsedAll DEF RowSound
<1>3. TimesIn(d, f) = [i \in DOMAIN Rows(d, f) |-> Rows(d, f)[i].at]
  BY <1>2 DEF TimesIn
<1>4. DOMAIN Rows(d, f) = 1 .. Len(Rows(d, f)) /\ Len(Rows(d, f)) \in Nat
      /\ \A i \in DOMAIN Rows(d, f) : Rows(d, f)[i].at \in Nat
  BY RowsTyped DEF IndexRows
<1>5. TimesIn(d, f) \in [1 .. Len(Rows(d, f)) -> Nat]
  BY <1>3, <1>4
<1> QED
  BY <1>1, <1>2, <1>3, <1>4, <1>5 DEF StreamSound, TimesSound

(* The four camera indexes are there and of one length, or none is.        *)
LEMMA SoundCameras ==
  ASSUME NEW d \in Directories, CamerasSound(d)
  PROVE  /\ Min({Len(Rows(d, c)) : c \in Cams}) = Len(Rows(d, "cam0"))
         /\ \A c \in Cams : Len(Rows(d, c)) = Len(Rows(d, "cam0"))
         /\ Cardinality(Cams \cap d.files) = IF HasCameras(d) THEN 4 ELSE 0
         /\ ~ HasCameras(d) => Cams \cap d.files = {} /\ Rows(d, "cam0") = <<>>
<1> DEFINE n == Len(Rows(d, "cam0"))
<1>1. Cams \subseteq Files /\ "cam0" \in Cams
  BY DEF Cams, Files
<1>2. n \in Nat
  BY <1>1, RowsTyped
<1>3. \A c \in Cams : Len(Rows(d, c)) = n
  <2>1. CASE HasCameras(d)
    <3>1. \A c \in Cams : StreamSound(d, c) /\ TimesIn(d, c) = TimesIn(d, "cam0")
      BY <2>1 DEF CamerasSound
    <3>2. \A c \in Cams : Len(TimesIn(d, c)) = Len(Rows(d, c))
      BY <1>1, <3>1, SoundStream
    <3> QED
      BY <1>1, <3>1, <3>2
  <2>2. CASE ~ HasCameras(d)
    BY <1>1, <2>2 DEF CamerasSound, CameraSetSound, Rows
  <2> QED
    BY <2>1, <2>2
<1>4. {Len(Rows(d, c)) : c \in Cams} = {n}
  BY <1>1, <1>3
<1> HIDE DEF n
<1>5. Min({n}) = n
  BY <1>2 DEF Min
<1>6. Cardinality({}) = 0 /\ Cardinality(Cams) = 4
  <2>1. IsFiniteSet({}) /\ Cardinality({}) = 0
    BY FS_EmptySet
  <2>2. IsFiniteSet({"cam0"}) /\ Cardinality({"cam0"}) = 1
    BY FS_Singleton
  <2>3. IsFiniteSet({"cam0", "cam1"}) /\ Cardinality({"cam0", "cam1"}) = 2
    <3>1. {"cam0"} \cup {"cam1"} = {"cam0", "cam1"} /\ "cam1" \notin {"cam0"}
      OBVIOUS
    <3> QED
      BY <2>2, <3>1, FS_AddElement
  <2>4. IsFiniteSet({"cam0", "cam1", "cam2"}) /\ Cardinality({"cam0", "cam1", "cam2"}) = 3
    <3>1. {"cam0", "cam1"} \cup {"cam2"} = {"cam0", "cam1", "cam2"} /\ "cam2" \notin {"cam0", "cam1"}
      OBVIOUS
    <3> QED
      BY <2>3, <3>1, FS_AddElement
  <2>5. Cams = {"cam0", "cam1", "cam2"} \cup {"cam3"} /\ "cam3" \notin {"cam0", "cam1", "cam2"}
    BY DEF Cams
  <2>6. Cardinality(Cams) = 3 + 1
    BY <2>4, <2>5, FS_AddElement
  <2> QED
    BY <2>1, <2>6
<1>7. HasCameras(d) => Cams \cap d.files = Cams
  BY DEF HasCameras
<1>8. ~ HasCameras(d) => Cams \cap d.files = {} /\ Rows(d, "cam0") = <<>>
  BY <1>1 DEF CamerasSound, CameraSetSound, Rows
<1> QED
  BY <1>3, <1>4, <1>5, <1>6, <1>7, <1>8, Zenon DEF n

LEMMA SoundSensors ==
  ASSUME NEW d, AllSound(d), NEW s \in Sensors
  PROVE  StreamSound(d, s) /\ s \in Files
<1>1. s \in Imus \/ s = "lidar" \/ s = "lidarImu"
  BY DEF Sensors, Imus
<1> QED
  BY <1>1, SoundParts DEF ImusSound, LidarSound, LidarImuSound, Files

(* A valid directory whose cameras have frames is one the page loads.      *)
LEMMA ValidLoads ==
  ASSUME NEW d \in Directories, AllSound(d), Opens(d)
  PROVE  LegacyLoads(PageView(d))
<1> DEFINE n == Len(Rows(d, "cam0"))
           view == PageView(d)
<1>1. /\ view.indexes = Cardinality(Cams \cap d.files)
      /\ view.frames = [i \in 1 .. Min({Len(Rows(d, c)) : c \in Cams}) |-> d.rows["cam0"][i].at]
      /\ view.rows = [s \in Sensors |-> [i \in DOMAIN Rows(d, s) |-> Rows(d, s)[i].at]]
      /\ view.broken = {s \in Sensors : Flawed(d, s, PageRefuses) # {}}
                       \cup {x \in {"cameras"} : \E c \in Cams : Flawed(d, c, PageRefuses) # {}}
                       \cup {x \in {"container"} : Flawed(d, "lidar", {"range"}) # {}}
      /\ view.retired = d.retired
  BY DEF PageView, NoData, Unread
<1> HIDE DEF view
<1>2. CamerasSound(d) /\ ImusSound(d) /\ ~ d.retired
  BY SoundParts
<1>3. \A s \in Sensors : StreamSound(d, s) /\ s \in Files
  BY SoundSensors
<1>4. Cams \subseteq Files /\ "cam0" \in Cams /\ Imus \subseteq Sensors /\ Sensors \cap {"cameras", "container"} = {}
  BY DEF Cams, Files, Imus, Sensors
<1>5. view.frames = [i \in 1 .. n |-> d.rows["cam0"][i].at] /\ n \in Nat
  BY <1>1, <1>2, <1>4, SoundCameras, RowsTyped, Zenon
<1>6. \A s \in Sensors : view.rows[s] = TimesIn(d, s) /\ Monotonic(view.rows[s])
  <2>1. ASSUME NEW s \in Sensors PROVE view.rows[s] = TimesIn(d, s) /\ Monotonic(view.rows[s])
    <3>1. view.rows[s] = [i \in DOMAIN Rows(d, s) |-> Rows(d, s)[i].at]
      BY <1>1
    <3>2. TimesIn(d, s) = [i \in DOMAIN Rows(d, s) |-> Rows(d, s)[i].at] /\ Monotonic(TimesIn(d, s))
      BY <1>3, SoundStream
    <3> QED
      BY <3>1, <3>2
  <2> QED
    BY <2>1
<1>7. \A c \in Cams : Flawed(d, c, PageRefuses) = {}
  <2>1. CASE HasCameras(d)
    <3> SUFFICES ASSUME NEW c \in Cams, NEW i \in DOMAIN Rows(d, c) PROVE Rows(d, c)[i].flaw \notin PageRefuses
      BY Zenon DEF Flawed
    <3>1. c \in Files /\ c # "lidar" /\ StreamSound(d, c)
      BY <1>2, <1>4, <2>1 DEF CamerasSound, Cams
    <3>2. Rows(d, c)[i].flaw \notin ValidatorRefuses
      BY <3>1, SoundStream DEF RowSound
    <3> QED
      BY <3>1, <3>2, FlawsOfRows DEF PageRefuses, ValidatorRefuses
  <2>2. CASE ~ HasCameras(d)
    <3>1. Cams \cap d.files = {}
      BY <1>2, <2>2, SoundCameras, Zenon
    <3>2. \A c \in Cams : Rows(d, c) = <<>>
      BY <3>1 DEF Rows
    <3>3. \A c \in Cams : DOMAIN Rows(d, c) = {}
      BY <3>2
    <3> QED
      BY <3>3 DEF Flawed
  <2> QED
    BY <2>1, <2>2
<1>8. \A s \in Sensors : Flawed(d, s, PageRefuses) = {}
  <2> SUFFICES ASSUME NEW s \in Sensors, NEW i \in DOMAIN Rows(d, s) PROVE Rows(d, s)[i].flaw \notin PageRefuses
    BY Zenon DEF Flawed
  <2>1. Rows(d, s)[i].flaw \notin ValidatorRefuses
    BY <1>3, SoundStream DEF RowSound
  <2>2. Rows(d, s)[i].flaw \in {"device", "batch"} => s = "lidar"
    BY <1>3, FlawsOfRows
  <2>3. s = "lidar" => Rows(d, s)[i].flaw \notin {"device", "batch"}
    BY DEF Opens, BatchesSound
  <2> QED
    BY <2>1, <2>2, <2>3 DEF PageRefuses, ValidatorRefuses
<1>9. Flawed(d, "lidar", {"range"}) = {}
  BY <1>3, SoundStream DEF RowSound, Flawed, Chunked, Sensors
<1>10. view.broken = {}
  BY <1>1, <1>7, <1>8, <1>9
<1>11. Monotonic(view.frames)
  <2>1. CASE HasCameras(d)
    <3>1. StreamSound(d, "cam0")
      BY <1>2, <1>4, <2>1 DEF CamerasSound
    <3>2. "cam0" \in d.files
      BY <1>4, <2>1 DEF HasCameras
    <3>3. view.frames = TimesIn(d, "cam0")
      BY <1>4, <1>5, <3>1, <3>2, SoundStream, RowsTyped DEF Rows
    <3> QED
      BY <1>4, <3>1, <3>3, SoundStream
  <2>2. CASE ~ HasCameras(d)
    <3>1. n = 0
      BY <1>2, <2>2, SoundCameras, Zenon
    <3>2. view.frames = <<>>
      BY <1>5, <3>1
    <3> QED
      BY <3>2 DEF Monotonic
  <2> QED
    BY <2>1, <2>2
<1>12. IndexesOfAllOrNone(view)
  BY <1>1, <1>2, SoundCameras DEF IndexesOfAllOrNone
<1>13. ImageIndexLoads(view)
  <2>1. CASE HasCameras(d)
    <3>1. Rows(d, "cam0") # <<>>
      BY <1>4, <2>1 DEF Opens, HasFrames
    <3>2. n # 0
      BY <1>4, <3>1, RowsTyped
    <3>3. DOMAIN view.frames # {}
      <4> HIDE DEF n
      <4>1. 1 \in 1 .. n
        BY <1>5, <3>2
      <4>2. DOMAIN view.frames = 1 .. n
        BY <1>5
      <4> QED
        BY <4>1, <4>2
    <3> QED
      BY <1>10, <3>3 DEF ImageIndexLoads
  <2>2. CASE ~ HasCameras(d)
    BY <1>1, <1>2, <1>10, <2>2, SoundCameras DEF ImageIndexLoads
  <2> QED
    BY <2>1, <2>2
<1>14. HasRecords(view)
  BY <1>2, <1>4, <1>6 DEF HasRecords, ImusSound
<1>15. PlaybackLoads(view)
  BY <1>1, <1>2, <1>6, <1>10, <1>11, Zenon DEF PlaybackLoads, OnboardImuLoads, LidarLoads, LidarImuLoads, Sensors
<1> QED
  BY <1>12, <1>13, <1>14, <1>15 DEF LegacyLoads, view

--------------------------------------------------------------------------------
(***************************************************************************)
(* The points of a LiDAR row.                                              *)
(***************************************************************************)
PointEvents(r) == {[at |-> r.at + r.points[i], stream |-> "lidar", index |-> i] : i \in 1 .. Len(r.points)}

(* XT32 points: their times, sorted.                                       *)
LEMMA OwnTimesTyped ==
  ASSUME NEW r \in IndexRows
  PROVE  OwnTimes(r) \in Seq(Int)
<1> DEFINE n == Len(r.points)
           E == PointEvents(r)
           event == [i \in 1 .. n |-> [at |-> r.at + r.points[i], stream |-> "lidar", index |-> i]]
<1>1. r.at \in Nat /\ r.points \in Seq(Int) /\ n \in Nat /\ \A i \in 1 .. n : r.points[i] \in Int
  BY DEF IndexRows
<1>2. \A e \in E : e.at \in Int /\ e.index \in Nat /\ e.stream = "lidar"
                   /\ e = [at |-> r.at + r.points[e.index], stream |-> "lidar", index |-> e.index]
  <2>1. ASSUME NEW e \in E
        PROVE  /\ e.at \in Int /\ e.index \in Nat /\ e.stream = "lidar"
               /\ e = [at |-> r.at + r.points[e.index], stream |-> "lidar", index |-> e.index]
    <3>1. PICK i \in 1 .. n : e = [at |-> r.at + r.points[i], stream |-> "lidar", index |-> i]
      BY DEF PointEvents
    <3>2. r.at + r.points[i] \in Int /\ i \in Nat
      BY <1>1
    <3> HIDE DEF E
    <3> QED
      BY <3>1, <3>2
  <2> HIDE DEF E
  <2> QED
    BY <2>1
<1>3. IsFiniteSet(E) /\ Cardinality(E) = n
  <2>1. event \in Bijection(1 .. n, E)
    <3>1. event \in [1 .. n -> E]
      BY DEF PointEvents
    <3>2. \A i \in 1 .. n : event[i].index = i
      OBVIOUS
    <3>3. \A i, j \in 1 .. n : event[i] = event[j] => i = j
      BY <3>2
    <3>4. \A e \in E : \E i \in 1 .. n : event[i] = e
      BY DEF PointEvents
    <3> HIDE DEF E, event
    <3> QED
      BY <3>1, <3>3, <3>4, Fun_IsBij
  <2>2. ExistsBijection(1 .. n, E)
    BY <2>1 DEF ExistsBijection
  <2> HIDE DEF E, n
  <2> QED
    BY <1>1, <2>2, FS_NatBijection, FS_CountingElements
<1>4. \A e, f \in E : ~ Before(e, e) /\ (e # f => Before(e, f) \/ Before(f, e))
  <2>1. ASSUME NEW e \in E, NEW f \in E PROVE ~ Before(e, e) /\ (e # f => Before(e, f) \/ Before(f, e))
    <3>1. /\ e.at \in Int /\ e.index \in Nat /\ e.stream = "lidar" /\ f.at \in Int /\ f.index \in Nat
          /\ f.stream = "lidar" /\ (e.index = f.index => e = f)
      BY <1>2
    <3>2. Priority["lidar"] = 3
      BY DEF Priority
    <3> HIDE DEF E
    <3> QED
      BY <3>1, <3>2 DEF Before
  <2> QED
    BY <2>1
<1>5. \A e, f, g \in E : Before(e, f) /\ Before(f, g) => Before(e, g)
  <2>1. ASSUME NEW e \in E, NEW f \in E, NEW g \in E, Before(e, f), Before(f, g) PROVE Before(e, g)
    <3>1. /\ e.at \in Int /\ e.index \in Nat /\ e.stream = "lidar" /\ f.at \in Int /\ f.index \in Nat
          /\ f.stream = "lidar" /\ g.at \in Int /\ g.index \in Nat /\ g.stream = "lidar"
      BY <1>2
    <3>2. Priority["lidar"] = 3
      BY DEF Priority
    <3> HIDE DEF E
    <3> QED
      BY <2>1, <3>1, <3>2 DEF Before
  <2> QED
    BY <2>1
<1>6. InPlaces(E) \in [1 .. n -> E]
  <2> HIDE DEF E, n
  <2> QED
    BY <1>3, <1>4, <1>5, InPlacesCorrect
<1>7. OwnTimes(r) = [i \in 1 .. n |-> InPlaces(E)[i].at]
  BY DEF OwnTimes, PointEvents
<1>8. \A i \in 1 .. n : InPlaces(E)[i].at \in Int
  BY <1>2, <1>6
<1> HIDE DEF E, n
<1>9. [i \in 1 .. n |-> InPlaces(E)[i].at] \in [1 .. n -> Int]
  BY <1>8
<1> QED
  BY <1>1, <1>7, <1>9

(* Livox points: spread over the interval of the batch.                    *)
LEMMA SpreadTimesTyped ==
  ASSUME NEW r \in IndexRows
  PROVE  SpreadTimes(r) \in Seq(Int)
<1> DEFINE n == Len(r.points)
           offset(i) == IF n = 1 THEN 0 ELSE ((i - 1) * r.span + (n - 1) \div 2) \div (n - 1)
<1>1. r.at \in Nat /\ r.points \in Seq(Int) /\ n \in Nat /\ r.span \in Nat
  BY DEF IndexRows
<1>2. SpreadTimes(r) = [i \in 1 .. n |-> r.at + offset(i)]
  BY DEF SpreadTimes
<1>3. ASSUME NEW i \in 1 .. n PROVE offset(i) \in Int
  <2>1. CASE n = 1
    BY <2>1
  <2>2. CASE n # 1
    <3>1. n - 1 \in Nat /\ n - 1 > 0 /\ i - 1 \in Nat
      <4> HIDE DEF n, offset
      <4> QED
        BY <1>1, <2>2
    <3>2. (i - 1) * r.span \in Int /\ (n - 1) \div 2 \in Int
      BY <1>1, <3>1
    <3>3. \A a \in Int : a \div (n - 1) \in Int
      <4> HIDE DEF n, offset
      <4> QED
        BY <3>1
    <3>4. (i - 1) * r.span + (n - 1) \div 2 \in Int
      <4> HIDE DEF n, offset
      <4> QED
        BY <3>2
    <3>5. ((i - 1) * r.span + (n - 1) \div 2) \div (n - 1) \in Int
      BY <3>3, <3>4, Zenon
    <3> HIDE DEF n
    <3> QED
      BY <2>2, <3>5
  <2> QED
    BY <2>1, <2>2, Zenon
<1> HIDE DEF n, offset
<1>4. \A i \in 1 .. n : r.at + offset(i) \in Int
  BY <1>1, <1>3
<1>5. [i \in 1 .. n |-> r.at + offset(i)] \in [1 .. n -> Int]
  BY <1>4
<1> QED
  BY <1>1, <1>2, <1>5

LEMMA PointTimesTyped ==
  ASSUME NEW r \in IndexRows
  PROVE  PointTimes(r) \in Seq(Int)
BY OwnTimesTyped, SpreadTimesTyped DEF PointTimes

--------------------------------------------------------------------------------
(***************************************************************************)
(* What a row adds to the LiDAR frames, and what messages add to the bag:  *)
(* folds, taken step by step.                                              *)
(***************************************************************************)
(* The points of a row join the frames one after the other.                *)
AddedUpTo(g, base, items, S) ==
  IF S = {} THEN base ELSE AddPoint(g[S \ {Max(S)}], items[Max(S)])
LEMMA AddedExists ==
  ASSUME NEW base, NEW items, NEW n \in Nat
  PROVE  \E g : g = [S \in SUBSET (1 .. n) |-> AddedUpTo(g, base, items, S)]
<1> DEFINE Has(k) == \E g : g = [S \in SUBSET (1 .. k) |-> AddedUpTo(g, base, items, S)]
           bad == {k \in Nat : ~ Has(k)}
<1>1. Has(0)
  <2> DEFINE g == [S \in SUBSET (1 .. 0) |-> base]
  <2>1. g = [S \in SUBSET (1 .. 0) |-> AddedUpTo(g, base, items, S)]
    BY DEF AddedUpTo
  <2> QED
    BY <2>1, Zenon
<1>2. ASSUME NEW k \in Nat, Has(k) PROVE Has(k + 1)
  <2>1. PICK g : g = [S \in SUBSET (1 .. k) |-> AddedUpTo(g, base, items, S)]
    BY <1>2
  <2> DEFINE h == [S \in SUBSET (1 .. k + 1) |-> AddedUpTo(g, base, items, S)]
  <2>2. ASSUME NEW S \in SUBSET (1 .. k + 1) PROVE AddedUpTo(h, base, items, S) = AddedUpTo(g, base, items, S)
    <3>1. CASE S = {}
      BY <3>1 DEF AddedUpTo
    <3>2. CASE S # {}
      <4>1. S \ {Max(S)} \in SUBSET (1 .. k) /\ S \ {Max(S)} \in SUBSET (1 .. k + 1)
        BY <3>2, WithoutMax, Zenon
      <4>2. h[S \ {Max(S)}] = AddedUpTo(g, base, items, S \ {Max(S)})
        BY <4>1
      <4>3. g[S \ {Max(S)}] = AddedUpTo(g, base, items, S \ {Max(S)})
        BY <2>1, <4>1
      <4> HIDE DEF h
      <4> QED
        BY <4>2, <4>3 DEF AddedUpTo
    <3> QED
      BY <3>1, <3>2
  <2>3. h = [S \in SUBSET (1 .. k + 1) |-> AddedUpTo(h, base, items, S)]
    BY <2>2, Zenon
  <2> QED
    BY <2>3, Zenon
<1> HIDE DEF Has
<1>3. ASSUME bad # {} PROVE FALSE
  <2>1. PICK k \in bad : \A x \in bad : k <= x
    BY <1>3, LeastNatural, Zenon
  <2>2. k # 0 /\ k \in Nat
    BY <1>1, <2>1
  <2>3. k - 1 \in Nat /\ Has(k - 1)
    BY <2>1, <2>2
  <2>4. Has(k - 1 + 1)
    BY <1>2, <2>3
  <2> QED
    BY <2>1, <2>2, <2>4
<1> QED
  BY <1>3, Zenon DEF Has

(* The states that AddPoint goes through.                                  *)
AddAll(base, items) == FoldLeft(AddPoint, base, items)
LEMMA AddedSteps ==
  ASSUME NEW base, NEW R, NEW items \in Seq(R)
  PROVE  \E it : /\ it[0] = base
                 /\ \A k \in 1 .. Len(items) : it[k] = AddPoint(it[k - 1], items[k])
                 /\ AddAll(base, items) = it[Len(items)]
<1> DEFINE n == Len(items)
           iter == CHOOSE g : g = [S \in SUBSET (1 .. n) |-> AddedUpTo(g, base, items, S)]
           it == [k \in 0 .. n |-> iter[1 .. k]]
<1>1. n \in Nat /\ DOMAIN items = 1 .. n
  OBVIOUS
<1>2. iter = [S \in SUBSET (1 .. n) |-> AddedUpTo(iter, base, items, S)]
  BY <1>1, AddedExists
<1>3. AddAll(base, items) = iter[1 .. n]
  BY <1>1, Zenon DEF AddAll, FoldLeft, MapThenFoldSet, AddedUpTo
<1> HIDE DEF iter
<1>4. it[0] = base
  <2>1. 1 .. 0 = {} /\ 0 \in 0 .. n
    BY <1>1
  <2>2. iter[{}] = AddedUpTo(iter, base, items, {})
    BY <1>2
  <2> QED
    BY <2>1, <2>2 DEF AddedUpTo
<1>5. ASSUME NEW k \in 1 .. n PROVE it[k] = AddPoint(it[k - 1], items[k])
  <2>1. k - 1 \in 0 .. n /\ k \in 0 .. n /\ k - 1 \in Nat /\ k - 1 + 1 = k
    BY <1>1
  <2>2. 1 .. k # {} /\ Max(1 .. k) = k /\ (1 .. k) \ {k} = 1 .. k - 1
    <3>1. 1 .. k - 1 + 1 # {} /\ Max(1 .. k - 1 + 1) = k - 1 + 1 /\ (1 .. k - 1 + 1) \ {k - 1 + 1} = 1 .. k - 1
      BY <2>1, MaxOfSegment, Zenon
    <3> QED
      BY <2>1, <3>1
  <2>3. iter[1 .. k] = AddedUpTo(iter, base, items, 1 .. k)
    <3>1. 1 .. k \in SUBSET (1 .. n)
      BY <1>1, <2>1
    <3> HIDE DEF n
    <3> QED
      BY <1>2, <3>1
  <2>4. iter[1 .. k] = AddPoint(iter[1 .. k - 1], items[k])
    BY <2>2, <2>3, Zenon DEF AddedUpTo
  <2>5. it[k] = iter[1 .. k] /\ it[k - 1] = iter[1 .. k - 1]
    BY <2>1
  <2> HIDE DEF it
  <2> QED
    BY <2>4, <2>5
<1>6. it[n] = iter[1 .. n]
  BY <1>1
<1> HIDE DEF it
<1> QED
  BY <1>3, <1>4, <1>5, <1>6

(* Messages enter the bag one after the other.                             *)
FilledUpTo(g, base, items, S) ==
  IF S = {} THEN base ELSE Put(g[S \ {Max(S)}], items[Max(S)])
LEMMA FilledExists ==
  ASSUME NEW base, NEW items, NEW n \in Nat
  PROVE  \E g : g = [S \in SUBSET (1 .. n) |-> FilledUpTo(g, base, items, S)]
<1> DEFINE Has(k) == \E g : g = [S \in SUBSET (1 .. k) |-> FilledUpTo(g, base, items, S)]
           bad == {k \in Nat : ~ Has(k)}
<1>1. Has(0)
  <2> DEFINE g == [S \in SUBSET (1 .. 0) |-> base]
  <2>1. g = [S \in SUBSET (1 .. 0) |-> FilledUpTo(g, base, items, S)]
    BY DEF FilledUpTo
  <2> QED
    BY <2>1, Zenon
<1>2. ASSUME NEW k \in Nat, Has(k) PROVE Has(k + 1)
  <2>1. PICK g : g = [S \in SUBSET (1 .. k) |-> FilledUpTo(g, base, items, S)]
    BY <1>2
  <2> DEFINE h == [S \in SUBSET (1 .. k + 1) |-> FilledUpTo(g, base, items, S)]
  <2>2. ASSUME NEW S \in SUBSET (1 .. k + 1) PROVE FilledUpTo(h, base, items, S) = FilledUpTo(g, base, items, S)
    <3>1. CASE S = {}
      BY <3>1 DEF FilledUpTo
    <3>2. CASE S # {}
      <4>1. S \ {Max(S)} \in SUBSET (1 .. k) /\ S \ {Max(S)} \in SUBSET (1 .. k + 1)
        BY <3>2, WithoutMax, Zenon
      <4>2. h[S \ {Max(S)}] = FilledUpTo(g, base, items, S \ {Max(S)})
        BY <4>1
      <4>3. g[S \ {Max(S)}] = FilledUpTo(g, base, items, S \ {Max(S)})
        BY <2>1, <4>1
      <4> HIDE DEF h
      <4> QED
        BY <4>2, <4>3 DEF FilledUpTo
    <3> QED
      BY <3>1, <3>2
  <2>3. h = [S \in SUBSET (1 .. k + 1) |-> FilledUpTo(h, base, items, S)]
    BY <2>2
  <2> QED
    BY <2>3, Zenon
<1> HIDE DEF Has
<1>3. ASSUME bad # {} PROVE FALSE
  <2>1. PICK k \in bad : \A x \in bad : k <= x
    BY <1>3, LeastNatural, Zenon
  <2>2. k # 0 /\ k \in Nat
    BY <1>1, <2>1
  <2>3. k - 1 \in Nat /\ Has(k - 1)
    BY <2>1, <2>2
  <2>4. Has(k - 1 + 1)
    BY <1>2, <2>3
  <2> QED
    BY <2>1, <2>2, <2>4
<1> QED
  BY <1>3, Zenon DEF Has

(* The states that Put goes through.                                       *)
LEMMA FilledSteps ==
  ASSUME NEW base, NEW R, NEW items \in Seq(R)
  PROVE  \E it : /\ it[0] = base
                 /\ \A k \in 1 .. Len(items) : it[k] = Put(it[k - 1], items[k])
                 /\ PutAll(base, items) = it[Len(items)]
<1> DEFINE n == Len(items)
           iter == CHOOSE g : g = [S \in SUBSET (1 .. n) |-> FilledUpTo(g, base, items, S)]
           it == [k \in 0 .. n |-> iter[1 .. k]]
<1>1. n \in Nat /\ DOMAIN items = 1 .. n
  OBVIOUS
<1>2. iter = [S \in SUBSET (1 .. n) |-> FilledUpTo(iter, base, items, S)]
  BY <1>1, FilledExists
<1>3. PutAll(base, items) = iter[1 .. n]
  BY <1>1, Zenon DEF PutAll, FoldLeft, MapThenFoldSet, FilledUpTo
<1> HIDE DEF iter
<1>4. it[0] = base
  <2>1. 1 .. 0 = {} /\ 0 \in 0 .. n
    BY <1>1
  <2>2. iter[{}] = FilledUpTo(iter, base, items, {})
    BY <1>2
  <2> QED
    BY <2>1, <2>2 DEF FilledUpTo
<1>5. ASSUME NEW k \in 1 .. n PROVE it[k] = Put(it[k - 1], items[k])
  <2>1. k - 1 \in 0 .. n /\ k \in 0 .. n /\ k - 1 \in Nat /\ k - 1 + 1 = k
    BY <1>1
  <2>2. 1 .. k # {} /\ Max(1 .. k) = k /\ (1 .. k) \ {k} = 1 .. k - 1
    <3>1. 1 .. k - 1 + 1 # {} /\ Max(1 .. k - 1 + 1) = k - 1 + 1 /\ (1 .. k - 1 + 1) \ {k - 1 + 1} = 1 .. k - 1
      BY <2>1, MaxOfSegment, Zenon
    <3> QED
      BY <2>1, <3>1
  <2>3. iter[1 .. k] = FilledUpTo(iter, base, items, 1 .. k)
    <3>1. 1 .. k \in SUBSET (1 .. n)
      BY <1>1, <2>1
    <3> HIDE DEF n
    <3> QED
      BY <1>2, <3>1
  <2>4. iter[1 .. k] = Put(iter[1 .. k - 1], items[k])
    BY <2>2, <2>3, Zenon DEF FilledUpTo
  <2>5. it[k] = iter[1 .. k] /\ it[k - 1] = iter[1 .. k - 1]
    BY <2>1
  <2> HIDE DEF it
  <2> QED
    BY <2>4, <2>5
<1>6. it[n] = iter[1 .. n]
  BY <1>1
<1> HIDE DEF it
<1> QED
  BY <1>3, <1>4, <1>5, <1>6

(* The frame that is collected and the frames that are complete.           *)
Frames == [active : BOOLEAN, start : Int, points : Seq(Int)]
Collecting(s) ==
  /\ s \in [frame : Frames, done : Seq(Frames), fits : BOOLEAN]
  /\ s.frame.active => s.frame.points # <<>>

\* The first point of the frame is not later than anything in later.
StartsBefore(frame, later) == frame.active => \A x \in later : Head(frame.points) <= x

LEMMA AddPointCollects ==
  ASSUME NEW s, Collecting(s), NEW t \in Int
  PROVE  /\ Collecting(AddPoint(s, t))
         /\ \A later \in SUBSET Int :
              /\ StartsBefore(s.frame, later \cup {t}) /\ (\A x \in later : t <= x)
                   => StartsBefore(AddPoint(s, t).frame, later)
              /\ StartsBefore(s.frame, later \cup {t}) /\ s.fits => AddPoint(s, t).fits
<1>1. /\ s.frame \in Frames /\ s.done \in Seq(Frames) /\ s.fits \in BOOLEAN
      /\ s.frame.active \in BOOLEAN /\ s.frame.start \in Int /\ s.frame.points \in Seq(Int)
      /\ s = [frame |-> s.frame, done |-> s.done, fits |-> s.fits]
  BY DEF Collecting, Frames
<1>2. Period \in Nat /\ Period > 0
  BY ExporterAssumption
<1>3. ASSUME NEW start \in Int PROVE /\ FrameFrom(start, t) \in Frames /\ FrameFrom(start, t).points # <<>>
                                     /\ FrameFrom(start, t).active /\ Head(FrameFrom(start, t).points) = t
  BY DEF FrameFrom, Frames
<1>4. CASE ~s.frame.active \/ t < s.frame.start
  <2>1. AddPoint(s, t) = [frame |-> FrameFrom(t, t), done |-> s.done, fits |-> s.fits]
    BY <1>1, <1>4, Zenon DEF AddPoint
  <2> QED
    BY <1>1, <1>3, <2>1 DEF Collecting, StartsBefore
<1>5. CASE s.frame.active /\ t >= s.frame.start + Period
  <2> DEFINE start == s.frame.start + ((t - s.frame.start) \div Period) * Period
  <2>1. start \in Int
    <3>1. (t - s.frame.start) \div Period \in Int
      BY <1>1, <1>2
    <3>2. ((t - s.frame.start) \div Period) * Period \in Int
      BY <1>2, <3>1
    <3> QED
      BY <1>1, <3>2
  <2>2. AddPoint(s, t) = [frame |-> FrameFrom(start, t), done |-> Append(s.done, s.frame), fits |-> s.fits]
    <3>1. ~(t < s.frame.start)
      BY <1>1, <1>2, <1>5
    <3> QED
      BY <1>1, <1>5, <3>1, Zenon DEF AddPoint
  <2> HIDE DEF start
  <2>3. Append(s.done, s.frame) \in Seq(Frames)
    BY <1>1
  <2> QED
    BY <1>1, <1>3, <2>1, <2>2, <2>3 DEF Collecting, StartsBefore
<1>6. CASE s.frame.active /\ ~(t < s.frame.start) /\ ~(t >= s.frame.start + Period) /\ t < Head(s.frame.points)
  <2>1. AddPoint(s, t) = [frame |-> s.frame, done |-> s.done, fits |-> FALSE]
    BY <1>1, <1>6, Zenon DEF AddPoint
  <2>2. Head(s.frame.points) \in Int
    BY <1>1, <1>6 DEF Collecting
  <2>3. ASSUME NEW later \in SUBSET Int PROVE ~ StartsBefore(s.frame, later \cup {t})
    BY <1>6, <2>2 DEF StartsBefore
  <2>4. Collecting(AddPoint(s, t))
    BY <1>1, <1>6, <2>1 DEF Collecting
  <2> QED
    BY <2>3, <2>4
<1>7. CASE s.frame.active /\ ~(t < s.frame.start) /\ ~(t >= s.frame.start + Period) /\ ~(t < Head(s.frame.points))
  <2> DEFINE frame == [active |-> s.frame.active, start |-> s.frame.start, points |-> Append(s.frame.points, t)]
  <2>1. AddPoint(s, t) = [frame |-> frame, done |-> s.done, fits |-> s.fits]
    <3>1. s.frame = [active |-> s.frame.active, start |-> s.frame.start, points |-> s.frame.points]
      BY <1>1 DEF Frames
    <3> QED
      BY <1>1, <1>7, <3>1, Zenon DEF AddPoint
  <2>2. s.frame.points # <<>>
    BY <1>7 DEF Collecting
  <2>3. Append(s.frame.points, t) \in Seq(Int) /\ Append(s.frame.points, t) # <<>>
        /\ Head(Append(s.frame.points, t)) = Head(s.frame.points)
    <3> DEFINE more == Append(s.frame.points, t)
    <3>1. more \in Seq(Int) /\ Len(more) = Len(s.frame.points) + 1 /\ Len(s.frame.points) > 0
      BY <1>1, <2>2
    <3>2. more[1] = s.frame.points[1]
      BY <1>1, <3>1
    <3> HIDE DEF more
    <3>3. more # <<>>
      BY <3>1
    <3>4. Head(more) = more[1] /\ Head(s.frame.points) = s.frame.points[1]
      BY <1>1, <2>2, <3>1, <3>3
    <3>5. more \in Seq(Int) /\ more # <<>> /\ Head(more) = Head(s.frame.points)
      BY <3>1, <3>2, <3>3, <3>4
    <3> QED
      BY <3>5 DEF more
  <2>4. frame \in Frames /\ frame.points # <<>> /\ frame.active = s.frame.active
        /\ Head(frame.points) = Head(s.frame.points)
    BY <1>1, <2>3 DEF Frames
  <2> HIDE DEF frame
  <2> QED
    BY <1>1, <1>7, <2>1, <2>4 DEF Collecting, StartsBefore
<1> QED
  BY <1>4, <1>5, <1>6, <1>7

(* A row whose points are in order, and none before the frame, fits; and   *)
(* what follows all of them follows the frame that is left.                *)
LEMMA AccumulatedFits ==
  ASSUME NEW frame \in Frames, NEW r \in IndexRows, frame.active => frame.points # <<>>
  PROVE  /\ Collecting(Accumulated(frame, r))
         /\ \A later \in SUBSET Int :
              /\ \A k, l \in DOMAIN PointTimes(r) : k <= l => PointTimes(r)[k] <= PointTimes(r)[l]
              /\ StartsBefore(frame, later \cup Range(PointTimes(r)))
              /\ \A k \in DOMAIN PointTimes(r), x \in later : PointTimes(r)[k] <= x
              => StartsBefore(Accumulated(frame, r).frame, later) /\ Accumulated(frame, r).fits
<1> DEFINE times == PointTimes(r)
           n == Len(times)
           base == [frame |-> frame, done |-> <<>>, fits |-> TRUE]
<1>1. times \in Seq(Int) /\ n \in Nat /\ DOMAIN times = 1 .. n /\ \A k \in 1 .. n : times[k] \in Int
  BY PointTimesTyped
<1>2. PICK it : /\ it[0] = base /\ \A k \in 1 .. n : it[k] = AddPoint(it[k - 1], times[k])
                /\ Accumulated(frame, r) = it[n]
  <2>1. Accumulated(frame, r) = AddAll(base, times)
    BY DEF Accumulated, AddAll
  <2>0. times \in Seq(Int)
    BY <1>1
  <2> HIDE DEF base, times, n
  <2>2. \E it : /\ it[0] = base /\ \A k \in 1 .. Len(times) : it[k] = AddPoint(it[k - 1], times[k])
                /\ AddAll(base, times) = it[Len(times)]
    BY <2>0, AddedSteps
  <2> QED
    BY <2>1, <2>2 DEF n
<1>3. Collecting(base)
  BY DEF Collecting, Frames
<1> HIDE DEF times, base
<1>4. \A k \in 0 .. n : Collecting(it[k])
  <2> DEFINE bad == {k \in 0 .. n : ~ Collecting(it[k])}
  <2>1. ASSUME bad # {} PROVE FALSE
    <3>0. bad \subseteq Nat
      BY <1>1
    <3>1. PICK k \in bad : \A x \in bad : k <= x
      BY <2>1, <3>0, LeastNatural, Zenon
    <3>2. k # 0
      BY <1>2, <1>3, <3>1
    <3>3. k - 1 \in 0 .. n /\ k \in 1 .. n /\ k - 1 < k
      BY <1>1, <3>1, <3>2
    <3>4. Collecting(it[k - 1])
      BY <3>1, <3>3
    <3> QED
      BY <1>1, <1>2, <3>1, <3>3, <3>4, AddPointCollects, Zenon
  <2> QED
    BY <2>1
<1>5. ASSUME NEW later \in SUBSET Int,
             \A k, l \in DOMAIN times : k <= l => times[k] <= times[l],
             StartsBefore(frame, later \cup Range(times)),
             \A k \in DOMAIN times, x \in later : times[k] <= x
      PROVE  StartsBefore(it[n].frame, later) /\ it[n].fits
  <2> DEFINE rest(k) == later \cup {times[j] : j \in k + 1 .. n}
             good(k) == StartsBefore(it[k].frame, rest(k)) /\ it[k].fits
             bad == {k \in 0 .. n : ~ good(k)}
  <2>1. good(0)
    <3>1. rest(0) \subseteq later \cup Range(times)
      BY <1>1 DEF Range
    <3>2. it[0].frame = frame /\ it[0].fits
      BY <1>2 DEF base
    <3> HIDE DEF rest
    <3> QED
      BY <1>5, <3>1, <3>2, Zenon DEF StartsBefore
  <2>2. ASSUME NEW k \in 1 .. n, good(k - 1) PROVE good(k)
    <3>1. k - 1 \in 0 .. n /\ k - 1 + 1 = k /\ k + 1 .. n \subseteq k .. n /\ k \in Int
      BY <1>1
    <3>2. rest(k - 1) = rest(k) \cup {times[k]}
      <4>1. k .. n = (k + 1 .. n) \cup {k}
        BY <1>1
      <4> QED
        BY <3>1, <4>1
    <3>3. rest(k) \subseteq Int /\ \A x \in rest(k) : times[k] <= x
      <4>1. \A j \in k + 1 .. n : j \in 1 .. n /\ k <= j
        BY <1>1
      <4>2. \A j \in k + 1 .. n : times[j] \in Int /\ times[k] <= times[j]
        BY <1>1, <1>5, <4>1
      <4> QED
        BY <1>1, <1>5, <4>2, Zenon
    <3> HIDE DEF rest
    <3>4. it[k] = AddPoint(it[k - 1], times[k]) /\ Collecting(it[k - 1]) /\ times[k] \in Int
      BY <1>1, <1>2, <1>4, <3>1
    <3>5. StartsBefore(it[k - 1].frame, rest(k) \cup {times[k]}) /\ it[k - 1].fits
      BY <2>2, <3>2, Zenon
    <3>6. StartsBefore(AddPoint(it[k - 1], times[k]).frame, rest(k)) /\ AddPoint(it[k - 1], times[k]).fits
      <4>1. rest(k) \in SUBSET Int
        BY <3>3
      <4> QED
        BY <3>3, <3>4, <3>5, <4>1, AddPointCollects, Zenon
    <3> QED
      BY <3>4, <3>6
  <2> HIDE DEF good
  <2>3. ASSUME bad # {} PROVE FALSE
    <3>0. bad \subseteq Nat
      BY <1>1
    <3>1. PICK k \in bad : \A x \in bad : k <= x
      BY <2>3, <3>0, LeastNatural, Zenon
    <3>2. k # 0
      BY <2>1, <3>1
    <3>3. k - 1 \in 0 .. n /\ k \in 1 .. n /\ k - 1 < k
      BY <1>1, <3>1, <3>2
    <3> QED
      BY <2>2, <3>1, <3>3
  <2>4. good(n)
    BY <1>1, <2>3
  <2>5. n + 1 .. n = {}
    BY <1>1
  <2> QED
    BY <2>4, <2>5, Zenon DEF good
<1>6. Collecting(it[n])
  BY <1>1, <1>4
<1> QED
  BY <1>2, <1>5, <1>6, Zenon DEF times

(* Messages are counted.                                                   *)
Counting(b) == DOMAIN b = DOMAIN NewBag(<<>>) /\ b.count \in Nat
LEMMA PutCounts ==
  ASSUME NEW b, Counting(b), NEW m
  PROVE  Counting(Put(b, m)) /\ Put(b, m).count = b.count + 1
<1>1. {"embedded", "chunk", "index", "count", "records", "chunks"} \subseteq DOMAIN b
  BY DEF Counting, NewBag
<1>2. ASSUME NEW c, DOMAIN c = DOMAIN b
      PROVE  DOMAIN FlushChunk(c) = DOMAIN b /\ FlushChunk(c).count = c.count
  BY <1>1, <1>2 DEF FlushChunk
<1>3. DOMAIN Ros1Message(b, m) = DOMAIN b /\ Ros1Message(b, m).count = b.count + 1
  <2> DEFINE known == IF m.topic \in b.embedded THEN b.chunk
                      ELSE Append(b.chunk, [kind |-> "connection", topic |-> m.topic])
             next  == [b EXCEPT
                         !.embedded = @ \cup {m.topic},
                         !.chunk    = Append(known, m),
                         !.index    = Append(@, [topic |-> m.topic, at |-> m.at, offset |-> Len(known)]),
                         !.count    = @ + 1]
  <2>1. Ros1Message(b, m) = IF Len(next.chunk) >= ChunkTarget THEN FlushChunk(next) ELSE next
    BY DEF Ros1Message
  <2> HIDE DEF known
  <2>2. DOMAIN next = DOMAIN b /\ next.count = b.count + 1
    BY <1>1
  <2> HIDE DEF next
  <2> QED
    BY <1>2, <2>1, <2>2
<1>4. DOMAIN Ros2Message(b, m) = DOMAIN b /\ Ros2Message(b, m).count = b.count + 1
  BY <1>1 DEF Ros2Message
<1>5. b.count + 1 \in Nat
  BY DEF Counting
<1> QED
  BY <1>3, <1>4, <1>5 DEF Put, Counting

LEMMA PutAllCounts ==
  ASSUME NEW b, Counting(b), NEW R, NEW messages \in Seq(R)
  PROVE  Counting(PutAll(b, messages)) /\ PutAll(b, messages).count = b.count + Len(messages)
<1> DEFINE n == Len(messages)
<1>1. PICK it : /\ it[0] = b /\ \A k \in 1 .. n : it[k] = Put(it[k - 1], messages[k])
                /\ PutAll(b, messages) = it[n]
  BY FilledSteps
<1>2. n \in Nat
  OBVIOUS
<1> HIDE DEF n
<1> DEFINE good(k) == Counting(it[k]) /\ it[k].count = b.count + k
           bad == {k \in 0 .. n : ~ good(k)}
<1>3. good(0)
  BY <1>1 DEF Counting
<1>4. ASSUME NEW k \in 1 .. n, good(k - 1) PROVE good(k)
  <2>1. Counting(it[k]) /\ it[k].count = it[k - 1].count + 1
    BY <1>1, <1>4, PutCounts
  <2>2. it[k - 1].count = b.count + (k - 1) /\ b.count \in Nat /\ k \in Int
    BY <1>2, <1>4 DEF Counting
  <2> QED
    BY <2>1, <2>2
<1> HIDE DEF good
<1>5. ASSUME bad # {} PROVE FALSE
  <2>0. bad \subseteq Nat
    BY <1>2
  <2>1. PICK k \in bad : \A x \in bad : k <= x
    BY <1>5, <2>0, LeastNatural, Zenon
  <2>2. k # 0
    BY <1>3, <2>1
  <2>3. k - 1 \in 0 .. n /\ k \in 1 .. n /\ k - 1 < k
    BY <1>2, <2>1, <2>2
  <2> QED
    BY <1>4, <2>1, <2>3
<1>6. good(n)
  BY <1>2, <1>5
<1> QED
  BY <1>1, <1>6 DEF good, n

--------------------------------------------------------------------------------
(***************************************************************************)
(* The exporter refuses nothing of a directory that is usable: valid, and  *)
(* sound in what the validator does not look at.                           *)
(***************************************************************************)
Usable(d) == AllSound(d) /\ Exportable(d)

LEMMA UsableFacts ==
  ASSUME NEW d \in Directories, Usable(d)
  PROVE  /\ \A s \in Sensors : Parsed(d, s) = Rows(d, s) /\ (TimesIn(d, s) = <<>> <=> Rows(d, s) = <<>>)
                               /\ \A i \in DOMAIN Rows(d, s) : RowSound(d, s, Rows(d, s)[i])
         /\ {d.manifest.images, d.manifest.lidarImu} \subseteq BOOLEAN
         /\ Sensors \subseteq Files
         /\ \A s \in Sensors : Rows(d, s) # <<>> => s \in d.files
<1>1. {d.manifest.images, d.manifest.lidarImu} \subseteq BOOLEAN
  BY DirectoriesAssumption
<1>2. Sensors \subseteq Files
  BY DEF Files
<1>3. ASSUME NEW s \in Sensors
      PROVE  /\ Parsed(d, s) = Rows(d, s) /\ (TimesIn(d, s) = <<>> <=> Rows(d, s) = <<>>)
             /\ \A i \in DOMAIN Rows(d, s) : RowSound(d, s, Rows(d, s)[i])
  <2>1. StreamSound(d, s) /\ s \in Files
    BY SoundSensors DEF Usable
  <2>2. /\ Parsed(d, s) = Rows(d, s) /\ Len(TimesIn(d, s)) = Len(Rows(d, s)) /\ TimesIn(d, s) \in Seq(Nat)
        /\ \A i \in DOMAIN Rows(d, s) : RowSound(d, s, Rows(d, s)[i])
    BY <2>1, SoundStream
  <2>3. Rows(d, s) \in Seq(IndexRows)
    BY <2>1, RowsTyped
  <2>4. (TimesIn(d, s) = <<>>) <=> (Len(TimesIn(d, s)) = 0)
    BY <2>2
  <2>5. (Rows(d, s) = <<>>) <=> (Len(Rows(d, s)) = 0)
    BY <2>3
  <2> QED
    BY <2>2, <2>4, <2>5
<1>4. \A s \in Sensors : Rows(d, s) # <<>> => s \in d.files
  BY DEF Rows
<1> QED
  BY <1>1, <1>2, <1>3, <1>4

LEMMA ExportsIs ==
  ASSUME NEW d, NEW s
  PROVE  /\ s \in Cams => (Exports(d, s) <=> ExportsCameras(d))
         /\ s \in Imus => Exports(d, s)
<1>1. ASSUME s \in Cams PROVE Exports(d, s) <=> ExportsCameras(d)
  <2>1. s \notin Imus /\ s # "lidar" /\ s # "lidarImu" /\ s # "position" /\ s # "quality"
    BY <1>1 DEF Cams, Imus
  <2> QED
    BY <1>1, <2>1 DEF Exports
<1>2. ASSUME s \in Imus PROVE Exports(d, s)
  <2>1. s \notin Cams /\ s # "lidar" /\ s # "lidarImu" /\ s # "position" /\ s # "quality"
    BY <1>2 DEF Cams, Imus
  <2> QED
    BY <1>2, <2>1 DEF Exports
<1> QED
  BY <1>1, <1>2

LEMMA UsableAccepted ==
  ASSUME NEW d \in Directories, Usable(d)
  PROVE  FirstPassAccepted(d) /\ SecondPassAccepted(d)
<1>1. /\ ManifestSound(d) /\ CamerasSound(d) /\ ImusSound(d) /\ LidarSound(d) /\ LidarImuSound(d)
      /\ HasFrames(d) /\ GnssAccepted(d) /\ (Strict(d) => d.manifest.known)
  BY SoundParts DEF Usable, Exportable
<1>2. /\ \A s \in Sensors : TimesIn(d, s) = <<>> <=> Rows(d, s) = <<>>
      /\ d.manifest.images \in BOOLEAN /\ d.manifest.lidarImu \in BOOLEAN
      /\ \A s \in Sensors : Rows(d, s) # <<>> => s \in d.files
  BY UsableFacts
<1>3. Imus \subseteq Sensors /\ "lidar" \in Sensors /\ "lidarImu" \in Sensors /\ Imus \subseteq Files /\ "cam0" \in Cams
      /\ Imus \cap Cams = {}
  BY DEF Imus, Sensors, Files, Cams
<1>4. PICK i \in Imus : Rows(d, i) # <<>>
  BY <1>1, <1>2, <1>3 DEF ImusSound
<1>5. CountAccepted(d)
  <2>1. Imus \subseteq d.files
    BY <1>1 DEF ImusSound
  <2>2. CASE ~ Strict(d)
    BY <1>1, <2>1, <2>2 DEF CountAccepted, CamerasSound, CameraSetSound
  <2>3. CASE Strict(d)
    <3>1. d.manifest.images <=> HasCameras(d)
      BY <1>1, <2>3 DEF CamerasSound, CameraSetSound
    <3>2. Cams \cap d.files = (IF d.manifest.images THEN Cams ELSE {})
      BY <1>1, <3>1 DEF CamerasSound, CameraSetSound, HasCameras
    <3>3. d.manifest.images => /\ Rows(d, "cam0") # <<>>
                               /\ \A c \in Cams : Len(Rows(d, c)) = Len(Rows(d, "cam0"))
      BY <1>1, <1>3, <3>1, SoundCameras, Zenon DEF HasFrames
    <3>4. AsDeclared(d, "lidar", ExportsLidar(d))
      BY <1>1, <1>2, <1>3, <2>3 DEF AsDeclared, ExportsLidar, LidarSound
    <3>5. AsDeclared(d, "lidarImu", ExportsLidarImu(d))
      BY <1>1, <1>2, <1>3, <2>3 DEF AsDeclared, ExportsLidarImu, LidarImuSound
    <3> QED
      BY <1>4, <2>1, <2>3, <3>2, <3>3, <3>4, <3>5 DEF CountAccepted
  <2> QED
    BY <2>2, <2>3
<1>6. Strict(d) => LayoutAccepted(d.manifest)
  <2> SUFFICES ASSUME Strict(d) PROVE LayoutAccepted(d.manifest)
    OBVIOUS
  <2>1. /\ d.manifest.wellFormed /\ d.manifest.complete /\ d.manifest.common
        /\ d.manifest.mode \in {"full", "imu-only"} /\ d.manifest.time \in {"unix", "boot"}
    BY <1>1 DEF ManifestSound, UnixTime, BootTime
  <2>2. d.manifest.mode = "full" <=> d.manifest.images
    BY <1>1 DEF CamerasSound, CameraSetSound
  <2>3. /\ d.manifest.lidar # "none" <=> "lidar" \in d.files
        /\ ~(d.manifest.mode = "imu-only" /\ d.manifest.lidar # "none")
    BY <1>1 DEF LidarSound, DeclaresLidar
  <2>4. d.manifest.lidarImu <=> "lidarImu" \in d.files
    BY <1>1 DEF LidarImuSound
  <2>5. d.manifest.mode = "full" /\ (d.manifest.lidar # "none") # d.manifest.lidarImu
          => d.manifest.lidar = "point-time"
    <3>1. d.manifest.mode = "full" => \/ {"lidar", "lidarImu"} \subseteq d.files
                                      \/ {"lidar", "lidarImu"} \cap d.files = {}
                                      \/ d.manifest.lidar = "point-time"
      BY <1>1 DEF LidarImuSound, OnlyXt32
    <3>2. (d.manifest.lidar # "none") # d.manifest.lidarImu
            <=> ("lidar" \in d.files /\ "lidarImu" \notin d.files) \/ ("lidar" \notin d.files /\ "lidarImu" \in d.files)
      BY <1>2, <2>3, <2>4
    <3> QED
      BY <3>1, <3>2
  <2>6. d.manifest.mode # "full" => d.manifest.lidar = "none"
    BY <2>1, <2>3
  <2> QED
    BY <1>1, <2>1, <2>2, <2>5, <2>6 DEF LayoutAccepted
<1>7. FirstPassAccepted(d)
  BY <1>1, <1>5, <1>6 DEF FirstPassAccepted, ManifestSound, GnssAccepted
<1>8. SecondPassAccepted(d)
  <2>1. Exports(d, i)
    BY ExportsIs
  <2> QED
    BY <1>1, <1>3, <1>4, <2>1 DEF SecondPassAccepted
<1> QED
  BY <1>7, <1>8

\* What RowAccepted asks of a row, whatever was exported before it.
RowUsable(d, s, i) ==
  LET r == RowsOf(d, s)[i]
  IN s \in Files =>
       /\ TimeAccepted(d, r)
       /\ s \in Chunked => Readable(r)
       /\ Strict(d) /\ s \in {"lidar", "lidarImu"} => r.flaw # "unsynced"
       /\ s = "lidar" => /\ Strict(d) /\ ~d.manifest.lidarImu => r.model = "xt32"
                         /\ r.flaw # "payload"
       /\ Strict(d) /\ s \in Cams => r.at = Rows(d, "cam0")[i].at

LEMMA UsableRow ==
  ASSUME NEW d \in Directories, Usable(d), NEW s \in Files, Exports(d, s), NEW i \in DOMAIN Rows(d, s)
  PROVE  /\ RowUsable(d, s, i) /\ StreamSound(d, s) /\ RowsOf(d, s) = Rows(d, s)
         /\ \A j \in DOMAIN Rows(d, s) : j + 1 = i => Rows(d, s)[j].at < Rows(d, s)[i].at
<1>1. /\ ManifestSound(d) /\ CamerasSound(d) /\ LidarSound(d) /\ LidarImuSound(d)
      /\ BatchesSound(d, {"batch", "payload"})
  BY SoundParts DEF Usable, Exportable
<1>2. RowsOf(d, s) = Rows(d, s)
  <2>1. s # "position" /\ s # "quality"
    BY DEF Files, Cams, Sensors
  <2> QED
    BY <2>1 DEF RowsOf
<1>3. s \in Cams \/ s \in Sensors
  BY DEF Files
<1>4. Cams \cap (Imus \cup {"lidar", "lidarImu"}) = {} /\ "cam0" \in Cams /\ Cams \subseteq Files /\ "cam0" \in Files
  BY DEF Cams, Imus, Files
<1>5. s \in Cams => HasCameras(d)
  BY <1>1, ExportsIs DEF ExportsCameras, CamerasSound, CameraSetSound
<1>6. StreamSound(d, s)
  BY <1>1, <1>3, <1>5, SoundSensors DEF CamerasSound, Usable
<1>7. /\ TimesIn(d, s) = [j \in DOMAIN Rows(d, s) |-> Rows(d, s)[j].at] /\ Parsed(d, s) = Rows(d, s)
      /\ Monotonic(TimesIn(d, s)) /\ RowSound(d, s, Rows(d, s)[i])
      /\ DOMAIN Rows(d, s) = 1 .. Len(Rows(d, s)) /\ Len(Rows(d, s)) \in Nat /\ Len(TimesIn(d, s)) = Len(Rows(d, s))
  BY <1>6, SoundStream, RowsTyped
<1>8. \A j \in DOMAIN Rows(d, s) : j + 1 = i => Rows(d, s)[j].at < Rows(d, s)[i].at
  <2> SUFFICES ASSUME NEW j \in DOMAIN Rows(d, s), j + 1 = i PROVE Rows(d, s)[j].at < Rows(d, s)[i].at
    OBVIOUS
  <2>1. i \in 2 .. Len(TimesIn(d, s)) /\ i - 1 = j
    BY <1>7
  <2>2. TimesIn(d, s)[j] < TimesIn(d, s)[i]
    BY <1>7, <2>1, Zenon DEF Monotonic
  <2> QED
    BY <1>7, <2>2
<1>9. s \in Cams => Rows(d, s)[i].at = Rows(d, "cam0")[i].at
  <2> SUFFICES ASSUME s \in Cams PROVE Rows(d, s)[i].at = Rows(d, "cam0")[i].at
    OBVIOUS
  <2>1. StreamSound(d, "cam0") /\ TimesIn(d, s) = TimesIn(d, "cam0")
    BY <1>1, <1>4, <1>5 DEF CamerasSound
  <2>2. TimesIn(d, "cam0") = [j \in DOMAIN Rows(d, "cam0") |-> Rows(d, "cam0")[j].at]
    BY <1>4, <2>1, SoundStream
  <2>3. DOMAIN Rows(d, "cam0") = DOMAIN Rows(d, s)
    BY <1>7, <2>1, <2>2
  <2>4. TimesIn(d, s)[i] = Rows(d, s)[i].at
    BY <1>7
  <2>5. TimesIn(d, "cam0")[i] = Rows(d, "cam0")[i].at
    BY <2>2, <2>3
  <2> QED
    BY <2>1, <2>4, <2>5
<1>10. /\ s = "lidar" => Rows(d, s)[i].flaw # "payload"
       /\ Rows(d, s)[i].flaw # "batch"
  BY <1>1, FlawsOfRows DEF BatchesSound
<1>11. s = "lidar" /\ Strict(d) /\ ~d.manifest.lidarImu => Rows(d, s)[i].model = "xt32"
  <2> SUFFICES ASSUME s = "lidar", Strict(d), ~d.manifest.lidarImu PROVE Rows(d, s)[i].model = "xt32"
    OBVIOUS
  <2>1. "lidar" \in d.files
    BY DEF Rows
  <2>2. "lidarImu" \notin d.files /\ d.manifest.mode = "full"
    BY <1>1, <2>1 DEF LidarSound, LidarImuSound, ManifestSound
  <2>3. OnlyXt32(d)
    BY <1>1, <2>1, <2>2 DEF LidarImuSound
  <2> QED
    BY <1>7, <2>3 DEF OnlyXt32
<1>12. RowUsable(d, s, i)
  <2>1. TimeAccepted(d, Rows(d, s)[i])
    BY <1>7, <1>10 DEF RowSound, TimeAccepted, ValidatorRefuses, ExporterRefuses
  <2> QED
    BY <1>2, <1>7, <1>9, <1>10, <1>11, <2>1 DEF RowUsable, RowSound, Readable
<1> QED
  BY <1>2, <1>6, <1>8, <1>12

--------------------------------------------------------------------------------
(***************************************************************************)
(* The points of the LiDAR rows from row i on.                             *)
(***************************************************************************)
Ahead(d, i) == UNION {Range(PointTimes(Rows(d, "lidar")[j])) : j \in {k \in DOMAIN Rows(d, "lidar") : k >= i}}

LEMMA FrameStep ==
  ASSUME NEW d \in Directories, PointsInOrder(d), NEW i \in DOMAIN Rows(d, "lidar"),
         NEW frame \in Frames, frame.active => frame.points # <<>>, StartsBefore(frame, Ahead(d, i))
  PROVE  /\ Accumulated(frame, Rows(d, "lidar")[i]).fits
         /\ StartsBefore(Accumulated(frame, Rows(d, "lidar")[i]).frame, Ahead(d, i + 1))
<1> DEFINE rows == Rows(d, "lidar")
           times(j) == PointTimes(rows[j])
           later == Ahead(d, i + 1)
<1>1. DOMAIN rows = 1 .. Len(rows) /\ Len(rows) \in Nat /\ \A j \in DOMAIN rows : rows[j] \in IndexRows
  <2>1. "lidar" \in Files
    BY DEF Files, Sensors
  <2> QED
    BY <2>1, RowsTyped
<1>2. \A j \in DOMAIN rows : times(j) \in Seq(Int) /\ Range(times(j)) \subseteq Int
  <2> SUFFICES ASSUME NEW j \in DOMAIN rows PROVE times(j) \in Seq(Int) /\ Range(times(j)) \subseteq Int
    OBVIOUS
  <2>1. times(j) \in Seq(Int)
    BY <1>1, PointTimesTyped
  <2> HIDE DEF times
  <2> QED
    BY <2>1 DEF Range
<1>3. \A j, m \in DOMAIN rows : \A k \in DOMAIN times(j), l \in DOMAIN times(m) :
        j < m \/ (j = m /\ k <= l) => times(j)[k] <= times(m)[l]
  BY DEF PointsInOrder
<1>0. i \in DOMAIN rows
  OBVIOUS
<1> HIDE DEF rows, times
<1>4. Ahead(d, i) = UNION {Range(times(j)) : j \in {k \in DOMAIN rows : k >= i}}
      /\ later = UNION {Range(times(j)) : j \in {k \in DOMAIN rows : k >= i + 1}}
  BY DEF Ahead, rows, times
<1> HIDE DEF later
<1>5. later \subseteq Int
  BY <1>2, <1>4
<1>6. \A k \in DOMAIN times(i), x \in later : times(i)[k] <= x
  <2> SUFFICES ASSUME NEW k \in DOMAIN times(i), NEW x \in later PROVE times(i)[k] <= x
    OBVIOUS
  <2>1. PICK j \in DOMAIN rows : j >= i + 1 /\ x \in Range(times(j))
    BY <1>4
  <2>2. PICK l \in DOMAIN times(j) : x = times(j)[l]
    BY <2>1 DEF Range
  <2>3. i < j
    BY <1>1, <2>1
  <2> QED
    BY <1>0, <1>3, <2>2, <2>3
<1>7. \A k, l \in DOMAIN times(i) : k <= l => times(i)[k] <= times(i)[l]
  BY <1>0, <1>3
<1>8. StartsBefore(frame, later \cup Range(times(i)))
  <2>1. later \cup Range(times(i)) \subseteq Ahead(d, i)
    <3>1. \A k \in DOMAIN rows : k >= i + 1 => k >= i
      BY <1>0, <1>1
    <3>2. i >= i
      BY <1>0, <1>1
    <3> QED
      BY <1>0, <1>4, <3>1, <3>2
  <2> QED
    BY <2>1 DEF StartsBefore
<1>9. Accumulated(frame, rows[i]).fits /\ StartsBefore(Accumulated(frame, rows[i]).frame, later)
  <2>1. rows[i] \in IndexRows /\ later \in SUBSET Int
    BY <1>0, <1>1, <1>5
  <2> QED
    BY <1>6, <1>7, <1>8, <2>1, AccumulatedFits, Zenon DEF times
<1> QED
  BY <1>9 DEF rows, later

--------------------------------------------------------------------------------
(***************************************************************************)
(* How far the validation and the export are.                              *)
(***************************************************************************)
(* The validator has looked at the stages before this one.                 *)
Judged ==
  /\ validation \in [stage : 1 .. Len(Stages) + 1, errors : SUBSET Range(Stages), cancelled : BOOLEAN]
  /\ ~validation.cancelled /\ validation.errors = {}
       => \A k \in 1 .. validation.stage - 1 : Sound(dataset, Stages[k])

(* The remaining fields of the export.                                     *)
Reached ==
  /\ dataset \in Directories /\ cancelled \in BOOLEAN
  /\ export.stream \in 1 .. Len(Order) + 1 /\ export.row \in Nat \ {0} /\ export.sequence \in Nat
  /\ export.frame \in Frames /\ (export.frame.active => export.frame.points # <<>>)
  /\ export.pc = "check" => export = NoExport
  /\ export.pc = "rows" => export.stream <= Len(Order)
  /\ export.pc = "finish" => export.stream = Len(Order) + 1
  /\ export.pc \in {"rows", "finish"} => Counting(bag)

\* The row before the current one, in time and in the frame.
InOrderSoFar ==
  /\ export.sequence # 0 => export.row > 1
  /\ export.row > 1 /\ Order[export.stream] \in Files
       => export.previous = Rows(dataset, Order[export.stream])[export.row - 1].at
  /\ StartsBefore(export.frame, Ahead(dataset, export.row))
\* An IMU that has rows has put a message into the bag.
ImusCounted ==
  \A k \in {5, 6} :
    /\ Rows(dataset, Order[k]) # <<>>
    /\ export.stream > k \/ (export.stream = k /\ export.row > 1)
    => bag.count > 0
Accepting ==
  /\ export.error # "dataset"
  /\ export.pc = "rows" => InOrderSoFar
  /\ export.pc \in {"rows", "finish"} => ImusCounted

ReadersInv == Judged /\ Reached /\ (Usable(dataset) => Accepting)

LEMMA OrderIs ==
  /\ Len(Order) = 10 /\ DOMAIN Order = 1 .. 10 /\ Order[5] = "imu0" /\ Order[6] = "imu1"
  /\ \A k \in 1 .. 10 : Order[k] \in Range(Order)
  /\ {"imu0", "imu1"} = Imus /\ Imus \subseteq Files /\ "lidar" \in Files /\ "lidar" \notin Imus
  /\ "position" \notin Files /\ "quality" \notin Files
  /\ \A s : s # "position" /\ s # "quality" => \A d : RowsOf(d, s) = Rows(d, s)
<1>1. Len(Order) = 10 /\ DOMAIN Order = 1 .. 10 /\ Order[5] = "imu0" /\ Order[6] = "imu1"
  BY DEF Order
<1>2. \A k \in 1 .. 10 : Order[k] \in Range(Order)
  BY <1>1 DEF Range
<1>3. /\ {"imu0", "imu1"} = Imus /\ Imus \subseteq Files /\ "lidar" \in Files /\ "lidar" \notin Imus
      /\ "position" \notin Files /\ "quality" \notin Files
  BY DEF Imus, Files, Cams, Sensors
<1>4. \A s : s # "position" /\ s # "quality" => \A d : RowsOf(d, s) = Rows(d, s)
  BY DEF RowsOf
<1> QED
  BY <1>1, <1>2, <1>3, <1>4

LEMMA ReadersInitInv == ReadersInit => ReadersInv
<1> SUFFICES ASSUME ReadersInit PROVE ReadersInv
  OBVIOUS
<1>1. dataset \in Directories /\ export = NoExport /\ cancelled = FALSE /\ validation = NotValidated
  BY DEF ReadersInit, ExportInit, Called
<1>2. Judged
  <2>1. Len(Stages) = 10
    BY DEF Stages
  <2>2. validation.stage = 1 /\ 1 .. validation.stage - 1 = {}
    BY <1>1 DEF NotValidated
  <2> QED
    BY <1>1, <2>1, <2>2 DEF Judged, NotValidated
<1>3. NoFrame \in Frames /\ ~ NoFrame.active
  BY DEF NoFrame, Frames
<1>4. Reached
  <2>1. /\ NoExport.pc = "check" /\ NoExport.stream = 1 /\ NoExport.row = 1 /\ NoExport.sequence = 0
        /\ NoExport.frame = NoFrame
    BY DEF NoExport
  <2>2. 1 \in 1 .. Len(Order) + 1 /\ 1 \in Nat \ {0} /\ 0 \in Nat
    BY OrderIs
  <2> HIDE DEF NoExport
  <2> QED
    BY <1>1, <1>3, <2>1, <2>2, Zenon DEF Reached
<1>5. Accepting
  BY <1>1 DEF Accepting, NoExport
<1> QED
  BY <1>2, <1>4, <1>5 DEF ReadersInv

(* A row that the export is at, in a usable directory, is accepted.        *)
LEMMA CurrentAccepted ==
  ASSUME Reached, Usable(dataset), Accepting, NEW s, NEW i, IsCurrentRow(s, i)
  PROVE  RowAccepted(dataset, s, i)
<1>1. /\ export.pc = "rows" /\ s = Order[export.stream] /\ Exports(dataset, s) /\ i = export.row
      /\ i <= Len(RowsOf(dataset, s)) /\ i \in Nat \ {0} /\ dataset \in Directories /\ InOrderSoFar
  BY DEF IsCurrentRow, Reached, Accepting
<1>2. CASE s \notin Files
  BY <1>2 DEF RowAccepted
<1>3. CASE s \in Files
  <2>1. RowsOf(dataset, s) = Rows(dataset, s)
    BY <1>3, OrderIs
  <2>2. i \in DOMAIN Rows(dataset, s)
    BY <1>1, <1>3, <2>1, RowsTyped
  <2>3. RowUsable(dataset, s, i)
        /\ \A j \in DOMAIN Rows(dataset, s) : j + 1 = i => Rows(dataset, s)[j].at < Rows(dataset, s)[i].at
    BY <1>1, <1>3, <2>2, UsableRow
  <2>4. export.sequence # 0 => Rows(dataset, s)[i].at >= export.previous
    <3> SUFFICES ASSUME export.sequence # 0 PROVE Rows(dataset, s)[i].at >= export.previous
      OBVIOUS
    <3>1. export.row > 1 /\ export.previous = Rows(dataset, s)[i - 1].at
      BY <1>1, <1>3 DEF InOrderSoFar
    <3>2. i - 1 \in DOMAIN Rows(dataset, s) /\ i - 1 + 1 = i
      BY <1>1, <1>3, <2>2, <3>1, RowsTyped
    <3>3. Rows(dataset, s)[i - 1].at < Rows(dataset, s)[i].at
      BY <2>3, <3>2
    <3>4. Rows(dataset, s)[i - 1].at \in Nat /\ Rows(dataset, s)[i].at \in Nat
      BY <1>1, <1>3, <2>2, <3>2, RowsTyped, Zenon DEF IndexRows
    <3> QED
      BY <3>1, <3>3, <3>4
  <2>5. s = "lidar" => Accumulated(export.frame, Rows(dataset, s)[i]).fits
    <3> SUFFICES ASSUME s = "lidar" PROVE Accumulated(export.frame, Rows(dataset, "lidar")[i]).fits
      OBVIOUS
    <3>1. PointsInOrder(dataset)
      BY DEF Usable, Exportable
    <3> QED
      BY <1>1, <2>2, <3>1, FrameStep DEF Reached, InOrderSoFar
  <2> QED
    BY <2>1, <2>3, <2>4, <2>5 DEF RowAccepted, RowUsable
<1> QED
  BY <1>2, <1>3

--------------------------------------------------------------------------------
LEMMA JudgedKept ==
  ASSUME Judged, UNCHANGED <<dataset, validation>>
  PROVE  Judged'
BY DEF Judged

(* Steps that end the rows: a failure, and what follows the last row.      *)
LEMMA LeavesRows ==
  ASSUME ReadersInv, UNCHANGED <<dataset, validation>>, cancelled' \in BOOLEAN,
         export'.pc \notin {"check", "rows", "finish"},
         export'.stream = export.stream, export'.row = export.row, export'.sequence = export.sequence,
         export'.frame = export.frame, Usable(dataset) => export'.error # "dataset"
  PROVE  ReadersInv'
<1>1. Judged'
  BY JudgedKept DEF ReadersInv
<1>2. Reached'
  BY DEF ReadersInv, Reached
<1>3. Usable(dataset) => Accepting'
  BY DEF Accepting
<1>4. Usable(dataset)' <=> Usable(dataset)
  OBVIOUS
<1> QED
  BY <1>1, <1>2, <1>3, <1>4 DEF ReadersInv

LEMMA FailKeeps ==
  ASSUME ReadersInv, ExportInv, UNCHANGED <<dataset, validation>>, cancelled' \in BOOLEAN,
         NEW why, Fail(why), Usable(dataset) => why # "dataset"
  PROVE  ReadersInv'
<1>1. /\ export'.pc = "cleanUp" /\ export'.error = why /\ export'.stream = export.stream
      /\ export'.row = export.row /\ export'.sequence = export.sequence /\ export'.frame = export.frame
  BY DEF Fail, ExportInv, Fields, NoExport
<1> QED
  BY <1>1, LeavesRows

LEMMA RefuseKeeps ==
  ASSUME ReadersInv, ExportInv, UNCHANGED validation, NEW s, NEW i, RefuseRow(s, i)
  PROVE  ReadersInv'
<1>1. ~ Usable(dataset)
  BY CurrentAccepted DEF ReadersInv, RefuseRow
<1>2. Fail("dataset") /\ UNCHANGED <<dataset, cancelled>>
  BY DEF RefuseRow
<1>3. cancelled' \in BOOLEAN
  BY <1>2 DEF ReadersInv, Reached
<1> QED
  BY <1>1, <1>2, <1>3, FailKeeps

LEMMA CheckKeeps ==
  ASSUME ReadersInv, ExportInv, UNCHANGED validation, Check
  PROVE  ReadersInv'
<1>1. /\ export.pc = "check" /\ UNCHANGED <<dataset, cancelled>> /\ cancelled' \in BOOLEAN
      /\ dataset \in Directories /\ export = NoExport /\ export.error = "none"
  BY DEF Check, ReadersInv, Reached, ExportInv, BeforeSwap
<1>2. CASE Fail("output") \/ Fail("cancelled")
  BY <1>1, <1>2, FailKeeps
<1>3. CASE Fail("dataset") /\ ~(FirstPassAccepted(dataset) /\ SecondPassAccepted(dataset))
  <2>1. ~ Usable(dataset)
    BY <1>1, <1>3, UsableAccepted
  <2> QED
    BY <1>1, <1>3, <2>1, FailKeeps
<1>4. CASE export' = [export EXCEPT !.pc = "rows"] /\ bag' = NewBag(Topics(dataset))
  <2>1. /\ export'.pc = "rows" /\ export'.stream = 1 /\ export'.row = 1 /\ export'.sequence = 0
        /\ export'.frame = NoFrame /\ export'.error = "none"
    BY <1>1, <1>4 DEF NoExport
  <2>2. Counting(bag')
    BY <1>4 DEF Counting, NewBag
  <2>3. NoFrame \in Frames /\ ~ NoFrame.active
    BY DEF NoFrame, Frames
  <2>4. Judged'
    BY <1>1, JudgedKept DEF ReadersInv
  <2>5. Reached'
    BY <1>1, <2>1, <2>2, <2>3, OrderIs DEF Reached
  <2>6. Accepting'
    <3>1. InOrderSoFar'
      BY <2>1, <2>3 DEF InOrderSoFar, StartsBefore
    <3>2. ImusCounted'
      BY <2>1 DEF ImusCounted
    <3> QED
      BY <2>1, <3>1, <3>2 DEF Accepting
  <2> QED
    BY <2>4, <2>5, <2>6 DEF ReadersInv
<1> QED
  BY <1>1, <1>2, <1>3, <1>4 DEF Check

(* A row makes at least one message.                                       *)
LEMMA MessagesAre ==
  ASSUME NEW d, NEW s, NEW i
  PROVE  \E R : Messages(d, s, i) \in Seq(R) /\ Len(Messages(d, s, i)) \in Nat /\ Len(Messages(d, s, i)) > 0
<1>1. \/ \E a : Messages(d, s, i) = <<a>>
      \/ \E a, b : Messages(d, s, i) = <<a, b>>
      \/ \E a, b, c : Messages(d, s, i) = <<a, b, c>>
  <2>1. CASE s \in Cams
    <3>1. s # "position" /\ s # "quality"
      BY <2>1 DEF Cams
    <3> QED
      BY <2>1, <3>1 DEF Messages
  <2>2. CASE s \notin Cams
    BY <2>2 DEF Messages
  <2> QED
    BY <2>1, <2>2
<1>2. ASSUME NEW a, Messages(d, s, i) = <<a>>
      PROVE  Messages(d, s, i) \in Seq({a}) /\ Len(Messages(d, s, i)) = 1
  BY <1>2
<1>3. ASSUME NEW a, NEW b, Messages(d, s, i) = <<a, b>>
      PROVE  Messages(d, s, i) \in Seq({a, b}) /\ Len(Messages(d, s, i)) = 2
  BY <1>3
<1>4. ASSUME NEW a, NEW b, NEW c, Messages(d, s, i) = <<a, b, c>>
      PROVE  Messages(d, s, i) \in Seq({a, b, c}) /\ Len(Messages(d, s, i)) = 3
  BY <1>4
<1> DEFINE of == Messages(d, s, i)
<1>5. of = Messages(d, s, i)
  OBVIOUS
<1> HIDE DEF of
<1>6. \E R : of \in Seq(R) /\ Len(of) \in {1, 2, 3}
  BY <1>1, <1>2, <1>3, <1>4, <1>5, Zenon
<1>7. \A k \in {1, 2, 3} : k \in Nat /\ k > 0
  OBVIOUS
<1> QED
  BY <1>5, <1>6, <1>7, Zenon

LEMMA WriteRowKeeps ==
  ASSUME ReadersInv, ExportInv, UNCHANGED validation, NEW s, NEW i, WriteRow(s, i)
  PROVE  ReadersInv'
<1> DEFINE n == Len(Messages(dataset, s, i))
<1>1. /\ export.pc = "rows" /\ export.error = "none" /\ export.stream \in 1 .. 10 /\ s = Order[export.stream]
      /\ i = export.row /\ i \in Nat \ {0} /\ export.sequence \in Nat /\ s # "lidar" /\ Exports(dataset, s)
      /\ i <= Len(RowsOf(dataset, s)) /\ dataset \in Directories /\ Counting(bag)
      /\ UNCHANGED <<dataset, cancelled>> /\ cancelled \in BOOLEAN
      /\ bag' = PutAll(bag, Messages(dataset, s, i))
      /\ export.frame \in Frames /\ (export.frame.active => export.frame.points # <<>>)
  BY OrderIs DEF WriteRow, IsCurrentRow, ReadersInv, Reached, ExportInv, BeforeSwap
<1>2. /\ export'.stream = export.stream /\ export'.row = i + 1 /\ export'.sequence = export.sequence + 1
      /\ export'.frame = export.frame /\ (s \in Files => export'.previous = Rows(dataset, s)[i].at)
      /\ \/ export'.pc = "rows" /\ export'.error = "none"
         \/ export'.pc = "cleanUp" /\ export'.error = "cancelled"
  BY <1>1 DEF WriteRow, Continue, ExportInv, Fields, NoExport
<1>3. Counting(bag') /\ bag'.count = bag.count + n /\ n \in Nat /\ n > 0
  BY <1>1, MessagesAre, PutAllCounts
<1>4. bag.count \in Nat /\ bag'.count > 0
  BY <1>1, <1>3 DEF Counting
<1>5. Judged'
  BY <1>1, JudgedKept DEF ReadersInv
<1>6. Reached'
  <2>1. export'.stream \in 1 .. Len(Order) + 1 /\ export'.stream <= Len(Order)
    BY <1>1, <1>2, OrderIs
  <2>2. export'.row \in Nat \ {0} /\ export'.sequence \in Nat
    BY <1>1, <1>2
  <2>3. dataset' \in Directories /\ cancelled' \in BOOLEAN /\ export'.pc \in {"rows", "cleanUp"}
    BY <1>1, <1>2
  <2> QED
    BY <1>1, <1>2, <1>3, <2>1, <2>2, <2>3 DEF Reached
<1>7. ASSUME Usable(dataset) PROVE Accepting'
  <2>1. InOrderSoFar
    BY <1>1, <1>7 DEF ReadersInv, Accepting
  <2>2. i + 1 > 1 /\ i + 1 - 1 = i
    BY <1>1
  <2>3. Ahead(dataset, i + 1) \subseteq Ahead(dataset, i)
    <3>1. \A k \in DOMAIN Rows(dataset, "lidar") : k >= i + 1 => k >= i
      <4>1. DOMAIN Rows(dataset, "lidar") \subseteq Nat
        BY <1>1, OrderIs, RowsTyped
      <4> QED
        BY <1>1, <4>1
    <3> QED
      BY <3>1 DEF Ahead
  <2>4. StartsBefore(export.frame, Ahead(dataset, i + 1))
    BY <1>1, <2>1, <2>3 DEF InOrderSoFar, StartsBefore
  <2>5. InOrderSoFar'
    BY <1>1, <1>2, <2>2, <2>4 DEF InOrderSoFar
  <2>6. ImusCounted'
    BY <1>4 DEF ImusCounted
  <2> QED
    BY <1>2, <2>5, <2>6 DEF Accepting
<1> QED
  BY <1>1, <1>5, <1>6, <1>7 DEF ReadersInv

LEMMA WriteLidarRowKeeps ==
  ASSUME ReadersInv, ExportInv, UNCHANGED validation, NEW i, WriteLidarRow(i)
  PROVE  ReadersInv'
<1> DEFINE rows == Rows(dataset, "lidar")
           a == Accumulated(export.frame, rows[i])
<1>1. /\ export.pc = "rows" /\ export.error = "none" /\ export.stream \in 1 .. 10 /\ "lidar" = Order[export.stream]
      /\ i = export.row /\ i \in Nat \ {0} /\ export.sequence \in Nat
      /\ i <= Len(RowsOf(dataset, "lidar")) /\ dataset \in Directories /\ Counting(bag)
      /\ UNCHANGED <<dataset, cancelled>> /\ cancelled \in BOOLEAN
      /\ export.frame \in Frames /\ (export.frame.active => export.frame.points # <<>>)
  BY OrderIs DEF WriteLidarRow, IsCurrentRow, ReadersInv, Reached, ExportInv, BeforeSwap
<1>2. i \in DOMAIN rows /\ rows[i] \in IndexRows
  <2>1. RowsOf(dataset, "lidar") = rows
    BY OrderIs
  <2>2. DOMAIN rows = 1 .. Len(rows) /\ Len(rows) \in Nat /\ \A j \in DOMAIN rows : rows[j] \in IndexRows
    BY <1>1, OrderIs, RowsTyped
  <2> HIDE DEF rows
  <2> QED
    BY <1>1, <2>1, <2>2
<1>3. Collecting(a)
  BY <1>1, <1>2, AccumulatedFits
<1>4. /\ bag' = PutAll(bag, Clouds(a.done))
      /\ Continue([export EXCEPT !.row = @ + 1, !.sequence = @ + Len(a.done), !.frame = a.frame,
                                 !.previous = rows[i].at])
  BY DEF WriteLidarRow
<1> HIDE DEF a, rows
<1>5. /\ export'.stream = export.stream /\ export'.row = i + 1
      /\ export'.sequence = export.sequence + Len(a.done) /\ export'.frame = a.frame
      /\ export'.previous = rows[i].at
      /\ \/ export'.pc = "rows" /\ export'.error = "none"
         \/ export'.pc = "cleanUp" /\ export'.error = "cancelled"
  BY <1>1, <1>4 DEF Continue, ExportInv, Fields, NoExport
<1>6. a.frame \in Frames /\ (a.frame.active => a.frame.points # <<>>) /\ Len(a.done) \in Nat /\ a.done \in Seq(Frames)
  BY <1>3 DEF Collecting
<1>7. Counting(bag') /\ bag'.count >= bag.count /\ bag.count \in Nat
  <2> DEFINE clouds == Clouds(a.done)
             R == {clouds[k] : k \in 1 .. Len(a.done)}
  <2>1. clouds \in [1 .. Len(a.done) -> R]
    <3>1. DOMAIN a.done = 1 .. Len(a.done)
      BY <1>6
    <3> QED
      BY <3>1 DEF Clouds
  <2>2. clouds \in Seq(R) /\ Len(clouds) \in Nat
    <3> HIDE DEF clouds, R
    <3> QED
      BY <1>6, <2>1
  <2> HIDE DEF clouds, R
  <2>3. Counting(PutAll(bag, clouds)) /\ PutAll(bag, clouds).count = bag.count + Len(clouds)
    BY <1>1, <2>2, PutAllCounts
  <2>4. bag' = PutAll(bag, clouds)
    BY <1>4 DEF clouds
  <2>5. bag.count \in Nat
    BY <1>1 DEF Counting
  <2> QED
    BY <2>2, <2>3, <2>4, <2>5
<1>8. Judged'
  BY <1>1, JudgedKept DEF ReadersInv
<1>9. Reached'
  <2>1. export'.stream \in 1 .. Len(Order) + 1 /\ export'.stream <= Len(Order)
    BY <1>1, <1>5, OrderIs
  <2>2. export'.row \in Nat \ {0} /\ export'.sequence \in Nat
    BY <1>1, <1>5, <1>6
  <2>3. dataset' \in Directories /\ cancelled' \in BOOLEAN /\ export'.pc \in {"rows", "cleanUp"}
    BY <1>1, <1>5
  <2> QED
    BY <1>5, <1>6, <1>7, <2>1, <2>2, <2>3 DEF Reached
<1>10. ASSUME Usable(dataset) PROVE Accepting'
  <2>1. InOrderSoFar /\ ImusCounted
    BY <1>1, <1>10 DEF ReadersInv, Accepting
  <2>2. i + 1 > 1 /\ i + 1 - 1 = i
    BY <1>1
  <2>3. StartsBefore(a.frame, Ahead(dataset, i + 1))
    <3>1. PointsInOrder(dataset)
      BY <1>10 DEF Usable, Exportable
    <3>2. StartsBefore(export.frame, Ahead(dataset, i))
      BY <1>1, <2>1 DEF InOrderSoFar
    <3> QED
      BY <1>1, <1>2, <3>1, <3>2, FrameStep DEF a, rows
  <2>4. InOrderSoFar'
    BY <1>1, <1>5, <2>2, <2>3 DEF InOrderSoFar, rows
  <2>5. ImusCounted'
    <3>1. Order[5] # "lidar" /\ Order[6] # "lidar"
      BY OrderIs
    <3>2. export.stream # 5 /\ export.stream # 6
      BY <1>1, <3>1
    <3>3. ASSUME NEW k \in {5, 6}, Rows(dataset, Order[k]) # <<>>, export.stream > k PROVE bag'.count > 0
      <4>1. bag.count > 0
        BY <2>1, <3>3 DEF ImusCounted
      <4> QED
        BY <1>7, <4>1 DEF Counting
    <3> QED
      BY <1>1, <1>5, <3>2, <3>3 DEF ImusCounted
  <2> QED
    BY <1>5, <2>4, <2>5 DEF Accepting
<1> QED
  BY <1>1, <1>8, <1>9, <1>10 DEF ReadersInv

LEMMA EndStreamKeeps ==
  ASSUME ReadersInv, ExportInv, UNCHANGED validation, EndStream
  PROVE  ReadersInv'
<1> DEFINE s == Order[export.stream]
<1>1. /\ export.pc = "rows" /\ export.error = "none" /\ export.stream \in 1 .. 10 /\ dataset \in Directories
      /\ Counting(bag) /\ UNCHANGED <<dataset, cancelled>> /\ cancelled \in BOOLEAN
      /\ (Exports(dataset, s) => export.row > Len(RowsOf(dataset, s)))
  BY OrderIs DEF EndStream, ReadersInv, Reached, ExportInv, BeforeSwap
<1>2. CASE cancelled
  <2>1. Fail("cancelled")
    BY <1>2 DEF EndStream
  <2> QED
    BY <1>1, <2>1, FailKeeps
<1>3. CASE ~cancelled
  <2>1. /\ bag' = IF export.frame.active THEN Put(bag, Cloud(export.frame)) ELSE bag
        /\ export' = [NoExport EXCEPT !.pc = IF export.stream = Len(Order) THEN "finish" ELSE "rows",
                                      !.stream = export.stream + 1]
    BY <1>3 DEF EndStream
  <2>2. /\ export'.pc = (IF export.stream = 10 THEN "finish" ELSE "rows") /\ export'.stream = export.stream + 1
        /\ export'.row = 1 /\ export'.sequence = 0 /\ export'.frame = NoFrame /\ export'.error = "none"
    BY <2>1, OrderIs DEF NoExport
  <2>3. Counting(bag') /\ bag'.count >= bag.count /\ bag.count \in Nat
    <3>1. bag.count \in Nat
      BY <1>1 DEF Counting
    <3>2. CASE export.frame.active
      BY <1>1, <2>1, <3>1, <3>2, PutCounts
    <3>3. CASE ~ export.frame.active
      BY <1>1, <2>1, <3>1, <3>3
    <3> QED
      BY <3>1, <3>2, <3>3
  <2>4. NoFrame \in Frames /\ ~ NoFrame.active
    BY DEF NoFrame, Frames
  <2>5. Judged'
    BY <1>1, JudgedKept DEF ReadersInv
  <2>6. Reached'
    <3>1. export'.stream \in 1 .. Len(Order) + 1 /\ (export'.pc = "rows" => export'.stream <= Len(Order))
          /\ (export'.pc = "finish" => export'.stream = Len(Order) + 1) /\ export'.pc \in {"rows", "finish"}
      BY <1>1, <2>2, OrderIs
    <3>2. export'.row \in Nat \ {0} /\ export'.sequence \in Nat
      BY <2>2
    <3> QED
      BY <1>1, <2>2, <2>3, <2>4, <3>1, <3>2 DEF Reached
  <2>7. ASSUME Usable(dataset) PROVE Accepting'
    <3>1. ImusCounted
      BY <1>1, <2>7 DEF ReadersInv, Accepting
    <3>2. InOrderSoFar'
      BY <2>2, <2>4 DEF InOrderSoFar, StartsBefore
    <3>3. ImusCounted'
      <4> SUFFICES ASSUME NEW k \in {5, 6}, Rows(dataset, Order[k]) # <<>>, export.stream + 1 > k
                   PROVE  bag.count > 0
        <5>1. bag.count > 0 => bag'.count > 0
          BY <2>3 DEF Counting
        <5> QED
          BY <1>1, <2>2, <5>1 DEF ImusCounted
      <4>1. CASE export.stream > k
        BY <3>1, <4>1 DEF ImusCounted
      <4>2. CASE export.stream = k
        <5>1. s \in Imus /\ s \in Files /\ s # "position" /\ s # "quality"
          BY <4>2, OrderIs
        <5>2. Exports(dataset, s) /\ RowsOf(dataset, s) = Rows(dataset, s)
          BY <5>1, ExportsIs, OrderIs
        <5>3. Rows(dataset, s) \in Seq(IndexRows) /\ Rows(dataset, s) # <<>>
          BY <1>1, <4>2, <5>1, RowsTyped
        <5>4. Len(Rows(dataset, s)) > 0
          BY <5>3
        <5>5. export.row > 1
          <6>1. export.row \in Nat /\ Len(Rows(dataset, s)) \in Nat /\ export.row > Len(Rows(dataset, s))
            BY <1>1, <5>2, <5>3 DEF ReadersInv, Reached
          <6> QED
            BY <5>4, <6>1
        <5> QED
          BY <3>1, <4>2, <5>5 DEF ImusCounted
      <4> QED
        BY <1>1, <4>1, <4>2
    <3> QED
      BY <2>2, <3>2, <3>3 DEF Accepting
  <2> QED
    BY <1>1, <2>5, <2>6, <2>7 DEF ReadersInv
<1> QED
  BY <1>2, <1>3

LEMMA FinishKeeps ==
  ASSUME ReadersInv, ExportInv, UNCHANGED validation, FinishBag
  PROVE  ReadersInv'
<1>1. /\ export.pc = "finish" /\ UNCHANGED <<dataset, cancelled>> /\ cancelled' \in BOOLEAN /\ dataset \in Directories
  BY DEF FinishBag, ReadersInv, Reached
<1>2. CASE bag.count = 0
  <2>1. ~ Usable(dataset)
    <3> SUFFICES ASSUME Usable(dataset) PROVE FALSE
      OBVIOUS
    <3>1. ImusCounted /\ export.stream = 11
      BY <1>1, OrderIs DEF ReadersInv, Accepting, Reached
    <3>2. PICK i \in Imus : TimesIn(dataset, i) # <<>>
      BY SoundParts DEF Usable, ImusSound
    <3>3. i \in Sensors
      BY DEF Imus, Sensors
    <3>4. Rows(dataset, i) # <<>>
      BY <1>1, <3>2, <3>3, UsableFacts
    <3>5. PICK k \in {5, 6} : i = Order[k]
      BY OrderIs
    <3> QED
      BY <1>2, <3>1, <3>4, <3>5 DEF ImusCounted
  <2>2. Fail("dataset")
    BY <1>2 DEF FinishBag
  <2> QED
    BY <1>1, <2>1, <2>2, FailKeeps
<1>3. CASE Fail("cancelled")
  BY <1>1, <1>3, FailKeeps
<1>4. CASE export' = [export EXCEPT !.pc = IF disk.output = "none" THEN "replace" ELSE "setAside"]
  <2>1. /\ export'.pc \in {"replace", "setAside"} /\ export'.error = export.error
        /\ export'.stream = export.stream /\ export'.row = export.row /\ export'.sequence = export.sequence
        /\ export'.frame = export.frame
    BY <1>4 DEF ExportInv, Fields, NoExport
  <2>2. export.error # "dataset"
    BY <1>1 DEF ExportInv, BeforeSwap
  <2> QED
    BY <1>1, <2>1, <2>2, LeavesRows
<1> QED
  BY <1>2, <1>3, <1>4 DEF FinishBag

LEMMA SwapKeeps ==
  ASSUME ReadersInv, ExportInv, UNCHANGED validation,
         SetAside \/ Replace \/ ReplaceFails \/ DropBackup \/ CleanUp \/ DiskFails \/ Killed
  PROVE  ReadersInv'
<1>1. UNCHANGED <<dataset, cancelled>> /\ cancelled' \in BOOLEAN
  BY DEF SetAside, Replace, ReplaceFails, DropBackup, CleanUp, DiskFails, Killed, ReadersInv, Reached
<1>2. CASE ReplaceFails \/ DiskFails
  BY <1>1, <1>2, FailKeeps DEF ReplaceFails, DiskFails
<1>3. CASE SetAside \/ Replace \/ DropBackup \/ CleanUp \/ Killed
  <2>1. \E p \in {"replace", "done", "drop", "killed"} : export' = [export EXCEPT !.pc = p]
    BY <1>3 DEF SetAside, Replace, DropBackup, CleanUp, Killed
  <2>2. /\ export'.pc \in {"replace", "done", "drop", "killed"} /\ export'.error = export.error
        /\ export'.stream = export.stream /\ export'.row = export.row /\ export'.sequence = export.sequence
        /\ export'.frame = export.frame
    BY <2>1 DEF ExportInv, Fields, NoExport
  <2>3. Usable(dataset) => export.error # "dataset"
    BY DEF ReadersInv, Accepting
  <2> QED
    BY <1>1, <2>2, <2>3, LeavesRows
<1> QED
  BY <1>2, <1>3

LEMMA ExportStays ==
  ASSUME ReadersInv, Judged', UNCHANGED <<dataset, export, bag>>, cancelled' \in BOOLEAN
  PROVE  ReadersInv'
<1>1. Reached'
  BY DEF ReadersInv, Reached
<1>2. Usable(dataset) => Accepting'
  BY DEF ReadersInv, Accepting, InOrderSoFar, ImusCounted
<1> QED
  BY <1>1, <1>2 DEF ReadersInv

LEMMA ValidationKeeps ==
  ASSUME ReadersInv, ValidateStage \/ CancelValidation
  PROVE  ReadersInv'
<1>1. UNCHANGED <<dataset, export, bag, cancelled>> /\ cancelled \in BOOLEAN
  BY DEF ValidateStage, CancelValidation, ReadersInv, Reached, exportVars
<1>2. /\ Len(Stages) = 10 /\ validation.stage \in 1 .. 11 /\ validation.errors \subseteq Range(Stages)
      /\ validation.cancelled \in BOOLEAN
      /\ validation = [stage |-> validation.stage, errors |-> validation.errors, cancelled |-> validation.cancelled]
  BY DEF ReadersInv, Judged, Stages
<1>3. CASE CancelValidation
  <2>1. validation' = [stage |-> 11, errors |-> {}, cancelled |-> TRUE]
    BY <1>2, <1>3 DEF CancelValidation
  <2> QED
    BY <1>1, <1>2, <2>1, ExportStays DEF Judged
<1>4. CASE ValidateStage
  <2> DEFINE k == validation.stage
             stage == Stages[k]
             errors == IF Sound(dataset, stage) THEN validation.errors ELSE validation.errors \cup {stage}
  <2>1. validation' = [stage |-> k + 1, errors |-> errors, cancelled |-> validation.cancelled] /\ k \in 1 .. 10
    <3>1. validation' = [validation EXCEPT !.stage = @ + 1,
                                           !.errors = IF Sound(dataset, stage) THEN @ ELSE @ \cup {stage}]
      BY <1>4, Zenon DEF ValidateStage
    <3>2. validation' = [stage |-> k + 1, errors |-> errors, cancelled |-> validation.cancelled]
      BY <1>2, <3>1, Zenon
    <3>3. ~(k > 10)
      BY <1>2, <1>4 DEF ValidateStage, Validated
    <3>4. k \in 1 .. 10
      BY <1>2, <3>3
    <3> QED
      BY <3>2, <3>4
  <2>2. stage \in Range(Stages)
    BY <1>2, <2>1 DEF Range, Stages
  <2>3. errors \subseteq Range(Stages) /\ (errors = {} => validation.errors = {} /\ Sound(dataset, stage))
    BY <1>2, <2>2
  <2> HIDE DEF errors
  <2>4. ASSUME ~ validation.cancelled, errors = {} PROVE \A j \in 1 .. k : Sound(dataset, Stages[j])
    <3>1. \A j \in 1 .. k - 1 : Sound(dataset, Stages[j])
      BY <2>3, <2>4 DEF ReadersInv, Judged
    <3>2. \A j \in 1 .. k : j \in 1 .. k - 1 \/ j = k
      BY <2>1
    <3> QED
      BY <2>3, <2>4, <3>1, <3>2
  <2>5. Judged'
    <3>1. k + 1 \in 1 .. Len(Stages) + 1 /\ k + 1 - 1 = k
      BY <1>2, <2>1
    <3> HIDE DEF k
    <3> QED
      BY <1>1, <1>2, <2>1, <2>3, <2>4, <3>1 DEF Judged
  <2> QED
    BY <1>1, <2>5, ExportStays
<1> QED
  BY <1>3, <1>4

(* How far the validation and the export are is an invariant.              *)
THEOREM ReadersCorrect == ReadersSpec => []ReadersInv
<1>1. ReadersInit => ReadersInv
  BY ReadersInitInv
<1>2. ReadersInv /\ ExportInv /\ [ReadersNext]_readersVars => ReadersInv'
  <2> SUFFICES ASSUME ReadersInv, ExportInv, [ReadersNext]_readersVars PROVE ReadersInv'
    OBVIOUS
  <2>1. CASE ValidateStage \/ CancelValidation
    BY <2>1, ValidationKeeps
  <2>2. CASE UNCHANGED readersVars \/ (PressCancel /\ UNCHANGED validation)
    <3>1. UNCHANGED <<dataset, export, bag, validation>> /\ cancelled' \in BOOLEAN
      BY <2>2, Zenon DEF readersVars, exportVars, PressCancel, ReadersInv, Reached
    <3> QED
      BY <3>1, JudgedKept, ExportStays DEF ReadersInv
  <2>3. CASE Exporting /\ UNCHANGED validation
    BY <2>3, RefuseKeeps, WriteRowKeeps, WriteLidarRowKeeps, CheckKeeps, EndStreamKeeps, FinishKeeps, SwapKeeps
       DEF Exporting
  <2>4. CASE (DiskFails \/ Killed) /\ UNCHANGED validation
    BY <2>4, SwapKeeps
  <2> QED
    BY <2>1, <2>2, <2>3, <2>4 DEF ReadersNext, ExportNext
<1> QED
  BY <1>1, <1>2, ExportCorrect, PTL DEF ReadersSpec

(* What the validator reports as valid opens in the page, and its export   *)
(* is not refused, whatever the directory, but for what the validator does *)
(* not look at: frames at all, the device and the number of a LiDAR batch  *)
(* (page), its number and its points, the storage fields of missing        *)
(* streams, the GNSS files (export).                                       *)
THEOREM UsableCorrect == ReadersSpec => []ValidIsUsable
<1>1. ReadersInv /\ ExportInv => ValidIsUsable
  <2> SUFFICES ASSUME ReadersInv, ExportInv PROVE ValidIsUsable
    OBVIOUS
  <2>1. Judged /\ Reached /\ dataset \in Directories
    BY DEF ReadersInv, Reached
  <2>2. ReadersTypeOK
    <3>1. ExportTypeOK
      BY <2>1 DEF ExportTypeOK, Reached, ExportInv, Fields, Disks, ExportPhases, ExportErrors
    <3> QED
      BY <2>1, <3>1 DEF ReadersTypeOK, Judged
  <2>3. ASSUME Valid PROVE AllSound(dataset)
    <3>1. Len(Stages) = 10 /\ validation.stage = 11
      BY <2>1, <2>3 DEF Judged, Valid, Validated, Stages
    <3> QED
      BY <2>1, <2>3, <3>1 DEF Judged, Valid, AllSound
  <2>4. Valid /\ Opens(dataset) => LegacyLoads(PageView(dataset))
    BY <2>1, <2>3, ValidLoads
  <2>5. Valid /\ Exportable(dataset) => export.error # "dataset"
    BY <2>3 DEF Usable, ReadersInv, Accepting
  <2> QED
    BY <2>2, <2>4, <2>5 DEF ValidIsUsable
<1> QED
  BY <1>1, ReadersCorrect, ExportCorrect, PTL

--------------------------------------------------------------------------------
(***************************************************************************)
(* The CORS session.                                                       *)
(***************************************************************************)
(* Where a session has got to says what it has told the module.  Only a    *)
(* session that has recorded its attempt can own a running module, and one *)
(* that has recorded it passes StopRtk on its way to the end.              *)
Earlier == {"none", "port", "save", "start"}
Over   == {"finish", "report", "ended"}

OwnerInv ==
  /\ worker.pc # "none" => count.sessions # 0
  /\ module.owner <= count.sessions
  /\ worker.pc \in {"poll", "wait", "status", "stop"} => worker.attempted
  /\ worker.pc \in Earlier => ~worker.attempted
  /\ worker.pc # "none" /\ module.running /\ module.owner = count.sessions => worker.attempted
  /\ worker.pc \in Over /\ worker.attempted => worker.tried
  /\ worker.pc \in Over /\ worker.attempted /\ module.running /\ module.owner = count.sessions
       => worker.phase = "error"

WorkerRecord ==
  [pc : Worker, attempted : BOOLEAN, tried : BOOLEAN, saved : 0 .. MaxGeneration, live : Status,
   phase : Phases]
ModuleRecord ==
  [running : BOOLEAN, savedGeneration : 1 .. MaxGeneration, generation : 0 .. MaxGeneration,
   owner : 0 .. MaxSessions]
CountRecord == [sessions : 0 .. MaxSessions, others : 0 .. MaxOthers, polls : 0 .. MaxPolls]

OwnerTypes == worker \in WorkerRecord /\ module \in ModuleRecord /\ count \in CountRecord

\* A start that waits for the session before it has a session left to start.
StartPending == gui = "starting" => count.sessions < MaxSessions

IInv == OwnerTypes /\ StartPending /\ OwnerInv

--------------------------------------------------------------------------------
LEMMA BoundsTyped ==
  MaxSessions \in Nat /\ MaxGeneration \in Nat \ {0} /\ MaxOthers \in Nat /\ MaxPolls \in Nat
  BY BoundsAssumption

LEMMA NoStatusType == NoStatus \in Status
  BY DEF NoStatus, Status

LEMMA AnswerType == ASSUME NEW m, NEW s \in Answer(m) PROVE s \in Status
  BY DEF Answer

LEMMA IdleType == ASSUME NEW p \in Worker, NEW f \in Phases
                  PROVE Idle \in WorkerRecord /\ [Idle EXCEPT !.pc = p, !.phase = f] \in WorkerRecord
<1>1. Idle \in WorkerRecord
  BY BoundsTyped, NoStatusType DEF Idle, WorkerRecord, Worker, Phases
<1>2. [Idle EXCEPT !.pc = p, !.phase = f] \in WorkerRecord
  BY <1>1, Zenon DEF WorkerRecord
<1> QED
  BY <1>1, <1>2

--------------------------------------------------------------------------------
(* The initial states.                                                     *)
LEMMA InitIInv == Init => IInv
<1> SUFFICES ASSUME Init PROVE IInv
  OBVIOUS
<1>1. worker \in WorkerRecord
  BY IdleType DEF Init, Worker, Phases
<1>2. module \in ModuleRecord /\ module.running = FALSE /\ module.owner = 0
  <2>1. module \in [running : {FALSE}, savedGeneration : {1}, generation : {0}, owner : {0}]
    BY DEF Init
  <2>2. {FALSE} \subseteq BOOLEAN /\ {1} \subseteq 1 .. MaxGeneration /\ {0} \subseteq 0 .. MaxGeneration
        /\ {0} \subseteq 0 .. MaxSessions
    BY BoundsTyped
  <2>3. module \in ModuleRecord
    BY <2>1, <2>2, Zenon DEF ModuleRecord
  <2> QED
    BY <2>1, <2>3
<1>3. count \in CountRecord
  BY BoundsTyped DEF Init, CountRecord
<1>4. OwnerInv
  BY BoundsTyped, <1>2 DEF Init, Idle, OwnerInv, Earlier, Over
<1>5. StartPending
  BY DEF Init, StartPending
<1> QED
  BY <1>1, <1>2, <1>3, <1>4, <1>5 DEF IInv, OwnerTypes

(* What a step may do to the worker: where it goes, and its locals.        *)
LEMMA TypesKept ==
  ASSUME OwnerTypes
  PROVE  /\ worker.attempted \in BOOLEAN /\ worker.tried \in BOOLEAN
         /\ worker.saved \in 0 .. MaxGeneration /\ worker.phase \in Phases
         /\ worker.live \in Status /\ worker.pc \in Worker
         /\ module.savedGeneration \in 1 .. MaxGeneration /\ module.running \in BOOLEAN
         /\ module.generation \in 0 .. MaxGeneration /\ module.owner \in 0 .. MaxSessions
         /\ count.sessions \in 0 .. MaxSessions /\ count.others \in 0 .. MaxOthers
         /\ count.polls \in 0 .. MaxPolls
  BY DEF OwnerTypes, WorkerRecord, ModuleRecord, CountRecord

LEMMA GoesType == ASSUME OwnerTypes, NEW p \in Worker, Goes(p)
                  PROVE worker' \in WorkerRecord
  BY NoStatusType, Zenon DEF Goes, OwnerTypes, WorkerRecord

LEMMA ThrowType == ASSUME OwnerTypes, Throw
                   PROVE worker' \in WorkerRecord
<1>1. Handler \in Worker /\ "error" \in Phases
  BY DEF Handler, Worker, Phases
<1> QED
  BY <1>1, NoStatusType, Zenon DEF Throw, OwnerTypes, WorkerRecord

(* Every step keeps the types.                                             *)
LEMMA TypeStep == ASSUME OwnerTypes, StartPending, [Next]_vars PROVE OwnerTypes'
<1> USE BoundsTyped, NoStatusType, TypesKept
<1>0. /\ {"finish", "save", "stop", "start", "poll", "wait", "status", "report", "ended", "port"} \subseteq Worker
      /\ {"error", "streaming", "connecting", "disconnected", "starting"} \subseteq Phases
      /\ worker \in WorkerRecord /\ module \in ModuleRecord /\ count \in CountRecord
  BY DEF Worker, Phases, OwnerTypes
<1>1. worker' = worker => worker' \in WorkerRecord
  BY <1>0
<1>2. module' = module => module' \in ModuleRecord
  BY <1>0
<1>3. count' = count => count' \in CountRecord
  BY <1>0
<1>4. CASE QueryPort \/ Wait
  <2>1. worker' \in WorkerRecord
    BY <1>0, <1>4, GoesType, ThrowType DEF QueryPort, Wait
  <2> QED
    BY <1>2, <1>3, <1>4, <2>1 DEF QueryPort, Wait, Local, OwnerTypes
<1>5. CASE SaveAccount
  <2>1. CASE Throw /\ UNCHANGED module
    BY <1>2, <1>3, <1>5, <2>1, ThrowType DEF SaveAccount, OwnerTypes
  <2>2. CASE module.savedGeneration < MaxGeneration /\ module' = [module EXCEPT !.savedGeneration = NextGeneration]
    <3>1. NextGeneration \in 1 .. MaxGeneration /\ NextGeneration \in 0 .. MaxGeneration
      BY <2>2 DEF NextGeneration
    <3>2. module' \in ModuleRecord
      BY <1>0, <2>2, <3>1 DEF ModuleRecord
    <3>3. CASE Throw
      BY <1>3, <1>5, <3>2, <3>3, ThrowType DEF SaveAccount, OwnerTypes
    <3>4. CASE worker' = [worker EXCEPT !.pc = IF stopRequested THEN "finish" ELSE "start",
                                       !.saved = NextGeneration]
      <4>1. (IF stopRequested THEN "finish" ELSE "start") \in Worker
        BY <1>0
      <4>2. worker' \in WorkerRecord
        BY <1>0, <3>1, <3>4, <4>1, Zenon DEF WorkerRecord
      <4> QED
        BY <1>3, <1>5, <3>2, <4>2 DEF SaveAccount, OwnerTypes
    <3> QED
      BY <1>5, <2>2, <3>3, <3>4 DEF SaveAccount
  <2> QED
    BY <1>5, <2>1, <2>2 DEF SaveAccount
<1>6. CASE StartRtk
  <2>0. Attempted(FALSE) = TRUE /\ Attempted(TRUE) = TRUE
    BY DEF Attempted
  <2>1. ASSUME worker' = [worker EXCEPT !.pc = "stop", !.attempted = TRUE, !.phase = "error"]
        PROVE worker' \in WorkerRecord
    BY <1>0, <2>1, Zenon DEF WorkerRecord
  <2>2. ASSUME NEW s \in Status, worker' = [worker EXCEPT !.pc = "poll", !.attempted = TRUE, !.live = s]
        PROVE worker' \in WorkerRecord
    BY <1>0, <2>2, Zenon DEF WorkerRecord
  <2>3. worker' \in WorkerRecord
    BY <1>6, <2>0, <2>1, <2>2, AnswerType DEF StartRtk
  <2>4. [module EXCEPT !.running = TRUE, !.generation = worker.saved, !.owner = count.sessions]
          \in ModuleRecord
    BY <1>0, Zenon DEF ModuleRecord
  <2>5. module' \in ModuleRecord
    BY <1>2, <1>6, <2>4 DEF StartRtk
  <2> QED
    BY <1>3, <1>6, <2>3, <2>5 DEF StartRtk, Local, OwnerTypes
<1>7. CASE Poll
  <2>1. ASSUME NEW f \in Phases, worker' = [worker EXCEPT !.pc = "wait", !.phase = f, !.live = NoStatus]
        PROVE worker' \in WorkerRecord
    BY <1>0, <2>1, Zenon DEF WorkerRecord
  <2>2. Goes("stop") \/ Throw
          \/ \E f \in Phases : worker' = [worker EXCEPT !.pc = "wait", !.phase = f, !.live = NoStatus]
    BY <1>0, <1>7, Zenon DEF Poll
  <2>3. worker' \in WorkerRecord
    BY <1>0, <2>1, <2>2, GoesType, ThrowType
  <2>4. count' = count \/ (count.polls < MaxPolls /\ count' = [count EXCEPT !.polls = @ + 1])
    BY <1>7 DEF Poll
  <2>5. count' \in CountRecord
    BY <1>0, <2>4 DEF CountRecord
  <2> QED
    BY <1>2, <1>7, <2>3, <2>5 DEF Poll, OwnerTypes
<1>8. CASE QueryStatus
  <2>1. ASSUME NEW s \in Status, worker' = [worker EXCEPT !.pc = "poll", !.live = s]
        PROVE worker' \in WorkerRecord
    BY <1>0, <2>1, Zenon DEF WorkerRecord
  <2>2. worker' \in WorkerRecord
    BY <1>8, <2>1, ThrowType, AnswerType DEF QueryStatus
  <2> QED
    BY <1>2, <1>3, <1>8, <2>2 DEF QueryStatus, Local, OwnerTypes
<1>9. CASE StopRtk
  <2>1. ASSUME NEW f \in Phases, worker' = [worker EXCEPT !.pc = "finish", !.tried = TRUE, !.phase = f]
        PROVE worker' \in WorkerRecord
    BY <1>0, <2>1, Zenon DEF WorkerRecord
  <2>2. PICK confirmed \in BOOLEAN, reached \in BOOLEAN :
          /\ module' = IF reached THEN [module EXCEPT !.running = FALSE, !.owner = 0] ELSE module
          /\ worker' = [worker EXCEPT !.pc = "finish", !.tried = TRUE,
                                      !.phase = IF confirmed THEN worker.phase ELSE "error"]
    BY <1>9 DEF StopRtk
  <2>3. worker' \in WorkerRecord
    <3>1. (IF confirmed THEN worker.phase ELSE "error") \in Phases
      BY <1>0
    <3> QED
      BY <2>1, <2>2, <3>1
  <2>4. 0 \in 0 .. MaxSessions
    OBVIOUS
  <2>5. [module EXCEPT !.running = FALSE, !.owner = 0] \in ModuleRecord
    BY <1>0, <2>4, Zenon DEF ModuleRecord
  <2>6. module' \in ModuleRecord
    BY <1>0, <2>2, <2>5
  <2> QED
    BY <1>3, <1>9, <2>3, <2>6 DEF StopRtk, Local, OwnerTypes
<1>10. CASE Finish \/ Report
  <2>1. EndPhase \in Phases
    BY <1>0 DEF EndPhase
  <2>2. ASSUME worker' = [worker EXCEPT !.pc = "report", !.phase = EndPhase]
        PROVE worker' \in WorkerRecord
    BY <1>0, <2>1, <2>2, Zenon DEF WorkerRecord
  <2>3. worker' \in WorkerRecord
    BY <1>0, <1>10, <2>2, GoesType DEF Finish, Report
  <2> QED
    BY <1>2, <1>3, <1>10, <2>3 DEF Finish, Report, Local, OwnerTypes
<1>11. CASE StartJoined
  <2>1. Idle \in WorkerRecord /\ [Idle EXCEPT !.pc = "port", !.phase = "starting"] \in WorkerRecord
    BY <1>0, IdleType
  <2>3. count' \in CountRecord
    BY <1>0, <1>11 DEF StartJoined, CountRecord, StartPending
  <2> QED
    BY <1>2, <1>11, <2>1, <2>3, Zenon DEF StartJoined, OwnerTypes
<1>12. CASE StopJoined \/ CloseJoined
  <2>1. worker' \in WorkerRecord
    BY <1>0, <1>12, IdleType DEF StopJoined, CloseJoined
  <2> QED
    BY <1>2, <1>3, <1>12, <2>1 DEF StopJoined, CloseJoined, OwnerTypes
<1>13. CASE \/ BeginStart \/ BeginStop \/ BeginClose \/ Reopen \/ Deliver \/ CaptureFails
            \/ CaptureCloses \/ UNCHANGED vars
  <2>1. UNCHANGED <<worker, module, count>>
    BY <1>13 DEF BeginStart, BeginStop, BeginClose, Reopen, Deliver, CaptureFails, CaptureCloses, vars
  <2> QED
    BY <1>1, <1>2, <1>3, <2>1 DEF OwnerTypes
<1>14. CASE OtherClient
  <2>0. 0 \in 0 .. MaxSessions /\ module.savedGeneration \in 0 .. MaxGeneration
    OBVIOUS
  <2>1. [module EXCEPT !.running = FALSE, !.owner = 0] \in ModuleRecord
    BY <1>0, <2>0, Zenon DEF ModuleRecord
  <2>2. module.savedGeneration < MaxGeneration =>
          [module EXCEPT !.savedGeneration = module.savedGeneration + 1] \in ModuleRecord
    BY <1>0 DEF ModuleRecord
  <2>3. [module EXCEPT !.running = TRUE, !.owner = 0, !.generation = module.savedGeneration]
          \in ModuleRecord
    BY <1>0, <2>0, Zenon DEF ModuleRecord
  <2>4. module' \in ModuleRecord
    BY <1>14, <2>1, <2>2, <2>3 DEF OtherClient
  <2>5. count' \in CountRecord
    BY <1>0, <1>14 DEF OtherClient, CountRecord
  <2> QED
    BY <1>1, <1>14, <2>4, <2>5 DEF OtherClient, OwnerTypes
<1> QED
  BY <1>4, <1>5, <1>6, <1>7, <1>8, <1>9, <1>10, <1>11, <1>12, <1>13, <1>14
  DEF Next, WorkerStep, GuiStep

(* No step starts a session but the one that was waited for.               *)
LEMMA PendingStep == ASSUME OwnerTypes, StartPending, [Next]_vars PROVE StartPending'
<1> USE BoundsTyped, TypesKept DEF StartPending
<1>1. count'.sessions = count.sessions \/ gui' = "idle"
  <2>1. CASE Poll \/ OtherClient
    BY <2>1 DEF Poll, OtherClient, Goes, Throw, OwnerTypes, CountRecord
  <2> QED
    BY <2>1 DEF Next, WorkerStep, GuiStep, QueryPort, SaveAccount, StartRtk, Wait, QueryStatus, StopRtk,
      Finish, Report, Local, BeginStart, StartJoined, BeginStop, StopJoined, BeginClose, CloseJoined,
      Reopen, Deliver, CaptureFails, CaptureCloses, vars
<1>2. gui' = "starting" => gui = "starting" \/ count.sessions < MaxSessions
  BY DEF Next, WorkerStep, GuiStep, QueryPort, SaveAccount, StartRtk, Poll, OtherClient, Wait, QueryStatus,
    StopRtk, Finish, Report, Local, BeginStart, StartJoined, BeginStop, StopJoined, BeginClose,
    CloseJoined, Reopen, Deliver, CaptureFails, CaptureCloses, vars
<1> QED
  BY <1>1, <1>2

(* The steps of the worker and of the GUI keep the account of the module's *)
(* owner.                                                                  *)
LEMMA OwnerStep == ASSUME IInv, [Next]_vars PROVE OwnerInv'
<1> USE BoundsTyped DEF IInv, OwnerTypes, WorkerRecord, ModuleRecord, CountRecord, OwnerInv, Earlier, Over
<1>0. ASSUME Throw PROVE /\ worker'.pc = Handler /\ worker'.phase = "error"
                         /\ worker'.attempted = worker.attempted /\ worker'.tried = worker.tried
  BY <1>0 DEF Throw
<1>1. ASSUME NEW p \in Worker, Goes(p)
      PROVE /\ worker'.pc = p /\ worker'.phase = worker.phase
            /\ worker'.attempted = worker.attempted /\ worker'.tried = worker.tried
  BY <1>1 DEF Goes
<1>2. CASE QueryPort
  <2>1. CASE Throw
    BY <1>0, <1>2, <2>1 DEF QueryPort, Handler, Local
  <2>2. CASE Goes(IF stopRequested THEN "finish" ELSE "save")
    BY <1>1, <1>2, <2>2 DEF QueryPort, Local, Worker
  <2> QED
    BY <1>2, <2>1, <2>2 DEF QueryPort
<1>3. CASE SaveAccount
  <2>1. module'.running = module.running /\ module'.owner = module.owner
    BY <1>3 DEF SaveAccount
  <2>2. CASE Throw
    BY <1>0, <1>3, <2>1, <2>2 DEF SaveAccount, Handler
  <2>3. CASE worker' = [worker EXCEPT !.pc = IF stopRequested THEN "finish" ELSE "start",
                                     !.saved = NextGeneration]
    <3>1. worker'.pc \in {"finish", "start"} /\ worker'.attempted = worker.attempted
      BY <2>3
    <3> QED
      BY <1>3, <2>1, <3>1 DEF SaveAccount
  <2> QED
    BY <1>3, <2>2, <2>3 DEF SaveAccount
<1>4. CASE StartRtk
  <2>1. worker'.pc \in {"stop", "poll"} /\ worker'.attempted = TRUE
    BY <1>4, ZenonT(30) DEF StartRtk, Attempted
  <2>2. ASSUME module' = [module EXCEPT !.running = TRUE, !.generation = worker.saved,
                                        !.owner = count.sessions]
        PROVE module'.owner <= count.sessions
    BY <2>2
  <2>3. module'.owner <= count.sessions
    BY <1>4, <2>2, Zenon DEF StartRtk
  <2> QED
    BY <1>4, <2>1, <2>3 DEF StartRtk, Local
<1>5. CASE Poll
  <2>1. worker'.attempted = worker.attempted /\ worker'.pc \in {"stop", "wait"}
    BY <1>5, ZenonT(30) DEF Poll, Goes, Throw, Handler
  <2>2. count'.sessions = count.sessions
    BY <1>5 DEF Poll
  <2> QED
    BY <1>5, <2>1, <2>2 DEF Poll
<1>6. CASE Wait
  <2>1. worker'.pc \in {"stop", "status"} /\ worker'.attempted = worker.attempted
    BY <1>6 DEF Wait, Goes
  <2> QED
    BY <1>6, <2>1 DEF Wait, Local
<1>7. CASE QueryStatus
  <2>1. worker'.attempted = worker.attempted /\ worker'.pc \in {"stop", "poll"}
    BY <1>7 DEF QueryStatus, Throw, Handler
  <2> QED
    BY <1>7, <2>1 DEF QueryStatus, Local
<1>8. CASE StopRtk
  <2>1. worker'.pc = "finish" /\ worker'.tried = TRUE /\ worker'.attempted = worker.attempted
    BY <1>8 DEF StopRtk
  <2>2. module' = module \/ (module'.owner = 0 /\ module'.running = FALSE)
    <3>1. ASSUME module' = [module EXCEPT !.running = FALSE, !.owner = 0]
          PROVE module'.owner = 0 /\ module'.running = FALSE
      BY <3>1
    <3>2. module' = [module EXCEPT !.running = FALSE, !.owner = 0] \/ module' = module
      BY <1>8, Zenon DEF StopRtk
    <3> QED
      BY <3>1, <3>2
  <2> QED
    BY <1>8, <2>1, <2>2 DEF StopRtk, Local
<1>9. CASE Finish \/ Report
  <2>1. /\ worker'.pc \in {"report", "ended"} /\ worker'.attempted = worker.attempted
        /\ worker'.tried = worker.tried /\ (worker.phase = "error" => worker'.phase = "error")
    <3>1. CASE Finish
      BY <3>1 DEF Finish, EndPhase
    <3>2. CASE Report
      BY <3>2 DEF Report, Goes
    <3> QED
      BY <1>9, <3>1, <3>2
  <2> QED
    BY <1>9, <2>1 DEF Finish, Report, Local
<1>10. CASE StartJoined
  <2>1. CASE worker' = [Idle EXCEPT !.pc = "port", !.phase = "starting"]
               /\ count' = [count EXCEPT !.sessions = @ + 1]
    <3>1. worker'.pc = "port" /\ worker'.attempted = FALSE
      BY <2>1 DEF Idle
    <3>2. count'.sessions = count.sessions + 1
      BY <2>1
    <3> QED
      BY <1>10, <3>1, <3>2 DEF StartJoined
  <2>2. CASE worker' = Idle /\ UNCHANGED count
    BY <1>10, <2>2 DEF StartJoined, Idle
  <2> QED
    BY <1>10, <2>1, <2>2 DEF StartJoined
<1>11. CASE StopJoined \/ CloseJoined
  BY <1>11 DEF StopJoined, CloseJoined, Idle
<1>12. CASE \/ BeginStart \/ BeginStop \/ BeginClose \/ Reopen \/ Deliver \/ CaptureFails
            \/ CaptureCloses \/ UNCHANGED vars
  BY <1>12 DEF BeginStart, BeginStop, BeginClose, Reopen, Deliver, CaptureFails, CaptureCloses, vars
<1>13. CASE OtherClient
  <2>1. worker' = worker /\ count'.sessions = count.sessions
    BY <1>13 DEF OtherClient
  <2>2. module'.owner = 0 \/ (module'.owner = module.owner /\ module'.running = module.running)
    BY <1>13 DEF OtherClient
  <2> QED
    BY <2>1, <2>2
<1> QED
  BY <1>2, <1>3, <1>4, <1>5, <1>6, <1>7, <1>8, <1>9, <1>10, <1>11, <1>12, <1>13
  DEF Next, WorkerStep, GuiStep

(* The inductive invariant holds in every reachable state.                 *)
THEOREM OwnerCorrect == Spec => []IInv
<1>1. Init => IInv
  BY InitIInv
<1>2. IInv /\ [Next]_vars => IInv'
  BY TypeStep, PendingStep, OwnerStep DEF IInv
<1> QED
  BY <1>1, <1>2, PTL DEF Spec

(* What README promises of a connection: whatever the commands do, and     *)
(* whoever else uses the module, a session that has ended while the module *)
(* still runs for it has sent its stop command and reports an error.       *)
THEOREM LeftRunningCorrect == Spec => []LeftRunningIsReported
<1>1. IInv => LeftRunningIsReported
  BY DEF IInv, OwnerInv, LeftRunningIsReported, Over
<1> QED
  BY <1>1, OwnerCorrect, PTL

--------------------------------------------------------------------------------
(* The panel.  An end state comes with the last post, and active_ falls    *)
(* before it: what is still queued decides, or what was shown when nothing *)
(* is.                                                                     *)
EndPhases == {"disconnected", "error"}
Done == {"none", "ended"}

RestTypes ==
  /\ stopRequested \in BOOLEAN /\ active \in BOOLEAN /\ shownActive \in BOOLEAN
  /\ deviceOpen \in BOOLEAN
  /\ posts \in Seq(Phases) /\ panel \in Phases /\ latest \in Phases
  /\ gui \in {"idle"} \union Joins /\ capture \in {"streaming", "failed", "done"}

PanelInv ==
  /\ active <=> worker.pc \notin Done \union {"report"}
  /\ worker.pc = "report" => worker.phase \in EndPhases
  /\ worker.pc \in Done =>
       IF posts = <<>> THEN panel \in EndPhases /\ ~shownActive ELSE posts[Len(posts)] \in EndPhases

LEMMA PostsAppended ==
  ASSUME posts \in Seq(Phases), NEW f \in Phases, Publish(f)
  PROVE  posts' \in Seq(Phases) /\ posts' # <<>> /\ posts'[Len(posts')] = f
<1>1. /\ posts' \in Seq(Phases) /\ Len(posts') = Len(posts) + 1
      /\ posts'[Len(posts) + 1] = f /\ Len(posts) \in Nat
  BY AppendProperties DEF Publish
<1> QED
  BY <1>1

(* The steps of the worker tell the panel nothing but posts, of which the  *)
(* last is an end.                                                         *)
LEMMA PanelWorkerStep ==
  ASSUME OwnerTypes, RestTypes, PanelInv, WorkerStep
  PROVE  RestTypes' /\ PanelInv'
<1>1. /\ stopRequested' = stopRequested /\ panel' = panel /\ latest' = latest
      /\ shownActive' = shownActive /\ gui' = gui /\ capture' = capture
      /\ deviceOpen' = deviceOpen
  BY DEF WorkerStep, QueryPort, SaveAccount, StartRtk, Poll, Wait, QueryStatus, StopRtk, Finish,
         Report, Local
<1>2. worker \in WorkerRecord /\ worker.phase \in Phases /\ posts \in Seq(Phases)
  BY DEF OwnerTypes, WorkerRecord, RestTypes
<1>3. Throw => worker'.pc \in {"stop", "finish"}
  BY <1>2 DEF Throw, Handler, WorkerRecord
<1>4. \A q : Goes(q) => worker'.pc = q
  BY <1>2 DEF Goes, WorkerRecord
<1>5. CASE QueryPort \/ SaveAccount \/ StartRtk \/ Wait \/ QueryStatus \/ StopRtk
  <2>1. worker.pc \notin Done \union {"report"} /\ active' = active /\ posts' = posts
    BY <1>5 DEF QueryPort, SaveAccount, StartRtk, Wait, QueryStatus, StopRtk, Done
  <2>2. worker'.pc \notin Done \union {"report"}
    <3>1. CASE QueryPort \/ Wait \/ QueryStatus
      BY <1>2, <1>3, <1>4, <3>1 DEF QueryPort, Wait, QueryStatus, WorkerRecord, Done
    <3>2. CASE SaveAccount
      BY <1>2, <1>3, <3>2 DEF SaveAccount, WorkerRecord, Done
    <3>3. CASE StartRtk
      BY <1>2, <3>3 DEF StartRtk, WorkerRecord, Done
    <3>4. CASE StopRtk
      BY <1>2, <3>4 DEF StopRtk, WorkerRecord, Done
    <3> QED
      BY <1>5, <3>1, <3>2, <3>3, <3>4
  <2> QED
    BY <1>1, <2>1, <2>2 DEF RestTypes, PanelInv
<1>6. CASE Poll
  <2>1. worker.pc \notin Done \union {"report"} /\ active' = active
    BY <1>6 DEF Poll, Done
  <2>2. worker'.pc \notin Done \union {"report"}
    BY <1>2, <1>3, <1>4, <1>6 DEF Poll, WorkerRecord, Done
  <2>3. posts' = posts \/ \E f \in {"streaming", "connecting"} : Publish(f)
    BY <1>6 DEF Poll
  <2>4. posts' \in Seq(Phases)
    BY <1>2, <2>3, PostsAppended DEF Phases
  <2> QED
    BY <1>1, <2>1, <2>2, <2>4 DEF RestTypes, PanelInv
<1>7. CASE Finish
  <2>1. active' = FALSE /\ posts' = posts
    BY <1>7 DEF Finish
  <2>2. worker'.pc = "report" /\ worker'.phase \in EndPhases
    BY <1>2, <1>7 DEF Finish, EndPhase, EndPhases, WorkerRecord
  <2> QED
    BY <1>1, <2>1, <2>2 DEF RestTypes, PanelInv, Done
<1>8. CASE Report
  <2>1. worker.pc = "report" /\ active' = active /\ Publish(worker.phase)
    BY <1>8 DEF Report
  <2>2. worker'.pc = "ended"
    BY <1>4, <1>8 DEF Report
  <2>3. posts' \in Seq(Phases) /\ posts' # <<>> /\ posts'[Len(posts')] = worker.phase
    BY <1>2, <2>1, PostsAppended
  <2> QED
    BY <1>1, <2>1, <2>2, <2>3 DEF RestTypes, PanelInv, Done
<1> QED
  BY <1>5, <1>6, <1>7, <1>8 DEF WorkerStep

(* The GUI: a delivery shows the oldest post with active_ as it is then, a *)
(* join is over when the worker has sent its last post.                    *)
LEMMA PanelGuiStep ==
  ASSUME OwnerTypes, RestTypes, PanelInv, GuiStep
  PROVE  RestTypes' /\ PanelInv'
<1>1. worker \in WorkerRecord /\ posts \in Seq(Phases) /\ Idle.pc = "none"
  BY DEF OwnerTypes, RestTypes, Idle
<1>2. CASE BeginStart \/ BeginStop \/ BeginClose \/ Reopen
  <2>1. /\ worker' = worker /\ posts' = posts /\ active' = active /\ latest' = latest
        /\ shownActive' = shownActive /\ capture' = capture
    BY <1>2 DEF BeginStart, BeginStop, BeginClose, Reopen
  <2>2. ShowStopping => panel' = panel \/ (active /\ panel' = "stopping")
    BY DEF ShowStopping
  <2>3. panel' = panel \/ (active /\ panel' = "stopping")
    BY <1>2, <2>2 DEF BeginStart, BeginStop, BeginClose, Reopen
  <2>4. /\ stopRequested' \in BOOLEAN /\ deviceOpen' \in BOOLEAN
        /\ gui' \in {"idle"} \union Joins
    BY <1>2 DEF BeginStart, BeginStop, BeginClose, Reopen, RestTypes, Joins, ClosesSession
  <2> QED
    BY <2>1, <2>4, <2>3 DEF RestTypes, PanelInv, Phases
<1>3. CASE StartJoined
  <2>1. /\ worker.pc \in Done /\ gui' = "idle" /\ capture' = capture /\ deviceOpen' = deviceOpen
    BY <1>3 DEF StartJoined, Joined, Done
  <2>2. CASE /\ stopRequested' = FALSE /\ active' = TRUE /\ shownActive' = TRUE
             /\ worker' = [Idle EXCEPT !.pc = "port", !.phase = "starting"]
             /\ Publish("starting") /\ UNCHANGED <<panel, latest>>
    <3>1. worker'.pc = "port"
      BY <2>2 DEF Idle
    <3>2. posts' \in Seq(Phases)
      BY <1>1, <2>2, PostsAppended DEF Phases
    <3> QED
      BY <2>1, <2>2, <3>1, <3>2 DEF RestTypes, PanelInv, Done
  <2>3. CASE /\ active' = FALSE /\ shownActive' = FALSE /\ worker' = Idle
             /\ panel' = "error" /\ latest' = "error" /\ UNCHANGED <<stopRequested, posts>>
    BY <1>1, <2>1, <2>3 DEF RestTypes, PanelInv, Done, EndPhases, Phases
  <2> QED
    BY <1>3, <2>2, <2>3 DEF StartJoined
<1>4. CASE StopJoined \/ CloseJoined
  <2>1. /\ worker.pc \in Done /\ gui' = "idle" /\ active' = FALSE /\ shownActive' = FALSE
        /\ worker' = Idle /\ posts' = posts /\ panel' = panel /\ latest' = latest
        /\ stopRequested' = stopRequested
    BY <1>4 DEF StopJoined, CloseJoined, Joined, Done
  <2>2. capture' \in {"streaming", "failed", "done"} /\ deviceOpen' \in BOOLEAN
    BY <1>4 DEF StopJoined, CloseJoined, RestTypes
  <2> QED
    BY <1>1, <2>1, <2>2 DEF RestTypes, PanelInv, Done
<1>5. CASE Deliver
  <2>1. /\ posts # <<>> /\ posts' = Tail(posts) /\ panel' = Head(posts)
        /\ latest' = Head(posts) /\ shownActive' = active /\ active' = active
        /\ worker' = worker /\ stopRequested' = stopRequested /\ gui' = gui
        /\ capture' = capture /\ deviceOpen' = deviceOpen
    BY <1>5 DEF Deliver, Refreshed
  <2>2. /\ Head(posts) \in Phases /\ Tail(posts) \in Seq(Phases)
        /\ Head(posts) = posts[1] /\ Len(posts) \in Nat \ {0}
        /\ Len(Tail(posts)) = Len(posts) - 1
        /\ \A i \in 1 .. Len(Tail(posts)) : Tail(posts)[i] = posts[i + 1]
    BY <1>1, <2>1, HeadTailProperties
  <2>3. RestTypes'
    BY <2>1, <2>2 DEF RestTypes
  <2>4. ASSUME worker.pc \in Done
        PROVE  IF posts' = <<>> THEN panel' \in EndPhases /\ ~shownActive' ELSE posts'[Len(posts')] \in EndPhases
    <3>1. posts[Len(posts)] \in EndPhases /\ ~active
      BY <2>1, <2>4 DEF PanelInv
    <3>2. CASE Len(posts) = 1
      BY <2>1, <2>2, <3>1, <3>2
    <3>3. CASE Len(posts) # 1
      <4>1. PICK n \in Nat : n = Len(posts)
        BY <2>2
      <4>2. n # 0 /\ n # 1 /\ Len(posts') = n - 1
        BY <2>1, <2>2, <3>3, <4>1
      <4>3. n - 1 \in 1 .. n - 1 /\ n - 1 + 1 = n /\ n - 1 # 0
        BY <4>2
      <4>4. posts' # <<>>
        BY <4>2, <4>3
      <4>5. posts' # <<>> /\ Len(posts') \in 1 .. Len(posts') /\ Len(posts') + 1 = Len(posts)
        BY <4>1, <4>2, <4>3, <4>4
      <4>6. posts'[Len(posts')] = posts[Len(posts)]
        BY <2>1, <2>2, <4>5
      <4> QED
        BY <3>1, <4>5, <4>6
    <3> QED
      BY <3>2, <3>3
  <2> QED
    BY <2>1, <2>3, <2>4 DEF PanelInv
<1> QED
  BY <1>2, <1>3, <1>4, <1>5 DEF GuiStep

LEMMA PanelStep ==
  ASSUME OwnerTypes, RestTypes, PanelInv, [Next]_vars
  PROVE  RestTypes' /\ PanelInv'
<1>1. CASE CaptureFails \/ CaptureCloses \/ OtherClient \/ UNCHANGED vars
  <2>1. /\ worker' = worker /\ posts' = posts /\ active' = active /\ latest' = latest
        /\ shownActive' = shownActive /\ panel' = panel /\ gui' = gui
    BY <1>1 DEF CaptureFails, CaptureCloses, OtherClient, vars
  <2>2. /\ stopRequested' \in BOOLEAN /\ deviceOpen' \in BOOLEAN
        /\ capture' \in {"streaming", "failed", "done"}
    BY <1>1 DEF CaptureFails, CaptureCloses, OtherClient, vars, RestTypes
  <2> QED
    BY <2>1, <2>2 DEF RestTypes, PanelInv
<1> QED
  BY <1>1, PanelWorkerStep, PanelGuiStep DEF Next

(* The types and the account of the panel hold in every reachable state.   *)
THEOREM PanelCorrect == Spec => [](OwnerTypes /\ RestTypes /\ PanelInv)
<1>1. Init => RestTypes /\ PanelInv
  <2> SUFFICES ASSUME Init PROVE RestTypes /\ PanelInv
    OBVIOUS
  <2>1. RestTypes
    <3>1. posts \in Seq(Phases)
      BY DEF Init
    <3> QED
      BY <3>1 DEF Init, RestTypes, Phases
  <2>2. worker.pc = "none"
    BY DEF Init, Idle
  <2>3. PanelInv
    BY <2>2 DEF Init, PanelInv, Done, EndPhases
  <2> QED
    BY <2>1, <2>3
<1>2. IInv /\ RestTypes /\ PanelInv /\ [Next]_vars => RestTypes' /\ PanelInv'
  BY PanelStep DEF IInv
<1>3. IInv => OwnerTypes
  BY DEF IInv
<1> QED
  BY <1>1, <1>2, <1>3, OwnerCorrect, PTL DEF Spec

(* Once a session is over and its statuses are delivered, the panel shows  *)
(* an end state and the controls know that nothing is active, in whatever  *)
(* order the thread ended, buttons were pressed and posts arrived.         *)
THEOREM SettledCorrect == Spec => []SettledPanel
<1>1. OwnerTypes /\ RestTypes => TypeOK
  BY DEF OwnerTypes, RestTypes, WorkerRecord, ModuleRecord, CountRecord, TypeOK
<1>2. OwnerTypes /\ RestTypes /\ PanelInv => SettledPanel
  BY <1>1 DEF PanelInv, SettledPanel, Done, EndPhases
<1> QED
  BY <1>2, PanelCorrect, PTL
================================================================================
