----------------------------- MODULE ViewerUpdate ------------------------------
(***************************************************************************)
(* The online update of the viewer: the dialog that downloads and verifies *)
(* a package (ui/viewer_update_dialog.cpp), the Installer that extracts it *)
(* beside the installed one and starts a helper (update/install.cpp), and  *)
(* the helper that swaps the two once the viewer has exited                *)
(* (resources/update-install.sh).                                          *)
(*                                                                         *)
(* The viewer, each helper and the viewer a helper launches are processes; *)
(* the viewer and the helpers may die at any step, and every rename may    *)
(* fail.                                                                   *)
(***************************************************************************)
EXTENDS Naturals, Sequences, FiniteSets

CONSTANTS
  Attempts,   \* how often the Installer looks for the helper's ready file
  Grace,      \* how long a helper waits for the viewer to exit
  Patience,   \* how long it waits for the new viewer to start
  MaxPresses  \* bound: what the user does in the dialog

ASSUME UpdateAssumption == {Attempts, Grace, Patience, MaxPresses} \subseteq Nat \ {0}

VARIABLES
  dialog,     \* the request in flight, and which of the two buttons are enabled
  installer,  \* the step of installer_, its polls, its helper (0: none yet)
  parent,     \* the viewer: running, quitting or gone
  inUse,      \* the opposite of can_restart_: a device, a recording, an operation
  helpers,    \* the helpers that were started, each with its working directory
  target,     \* the package at the installed place
  child,      \* the viewer a helper launched from the new package
  relaunched, \* how often a helper launched the old viewer again
  presses

updateVars ==
  <<dialog, installer, parent, inUse, helpers, target, child, relaunched, presses>>

NoDialog    == [phase |-> "none", offered |-> FALSE, verified |-> FALSE]
NoInstaller == [step |-> "none", tries |-> 0, helper |-> 0]

\* A helper: ready and cancelled are files in its working directory; backup and
\* staged are the packages it may move; known, whether ps tells who its child is.
NewHelper == [pc |-> "begin", count |-> 0, ready |-> FALSE, cancelled |-> FALSE, backup |-> "none",
              staged |-> "new", known |-> TRUE, result |-> "none"]

Preparing == installer.step \in {"list", "extract", "poll"}

--------------------------------------------------------------------------------
(***************************************************************************)
(* Installer                                                               *)
(***************************************************************************)
\* Its end, by failure or by its destructor, is told to a helper it started;
\* after the hand-over there is nothing to tell.
Cancelled(hs) ==
  IF installer.helper = 0 \/ installer.step = "handoff" THEN hs
  ELSE [hs EXCEPT ![installer.helper].cancelled = TRUE]

FailInstaller ==
  /\ installer' = [installer EXCEPT !.step = "failed"]
  /\ helpers' = Cancelled(helpers)
  /\ dialog' = [dialog EXCEPT !.verified = TRUE]

\* The checks of start() pass, or one of them fails at once.
Started ==
  \/ /\ installer' = [NoInstaller EXCEPT !.step = "list"]
     /\ dialog' = NoDialog
  \/ /\ installer' = [NoInstaller EXCEPT !.step = "failed"]
     /\ dialog' = [NoDialog EXCEPT !.verified = TRUE]

\* ViewerUpdateDialog::install
Install ==
  IF inUse THEN /\ dialog' = [NoDialog EXCEPT !.verified = TRUE]
                /\ UNCHANGED <<installer, helpers>>
  ELSE Started /\ helpers' = Cancelled(helpers)

\* A command of run() has finished; with the last one, extracted() checks what
\* was extracted and starts the helper.
CommandEnds ==
  /\ parent = "running" /\ installer.step \in {"list", "extract"}
  /\ \/ FailInstaller
     \/ /\ installer.step = "list"
        /\ installer' = [installer EXCEPT !.step = "extract"]
        /\ UNCHANGED <<helpers, dialog>>
     \/ /\ installer.step = "extract" /\ ~inUse
        /\ helpers' = Append(helpers, NewHelper)
        /\ installer' = [step |-> "poll", tries |-> 0, helper |-> Len(helpers) + 1]
        /\ UNCHANGED dialog
  /\ UNCHANGED <<parent, inUse, target, child, relaunched, presses>>

\* The poll timer: a ready helper takes over unless the device is in use again.
PollReady ==
  /\ parent = "running" /\ installer.step = "poll"
  /\ IF helpers[installer.helper].ready
     THEN IF ~inUse
          THEN /\ installer' = [installer EXCEPT !.step = "handoff"]
               /\ dialog' = [dialog EXCEPT !.verified = TRUE]
               /\ parent' = "quitting" /\ UNCHANGED helpers
          ELSE FailInstaller /\ UNCHANGED parent
     ELSE /\ IF installer.tries + 1 >= Attempts THEN FailInstaller
             ELSE installer' = [installer EXCEPT !.tries = @ + 1] /\ UNCHANGED <<dialog, helpers>>
          /\ UNCHANGED parent
  /\ UNCHANGED <<inUse, target, child, relaunched, presses>>

--------------------------------------------------------------------------------
(***************************************************************************)
(* ViewerUpdateDialog                                                      *)
(***************************************************************************)
Pressed == parent = "running" /\ presses < MaxPresses /\ presses' = presses + 1

CheckForUpdate ==
  /\ Pressed /\ dialog.phase = "none" /\ ~Preparing
  /\ dialog' = [NoDialog EXCEPT !.phase = "release"]
  /\ UNCHANGED <<installer, parent, inUse, helpers, target, child, relaunched>>

\* The file cannot be opened, or the package is requested.
Download ==
  /\ Pressed /\ dialog.offered /\ dialog.phase = "none"
  /\ dialog' \in {[dialog EXCEPT !.offered = FALSE],
                  [NoDialog EXCEPT !.phase = "package"]}
  /\ UNCHANGED <<installer, parent, inUse, helpers, target, child, relaunched>>

PressInstall ==
  /\ Pressed /\ dialog.verified /\ dialog.phase = "none" /\ ~Preparing
  /\ Install
  /\ UNCHANGED <<parent, inUse, target, child, relaunched>>

CancelDownload ==
  /\ Pressed /\ dialog.phase # "none"
  /\ dialog' = [dialog EXCEPT !.phase = "none"]
  /\ UNCHANGED <<installer, parent, inUse, helpers, target, child, relaunched>>

\* Closing deletes the dialog, and its installer with it.
CloseDialog ==
  /\ Pressed
  /\ dialog' = NoDialog /\ installer' = NoInstaller /\ helpers' = Cancelled(helpers)
  /\ UNCHANGED <<parent, inUse, target, child, relaunched>>

\* finished(): a bad or late answer ends the request; a package whose size and
\* hash are those of the manifest is committed and installed.
Reply ==
  /\ parent = "running" /\ dialog.phase # "none"
  /\ \/ /\ dialog' = [dialog EXCEPT !.phase = "none", !.offered = FALSE]
        /\ UNCHANGED <<installer, helpers>>
     \/ /\ dialog.phase = "release" /\ dialog' = [dialog EXCEPT !.phase = "manifest"]
        /\ UNCHANGED <<installer, helpers>>
     \/ /\ dialog.phase = "manifest"
        /\ dialog' = [dialog EXCEPT !.phase = "none", !.offered = TRUE]
        /\ UNCHANGED <<installer, helpers>>
     \/ dialog.phase = "package" /\ Install
  /\ UNCHANGED <<parent, inUse, target, child, relaunched, presses>>

--------------------------------------------------------------------------------
(***************************************************************************)
(* The viewer's process.                                                   *)
(***************************************************************************)
UseDevice ==
  /\ parent = "running" /\ inUse' = ~inUse
  /\ UNCHANGED <<dialog, installer, parent, helpers, target, child, relaunched, presses>>

\* The main window is closed, and the dialog with its installer destroyed: a
\* visible dialog made modal does not keep it open.  Or the event loop ends after
\* the hand-over.
Exit ==
  /\ parent # "gone" /\ parent' = "gone" /\ helpers' = Cancelled(helpers)
  /\ UNCHANGED <<dialog, installer, inUse, target, child, relaunched, presses>>
Crash ==
  /\ parent # "gone" /\ parent' = "gone"
  /\ UNCHANGED <<dialog, installer, inUse, helpers, target, child, relaunched, presses>>

--------------------------------------------------------------------------------
(***************************************************************************)
(* resources/update-install.sh, which ends at the first command that fails *)
(* (set -e) where it does not handle the failure.                          *)
(***************************************************************************)
At(h, pc) == helpers[h].pc = pc
HelperGoes(h, pc) == helpers' = [helpers EXCEPT ![h].pc = pc]
Ends(h, result) == helpers' = [helpers EXCEPT ![h].pc = "ended", ![h].result = result]
OnlyHelpers == UNCHANGED <<dialog, installer, parent, inUse, presses>>
Relaunch == relaunched' = relaunched + (IF target' = "none" THEN 0 ELSE 1)

\* Of its tests only the last of each list could end the script, and they hold.
Begin(h) ==
  /\ At(h, "begin")
  /\ helpers' = [helpers EXCEPT ![h].pc = "wait", ![h].ready = TRUE]
  /\ OnlyHelpers /\ UNCHANGED <<target, child, relaunched>>

\* Fault: a helper whose viewer is gone does not look for the cancelled file again.
GivesUp_Fault(h) ==
  parent # "gone" /\ (helpers[h].cancelled \/ helpers[h].count >= Grace)
GivesUp(h) ==
  helpers[h].cancelled \/ (parent # "gone" /\ helpers[h].count >= Grace)
AwaitExit(h) ==
  /\ At(h, "wait")
  /\ IF GivesUp(h) THEN Ends(h, "gaveUp")
     ELSE IF parent # "gone" THEN helpers' = [helpers EXCEPT ![h].count = @ + 1]
     ELSE HelperGoes(h, "setAside")
  /\ OnlyHelpers /\ UNCHANGED <<target, child, relaunched>>

SetOldAside(h) ==
  /\ At(h, "setAside")
  /\ \/ /\ target # "none"
        /\ helpers' = [helpers EXCEPT ![h].pc = "place", ![h].backup = target]
        /\ target' = "none" /\ UNCHANGED relaunched
     \/ Ends(h, "kept") /\ UNCHANGED target /\ Relaunch
  /\ OnlyHelpers /\ UNCHANGED child

PlaceNew(h) ==
  /\ At(h, "place")
  /\ \/ /\ target' = "new"
        /\ helpers' = [helpers EXCEPT ![h].pc = "launch", ![h].staged = "none"]
     \/ HelperGoes(h, "restore") /\ UNCHANGED target
  /\ OnlyHelpers /\ UNCHANGED <<child, relaunched>>

\* The old package is put back and launched; with result it says why.
PutBack(h, result) ==
  \/ /\ target' = helpers[h].backup /\ Relaunch
     /\ helpers' = [helpers EXCEPT ![h].pc = "ended", ![h].result = result, ![h].backup = "none"]
  \/ Ends(h, "stuck") /\ UNCHANGED <<target, relaunched>>
Restore(h) ==
  /\ At(h, "restore") /\ PutBack(h, "kept")
  /\ OnlyHelpers /\ UNCHANGED child

Launch(h) ==
  /\ At(h, "launch") /\ child' = "starting"
  /\ \E known \in BOOLEAN :
       helpers' = [helpers EXCEPT ![h].pc = "watch", ![h].count = 0, ![h].known = known]
  /\ OnlyHelpers /\ UNCHANGED <<target, relaunched>>

\* The started file exists, or the child died, or the helper has waited enough.
Watch(h) ==
  /\ At(h, "watch")
  /\ IF child \in {"up", "exited"} THEN Ends(h, "installed")
     ELSE IF child = "dead" \/ helpers[h].count >= Patience THEN HelperGoes(h, "kill")
     ELSE helpers' = [helpers EXCEPT ![h].count = @ + 1]
  /\ OnlyHelpers /\ UNCHANGED <<target, child, relaunched>>

\* A child that is known is killed; any child is waited for.
\* Fault: no child is killed, every child is waited for.
ReapsChild_Fault(h) == child \in {"dead", "exited"}
ReapsChild(h) == helpers[h].known \/ child \in {"dead", "exited"}
Kill(h) ==
  /\ At(h, "kill") /\ ReapsChild(h)
  /\ child' = IF helpers[h].known THEN "dead" ELSE child
  /\ HelperGoes(h, "discard")
  /\ OnlyHelpers /\ UNCHANGED <<target, relaunched>>
Discard(h) ==
  /\ At(h, "discard")
  /\ \/ target' = "none" /\ HelperGoes(h, "rollback")
     \/ Ends(h, "stuck") /\ UNCHANGED target
  /\ OnlyHelpers /\ UNCHANGED <<child, relaunched>>
RollBack(h) ==
  /\ At(h, "rollback") /\ PutBack(h, "rollback")
  /\ OnlyHelpers /\ UNCHANGED child

HelperDies(h) ==
  /\ helpers[h].pc # "ended" /\ Ends(h, "died")
  /\ OnlyHelpers /\ UNCHANGED <<target, child, relaunched>>

\* The new viewer writes its started file; it may fail before, or exit after.
ChildStarts ==
  /\ child = "starting" /\ child' = "up"
  /\ OnlyHelpers /\ UNCHANGED <<helpers, target, relaunched>>
ChildEnds ==
  /\ child \in {"starting", "up"}
  /\ child' = IF child = "up" THEN "exited" ELSE "dead"
  /\ OnlyHelpers /\ UNCHANGED <<helpers, target, relaunched>>

Helper(h) ==
  \/ Begin(h) \/ AwaitExit(h) \/ SetOldAside(h) \/ PlaceNew(h) \/ Restore(h) \/ Launch(h) \/ Watch(h)
  \/ Kill(h) \/ Discard(h) \/ RollBack(h)

--------------------------------------------------------------------------------
UpdateInit ==
  /\ dialog = NoDialog /\ installer = NoInstaller /\ parent = "running" /\ inUse = FALSE
  /\ helpers = <<>> /\ target = "old" /\ child = "none" /\ relaunched = 0 /\ presses = 0

UpdateNext ==
  \/ CheckForUpdate \/ Download \/ PressInstall \/ CancelDownload \/ CloseDialog \/ Reply
  \/ CommandEnds \/ PollReady \/ UseDevice \/ Exit \/ Crash \/ ChildStarts \/ ChildEnds
  \/ \E h \in DOMAIN helpers : Helper(h) \/ HelperDies(h)

\* A helper runs until it ends or waits for its child.
UpdateFairness == WF_updateVars(\E h \in DOMAIN helpers : Helper(h))

UpdateSpec == UpdateInit /\ [][UpdateNext]_updateVars /\ UpdateFairness

--------------------------------------------------------------------------------
UpdateTypeOK ==
  /\ dialog \in [phase : {"none", "release", "manifest", "package"}, offered : BOOLEAN,
                 verified : BOOLEAN]
  /\ installer \in [step : {"none", "list", "extract", "poll", "failed", "handoff"},
                    tries : 0 .. Attempts, helper : 0 .. Len(helpers)]
  /\ parent \in {"running", "quitting", "gone"} /\ inUse \in BOOLEAN
  /\ \A h \in DOMAIN helpers :
       /\ helpers[h].pc \in {"begin", "wait", "setAside", "place", "restore", "launch", "watch",
                             "kill", "discard", "rollback", "ended"}
       /\ helpers[h].backup \in {"none", "old"} /\ helpers[h].staged \in {"none", "new"}
  /\ target \in {"none", "old", "new"}
  /\ child \in {"none", "starting", "up", "dead", "exited"}
  /\ relaunched \in Nat /\ presses \in 0 .. MaxPresses

Viewers ==
  Cardinality({v \in {"parent"} : parent # "gone"} \cup {v \in {"child"} : child \in {"starting", "up"}})
    + relaunched

\* Whatever fails and whoever dies: the installed package does not change under
\* the running viewer, which gives way only when nothing needs it; the old one is
\* never lost; a cancelled update changes nothing; a helper that ends by itself
\* leaves the package it reports; and two viewers never run at once.
ViewerSurvives ==
  /\ UpdateTypeOK
  /\ parent # "gone" => target = "old"
  /\ parent = "quitting" => ~inUse
  /\ target = "old" \/ \E h \in DOMAIN helpers : helpers[h].backup = "old"
  /\ \A h \in DOMAIN helpers :
       /\ helpers[h].cancelled => helpers[h].staged = "new" /\ helpers[h].backup = "none"
       /\ helpers[h].result = "installed" => target = "new" /\ helpers[h].backup = "old"
       /\ helpers[h].result \in {"kept", "rollback"} => target = "old"
  /\ Viewers <= 1

\* Every helper comes to an end, unless it waits for a child it cannot name.
Rests(h) == At(h, "ended") \/ (At(h, "kill") /\ ~helpers[h].known)
HelpersEnd == <>[](\A h \in DOMAIN helpers : Rests(h))
================================================================================
