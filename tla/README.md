# Verification of Prism-Viewer

Prism-Viewer is the desktop program that talks to a Prism camera/IMU/LiDAR
device over USB or the network: it captures, previews and records the sensor
streams, sends RTK corrections, plays datasets back and updates itself. This
directory holds TLA+ models of its concurrent core, the TLC configurations that
check them, and machine-checked proofs of most of their safety properties for every value
of the constants.
Paths such as `src/src/dataset/raw8_recorder.cpp` start at the repository's parent
directory, as in `PROJECT.json`; line numbers refer to the modelled commit.

## 1. Inventory

Threads of the running viewer: the GUI (Qt) thread; one `std::thread` of
`OperationController`, which runs either a short device operation or the capture
worker `workerMain`; two preview decode workers; the writer thread of each
recorder; the CORS session's worker; short-lived threads of the download, update
and dataset pages. They share atomics, mutex-protected queues and closures posted
to the GUI with `MainWindow::post`.

| Component | State | Operations | Interacts with | Hard because | Correct when |
|---|---|---|---|---|---|
| **Raw8Recorder** (`dataset/raw8_recorder.cpp`) | image and IMU queues, counters, closing/done/complete/error, the files | append, appendImu, finish, fail, run() | capture worker appends; GUI and capture worker finish; own writer | three threads, bounded queues, failures at every file call, publish/verify/commit sequence | complete=1 only for a whole recording; the first error is kept; always finalizes |
| **raw8_dataset** | none | load, validate with cancellation | called by Raw8Recorder before commit, by the browser | large inputs, not concurrent | accepts what the recorder writes, refuses anything else |
| **DatasetRecorder** (class in `ui/main_window.cpp`) | session flags, startup gate, frame/LiDAR queues, byte count, chunk files, index, counters | start, append\* (8 streams), stop, pollError, writer loop | capture worker appends, GUI starts and stops, own writer | eviction, two kinds of job in one byte budget, exceptions between lock regions | manifest counters account for every image; a complete recording has the bytes its index rows name |
| **RecordingStartupGate / ReceivedStreamsPolicy** | common start time, last time per stream | admit | under DatasetRecorder's mutex | streams start at different times | after the start all streams move forward |
| **RecordingUsbGate** | last link speed and its time | observe, allows, mustStop, reset | posts from the worker, 250 ms timer | late replies, ageing | an old reply never supersedes a newer one |
| **Recording control** (`startRawRecording`, `stopImuRecording`, `pollRawRecording`, `enforceRecordingUsbLink`) | `raw_recorder_`, `raw_aux_finalized_` | start/stop of both recorders together | GUI, capture worker's end, nested dialogs | two recorders must finish as one dataset | the raw recording is finished once, after its companion streams |
| **OperationController** | one thread | start, join | GUI thread | join on the GUI thread | never two tasks |
| **Capture worker** (`workerMain`) | running/stop flags, stream attempts | link wait, start streams, receive loop, stop, rollback | everything | failure at every step | ends, reports, leaves the device closed or idle |
| **Exposure hand-off, NativeCameraControl** | pending request, busy flag, exchange and deadline | request, take, begin, reply, expire, cancel | GUI and capture worker | check-then-store across threads; late replies | each request is answered |
| **CameraLaneProgress, GroupedPreviewMailbox, IndependentPreviewMailbox, preview workers** | lanes; one open group and one ready batch; job queue | receive/snapshot; arrive/publish/expire/take/presented; push/take | capture worker -> decode workers -> GUI | lossy on purpose, generations, wrapping trigger counters | never mixes groups, never goes back, never waits for a dead camera |
| **BoundedCameraAudit** | four queues of two, first failure | submit, finish, join | diagnostic capture | overflow vs. failure | first failure reported, join returns |
| **CorsSession** (native) | stop/active flags, worker locals | startNative, requestStop, stop | GUI, capture worker, RTK module on the device | lost replies, other clients, joins on the GUI thread | RTK is not left running unreported |
| **CORS config, RTK correction decoding, CORS panel** | forms, last status | validate, parse, show | GUI | parsing | - |
| **DeviceSession, prism_runtime, adapters** | opened device | discover, open, close, calls | SDK (external) | I/O | - |
| **DatasetPlayback, playback page** | the loaded dataset, its timeline, cursor, clock and timer; the decoder's pending request | open, play, pause, rate, slider, validate, export, timer, decoded result | GUI, RAW8 decoder thread, nested event loops of dialogs | one position behind four indexes and a merged timeline; late results; timers during dialogs | everything shown belongs to one position of one dataset |
| **Dataset browser** (`dataset/dataset_browser.cpp`) | none; issues of one validation | open, validate, cancel | GUI | three readers with three sets of rules | what is valid can be opened and exported |
| **ROS bag exporter** (`dataset/rosbag_exporter.cpp`, `gnss_bag_data.hpp`) | the writer's chunk, index and offsets, the LiDAR frame in progress, temporary and backup output | check, convert row by row, finish, swap | GUI, which it keeps in a nested event loop | chunk and frame boundaries, cancel, failure and kill at every step, the swap of two outputs | the bag holds the dataset; no output is lost |
| **GNSS writer, dataset identity** | the writer has a bounded queue | append | recorder | - | gaps are marked |
| **RK dataset download** | thread, cancelled flag | list, download, cancel | GUI | cancel against completion | no partial dataset is presented as whole |
| **Update** (`ui/viewer_update_dialog.cpp`, `update/install.cpp`, `resources/update-install.sh`) | request in flight, verified package, installer's step, helper's step, three packages on disk | check, download, install, poll, quit, swap, roll back | network, helper process, the new viewer | four kinds of process that may die at any step | a viewer is always installed, two never run |
| **CaptureCredits, LiveExposureRows, ImuSampleRate, panels, plots, themes, text** | small | - | GUI | - | - |

`PROJECT.json` lists every component with its status and reason, and under
`hazards` the places where this code can go wrong in a way tests hardly reach.

## 2. Modules

Conventions. One action is one critical section of a mutex or one stretch of code
between two of them, so another thread can come in wherever a lock is free. A
definition whose name ends in `Fault` is the definition after it with one
deliberate mistake, unused by the module; it shows that a property can fail.
Device answers, I/O failures and the passing of a deadline are nondeterministic
choices. Bounds on the environment are constants named `Max...`.

* **Raw8Recorder** models `Raw8Recorder::Impl`. `AppendImage`, `AppendImu`, `Fail`
  and `Finish` are the callers' critical sections; the writer's program counter
  `pc` follows `run()`: open files, wait, write one image or a batch of samples,
  sync, check the cameras, `publish(false)`, check the error, read back
  (`ManifestMatchesDisk`), `publish(true)`; and the catch that records the failure,
  publishes and clears the queues. An allocation failure in `append` is two steps
  (`AppendAllocationFailure`, then `Fail`), because the exception releases the mutex
  before `fail()` takes it again. `accepted`, `rows`, `imuAccepted`, `imuFile` are
  the sequences from which the code's counters are read.
* **RecordingPromise** is the abstract specification: several streams are accepted
  while a session is open, stored in order, and declared complete at most once, on
  a full copy, after sealing. `Raw8Recorder!KeepsPromise` states that the recorder
  refines it (refinement mapping in the module).
* **Raw8RecorderProofs**, **DatasetRecorderProofs**, **RecordingControlProofs**,
  **CaptureSessionProofs**, **PreviewPipelineProofs**, **ViewerProofs** (CORS session,
  dataset page, readers, update: the parts that MCViewer puts together) and
  **RosbagExporterProofs** (the bag) hold the proofs (section 5).
* **Totals** is the sum of a sequence of numbers, a recursive function: both recorders
  compare their byte counters with it. **TotalsProofs** proves what it computes.
* **CaptureSession** composes the GUI's handlers, `OperationController`'s thread,
  `workerMain` and the queue of posts, around the exposure request:
  `RequestExposure`/`StoreRequest` are the read of `worker_running_` and the store
  after it; `ProcessPending`/`RunInCapture`, `Expire`, `ReadReply` and
  `CancelPending` are the worker's side. A blocked `join` is a state of `gui`. The
  native (415RSV0) and the former exposure path are both there (`product`). The seven
  other operations of the one thread (host time sync, Wi-Fi, camera encoding, GNSS
  baud, port mode, LiDAR power, LiDAR network) share `StartOperation`, `OperationJoined`
  and `RunOperation` and differ in their guards and flags; the system upgrade
  (`StartUpgrade` to `UpgradeEnds`) borrows `worker_running_` and closes the device.
* **PreviewPipeline** composes `CameraLaneProgress`, both mailboxes, the job queue,
  the decode workers and the GUI's drains, timer, reset and hiding. `gui` in the
  middle of a drain (`TakeBatch`, then `ApplyBatch`) lets workers publish while it
  paints; `Timer(TRUE)` is a timer tick after the group deadline.
* **DatasetRecorder** models the class of that name with its gate: the check outside
  and the append inside the mutex (`CheckFrameSet`, `AppendFrameSet`), eviction
  (`Evicted`), the LiDAR limit (`LidarFits`), the directly written streams, the
  writer (`TakeJob`, `RollOver`, `WritePayload`, `IndexFrameSet`/`IndexBatch`), exceptions
  (`AppendFrameSetThrows` or `AppendLidarThrows` then `MarkAppendFailed`, `WriterThrows`)
  and `Stop`/`FinishStop`. A payload goes into a stream with a buffer of 4 MiB (`file` is
  the size the stream has reached); what of it the chunk file holds (`disk`) is decided by
  the flush when the chunk is closed, in `RollOver` or in `FinishStop` (`Closings`): all of
  it if the stream is good and the flush succeeds, any part of it otherwise.
* **CorsSession** models `startNative`, `requestStop`, `stop`, the panel's handling of
  posted statuses, closing and reopening the device, and the RTK module on the
  device as an external actor: a command may be lost, or run and lose its reply
  (`Answer`, `OtherClient` are external).

* **RecordingControl** models how recordings start and end: `AskToRecord`,
  `DialogReturns`, `QueryAnswers` are `startRawRecording`/`startImuRecordingImpl` around their nested
  event loops, `BeginStop`/`FinishStop` are `stopImuRecording`, and the five places that
  end a recording (`StopRecording`, `StopCapture`, `CloseDevice`, `HandleEnd`, the timer's
  `TimerEnforces` and `TimerEndsPair`) call it as the code does. `Observe`, `Reset` and
  `AllowedBy` are `RecordingUsbGate`; link checks travel as posts and may be handled late.
  The two recorders appear as what their own modules promise.
* **DatasetTimeline** holds pure operators: which dataset loads, and the merged
  timeline (`Sorted`) of frames, IMU, LiDAR and LiDAR-IMU rows.
* **DatasetPage** models the dataset page. Each handler is written as a function of the
  record `page`, so that an action composes what the handler calls in the code's order:
  `Load`, `Seek`, `ShowFrame`, `SetActive`, `RestartClock`, `Schedule`, `Played`, `Waits`. `busy`
  is the nested event loop of a dialog, in which the timer and decoded results are still
  handled; `decoder` and `results` are the RAW8 decoder thread and its posts.
* **DatasetDirectory** holds what the readers find on disk: the manifest as
  `writeManifest` composes it (`Manifest`), and the validator part by part (`Sound`). The
  three readers parse the rows of an index with three parsers of their own, so a row's flaw
  names the grammars it is outside of: `ValidatorRefuses`, `PageRefuses` and `ExporterRefuses`
  are the sets of flaws each one throws or reports at.
* **RosbagExporter** models `exportDatasetToRosbag`: `Check` (arguments and the first pass),
  one step per row (`WriteRow`, `WriteLidarRow`, `RefuseRow`), `EndStream`, `FinishBag`, the swap
  (`SetAside`, `Replace`, `ReplaceFails`, `DropBackup`), failures, cancel and `Killed`. The
  bag is a sequence of records; a ROS1 chunk has its connection and message records, its
  index and its entry at the end of the file (`FlushChunk`, `Ros1Finished`).
  `Accumulated` is the LiDAR frame accumulator, `StampOf` the timing of positions.
* **DatasetReaders** composes validator, page and exporter over one directory: first
  the validation, part by part and cancellable, then the export.
* **ViewerUpdate** models dialog, `Installer`, helper script and the processes: the
  viewer, any number of helpers and the new viewer. Every process may die, every rename
  may fail. `UseDevice` is everything that makes `can_restart_` false.

The MC modules give the constants that are not plain values. **MCViewer** puts
CorsSession, DatasetPage, DatasetReaders and ViewerUpdate under one configuration. They share no
variable; `part`, chosen at the start, says which one acts, and the others stay in an
initial state in which none of their fair actions is enabled, so that the behaviours of
each part are exactly those of its own specification.

## 3. Runs

| Run | Bounds | What it shows |
|---|---|---|
| `raw8_recorder` | 2 cameras, 1 sensor, sizes {1,2}, queue of 2 frames / 3 bytes, at most 3 images (ids wrap), 2 samples | budgets, no eviction, meaning of complete=1 and of "no error", final counts, first error kept, finalization, refinement of `RecordingPromise` |
| `raw8_overflow` (violation) | same | finding 1 |
| `raw8_late_error` (violation) | same | finding 2 |
| `capture_session` | 2 requests, 2 captures, 2 products, all 7 operations and the upgrade | one thread at a time, closing is quiet, exchanges end with their capture, taken requests are answered, joins return |
| `capture_session_baud` (violation) | 1 request, 1 capture | finding 5 |
| `capture_session_lost` (violation) | 1 request, 1 capture | finding 3 |
| `preview_pipeline` | 2 cameras, 2 workers, 2 frames, groups 3 and 0 of a counter that wraps at 4, 1 reset | no mixed groups, bounded work, no pane goes back, nothing from before an absence, no complete image waits for ever |
| `dataset_recorder` | 2 lanes, 2 frame sets of 5 kinds, 1 LiDAR batch, queue of 2 frames / 3 bytes, both policies, 2 sessions | byte budget, accounting behind complete=1, no row without its bytes behind complete=1, aligned order, `stop()` returns |
| `dataset_indexed` (violation) | same, 1 session | finding 6 |
| `dataset_late_failure` (violation) | same, 1 session | finding 4 |
| `recording_control` | 2 connections, 1 capture, 2 recordings, 3 link checks or resets | the gate speaks of this connection, no orphan recording, saved means whole, both halves end, recording stops without a link |
| `viewer`, part `cors` | 2 sessions, 3 generations, 1 foreign step, 2 status changes | a stream left running is reported, the panel settles, `stop()` returns |
| `viewer`, part `page` | 6 datasets (5 kinds of trouble), 4 user inputs, clock to 5, turns of 2 events, rates 1 and 2 | what is shown is at the cursor, no image is stale, playback settles |
| `viewer`, part `readers` | 18 directories, both formats, overwrite or not, 3 kinds of existing output, chunks of 5 records | validator, page and export agree; a bag holds the dataset; no output is lost |
| `viewer`, part `update` | 3 presses, 2 looks for the ready file, 1 round of each of the helper's waits | a viewer always survives, helpers end |

Why these bounds suffice. The queues hold two entries and the third arrival (or a
two-byte entry after another) overflows them by count and by bytes separately; two
cameras are the least that can disagree about first, last and missing images; ids
start at their last value, so the wrap is always met; two sessions or captures are
the least for one to inherit state from the other; two requests are the least for a
late reply to meet a newer request. Two preview frames suffice for a frame of an
older group, a group that stays open, and an image decoded before an absence;
cameras are symmetric except for the one that may vanish. Three generations are needed
for the session's own save and another client's after it. On the page, four inputs
are an opening (two: the button, then the choice is free), a start and one disturbance;
the timeline of `walk` has two events at one time, one unreadable LiDAR batch and a turn
that ends in the middle of what is due. The 18 directories have one peculiarity each (of a row
for each kind of flaw, of the manifest, of the GNSS files), so that a rule that fails cannot
hide behind another; five records let a chunk end in the
middle of a stream, and two LiDAR batches let a frame take points of both. In an update
three presses start, abandon and restart an installation, so that two helpers meet.

A type invariant is one conjunct of one invariant of its module: it supports the
proofs and says nothing alone. Every property of a
passing run has a mutant (`PROJECT.json`, `mutants`) that violates it within the
same bounds.

Deadlock checking is on where the model has no natural end and off where the system
may simply rest (an idle GUI, all environment bounds used up); each such cfg says
`CHECK_DEADLOCK FALSE`. `Raw8Recorder` has an explicit end (`Over`) and keeps it on.

### Fairness

* `WF(Writer)` (both recorders), `WF(Worker)`, `WF(Operation)`, `WF(WorkerStep)`,
  `WF(Enrol \/ Push)`, `WF(Decode)`: the operating system runs a thread that can run;
  condition variables are notified under the mutex or after it, and re-check.
* `WF(Fail)`, `WF(FinishStop)`, `WF(RawEnds)`, the joins in `CorsSession`: a handler or a
  recorder that was asked goes on.
* `WF(Gui)`, `WF(Post)`, `WF(Deliver)`, `WF(DrainSteps)`: Qt's event loop delivers queued
  closures. The user owes nothing: no fairness on requests, start, stop or close.
* `SF(Expire)` in CaptureSession and `SF(Timer(TRUE))` in PreviewPipeline: a deadline
  measured on a monotonic clock passes, and the loop (or the 250 ms timer) comes by
  again and again to see it, though other steps disable it in between.
* `WF(Timer)` in RecordingControl and `WF(Tick \/ Timeout)` in DatasetPage: time passes and
  Qt's timers fire. `WF(Take \/ Decode \/ ShowResult)`: the decoder thread runs and its
  results are delivered.
* `WF(Helper)` in ViewerUpdate: a shell script runs on. The new viewer owes nothing: it
  may neither start nor exit, which is why `HelpersEnd` excepts a helper that waits for a
  child `ps` could not identify.

## 4. Findings

1. **Overflow ends a RAW8 recording** (`raw8_overflow`). `docs/dataset-format.md:46-51`
   and `README.md:201` describe drop-oldest; the code rejects the new image, evicts
   nothing and closes with an error, and writes `queue_policy=fail_without_eviction`.
   The header's own comment ("without evicting queued/in-flight data") agrees with
   the code.
2. **A complete RAW8 recording may end with an error** (`raw8_late_error`). The catch in
   `append` has already released the mutex when it calls `fail()`, which does not look
   at `done`.
3. **A lost exposure request** (`capture_session_lost`). The GUI stores a request after the
   ending worker cancelled what was pending; no answer comes, and close, capture
   and further requests stay blocked by the busy flag.
4. **A lost image behind frames_complete=1** (`dataset_late_failure`). The exception path of
   `appendFrameSet` records the failure only after `stop()` may have finished.
5. **A baud change that hangs the viewer** (`capture_session_baud`). The message says that the
   GNSS baud can be changed during capture; its handler joins the thread the capture
   runs on, from the GUI thread, and nobody has asked the capture to stop.
6. **An index row may be there without its JPEG** (`dataset_indexed`). The format's document
   says that a row is committed only after its JPEG has been completely written to the
   container (`docs/dataset-format.md:449`). The recorder commits it when the stream is
   `good()` after the write, which with a buffer of 4 MiB says little; a flush that fails
   later loses bytes of rows that are in the index. What does hold, and is proved, is that
   such a recording never says complete (`CompleteHasPayloads`): whoever reads an incomplete
   recording must check the ranges, as the validator does.

Weaker observations, without a run of their own:

* The viewer's recordings cannot be exported. The viewer records under
  `ReceivedStreamsPolicy`, whose v6 manifest says `alignment=not-asserted`
  (`main_window.cpp:1703, 1728`); export (`rosbag_exporter.cpp:1057-1060`) and validator
  (`dataset_browser.cpp:627-631`) accept `common-device-time-domain` only, while
  `docs/dataset-format.md:551-555` says that v3 to v6 datasets can be exported. The directory
  recorded with policy `received` in MCViewer is refused for that reason. Recordings of
  the device itself are not affected.
* The three readers do not refuse the same rows. The validator bounds neither the device
  type and the time type of a LiDAR batch (the page refuses values over 255,
  `dataset_playback.cpp:144-145`) nor its number (page and export refuse what does not
  fit 32 bits, `rosbag_exporter.cpp:2006-2010`); only the validator and the page bound
  an exposure; the page alone takes an image over `kMaximumJpegBytes`; and the validator
  does not read the GNSS files, whose malformed rows make the export fail
  (`gnss_bag_data.hpp:22-86`).
* A full-mode dataset whose camera indexes are all empty is valid, yet page and
  exporter refuse it; `ValidIsUsable` excepts it by `HasFrames`.
* The LiDAR accumulator starts a new frame, and drops the points collected, when a point
  lies before the window; it fails on a point before the first of its frame
  (`rosbag_exporter.cpp:596-621`). `docs/rosbag-export.md:99-101` says that no point is lost.
  `BagHoldsTheDataset` promises that only when the points are in order.
* A kill between the two renames of an export leaves the old output under its backup
  name only, where nobody looks for it (`rosbag_exporter.cpp:2198-2214`).
* A helper waits 60 s for the viewer to exit. `can_restart_` does not look at
  `rosbag_export_running_` (`main_window.cpp:2635-2639`): an update that becomes ready during an
  export quits the viewer after the export, and if that takes longer the helper has
  given up: nothing is installed and nothing restarts.

And one of the recorder: `finish(err)` between
`publish(false)` and the check after it (`raw8_recorder.cpp:291-292`) leaves a manifest
with complete=0 but an empty error and frames_complete=1.

## 5. Proofs

Each proof module extends the component's module and assumes nothing but the named
assumptions on its constants, all of them evaluated by the runs. An invariant `X` of a
run is proved from an inductive invariant `IInv`, in three steps: `Init => IInv`,
`IInv /\ [Next]_vars => IInv'` with one step per action, `IInv => X`. The invariants were
checked with TLC before they were proved.

### RAW8 recorder

`Raw8RecorderProofs` proves, for every set of cameras and sensors, every queue limit
and every width of the ids, from `ConstantsAssumption` alone:

| Theorem | Statement |
|---|---|
| `TypeCorrect` | `Spec => []TypeOK` |
| `Invariance` | `Spec => []IInv` |
| `CompleteCorrect` | `Spec => []CompleteIsWhole` |
| `NoErrorCorrect` | `Spec => []NoErrorMeansComplete` |
| `NoEvictionCorrect` | `Spec => []NoEviction` |
| `FirstErrorCorrect` | `Spec => FirstErrorKept` |
| `FinalCountsCorrect` | `Spec => []ManifestCountsAreFinal` |
| `BudgetCorrect` | `Spec => []QueueBudget` |
| `PromiseKept` | `Spec => KeepsPromise`, the refinement of `RecordingPromise` |

The argument. `CompleteIsWhole` is not inductive: that the writer may declare the
recording complete depends on what it did many steps earlier. `IInv` adds

* `ClosingInv`: an error is known only when closing; before closing nothing is dropped;
* `WriterInv`: what the writer holds and which queues are empty at each `pc`; in
  particular, from the end of the drain on closing holds and both queues are empty, so
  that no append can succeed (`MayAppend` is false);
* `OrderInv`: disk, writer and queue together are a prefix of what was accepted, at
  most one image short (the one whose allocation failed), and none short while no
  failure is known or under way;
* `VerdictInv`: what the manifest and the readback have established at each `pc`.

Each part is preserved by every action under the whole of `IInv` (`TypeStep`,
`ClosingStep`, `WriterStep`, `OrderStep`, `VerdictStep`); `OrderStep` rests on lemmas
about `Held`, one for each way an image moves. `FirstErrorKept` is an action property
that follows from the actions and `ClosingInv`: the overflow, which assigns the error
without looking, happens only while the recording is open.

`QueueBudget` compares a counter that `append` raises and the writer lowers, each by one
payload, with the sum of the whole queue. It is inductive together with `ClosingInv` and
`WriterInv` (`BudgetStep`); each step needs that the sum of two sequences put together is
the sum of both, which is `TotalConcat` below.

`ManifestCountsAreFinal` looks at the end state only; `FinalInv` strengthens it to every
state whose manifest carries an error, because such a manifest is composed after
closing. The refinement maps each step to one of the promise: an append to `Accept`,
`finish`, `fail` and the writer's failure to `Seal` (or a stutter if the recording is
closing already), `WriteFrame`/`WriteSample` to `Store` - `OrderInv` says that what the
writer holds is the oldest item not yet on disk - and `PublishComplete` to `Declare`.

### Totals

`TotalsProofs` is about `Total` alone: nothing for the empty sequence, the number itself for
a single one, additive over concatenation; and the same for a field of records (`Mapped`)
and for the number of members that lie in a set (`Marked`). The library's induction theorems
take an operator as a parameter and cannot be used here, so the argument goes by the least
counterexample (`LeastNatural`): the function exists and is unique because the least index at
which it could not be extended, or at which two of them differ, is not 0.

### CORS session

The last part of `ViewerProofs` proves, for any number of sessions, account generations, polls and
steps of another client, from `BoundsAssumption` alone:

| Theorem | Statement |
|---|---|
| `OwnerCorrect` | `Spec => []IInv` |
| `LeftRunningCorrect` | `Spec => []LeftRunningIsReported` |
| `PanelCorrect` | `Spec => [](OwnerTypes /\ RestTypes /\ PanelInv)` |
| `SettledCorrect` | `Spec => []SettledPanel` |

The property speaks of a session that is over, and whether its module still runs was
decided at the start command, some steps earlier and possibly by a command whose reply was
lost. `OwnerInv` carries it there: a module that runs for the current session means that the
session has recorded its attempt, whatever step the worker is at; a session with an
attempt reaches its end only through `StopRtk`, which either takes the module out of the
session's hands or leaves the phase at "error"; and no module runs for a session not yet
started. `StartPending` - a start that waits for a join has a session left to start - is
needed for the type of the session counter only. `TypeStep`, `PendingStep` and `OwnerStep`
show that each part is kept, with one step per action.

`SettledPanel` is about the moment the queue of posts is empty, long after the posts were
made. `PanelInv` follows them: `active` is down exactly when the worker is at its report or
over; and once it is over, either the last post still queued is an end state, or none is
queued and the panel shows one. `Deliver` moves from the first case to the second.

### Dataset recorder

`DatasetRecorderProofs`, for any cameras, streams, payload sizes, timestamps and limits, from
`LimitsAssumption`, `StreamsAssumption` and `InputsAssumption`:

| Theorem | Statement |
|---|---|
| `RecorderCorrect` | `Spec => []IInv` |
| `BytesCorrect` | `Spec => []CompleteHasPayloads` |
| `OrderCorrect` | `Spec => []AlignedOrder` |
| `AccountsCorrect` | `Spec => []AccountsInv` |
| `BudgetCorrect` | `Spec => []QueueBudget` |
| `CompleteCorrect` | `Spec => []CompleteAccounts` |

A row is written one step after its payload and by another critical section, and the
payload itself reaches its file only when the chunk is closed, many rows later. So the
invariant has to speak of the payload that has no row yet, and of the rows whose bytes are
still in the buffer: `PayloadInv` says that the payload in hand is the end of what the
stream has taken, `RowsInv` that all rows stay below that. A chunk that has been left
holds all its rows, unless its loss has been noticed: a stream that went bad or a flush
that failed leaves the writer at "failing" or the session failed, and neither returns to
good before the manifest is written. `AlignedOrder` is
about the index alone, but the gate lets a job in long before its row is written:
`TimesInv` says that index, job in hand and queue are one sequence in the order of time, all
of it later than the common start and not later than the gate's last time (`GateInv`).
Eviction removes the oldest of the queue and so keeps it; `EvictedRange` and the
lemmas about `Admitted` are what the appending threads need.

`CompleteAccounts` speaks of the manifest, when queue and hand are empty and the counters
have long been counted. `AccountsInv` follows an image from the append to there:

* `ImagesInv`: what is counted as written or dropped, what is queued and what is in the
  writer's hand never exceed what was received, and equal it while the session is
  `Certain` - no failure is recorded and no append is on its way to record one (an
  allocation that fails inside `append` releases the mutex before it is recorded).
  `BatchesInv` says the same of the LiDAR batches, `BudgetInv` of the bytes.
* `PartialInv`: until a failure or a partial set is counted, every row has all lanes.
* `StopInv`: which of session, stop request, writer and manifest may stand together; in
  particular a writer that exited without a failure left both queues empty.
* `CompleteInv` holds from the step that writes the manifest on.

Whatever the action, the accounts change in one of a few ways - a frame set enters with
evictions, a batch enters, a job is taken, a row is indexed, a directly written stream, a
step of the writer's own, or nothing of this - so the arithmetic is done once for each
(`FrameSetMove` to `QuietMove`) and every action is shown to be one of them (`NextIsMove`).

### Recording control

`RecordingControlProofs`, for any number of connections, captures, recordings and link checks:

| Theorem | Statement |
|---|---|
| `ControlCorrect` | `Spec => []IInv` |
| `GateCorrect` | `Spec => []GateOfThisConnection` |
| `OrphanCorrect` | `Spec => []NoOrphanRecording` |
| `SavedCorrect` | `Spec => []SavedIsWhole` |

`GateInv`: the gate holds the word of the present connection or nothing, and a queued check
of an earlier connection is older than what the gate has seen (`Reset` takes a new time).
`OrphanInv`: while something receives, the capture is running or its end is still queued.
`PairInv`: what is known of each half at each stage of the pair. `DialogInv` was found by
the proof: nothing records while a dialog or a link query is open; without it a recording
could be started over one that is still active.

### Capture session

`CaptureSessionProofs`, for any number of requests and captures:

| Theorem | Statement |
|---|---|
| `CaptureCorrect` | `Spec => []IInv` |
| `OneThreadCorrect` | `Spec => []OneThread` |
| `ClosedCorrect` | `Spec => []ClosedIsQuiet` |
| `ExchangeCorrect` | `Spec => []ExchangeEndsWithCapture` |

`ThreadInv` says which of operation, capture and upgrade is on the one thread and what
`worker_running_` says of it; `WaitInv`, that a handler that waits for a join found the
viewer idle and nothing makes it busy meanwhile; `ClientInv`, that what runs on the thread
has the client open until it closes it itself.

### Preview

`PreviewPipelineProofs`, for any cameras, workers, trigger counters and bounds:

| Theorem | Statement |
|---|---|
| `PreviewCorrect` | `Spec => []IInv` |
| `GroupCorrect` | `Spec => []OneGroupPerPaint` |
| `BoundedCorrect` | `Spec => []BoundedWork` |
| `AbsenceCorrect` | `Spec => NothingFromBeforeAbsence` |

`MailOK`: everything a mailbox holds belongs to the group it filled last or to the one it
made ready. A job decoded late finds its group by a token, so `TokensOK` says that whoever
names the present token carries the present group; that needs each frame to open at most
one group and tokens never to be given twice (`RxOK`). `WorkOK`: no two jobs share a
camera, which rests on the recursive function in `Kept` (`KeptJobs`: it exists, is unique
and leaves the jobs apart, by a least counterexample). `PostsOK`: at most one drain of this
generation is posted or painting, and the mailbox knows. `LanesOK`: what was lost is older
than anything the lane lets through.

### Dataset page, export and update

The other parts of `ViewerProofs`: the export, for any directory and earlier output; the
update, for any number of updates, polls and waits; the dataset page, for any datasets,
rates, limits and number of inputs, from `PageAssumption` and `DatasetsAssumption` (what the
RAW8 reader yields: images only, in order where they have times); and the readers of a
directory with any number of rows, from `ExporterAssumption` and `DirectoriesAssumption`
(times are unsigned, point offsets are integers, anchors have a time, and a flaw occurs only
in the streams whose rows can have it). `BagCorrect` is proved
in `RosbagExporterProofs`, from the same assumptions:

| Theorem | Statement |
|---|---|
| `ExportCorrect` | `ReadersSpec => []ExportInv` |
| `SurvivalCorrect` | `ReadersSpec => []OldOrNewSurvives` |
| `UpdateCorrect` | `UpdateSpec => []UpdateInv` |
| `ViewerCorrect` | `UpdateSpec => []ViewerSurvives` |
| `PageCorrect` | `PageSpec => []PageInv` |
| `StaleCorrect` | `PageSpec => []NoStaleImage` |
| `CursorCorrect` | `PageSpec => []ShownIsAtCursor` |
| `ReadersCorrect` | `ReadersSpec => []ReadersInv` |
| `UsableCorrect` | `ReadersSpec => []ValidIsUsable` |
| `BagCorrect` | `ReadersSpec => []BagHoldsTheDataset` |

The first says, for each position of the export, which of output, temporary and backup
exist (`BeforeSwap`, `OnlyOldIsReplaced`, `BetweenRenames`, `AfterSwap`, `Undone`). The second
says the same of the packages for each line of the helper script and each of its ends
(`HelperInv`), and that at most one helper is not cancelled, the one the installer knows,
and only it touches a package, after the viewer is gone (`InstallerInv`).

The page's argument begins with its operators. `SortedCorrect`: the timeline contains every
event of the dataset once, each before those that the sort puts after it (the number of
events before one is a bijection onto the places). `IsLast(T, c, s, n)` says that `n` is the
last event of stream `s` among the first `c`; `LastAfterNext` follows it over one event,
`SeekPosition` through a jump: what `firstDatasetPlaybackEventAfter` passes of a stream is
what `upper_bound` in that stream's own index finds, which needs both to be in order
(`requireMonotonic`). `PageOK` has four parts: `HeldInv`, the timeline is that of the dataset
held; `PositionInv`, what is shown is `IsLast` of each stream unless a jump during a capture
has moved the position only; `ClockInv`; and `ImageInv`: the pending request, the one being
decoded and every posted result are not newer than the page, and are for the frame shown if
they are of its present generation. Since handlers call each other, there is one lemma for
each function they call (`ShowFrameKeeps`, `SeekKeeps`, ..., `LoadKeeps`); a turn of the
playback dispatches a number of events in a row, so `PlayedKeeps` goes by the least event
after which the page would be out of order. `PageSteps` composes them, one step per action.

`ValidIsUsable` relates three programs that read the same files by different code, each with
a row grammar of its own. Where the validator looks at a field it is at least as strict as
the other two; what it does not look at is named in the property as the condition for
opening (`Opens`) and for exporting (`Exportable`). `FlawsOfRows` is where the three grammars
meet: a row that is sound for the validator and none of the named exceptions is refused by
neither of the others. `ReadersInv`
says what the validator has established after each of its parts (`Judged`), how far the
export is (`Reached`), and that no row of an exportable directory has been refused (`Accepting`).
The export compares a row with the one before it, and a LiDAR point with the open frame, so
`Accepting` has to carry both along: the time that is remembered is that of the previous row,
and no point of the rows ahead lies before the frame (`InOrderSoFar`). An export without a
message is refused as well; the validator asks for an IMU sample, and `ImusCounted` says that
it is in the bag. The folds of the readers (`Parsed`, `Accumulated`, `PutAll`) are taken apart
into single steps by lemmas that show the fold's function to exist for every length
(`FilledSteps`, ...), again by a least counterexample.

`BagHoldsTheDataset` is about the bag in the end; messages, chunks and streams were written
long before. The invariant `BagInv` follows them:

* The writer: `Ros1Ok` says of every chunk on disk that its index, its description and the
  declarations of its connections are there (`RecordOk`), and of the open chunk that the
  index kept in memory lists its messages (`ChunkOk`). A flush turns the second into the
  first (`FlushKeeps`); later records do not disturb it (`RecordStays`). `BagHeld`, the messages
  on disk and in the open chunk, grows by exactly the message put in (`PutKeeps`), and the
  end of the file leaves it as it is (`FinishedIs`). `Ros2Ok` is the same for the database.
* The LiDAR frames: `LidarSoFar` says that the clouds written and the open frame together
  have the points of the rows so far, in order, provided that the points are in order, and
  in any case that no cloud is longer than its window.
* The export: `Progress` says that the streams before the current one are in the bag, those
  after it are not, and of the current one what its rows so far have made. Two streams
  share no topic (`StreamsApart`), so that filtering by topic finds each by itself.
* `Filled`: from the moment the temporary bag is called complete it is no longer written to.

### Only model-checked

* Liveness and ENABLED are outside the prover: `Finalizes`, `TakenIsAnswered`, `JoinsReturn`,
  `HealthyNeverWait`, `StopReturns` (twice), `EndsTogether`, `StopsWithoutLink`, `PageSettles`,
  `HelpersEnd`.
* `NeverOlder` is not true for all constants, in the code either: a pane's next group can be
  "behind" its last one when more than half of the trigger counter passed without an image.
  TLC's bounds stay below that.

Every other property of a passing run is a theorem, for all values of the constants.

## 6. What is left out, and assumptions

* Payloads, encodings, CRCs, hashes and text are abstracted; a validity check on a
  packet is a flag the environment chooses.
* `Raw8Recorder`: options that change only numbers are constants; one configuration of
  `RequireAllCameras`, `RecordAnyImu` and `RequiredSensors` is run, the proofs hold for all.
* `DatasetRecorder`: LiDAR streams are always recorded; the rover stream is left out of
  the runs' `Direct` (its action is an option of the module); one recording mode per
  run, so that the read of `mode_` outside the mutex (hazard list) does not show.
  `received` is the policy the viewer starts, `aligned` the class's default.
  A payload "is in its file" when the stream has handed it to the operating system; what the
  system then does with it (no `fsync` is made) is not modelled. Of the index files the model
  has the rows handed to their streams: these have buffers too, and a flush of one that
  fails in `closeFiles` makes the recording incomplete (`rest` in `FinishStop`), so that
  `CompleteHasPayloads` is not affected.
* `CaptureSession`: what an answer says is left out, so an answer to an older request
  that clears the busy flag of a newer one is possible in the model, as in the code,
  but no property forbids it.
* `PreviewPipeline`: a device delivers its frames in one of three ways (legacy sets,
  grouped or independent images), so `path` is chosen once and frames with and without a
  group key are not mixed in one behaviour; each has its own mailbox, and a job queue
  that keeps one job per camera. Scaling, zoom dialog and rate display are left out;
  completed jobs of the former ordered preview are not reachable for frames with a group
  key.
* `CorsSession`: the former socket session (`CorsSession::start`, `workerMain`) is not
  started by the viewer and is left out.
* `RecordingControl`: the message box after a failed save and the upgrade's use of
  `worker_running_` are left out; a recorder's own steps are those of its promise.
* `DatasetPage`: the four panes are treated alike by the code and are one pane here; plots,
  views and zoom are left out. A jump during a capture moves the position only, by
  design (`lags`). A dataset with a single event stays "playing" with its timer off
  (`main_window.cpp:8175`), which is why `PageSettles` speaks of playback with something left.
* `DatasetDirectory`: warnings do not change validity and are left out; a row's fields are
  its time and what is wrong with it, one thing at a time.
* `RosbagExporter`: times are unbounded numbers; that they fit the time of the format
  (unsigned 32-bit seconds in ROS1, signed in ROS2) is taken of every directory. The
  GNSS files have fewer than 256 rows, after which `readCsv` looks at the cancel button
  too. Serialisation and the choice of the quality row whose covariance a position gets
  (`gnss_bag_data.hpp:155-184`) are data; every row has its messages in the code's
  order.
* `ViewerUpdate`: parsing and comparing releases is data; only the shell helper is
  modelled, `update-install.ps1` of Windows is not.

### Not modelled

* **RK dataset download**: a modal dialog with one thread and one flag around file
  transfers of the external SDK; what it can get wrong lies in the SDK.
* **BoundedCameraAudit**: a diagnostic; its hazard (which of two failures is reported) harms
  no data. It fits in one small module and is the first candidate.
* **GNSS writer** (`BufferedWriter`): its queue is DatasetRecorder's in small; the recorder's model
  keeps whether it failed.
* **CaptureCredits, LiveExposureRows, device information adapters, camera frame assembly,
  dataset identity, IMU rate estimation**: no state that outlives a call, state of one
  thread, or no longer used.
* **Capture worker's stream handling**: parsing of IMU, LiDAR, GNSS and time-sync packets is
  data; the appends it leads to are actions of DatasetRecorder.
* **Panels, dialogs, plots, themes, text**: most of `main_window.cpp` is layout and wording.

## 7. Plan

Done, in this order: Raw8Recorder with RecordingPromise and its proofs;
CaptureSession; PreviewPipeline; DatasetRecorder; CorsSession; RecordingControl;
CaptureSession's other operations and the upgrade; DatasetPage with DatasetTimeline;
RosbagExporter, DatasetDirectory and DatasetReaders; ViewerUpdate.

Proved since: all that section 5 lists, the last ones `ValidIsUsable` and
`BagHoldsTheDataset`. With them every safety property of the passing runs is proved, except
`NeverOlder`, which holds within a bound only.

Since then the recorder's streams have got their buffers and the readers their own row
grammars, and the theorems about both were proved again.

Next: BoundedCameraAudit, and the four hazards that no property covers.
