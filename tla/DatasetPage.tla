------------------------------ MODULE DatasetPage ------------------------------
(***************************************************************************)
(* The dataset page of the viewer (main_window.cpp): opening a recorded    *)
(* dataset, playing it, seeking in it, validating and exporting it, with   *)
(* the playback timeline of dataset/dataset_playback.cpp and the RAW8      *)
(* decoder thread of ui/raw_dataset_decoder.hpp.                           *)
(*                                                                         *)
(* All handlers run on the GUI thread; one step is one handler, with every *)
(* function it calls.  They are written as functions of the page, so that  *)
(* a handler composes them in the code's order.  File dialogs, validation  *)
(* and export run a nested event loop: timers and posted results are       *)
(* handled while they last, user input is not.                             *)
(*                                                                         *)
(* The four camera panes are treated alike; the model has one.             *)
(***************************************************************************)
EXTENDS DatasetTimeline, FiniteSets, FiniteSetsExt

CONSTANTS
  Datasets,    \* directories that can be opened, as reading them finds them
  TurnLimit,   \* kMaximumEventsPerUiTurn
  DelayLimit,  \* kDatasetPlaybackMaximumDelayMs
  Rates,       \* playback speeds that can be selected
  Horizon,     \* bound: time since the playback clock was last restarted
  MaxInputs    \* bound: user inputs

Counted == Sensors \ {"lidar"}

ASSUME PageAssumption ==
  /\ {TurnLimit, DelayLimit} \cup Rates \subseteq Nat \ {0}
  /\ {Horizon, MaxInputs} \subseteq Nat
  /\ 1 \in Rates

\* What reading a directory yields: RAW8 datasets hold images only, and their
\* steps are sorted and distinct where they have times (raw8_dataset.cpp:275).
ASSUME DatasetsAssumption ==
  \A d \in Datasets :
    /\ d.frames \in Seq(Nat) /\ d.rows \in [Sensors -> Seq(Nat)]
    /\ d.kind = "raw8" => /\ \A s \in Sensors : d.rows[s] = <<>>
                          /\ ~d.ordinal => Monotonic(d.frames)
    /\ d.kind # "raw8" => ~d.ordinal

VARIABLES
  page,     \* what the page holds and shows; see PageTypeOK
  rate,     \* dataset_playback_rate_
  live,     \* worker_running_
  busy,     \* the nested event loop the GUI thread is in
  decoder,  \* the request the decoder thread works on
  results,  \* decoded results posted to the GUI, oldest first
  inputs    \* the bound's counter

pageVars == <<page, rate, live, busy, decoder, results, inputs>>

--------------------------------------------------------------------------------
(***************************************************************************)
(* Parts of the handlers.                                                  *)
(***************************************************************************)
Timeline(p) == p.timeline
AtEnd(p)    == p.cursor >= Len(Timeline(p))
Off         == [on |-> FALSE, at |-> 0]
Halted(p)   == [p EXCEPT !.timer = Off]
NoImage     == <<>>
NoRequest   == [generation |-> 0, entry |-> 0, of |-> ""]

\* updateDatasetPlaybackControls; free: neither capture nor export runs.
CanPlay(p, free) == ~(p.raw8 /\ p.held.ordinal) /\ Timeline(p) # <<>> /\ free
Controls(p, free) ==
  IF p.playing /\ ~CanPlay(p, free) THEN [p EXCEPT !.playing = FALSE, !.timer = Off] ELSE p

ResetVisualization(p) ==
  [p EXCEPT !.counts = [s \in Counted |-> 0], !.cloud = {}, !.lags = FALSE]

\* showRawDatasetFrame: a pane that already shows the sample keeps it, and the
\* request replaces the one the decoder has not taken.
\* Fault: a request is dropped while one is pending.
Submitted_Fault(pending, request) == IF pending = NoRequest THEN request ELSE pending
Submitted(pending, request) == request
ShowRaw(p, f) ==
  LET entry  == p.held.entries[f]
      wanted == <<p.held.name, entry>>
  IN [p EXCEPT !.pane = IF entry # 0 /\ p.pane # NoImage /\ p.wanted = wanted THEN @ ELSE NoImage,
               !.wanted = wanted,
               !.generation = @ + 1,
               !.pending = Submitted(@, [generation |-> p.generation + 1, entry |-> entry,
                                         of |-> p.held.name])]

\* loadDatasetImage.
Picture(d, entry) == IF entry = 0 \/ entry \in d.bad THEN NoImage ELSE <<d.name, entry>>

ShowFrame(p, f) ==
  IF f \notin DOMAIN p.held.frames
  THEN p
  ELSE LET q == [p EXCEPT !.current = f]
       IN IF p.raw8 THEN ShowRaw(q, f)
          ELSE [q EXCEPT !.pane = Picture(p.held, p.held.entries[f])]

\* applyDatasetImuSample, applyDatasetLidarImuSample: the position is shown.
ApplySample(p, s, i) == [p EXCEPT !.counts[s] = i]
\* applyDatasetLidarBatch: the points join those shown.
ApplyLidar(p, i) == IF i \in p.held.dark THEN p ELSE [p EXCEPT !.cloud = @ \cup {i}]

\* dispatchDatasetPlaybackEvent
Dispatches(p, e) == e.stream = "lidar" => e.index \notin p.held.dark
Dispatch(p, e) ==
  CASE e.stream = "camera" -> ShowFrame(p, e.index)
    [] e.stream = "lidar"  -> ApplyLidar(p, e.index)
    [] OTHER               -> ApplySample(p, e.stream, e.index)

\* The number of elements of a sorted sequence of times that are not after t.
UpTo(times, t) == Cardinality({i \in DOMAIN times : times[i] <= t})

\* firstDatasetPlaybackEventAfter
\* Fault: the event at the time itself is still to come.
FirstAfter_Fault(p, t) == Cardinality({i \in DOMAIN Timeline(p) : Timeline(p)[i].at < t})
FirstAfter(p, t) == Cardinality({i \in DOMAIN Timeline(p) : Timeline(p)[i].at <= t})

\* seekDatasetPlaybackToTimestamp: during a capture only the position moves.
Seek(p, t) ==
  LET q == [p EXCEPT !.cursor = FirstAfter(p, t)]
      r == ResetVisualization(q)
      last == [s \in Sensors |-> UpTo(p.held.rows[s], t)]
  IN IF live
     THEN [q EXCEPT !.lags = TRUE]
     ELSE [r EXCEPT !.counts = [s \in Counted |-> last[s]],
                    !.cloud = IF last["lidar"] = 0 THEN {} ELSE {last["lidar"]} \ p.held.dark]

ResetPosition(p) ==
  LET q == Halted(p)
  IN IF p.held.frames # <<>>
     THEN Seek(ShowFrame(q, 1), p.held.frames[1])
     ELSE [(IF live THEN q ELSE ResetVisualization(q)) EXCEPT !.cursor = 0]

\* scheduleDatasetPlaybackStep: the wait is rounded up and limited.
AwaitNext(p, r) ==
  LET next   == Timeline(p)[p.cursor + 1].at
      delta  == IF next > p.anchor THEN next - p.anchor ELSE 0
      target == (delta + r - 1) \div r
  IN IF target <= p.elapsed THEN 0 ELSE Min({target - p.elapsed, DelayLimit})

Schedule(p, r) ==
  IF ~p.playing \/ AtEnd(p)
  THEN Halted(p)
  ELSE [p EXCEPT !.timer = [on |-> TRUE, at |-> p.elapsed + AwaitNext(p, r)]]

RestartClock(p, r) ==
  IF ~p.playing \/ AtEnd(p)
  THEN p
  ELSE Schedule([p EXCEPT !.elapsed = 0, !.anchor = Timeline(p)[Max({p.cursor, 1})].at], r)

SetActive(p, on, free) ==
  LET q == Halted(p)
      r == IF AtEnd(q) THEN ResetPosition(q) ELSE q
  IN IF on /\ Timeline(q) # <<>> /\ free
     THEN Controls(RestartClock([r EXCEPT !.playing = TRUE], rate), free)
     ELSE Controls([q EXCEPT !.playing = FALSE], free)

\* processDatasetPlaybackEvents: the events due, up to TurnLimit of them and to
\* the first that cannot be shown.
OnTime(p, i) ==
  i \in DOMAIN Timeline(p) /\ Timeline(p)[i].at <= p.anchor + p.elapsed * rate
Turn(p) ==
  Max({n \in 0 .. TurnLimit :
         \A i \in p.cursor + 1 .. p.cursor + n : OnTime(p, i) /\ Dispatches(p, Timeline(p)[i])})
Passed(p) == [Dispatch(p, Timeline(p)[p.cursor + 1]) EXCEPT !.cursor = @ + 1]
Played(p, n) ==
  LET after[i \in 0 .. n] == IF i = 0 THEN p ELSE Passed(after[i - 1])
  IN  after[n]

\* Then playback stops at the end or at the event it could not show, goes on
\* with what is due already, or waits for the next.
Waits(q, n, free) ==
  IF AtEnd(q) \/ (n < TurnLimit /\ OnTime(q, q.cursor + 1)) THEN SetActive(q, FALSE, free)
  ELSE IF OnTime(q, q.cursor + 1) THEN [q EXCEPT !.timer = [on |-> TRUE, at |-> q.elapsed]]
  ELSE Schedule(q, rate)

--------------------------------------------------------------------------------
(***************************************************************************)
(* loadRecordedDataset.  A RAW8 dataset takes the place of the old one     *)
(* before it is checked; any other only once everything was read.          *)
(***************************************************************************)
Renewed(p) == p.generation + 1

ClearForRaw(p, d) ==
  [ResetVisualization(p) EXCEPT
     !.held = Unread(d.name), !.timeline = <<>>, !.root = d.name,
     !.raw8 = TRUE, !.metadataOnly = TRUE,
     !.generation = Renewed(p), !.cursor = 0, !.current = 1, !.pane = NoImage]

LoadRaw(p, d) ==
  LET q == [ClearForRaw(p, d) EXCEPT !.held = d, !.timeline = Sorted(d),
                                  !.metadataOnly = FALSE]
  IN IF d.broken = {} /\ d.frames # <<>>
     THEN Seek(ShowFrame(q, 1), d.frames[1])
     ELSE ClearForRaw(p, d)

LoadLegacy(p, d) ==
  LET q == [p EXCEPT !.held = d, !.timeline = Sorted(d), !.root = d.name, !.raw8 = FALSE,
                     !.metadataOnly = FALSE, !.generation = Renewed(p), !.cursor = 0]
  IN IF d.frames # <<>>
     THEN Seek(ShowFrame(q, 1), d.frames[1])
     ELSE [ResetVisualization(q) EXCEPT !.pane = NoImage]

Load(p, d) ==
  LET free == ~live
      q    == SetActive(p, FALSE, free)
  IN IF ~d.readable THEN q
     ELSE IF d.kind = "raw8" THEN Controls(LoadRaw(q, d), free)
     ELSE IF LegacyLoads(d) THEN Controls(LoadLegacy(q, d), free)
     ELSE q

--------------------------------------------------------------------------------
Free == ~live /\ busy # "export"

\* The user can act: no nested loop has the input.
Input == busy = "none" /\ inputs < MaxInputs /\ inputs' = inputs + 1

\* openRecordedDataset pauses before it asks for the directory.
Open ==
  /\ Input /\ busy' = "open"
  /\ page' = SetActive(page, FALSE, Free)
  /\ UNCHANGED <<rate, live, decoder, results>>

Choose ==
  /\ busy = "open" /\ busy' = "none"
  /\ page' \in {page} \cup {Load(page, d) : d \in Datasets}
  /\ UNCHANGED <<rate, live, decoder, results, inputs>>

\* The slider, and the buttons and the field that set it.
MoveSlider(f) ==
  /\ Input /\ f \in DOMAIN page.held.frames /\ f # page.current
  /\ page' = RestartClock(Controls(Seek(ShowFrame(page, f), page.held.frames[f]), Free), rate)
  /\ UNCHANGED <<rate, live, busy, decoder, results>>

PlayOrPause ==
  /\ Input /\ CanPlay(page, Free)
  /\ page' = SetActive(page, ~page.playing, Free)
  /\ UNCHANGED <<rate, live, busy, decoder, results>>

ChangeRate(r) ==
  /\ Input /\ CanPlay(page, Free) /\ r # rate
  /\ rate' = r
  /\ page' = RestartClock(page, r)
  /\ UNCHANGED <<live, busy, decoder, results>>

\* validateRecordedDataset: playback goes on in the nested loop.
Validate ==
  /\ Input /\ ~live
  /\ busy' = "validate"
  /\ UNCHANGED <<page, rate, live, decoder, results>>

\* exportLoadedDatasetRosbag: first the dialogs, then the export.
AskExport ==
  /\ Input /\ page.root # "" /\ ~page.metadataOnly /\ ~page.raw8 /\ ~live
  /\ busy' = "save"
  /\ UNCHANGED <<page, rate, live, decoder, results>>

StartExport ==
  /\ busy = "save" /\ ~live /\ busy' = "export"
  /\ page' = Controls(page, FALSE)
  /\ UNCHANGED <<rate, live, decoder, results, inputs>>

Return ==
  /\ busy \in {"save", "validate", "export"} /\ busy' = "none"
  /\ page' = Controls(page, ~live)
  /\ UNCHANGED <<rate, live, decoder, results, inputs>>

\* A capture starts or ends; both refresh the controls.  It may also end by itself
\* while a directory is asked for, and the export expects one to start meanwhile.
Capture ==
  /\ \/ Input
     \/ busy = "open" /\ live /\ UNCHANGED inputs
     \/ busy = "save" /\ ~live /\ UNCHANGED inputs
  /\ live' = ~live
  /\ page' = Controls(page, live)
  /\ UNCHANGED <<rate, busy, decoder, results>>

--------------------------------------------------------------------------------
Tick ==
  /\ page.timer.on /\ page.elapsed < Horizon
  /\ page' = [page EXCEPT !.elapsed = @ + 1]
  /\ UNCHANGED <<rate, live, busy, decoder, results, inputs>>

\* The timer fires, late or on time.
Timeout ==
  /\ page.timer.on /\ page.elapsed >= page.timer.at
  /\ \E n \in {Turn(page)} :
       \E q \in {Played(Halted(page), n)} : page' = Waits(q, n, Free)
  /\ UNCHANGED <<rate, live, busy, decoder, results, inputs>>

\* RawDatasetDecoder::run
Take ==
  /\ decoder = NoRequest /\ page.pending # NoRequest
  /\ decoder' = page.pending
  /\ page' = [page EXCEPT !.pending = NoRequest]
  /\ UNCHANGED <<rate, live, busy, results, inputs>>

Decode ==
  /\ decoder # NoRequest /\ decoder' = NoRequest
  /\ LET d == CHOOSE x \in Datasets : x.name = decoder.of
     IN results' = Append(results, [generation |-> decoder.generation,
                                    image |-> Picture(d, decoder.entry)])
  /\ UNCHANGED <<page, rate, live, busy, inputs>>

\* The posted result: dropped unless it is of the last request.
\* Fault: any result of a RAW8 dataset is shown.
IsCurrent_Fault(result) == page.raw8
IsCurrent(result) == page.raw8 /\ result.generation = page.generation
ShowResult ==
  /\ results # <<>> /\ results' = Tail(results)
  /\ page' = IF IsCurrent(Head(results)) THEN [page EXCEPT !.pane = Head(results).image] ELSE page
  /\ UNCHANGED <<rate, live, busy, decoder, inputs>>

--------------------------------------------------------------------------------
EmptyPage ==
  [held |-> NoData, timeline |-> <<>>, root |-> "", raw8 |-> FALSE, metadataOnly |-> FALSE, current |-> 1,
   cursor |-> 0, playing |-> FALSE, timer |-> Off, anchor |-> 0, elapsed |-> 0,
   counts |-> [s \in Counted |-> 0], cloud |-> {}, lags |-> FALSE, pane |-> NoImage,
   wanted |-> NoImage, generation |-> 0, pending |-> NoRequest]

PageInit ==
  /\ page = EmptyPage /\ rate = 1 /\ live = FALSE /\ busy = "none"
  /\ decoder = NoRequest /\ results = <<>> /\ inputs = 0

PageNext ==
  \/ Open \/ Choose \/ PlayOrPause \/ Validate \/ AskExport \/ StartExport \/ Return \/ Capture
  \/ Tick \/ Timeout \/ Take \/ Decode \/ ShowResult
  \/ \E f \in 1 .. Max({Len(d.frames) : d \in Datasets}) : MoveSlider(f)
  \/ \E r \in Rates : ChangeRate(r)

\* Time passes and the timer is handled; the decoder runs and its results are
\* handled.
PageFairness == WF_pageVars(Tick \/ Timeout) /\ WF_pageVars(Take \/ Decode \/ ShowResult)

PageSpec == PageInit /\ [][PageNext]_pageVars /\ PageFairness

--------------------------------------------------------------------------------
PageTypeOK ==
  /\ page.held = Unread(page.held.name) \/ page.held \in Datasets
  /\ page.cursor \in 0 .. Len(Timeline(page))
  /\ page.current \in Nat \ {0} /\ page.elapsed \in 0 .. Horizon
  /\ page.playing \in BOOLEAN /\ page.timer \in [on : BOOLEAN, at : 0 .. Horizon + DelayLimit]
  /\ page.timer.on => page.playing
  /\ page.playing => Free
  /\ rate \in Rates /\ live \in BOOLEAN /\ busy \in {"none", "open", "save", "validate", "export"}

\* The last event of a stream that the position has passed; 0 if there is none.
LastPassed(p, s) ==
  Max({0} \cup {Timeline(p)[i].index : i \in {j \in 1 .. p.cursor : Timeline(p)[j].stream = s}})

\* What the page shows belongs to one position: the frame, the IMU samples and
\* the LiDAR samples are each the last before it, and no LiDAR batch shown lies
\* after it (README: a jump keeps camera, IMU and LiDAR aligned).  A move of the
\* slider while a capture runs moves the position only, by design.
ShownIsAtCursor ==
  /\ PageTypeOK
  /\ ~page.lags =>
       /\ \A s \in Counted : page.counts[s] = LastPassed(page, s)
       /\ \A i \in page.cloud : i <= LastPassed(page, "lidar")
       /\ LastPassed(page, "lidar") \in page.cloud \cup page.held.dark \cup {0}
       /\ page.held.frames # <<>> /\ Timeline(page) # <<>> => page.current = LastPassed(page, "camera")

\* The pane never shows an image of another dataset or of another sample than
\* the frame's, whatever the decoder still had in hand.
NoStaleImage ==
  page.pane # NoImage =>
    page.held.frames # <<>> /\ page.pane = <<page.held.name, page.held.entries[page.current]>>

\* Playback that has something left to play comes to its end, is paused, or
\* stops at a batch it cannot read; and the image of the frame where it stays
\* is shown if it can be decoded.
PageSettles ==
  /\ (page.playing /\ ~AtEnd(page)) ~> ~page.playing
  /\ <>[](page.raw8 /\ page.held.frames # <<>> =>
            page.pane = Picture(page.held, page.held.entries[page.current]))
================================================================================
