-------------------------- MODULE PreviewPipeline --------------------------
(***************************************************************************)
(* From a received camera frame to the picture on the screen: the capture  *)
(* thread enrols the frame in its display group and queues a decode job,   *)
(* two decode workers publish images into a mailbox, and closures posted   *)
(* to the GUI drain it.  The preview is lossy on purpose; what it promises *)
(* is that it never shows what is not so: a mixture of two groups, a frame *)
(* of an earlier capture, an image from before a camera went missing.      *)
(*                                                                         *)
(* One step is one critical section of a mutex (the mailboxes, the lane    *)
(* progress, the job queue), with the sections next to it in its thread    *)
(* that commute with every step of the others.  A frame is its camera, its *)
(* receive sequence, its group key and the preview generation read when it *)
(* came; pixels are left out.  The 1 s group deadline and the 5 s camera   *)
(* deadline are choices.                                                   *)
(***************************************************************************)
EXTENDS Integers, Sequences, FiniteSets, SequencesExt

CONSTANTS Cameras,
          Workers,         \* how many decode at a time; they are alike
          GroupSpace,      \* trigger counters wrap at 2^32
          Paths,           \* kinds of capture: frames with a group key,
                           \* without one, legacy sets of all cameras
          SentGroups,      \* bound: the groups the device sends
          MayVanish,       \* bound: the cameras that may fall silent
          MaxReceived,     \* bound: frames received in all captures
          MaxGeneration    \* bound: times the preview is reset

ASSUME ConstantsAssumption ==
    /\ IsFiniteSet(Cameras) /\ Cameras # {} /\ Cameras \subseteq Nat
    /\ Workers \in Nat
    /\ GroupSpace \in Nat \ {0, 1}
    /\ Paths \subseteq {"grouped", "independent", "legacy"}
    /\ SentGroups \subseteq 0 .. GroupSpace - 1 /\ MayVanish \subseteq Cameras
    /\ MaxReceived \in Nat /\ MaxGeneration \in Nat

None == [none |-> TRUE]
Groups == 0 .. GroupSpace - 1
Generations == 0 .. MaxGeneration
Image == [camera : Cameras, seq : 1 .. MaxReceived, group : Groups,
          generation : Generations]
NoImages == [c \in Cameras |-> None]

VARIABLES
    path,        \* what the running capture sends, fixed by the device
    capturing,   \* the capture thread is in its receive loop
    enabled,     \* camera_preview_enabled_
    generation,  \* camera_preview_generation_
    received,    \* received_camera_frame_sets of this capture
    sent,        \* frames received in all captures, for the bound
    rx,          \* the capture thread's frame between its critical sections
    active,      \* CameraLaneProgress was started
    lanes,       \* CameraLaneProgress
    mailbox,     \* GroupedPreviewMailbox
    drop,        \* IndependentPreviewMailbox
    jobs,        \* camera_preview_jobs_
    decoding,    \* the jobs the workers hold, with the cameras left to do
    posts,       \* closures queued for the GUI
    gui, batch,  \* where the GUI is in a drain, and the images it took
    notice,      \* camera_missing_notice_
    shown,       \* the image in each pane
    latest,      \* profile_preview_latest_sequence_
    lost         \* history: last sequence before the camera went missing

captureVars == <<path, capturing, received, sent, rx>>
laneVars    == <<active, lanes, lost>>
guiVars     == <<gui, batch, notice, shown, latest>>

vars == <<captureVars, laneVars, enabled, generation, mailbox, drop, jobs,
          decoding, posts, guiVars>>

Job == [cams : SUBSET Cameras, seq : 1 .. MaxReceived, group : Groups,
        generation : Generations, token : 0 .. MaxReceived]

-----------------------------------------------------------------------------
(* CameraLaneProgress: the evidence that a camera delivers.                *)

FreshLane == [state |-> "waiting", sequence |-> 0, minimum |-> 0]

\* receive: the cameras of the mask are live; a frame known to hold all its
\* cameras also tells which are absent.
Received(cams, seq, exact) ==
    [c \in Cameras |->
        LET lane == lanes[c] IN
        IF c \in cams
          THEN IF seq > lane.sequence /\ seq >= lane.minimum
                 THEN [lane EXCEPT !.state = "live", !.sequence = seq]
                 ELSE lane
          ELSE IF exact /\ seq >= lane.sequence
                 THEN [lane EXCEPT !.state = "missing", !.minimum = seq + 1]
                 ELSE lane]

\* The snapshot that marks the camera missing and forgets which frames are
\* from before.
SnapshotOf_Fault(late) ==
    [c \in Cameras |->
        IF c \in late THEN [lanes[c] EXCEPT !.state = "missing"] ELSE lanes[c]]

\* snapshot: the cameras in late were not heard of for 5 s.
SnapshotOf(late) ==
    [c \in Cameras |->
        IF c \in late /\ lanes[c].state # "missing"
          THEN [lanes[c] EXCEPT !.state = "missing",
                                !.minimum = lanes[c].sequence + 1]
          ELSE lanes[c]]

\* History of the lanes, for the property only.
LostAfter(new) ==
    [c \in Cameras |->
        IF new[c].state = "missing" /\ lanes[c].state # "missing"
          THEN lanes[c].sequence ELSE lost[c]]

-----------------------------------------------------------------------------
(* GroupedPreviewMailbox: one group filling, one batch for the GUI, one    *)
(* drain posted.                                                           *)

NoGroup == [token |-> 0, group |-> 0, expected |-> {}, frames |-> NoImages,
            closed |-> TRUE]

FreshMailbox(g) == [generation |-> g, token |-> 0, last |-> None,
                    current |-> NoGroup, ready |-> NoImages, posted |-> FALSE,
                    warned |-> FALSE, presenting |-> FALSE]

DecodedIn(current) == {c \in Cameras : current.frames[c] # None}

\* retireIncomplete: what was decoded is shown, the rest is a warning.
Retire(m) ==
    [m EXCEPT !.current.closed = TRUE, !.warned = TRUE,
              !.ready = IF DecodedIn(m.current) # {} THEN m.current.frames
                        ELSE m.ready]

\* requestPost: the caller must post a drain.
MustPost(m) == ~m.posted /\ (m.ready # NoImages \/ m.warned)
Requested(m) == [m EXCEPT !.posted = m.posted \/ MustPost(m)]

\* The comparison that forgets that trigger counters wrap.
IsNewer_Fault(group, last) == group > last.group

\* A group opens only if its counter is ahead of the last one's.
IsNewer(group, last) ==
    LET delta == (group - last.group) % GroupSpace
    IN 0 < delta /\ 2 * delta < GroupSpace

Opened(m, group, expected) ==
    LET retired == IF ~m.current.closed THEN Retire(m)
                   ELSE [m EXCEPT !.warned = m.warned \/ m.ready # NoImages
                                             \/ m.presenting]
    IN [retired EXCEPT !.token = m.token + 1,
                       !.last = [group |-> group],
                       !.current = [token |-> m.token + 1, group |-> group,
                                    expected |-> expected, closed |-> FALSE,
                                    frames |-> NoImages]]

\* arrive: the mailbox after it, the token of the frame (0: not displayed),
\* and whether the caller must post.
Arrival(m, group, g, expected) ==
    LET refused(token) == [mailbox |-> m, token |-> token, post |-> FALSE]
        opened == Opened(m, group, expected)
    IN IF g # m.generation \/ expected = {} THEN refused(0)
       ELSE IF m.last # None /\ m.last.group = group
         THEN refused(IF m.current.closed THEN 0 ELSE m.current.token)
       ELSE IF m.last # None /\ ~IsNewer(group, m.last) THEN refused(0)
       ELSE [mailbox |-> Requested(opened), token |-> opened.token,
             post |-> MustPost(opened)]

\* The same test when it does not ask which group is current.
Accepts_Fault(m, token, image) ==
    /\ image.generation = m.generation
    /\ ~m.current.closed
    /\ image.camera \in m.current.expected \ DecodedIn(m.current)

Accepts(m, token, image) ==
    /\ image.generation = m.generation
    /\ m.current.token = token /\ ~m.current.closed
    /\ image.camera \in m.current.expected \ DecodedIn(m.current)

\* publish: the image joins its group, a complete group becomes the batch.
Published(m, image) ==
    LET frames == [m.current.frames EXCEPT ![image.camera] = image]
        full == \A c \in m.current.expected : frames[c] # None
    IN [m EXCEPT !.current.frames = frames,
                 !.current.closed = full,
                 !.ready = IF full THEN frames ELSE m.ready]

\* The expiry that leaves an incomplete group to its next arrival.
Expired_Fault(m) == m

\* expire: what the 250 ms timer does for a group past its second.
Expired(m) == IF m.current.closed THEN m ELSE Retire(m)
Taken(m) == [m EXCEPT !.ready = NoImages, !.presenting = TRUE, !.warned = FALSE]
Presented(m) == [m EXCEPT !.presenting = FALSE, !.posted = FALSE]

-----------------------------------------------------------------------------
(* IndependentPreviewMailbox: the latest image of each camera.             *)

FreshDrop(g) == [generation |-> g, newest |-> [c \in Cameras |-> 0],
                 frames |-> NoImages, posted |-> FALSE]

DropAccepts(image) == /\ image.generation = drop.generation
                      /\ image.seq > drop.newest[image.camera]

Dropped(image) == [drop EXCEPT !.newest[image.camera] = image.seq,
                               !.frames[image.camera] = image,
                               !.posted = TRUE]

-----------------------------------------------------------------------------
Idle == [at |-> "idle"]
ImageOf(job, c) == [camera |-> c, seq |-> job.seq, group |-> job.group,
                    generation |-> job.generation]
Drain(kind, g) == [kind |-> kind, generation |-> g]

\* postGroupedPreview, or the post of an independent drain.
Posted(must, kind, g) == IF must THEN Append(posts, Drain(kind, g)) ELSE posts

Init ==
    /\ path \in Paths
    /\ capturing = FALSE /\ enabled = TRUE /\ generation = 0 /\ received = 0
    /\ sent = 0
    /\ rx = Idle
    /\ active = FALSE /\ lanes = [c \in Cameras |-> FreshLane]
    /\ mailbox = FreshMailbox(0) /\ drop = FreshDrop(0)
    /\ jobs = <<>> /\ decoding = {}
    /\ posts = <<>> /\ gui = Idle /\ batch = NoImages
    /\ notice = [c \in Cameras |-> FALSE]
    /\ shown = NoImages /\ latest = [c \in Cameras |-> 0]
    /\ lost = [c \in Cameras |-> 0]

-----------------------------------------------------------------------------
(* The capture thread.                                                     *)

\* workerMain, started after resetUi, reaches its loop: the lanes start,
\* sequences start at 1.
CaptureStarts ==
    /\ ~capturing /\ ~active
    /\ gui.at \in {"reset", "clear"} => gui.kind = "hide"
    /\ capturing' = TRUE /\ active' = TRUE /\ received' = 0
    /\ lanes' = [c \in Cameras |-> FreshLane]
    /\ UNCHANGED <<path, sent, rx, lost, enabled, generation, mailbox, drop, jobs,
                   decoding, posts, guiVars>>

CaptureEnds ==
    /\ capturing /\ rx = Idle
    /\ capturing' = FALSE
    /\ UNCHANGED <<path, received, sent, rx, laneVars, enabled, generation, mailbox,
                   drop, jobs, decoding, posts, guiVars>>

\* A frame is complete: one camera's image, or a legacy set of all the
\* cameras of its mask, exact when its metadata vouches for the mask.
Receive ==
    /\ capturing /\ rx = Idle /\ sent < MaxReceived
    /\ sent' = sent + 1 /\ received' = received + 1
    /\ \E cams \in (SUBSET Cameras) \ {{}}, group \in SentGroups, exact \in BOOLEAN :
          /\ path # "legacy" => Cardinality(cams) = 1 /\ ~exact
          /\ path = "legacy" => Cameras \ cams \subseteq MayVanish
          /\ path = "independent" => group = 0     \* no key, no group
          /\ lanes' = Received(cams, received + 1, exact)
          /\ lost' = LostAfter(lanes')
          /\ rx' = [at |-> "enrol",
                    job |-> [cams |-> cams, seq |-> received + 1,
                             group |-> group, generation |-> generation,
                             token |-> 0]]
    /\ UNCHANGED <<path, capturing, active, enabled, generation, mailbox, drop,
                   jobs, decoding, posts, guiVars>>

\* What enrolment leaves of the frame: one whose group is closed or older is
\* not decoded at all.
Enrolled(token) ==
    IF token = 0 THEN Idle
    ELSE [at |-> "push", job |-> [rx.job EXCEPT !.token = token]]

\* enqueueCameraPreview up to the queue.
Enrol ==
    /\ rx.at = "enrol"
    /\ LET expected == IF path = "legacy" THEN rx.job.cams ELSE Cameras
           arrival == Arrival(mailbox, rx.job.group, rx.job.generation, expected)
       IN \/ /\ ~enabled
             /\ rx' = Idle /\ UNCHANGED <<mailbox, posts>>
          \/ /\ enabled /\ path = "independent"
             /\ rx' = [rx EXCEPT !.at = "push"] /\ UNCHANGED <<mailbox, posts>>
          \/ /\ enabled /\ path = "grouped" /\ mailbox.last # None
             /\ mailbox.last.group = rx.job.group   \* but of another time
             /\ rx' = Idle /\ UNCHANGED <<mailbox, posts>>
          \/ /\ enabled /\ path # "independent"
             /\ mailbox' = arrival.mailbox
             /\ posts' = Posted(arrival.post, "group", rx.job.generation)
             /\ rx' = Enrolled(arrival.token)
    /\ UNCHANGED <<path, capturing, received, sent, laneVars, enabled, generation,
                   drop, jobs, decoding, guiVars>>

\* The queue that only ever appends.
Kept_Fault(job) == jobs

\* The queue keeps one undecoded image per camera, or the newest legacy set:
\* the loop erases every job that shares a camera with the new one.
Kept(job) ==
    LET past[n \in 0 .. Len(jobs)] ==
          IF n = 0 THEN <<>>
          ELSE IF jobs[n].cams \cap job.cams # {} THEN past[n - 1]
          ELSE Append(past[n - 1], jobs[n])
    IN IF path = "legacy" THEN <<>> ELSE past[Len(jobs)]

Push ==
    /\ rx.at = "push"
    /\ jobs' = Append(Kept(rx.job), rx.job)
    /\ rx' = Idle
    /\ UNCHANGED <<path, capturing, received, sent, laneVars, enabled, generation,
                   mailbox, drop, decoding, posts, guiVars>>

Capture == CaptureStarts \/ CaptureEnds \/ Receive \/ Enrol \/ Push

-----------------------------------------------------------------------------
(* The decode workers.                                                     *)

TakeJob ==
    /\ Cardinality(decoding) < Workers /\ jobs # <<>>
    /\ decoding' = decoding \cup {[job |-> Head(jobs), left |-> Head(jobs).cams]}
    /\ jobs' = Tail(jobs)
    /\ UNCHANGED <<captureVars, laneVars, enabled, generation, mailbox, drop,
                   posts, guiVars>>

\* The work d is done with its first camera.
FirstOf(cams) == CHOOSE c \in cams : \A other \in cams : c <= other
Advance(d) ==
    LET left == d.left \ {FirstOf(d.left)}
    IN decoding' = (decoding \ {d})
                     \cup (IF left = {} THEN {} ELSE {[d EXCEPT !.left = left]})

\* One camera of the job, decoded and passed to publishDecodedCameraPreview.
\* Skip stands for an image that does not decode, one whose metadata
\* contradicts the hint, and one the mailbox does not accept.
Skip(d) ==
    /\ Advance(d)
    /\ UNCHANGED <<captureVars, laneVars, enabled, generation, mailbox, drop,
                   jobs, posts, guiVars>>

PublishGrouped(d) ==
    LET image == ImageOf(d.job, FirstOf(d.left))
        published == Published(mailbox, image)
    IN /\ d.job.token # 0
       /\ Accepts(mailbox, d.job.token, image)
       /\ mailbox' = Requested(published)
       /\ posts' = Posted(MustPost(published), "group", d.job.generation)
       /\ Advance(d)
       /\ UNCHANGED <<captureVars, laneVars, enabled, generation, drop, jobs,
                      guiVars>>

PublishSingle(d) ==
    LET image == ImageOf(d.job, FirstOf(d.left))
    IN /\ d.job.token = 0
       /\ DropAccepts(image)
       /\ drop' = Dropped(image)
       /\ posts' = Posted(~drop.posted, "single", d.job.generation)
       /\ Advance(d)
       /\ UNCHANGED <<captureVars, laneVars, enabled, generation, mailbox, jobs,
                      guiVars>>

Decode == TakeJob
          \/ \E d \in decoding : Skip(d) \/ PublishGrouped(d) \/ PublishSingle(d)

-----------------------------------------------------------------------------
(* The GUI thread.                                                         *)

\* refreshCameraPresence: a missing camera loses its image and gains a
\* notice, one that is heard of again loses the notice.
Refresh(late) ==
    /\ late # {} => active
    /\ lanes' = SnapshotOf(late) /\ lost' = LostAfter(lanes')
    /\ notice' = [c \in Cameras |-> lanes'[c].state = "missing"]
    /\ shown' = [c \in Cameras |-> IF notice'[c] /\ ~notice[c] THEN None
                                   ELSE shown[c]]

\* A drain takes what is ready and refreshes the notices.  One posted before
\* a reset takes nothing.
Outdated(drain) == drain.generation # generation

SkipDrain ==
    /\ gui = Idle /\ posts # <<>> /\ Outdated(Head(posts))
    /\ posts' = Tail(posts)
    /\ UNCHANGED <<captureVars, laneVars, enabled, generation, mailbox, drop,
                   jobs, decoding, guiVars>>

TakeBatch ==
    /\ gui = Idle /\ posts # <<>> /\ ~Outdated(Head(posts))
    /\ posts' = Tail(posts)
    /\ gui' = [at |-> "apply", kind |-> Head(posts).kind]
    /\ \/ /\ Head(posts).kind = "group"
          /\ mailbox' = Taken(mailbox) /\ batch' = mailbox.ready
          /\ UNCHANGED drop
       \/ /\ Head(posts).kind = "single"
          /\ drop' = [drop EXCEPT !.frames = NoImages, !.posted = FALSE]
          /\ batch' = drop.frames
          /\ UNCHANGED mailbox
    /\ \E late \in SUBSET MayVanish : Refresh(late)
    /\ UNCHANGED <<captureVars, active, enabled, generation, jobs, decoding,
                   latest>>

\* applyDecodedCameraPreview for one image of the batch.
Fresh(c, image) ==
    /\ image # None
    /\ image.generation = generation /\ ~notice[c]
    /\ image.seq >= lanes'[c].minimum /\ image.seq > latest[c]

\* A grouped drain ends with presented: what became ready during it needs
\* another drain.
AfterPaint(m) == Requested(Presented(m))

ApplyBatch ==
    /\ gui.at = "apply"
    /\ \E late \in SUBSET MayVanish :
          /\ late # {} => active
          /\ lanes' = SnapshotOf(late) /\ lost' = LostAfter(lanes')
    /\ shown' = [c \in Cameras |-> IF Fresh(c, batch[c]) THEN batch[c]
                                   ELSE shown[c]]
    /\ latest' = [c \in Cameras |-> IF Fresh(c, batch[c]) THEN batch[c].seq
                                    ELSE latest[c]]
    /\ IF gui.kind = "group"
         THEN /\ mailbox' = AfterPaint(mailbox)
              /\ posts' = Posted(mailbox'.posted, "group", generation)
         ELSE UNCHANGED <<mailbox, posts>>
    /\ batch' = NoImages /\ gui' = Idle
    /\ UNCHANGED <<captureVars, active, enabled, generation, drop, jobs, decoding,
                   notice>>

\* The 250 ms timer; overdue says that the group's second has passed.
Timer(overdue) ==
    /\ gui = Idle
    /\ \/ capturing /\ \E late \in SUBSET MayVanish : Refresh(late)
       \/ ~capturing /\ UNCHANGED <<lanes, lost, notice, shown>>
    /\ LET m == IF overdue THEN Expired(mailbox) ELSE mailbox IN
       IF enabled
         THEN /\ mailbox' = Requested(m)
              /\ posts' = Posted(MustPost(m), "group", generation)
         ELSE UNCHANGED <<mailbox, posts>>
    /\ UNCHANGED <<captureVars, active, enabled, generation, drop, jobs, decoding,
                   gui, batch, latest>>

\* resetUi, when a capture starts after the last one was joined, and the
\* camera tab being hidden begin alike.
BeginReset(kind) ==
    /\ gui = Idle /\ generation < MaxGeneration
    /\ generation' = generation + 1
    /\ gui' = [at |-> "reset", kind |-> kind]

NewCapture ==
    /\ ~capturing /\ BeginReset("capture")
    /\ UNCHANGED <<captureVars, laneVars, enabled, mailbox, drop,
                   jobs, decoding, posts, batch, notice, shown, latest>>

HidePreview ==
    /\ enabled /\ BeginReset("hide")
    /\ enabled' = FALSE
    /\ UNCHANGED <<captureVars, laneVars, mailbox, drop, jobs, decoding, posts,
                   batch, notice, shown, latest>>

ShowPreview ==
    /\ gui = Idle /\ ~enabled
    /\ enabled' = TRUE
    /\ UNCHANGED <<captureVars, laneVars, generation, mailbox, drop, jobs,
                   decoding, posts, guiVars>>

ResetMailboxes ==
    /\ gui.at = "reset"
    /\ mailbox' = FreshMailbox(generation) /\ drop' = FreshDrop(generation)
    /\ gui' = [gui EXCEPT !.at = "clear"]
    /\ UNCHANGED <<captureVars, laneVars, enabled, generation, jobs, decoding,
                   posts, batch, notice, shown, latest>>

ClearJobs ==
    /\ gui.at = "clear"
    /\ jobs' = <<>> /\ gui' = Idle
    /\ IF gui.kind = "capture"
         THEN /\ active' = FALSE
              /\ lanes' = [c \in Cameras |-> FreshLane]
              /\ lost' = [c \in Cameras |-> 0]
              /\ notice' = [c \in Cameras |-> FALSE]
              /\ shown' = NoImages /\ latest' = [c \in Cameras |-> 0]
         ELSE UNCHANGED <<laneVars, notice, shown, latest>>
    /\ UNCHANGED <<captureVars, enabled, generation, mailbox, drop, decoding,
                   posts, batch>>

DrainSteps == SkipDrain \/ TakeBatch \/ ApplyBatch

Gui == DrainSteps \/ Timer(FALSE) \/ Timer(TRUE) \/ NewCapture \/ HidePreview
       \/ ShowPreview \/ ResetMailboxes \/ ClearJobs

-----------------------------------------------------------------------------
Next == Capture \/ Decode \/ Gui

\* Threads run and the GUI returns to its event loop; the timer fires and in
\* time finds the group overdue.
Fairness ==
    /\ WF_vars(Enrol \/ Push)
    /\ WF_vars(Decode)
    /\ WF_vars(DrainSteps) /\ WF_vars(ResetMailboxes \/ ClearJobs)
    /\ SF_vars(Timer(TRUE))

Spec == Init /\ [][Next]_vars /\ Fairness

-----------------------------------------------------------------------------
TypeOK ==
    /\ path \in Paths /\ capturing \in BOOLEAN /\ enabled \in BOOLEAN
    /\ generation \in Generations /\ received \in 0 .. sent /\ sent \in 0 .. MaxReceived
    /\ active \in BOOLEAN
    /\ lanes \in [Cameras -> [state : {"waiting", "live", "missing"},
                              sequence : 0 .. MaxReceived,
                              minimum : 0 .. MaxReceived + 1]]
    /\ mailbox.token \in 0 .. MaxReceived
    /\ \A c \in Cameras : mailbox.current.frames[c] \in Image \cup {None}
    /\ jobs \in Seq(Job)
    \* Only images without a group key bypass the groups.
    /\ \A i \in 1 .. Len(jobs) : jobs[i].token = 0 <=> path = "independent"
    /\ \A d \in decoding : d.job \in Job /\ d.left \subseteq d.job.cams
    /\ posts \in Seq([kind : {"group", "single"}, generation : Generations])
    /\ notice \in [Cameras -> BOOLEAN]
    /\ \A c \in Cameras : shown[c] \in Image \cup {None}
    /\ latest \in [Cameras -> 0 .. MaxReceived]

\* "Never fill a missing member using a different group's newly decoded
\* image": what one drain shows together was triggered together, whatever
\* order two workers decode in and whatever arrives during the drain.
OneGroupPerPaint ==
    gui.at = "apply" /\ gui.kind = "group" =>
        \A c, d \in Cameras : batch[c] # None /\ batch[d] # None =>
            /\ batch[c].group = batch[d].group
            /\ batch[c].generation = batch[d].generation

\* A pane never goes back: the image it is given is of the present preview
\* generation, was received after the one before it, and unless the preview
\* was reset between them its group is the later one, counters wrapping.
Behind(group, other) == 2 * ((group - other) % GroupSpace) >= GroupSpace
NeverOlder ==
    [][\A c \in Cameras :
        shown'[c] # shown[c] /\ shown'[c] # None =>
            /\ shown'[c].generation = generation
            /\ shown'[c].seq > latest[c]
            /\ shown[c] # None /\ shown[c].generation = generation =>
                   ~Behind(shown'[c].group, shown[c].group)]_vars

\* "A delayed decode cannot restore an image from before absence": once a
\* camera was found missing, only frames received later are shown.
NothingFromBeforeAbsence ==
    [][\A c \in Cameras :
        shown'[c] # shown[c] /\ shown'[c] # None => shown'[c].seq > lost'[c]]_vars

\* Slow painting cannot make anything grow: no camera has two undecoded
\* images, and at most one drain of this generation is queued or painting.
Drains(kind) ==
    Cardinality({i \in 1 .. Len(posts) : posts[i] = Drain(kind, generation)})
    + (IF gui.at = "apply" /\ gui.kind = "group" /\ kind = "group" THEN 1 ELSE 0)

BoundedWork ==
    /\ TypeOK
    /\ \A i, j \in 1 .. Len(jobs) : i # j => jobs[i].cams \cap jobs[j].cams = {}
    /\ \A kind \in {"group", "single"} : Drains(kind) <= 1

\* "Missing next-frame notification must never leave healthy images waiting
\* forever": a decoded image leaves the mailbox for the GUI although its
\* group never completes, unless the preview is hidden.
Waiting == \/ mailbox.ready # NoImages
           \/ ~mailbox.current.closed /\ DecodedIn(mailbox.current) # {}
           \/ drop.frames # NoImages
HealthyNeverWait == Waiting ~> (~Waiting \/ ~enabled)

=============================================================================
