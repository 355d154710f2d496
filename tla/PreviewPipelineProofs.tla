------------------------- MODULE PreviewPipelineProofs -------------------------
(***************************************************************************)
(* Proofs about PreviewPipeline, for any cameras, workers, counters and     *)
(* bounds: what is painted together was triggered together, nothing is      *)
(* shown from before an absence, and slow painting makes nothing grow.      *)
(***************************************************************************)
EXTENDS PreviewPipeline, SequenceTheorems, FiniteSetTheorems, WellFoundedInduction, TLAPS

Slots    == Image \cup {None}
Panels   == [Cameras -> Slots]
Currents == [token : 0 .. MaxReceived, group : Groups, expected : SUBSET Cameras,
             frames : Panels, closed : BOOLEAN]
Mailboxes == [generation : Generations, token : 0 .. MaxReceived,
              last : {None} \cup [group : Groups], current : Currents, ready : Panels,
              posted : BOOLEAN, warned : BOOLEAN, presenting : BOOLEAN]
Drops  == [generation : Generations, newest : [Cameras -> 0 .. MaxReceived], frames : Panels,
           posted : BOOLEAN]
Lanes  == [state : {"waiting", "live", "missing"}, sequence : 0 .. MaxReceived,
           minimum : 0 .. MaxReceived + 1]
Works  == [job : Job, left : SUBSET Cameras]
DrainSet == [kind : {"group", "single"}, generation : Generations]

OneGroup(images) ==
    \A c, d \in Cameras : images[c] # None /\ images[d] # None =>
        /\ images[c].group = images[d].group
        /\ images[c].generation = images[d].generation

(* Everything a mailbox holds belongs to the group it filled last or to    *)
(* the one it made ready.                                                  *)
Mail(m) ==
    /\ m \in Mailboxes
    /\ m.current.token = m.token
    /\ \A c \in Cameras : m.current.frames[c] # None =>
          /\ m.current.frames[c].group = m.current.group
          /\ m.current.frames[c].generation = m.generation
    /\ m.last # None => m.last.group = m.current.group
    /\ OneGroup(m.ready)

BaseOK ==
    /\ path \in Paths /\ capturing \in BOOLEAN /\ enabled \in BOOLEAN /\ active \in BOOLEAN
    /\ generation \in Generations /\ sent \in 0 .. MaxReceived /\ received \in 0 .. sent
    /\ capturing => active

(* What was lost is older than anything the lane still lets through.       *)
LanesOK ==
    /\ lanes \in [Cameras -> Lanes] /\ lost \in [Cameras -> 0 .. MaxReceived]
    /\ \A c \in Cameras : /\ lost[c] <= lanes[c].sequence
                          /\ lost[c] # 0 => lost[c] < lanes[c].minimum
                          /\ ~active => lost[c] = 0

(* A frame between its critical sections; each opens at most one group.    *)
RxOK ==
    /\ \/ rx = Idle
       \/ /\ rx.at \in {"enrol", "push"} /\ rx.job \in Job /\ rx.job.cams # {}
          /\ rx = [at |-> rx.at, job |-> rx.job]
    /\ rx.at = "enrol" => rx.job.token = 0
    /\ rx.at = "push" => (rx.job.token = 0 <=> path = "independent")
    /\ mailbox.token + (IF rx.at = "enrol" THEN 1 ELSE 0) <= sent

\* Jobs of which no two share a camera.
Apart(q) == \A i, j \in 1 .. Len(q) : i < j => q[i].cams \cap q[j].cams = {}

WorkOK ==
    /\ jobs \in Seq(Job)
    /\ \A i \in 1 .. Len(jobs) : /\ jobs[i].cams # {}
                                 /\ jobs[i].token = 0 <=> path = "independent"
    /\ Apart(jobs)
    /\ \A d \in decoding : d \in Works /\ d.left \subseteq d.job.cams /\ d.left # {}

(* A job that names a group of the present mailbox carries that group.     *)
Fits(job) ==
    job.token # 0 =>
        /\ job.generation <= mailbox.generation
        /\ job.generation = mailbox.generation =>
              /\ job.token <= mailbox.token
              /\ job.token = mailbox.token => job.group = mailbox.current.group

TokensOK ==
    /\ rx.at = "push" => Fits(rx.job)
    /\ \A i \in 1 .. Len(jobs) : Fits(jobs[i])
    /\ \A d \in decoding : Fits(d.job)

Painting == gui.at = "apply" /\ gui.kind = "group"

GuiOK ==
    /\ gui \in {Idle} \cup [at : {"apply"}, kind : {"group", "single"}]
               \cup [at : {"reset", "clear"}, kind : {"capture", "hide"}]
    /\ gui.at \in {"reset", "clear"} /\ gui.kind = "capture" => ~capturing
    /\ batch \in Panels
    /\ Painting => OneGroup(batch)
    /\ IF gui.at = "reset" THEN mailbox.generation < generation
                           ELSE mailbox.generation = generation

(* At most one drain of the present generation is posted or painting, and  *)
(* the mailbox knows.                                                      *)
Present(i, kind) == posts[i] = Drain(kind, mailbox.generation)

PostsOK ==
    /\ posts \in Seq(DrainSet)
    /\ \A i \in 1 .. Len(posts) : posts[i].generation <= mailbox.generation
    /\ \A kind \in {"group", "single"} : \A i, j \in 1 .. Len(posts) :
          Present(i, kind) /\ Present(j, kind) => i = j
    /\ \A i \in 1 .. Len(posts) : /\ Present(i, "group") => mailbox.posted /\ ~Painting
                                  /\ Present(i, "single") => drop.posted
    /\ Painting => mailbox.posted

PanesOK ==
    /\ notice \in [Cameras -> BOOLEAN] /\ shown \in Panels
    /\ latest \in [Cameras -> 0 .. MaxReceived]

MailOK == Mail(mailbox) /\ drop \in Drops /\ drop.generation = mailbox.generation

IInv == /\ BaseOK /\ LanesOK /\ RxOK /\ MailOK /\ WorkOK /\ TokensOK /\ GuiOK
        /\ PostsOK /\ PanesOK

-----------------------------------------------------------------------------
(* The mailbox: what each of its operations does to the fields the others  *)
(* rely on.                                                                *)

LEMMA NoPictures ==
  /\ NoImages \in Panels /\ OneGroup(NoImages)
  /\ \A c \in Cameras : NoImages[c] = None
<1>1. \A i \in Image : i # None
  BY DEF Image, None
<1> QED
  BY <1>1 DEF NoImages, Panels, Slots, OneGroup

\* The two mailboxes hold the same group of the same generation.
SameGroup(n, m) == /\ n.generation = m.generation /\ n.token = m.token
                   /\ n.current.group = m.current.group

LEMMA RetireMail ==
  ASSUME NEW m, Mail(m)
  PROVE  /\ Mail(Retire(m)) /\ SameGroup(Retire(m), m)
         /\ Retire(m).posted = m.posted
<1> DEFINE r == Retire(m)
<1>1. /\ m \in Mailboxes /\ m.current \in Currents
  BY DEF Mail, Mailboxes
<1>2. /\ r.generation = m.generation /\ r.token = m.token /\ r.last = m.last
      /\ r.posted = m.posted /\ r.presenting = m.presenting /\ r.warned = TRUE
      /\ r.current = [m.current EXCEPT !.closed = TRUE]
      /\ r.ready = IF DecodedIn(m.current) # {} THEN m.current.frames ELSE m.ready
  BY <1>1 DEF Retire, Mailboxes
<1>3. /\ r.current \in Currents
      /\ r.current.token = m.current.token /\ r.current.group = m.current.group
      /\ r.current.frames = m.current.frames
  BY <1>1, <1>2 DEF Currents
<1>4. OneGroup(m.current.frames)
  BY DEF Mail, OneGroup
<1>5. r.ready \in Panels /\ OneGroup(r.ready)
  BY <1>1, <1>2, <1>4 DEF Mail, Mailboxes, Currents
<1>6. r = [m EXCEPT !.current = r.current, !.warned = TRUE, !.ready = r.ready]
  BY <1>1, <1>2 DEF Retire, Mailboxes
<1>7. r \in Mailboxes
  <2> HIDE DEF r
  <2> QED
    BY <1>1, <1>2, <1>3, <1>5, <1>6 DEF Mailboxes
<1> HIDE DEF r
<1>8. Mail(r)
  BY <1>2, <1>3, <1>5, <1>7 DEF Mail
<1> QED
  BY <1>2, <1>3, <1>8 DEF r, SameGroup

\* Fields that only say whether the GUI has been told.
LEMMA FlagsMail ==
  ASSUME NEW m, Mail(m), NEW n, n \in Mailboxes,
         n.generation = m.generation, n.token = m.token, n.last = m.last,
         n.current = m.current, n.ready = m.ready
  PROVE  Mail(n) /\ SameGroup(n, m)
BY DEF Mail, SameGroup

LEMMA RequestedMail ==
  ASSUME NEW m, Mail(m)
  PROVE  /\ Mail(Requested(m)) /\ SameGroup(Requested(m), m)
         /\ MustPost(m) \in BOOLEAN
         /\ Requested(m).posted = (m.posted \/ MustPost(m))
<1>1. m \in Mailboxes
  BY DEF Mail
<1>2. /\ m.posted \in BOOLEAN /\ m.warned \in BOOLEAN /\ m.presenting \in BOOLEAN
      /\ MustPost(m) \in BOOLEAN
  BY <1>1 DEF Mailboxes, MustPost
<1>3. PICK p \in BOOLEAN : p = (m.posted \/ MustPost(m))
  OBVIOUS
<1>4. Requested(m) = [m EXCEPT !.posted = p]
  BY <1>3 DEF Requested
<1>5. Requested(m) \in Mailboxes /\ Requested(m).posted = p
  BY <1>1, <1>4 DEF Mailboxes
<1>6. /\ Requested(m).generation = m.generation /\ Requested(m).token = m.token
      /\ Requested(m).last = m.last /\ Requested(m).current = m.current
      /\ Requested(m).ready = m.ready
  BY <1>1, <1>4 DEF Mailboxes
<1>7. Mail(Requested(m)) /\ SameGroup(Requested(m), m)
  BY <1>5, <1>6, FlagsMail
<1> QED
  BY <1>2, <1>3, <1>5, <1>7

LEMMA ExpiredMail ==
  ASSUME NEW m, Mail(m)
  PROVE  Mail(Expired(m)) /\ SameGroup(Expired(m), m) /\ Expired(m).posted = m.posted
BY RetireMail DEF Expired, SameGroup

LEMMA TakenMail ==
  ASSUME NEW m, Mail(m)
  PROVE  Mail(Taken(m)) /\ SameGroup(Taken(m), m) /\ Taken(m).posted = m.posted
<1>1. m \in Mailboxes
  BY DEF Mail
<1>2. Taken(m) \in Mailboxes
  BY <1>1, NoPictures DEF Mailboxes, Taken
<1>3. /\ Taken(m).generation = m.generation /\ Taken(m).token = m.token
      /\ Taken(m).last = m.last /\ Taken(m).current = m.current
      /\ Taken(m).ready = NoImages /\ Taken(m).posted = m.posted
  BY <1>1 DEF Mailboxes, Taken
<1> QED
  BY <1>2, <1>3, NoPictures DEF Mail, SameGroup

LEMMA PresentedMail ==
  ASSUME NEW m, Mail(m)
  PROVE  Mail(Presented(m)) /\ SameGroup(Presented(m), m) /\ Presented(m).posted = FALSE
<1>1. m \in Mailboxes
  BY DEF Mail
<1>2. /\ Presented(m) \in Mailboxes /\ Presented(m).posted = FALSE
      /\ Presented(m).generation = m.generation /\ Presented(m).token = m.token
      /\ Presented(m).last = m.last /\ Presented(m).current = m.current
      /\ Presented(m).ready = m.ready
  BY <1>1 DEF Presented, Mailboxes
<1> QED
  BY <1>2, FlagsMail

LEMMA FreshMail ==
  ASSUME ConstantsAssumption, NEW g \in Generations
  PROVE  /\ Mail(FreshMailbox(g)) /\ FreshMailbox(g).generation = g
         /\ FreshMailbox(g).token = 0 /\ FreshMailbox(g).posted = FALSE
<1>1. /\ 0 \in 0 .. MaxReceived /\ 0 \in Groups
  BY DEF ConstantsAssumption, Groups
<1>2. NoGroup \in Currents
  BY <1>1, NoPictures DEF NoGroup, Currents
<1>3. FreshMailbox(g) \in Mailboxes
  BY <1>1, <1>2, NoPictures DEF FreshMailbox, Mailboxes
<1> QED
  BY <1>3, NoPictures DEF Mail, FreshMailbox, NoGroup

\* A group that opens takes the next token.
LEMMA OpenedMail ==
  ASSUME NEW m, Mail(m), NEW group \in Groups, NEW expected \in SUBSET Cameras,
         MaxReceived \in Nat, m.token < MaxReceived
  PROVE  LET n == Opened(m, group, expected) IN
         /\ Mail(n) /\ n.generation = m.generation /\ n.posted = m.posted
         /\ n.token = m.token + 1 /\ n.current.group = group
<1>1. m \in Mailboxes
  BY DEF Mail
<1>2. PICK w \in BOOLEAN : w = (m.warned \/ m.ready # NoImages \/ m.presenting)
  OBVIOUS
<1>3. PICK r : r = IF ~m.current.closed THEN Retire(m) ELSE [m EXCEPT !.warned = w]
  OBVIOUS
<1>4. Mail(r) /\ SameGroup(r, m) /\ r.posted = m.posted
  <2>1. CASE ~m.current.closed
    BY <1>3, <2>1, RetireMail
  <2>2. CASE m.current.closed
    <3>1. r = [m EXCEPT !.warned = w]
      BY <1>3, <2>2
    <3>2. /\ r \in Mailboxes /\ r.posted = m.posted /\ r.generation = m.generation
          /\ r.token = m.token /\ r.last = m.last /\ r.current = m.current
          /\ r.ready = m.ready
      BY <1>1, <3>1 DEF Mailboxes
    <3> QED
      BY <3>2, FlagsMail
  <2> QED
    BY <2>1, <2>2
<1>5. PICK k : k = [token |-> m.token + 1, group |-> group, expected |-> expected,
                    closed |-> FALSE, frames |-> NoImages]
  OBVIOUS
<1>6. m.token + 1 \in 0 .. MaxReceived
  BY <1>1 DEF Mailboxes
<1>7. k \in Currents
  BY <1>5, <1>6, NoPictures DEF Currents
<1>8. PICK n : n = [r EXCEPT !.token = m.token + 1, !.last = [group |-> group],
                             !.current = k]
  OBVIOUS
<1>9. r \in Mailboxes
  BY <1>4 DEF Mail
<1>10. PICK t \in 0 .. MaxReceived, l \in [group : Groups] :
          t = m.token + 1 /\ l = [group |-> group]
  BY <1>6
<1>11. n = [r EXCEPT !.token = t, !.last = l, !.current = k]
  BY <1>8, <1>10
<1>12. n \in Mailboxes
  BY <1>7, <1>9, <1>11 DEF Mailboxes
<1>13. /\ n.token = t /\ n.last = l /\ n.current = k /\ n.ready = r.ready
       /\ n.generation = r.generation /\ n.posted = r.posted
  BY <1>9, <1>11 DEF Mailboxes
<1>14. k.token = t /\ k.group = group /\ k.frames = NoImages /\ l.group = group
  BY <1>5, <1>10
<1>15. Mail(n)
  BY <1>4, <1>12, <1>13, <1>14, NoPictures DEF Mail
<1>16. n = Opened(m, group, expected)
  BY <1>2, <1>3, <1>5, <1>8 DEF Opened
<1> QED
  BY <1>4, <1>10, <1>13, <1>14, <1>15, <1>16 DEF SameGroup

\* What a frame's arrival makes of the mailbox: it stays and the frame joins
\* its group or none, or the frame's group opens.
Arrived(a, m, group, g) ==
  \/ /\ a.mailbox = m /\ a.post = FALSE
     /\ a.token # 0 => /\ a.token = m.token /\ g = m.generation
                       /\ group = m.current.group
  \/ \E n : /\ Mail(n) /\ n.generation = m.generation /\ n.posted = m.posted
            /\ n.token = m.token + 1 /\ n.current.group = group
            /\ a.mailbox = Requested(n) /\ a.post = MustPost(n)
            /\ a.token = n.token /\ g = m.generation

LEMMA ArrivalMail ==
  ASSUME NEW m, Mail(m), NEW group \in Groups, NEW expected \in SUBSET Cameras, NEW g,
         MaxReceived \in Nat, m.token < MaxReceived
  PROVE  Arrived(Arrival(m, group, g, expected), m, group, g)
<1>1. PICK n : n = Opened(m, group, expected)
  OBVIOUS
<1>2. /\ Mail(n) /\ n.generation = m.generation /\ n.posted = m.posted
      /\ n.token = m.token + 1 /\ n.current.group = group
  BY <1>1, OpenedMail
<1>3. PICK a : a = Arrival(m, group, g, expected)
  OBVIOUS
<1>4. \/ a = [mailbox |-> m, token |-> 0, post |-> FALSE]
      \/ /\ g = m.generation /\ m.last # None /\ m.last.group = group
         /\ a = [mailbox |-> m, post |-> FALSE,
                 token |-> IF m.current.closed THEN 0 ELSE m.current.token]
      \/ /\ g = m.generation
         /\ a = [mailbox |-> Requested(n), token |-> n.token, post |-> MustPost(n)]
  BY <1>1, <1>3 DEF Arrival
<1>5. CASE a = [mailbox |-> m, token |-> 0, post |-> FALSE]
  BY <1>3, <1>5 DEF Arrived
<1>6. CASE /\ g = m.generation /\ m.last # None /\ m.last.group = group
           /\ a = [mailbox |-> m, post |-> FALSE,
                   token |-> IF m.current.closed THEN 0 ELSE m.current.token]
  <2>1. m.current.token = m.token /\ m.current.group = group
    BY <1>6 DEF Mail
  <2>2. /\ a.mailbox = m /\ a.post = FALSE
        /\ a.token # 0 => a.token = m.token
    BY <1>6, <2>1
  <2> QED
    BY <1>3, <1>6, <2>1, <2>2 DEF Arrived
<1>7. CASE /\ g = m.generation
           /\ a = [mailbox |-> Requested(n), token |-> n.token, post |-> MustPost(n)]
  BY <1>2, <1>3, <1>7 DEF Arrived
<1> QED
  BY <1>4, <1>5, <1>6, <1>7

\* An accepted image belongs to the group it joins.
LEMMA PublishedMail ==
  ASSUME NEW m, Mail(m), NEW token, NEW image \in Image, Accepts(m, token, image),
         image.group = m.current.group
  PROVE  /\ Mail(Published(m, image)) /\ SameGroup(Published(m, image), m)
         /\ Published(m, image).posted = m.posted
<1>1. /\ m \in Mailboxes /\ m.current \in Currents /\ m.current.frames \in Panels
      /\ m.ready \in Panels
  BY DEF Mail, Mailboxes, Currents
<1>2. PICK f : f = [m.current.frames EXCEPT ![image.camera] = image]
  OBVIOUS
<1>3. PICK full \in BOOLEAN : full = (\A c \in m.current.expected : f[c] # None)
  OBVIOUS
<1>4. f \in Panels
  BY <1>1, <1>2 DEF Panels, Slots
<1>5. \A c \in Cameras : f[c] # None =>
          f[c].group = m.current.group /\ f[c].generation = m.generation
  BY <1>1, <1>2 DEF Panels, Accepts, Mail
<1>6. PICK k : k = [m.current EXCEPT !.frames = f, !.closed = full]
  OBVIOUS
<1>7. /\ k \in Currents /\ k.token = m.current.token /\ k.group = m.current.group
      /\ k.frames = f
  BY <1>1, <1>4, <1>6 DEF Currents
<1>8. PICK r : r = IF full THEN f ELSE m.ready
  OBVIOUS
<1>9. r \in Panels /\ OneGroup(r)
  BY <1>1, <1>4, <1>5, <1>8 DEF OneGroup, Mail
<1>10. PICK n : n = [m EXCEPT !.current = k, !.ready = r]
  OBVIOUS
<1>11. n \in Mailboxes
  BY <1>1, <1>7, <1>9, <1>10 DEF Mailboxes
<1>12. /\ n.token = m.token /\ n.last = m.last /\ n.current = k /\ n.ready = r
       /\ n.generation = m.generation /\ n.posted = m.posted
  BY <1>1, <1>10 DEF Mailboxes
<1>13. Mail(n)
  BY <1>5, <1>7, <1>9, <1>11, <1>12 DEF Mail
<1>14. Published(m, image) = n
  BY <1>1, <1>2, <1>3, <1>6, <1>8, <1>10 DEF Published, Mailboxes, Currents
<1> QED
  BY <1>7, <1>12, <1>13, <1>14 DEF SameGroup

-----------------------------------------------------------------------------
(* Data: the first camera of a job, the jobs that a new one leaves.         *)

LEMMA Least ==
  ASSUME NEW T, T \subseteq Nat, T # {}
  PROVE  \E x \in T : \A y \in T : x <= y
<1> DEFINE less == {ss \in Nat \X Nat : ss[1] < ss[2]}
<1>1. IsWellFoundedOn(less, Nat)
  BY NatLessThanWellFounded DEF OpToRel
<1>2. PICK x \in T : \A y \in T : <<y, x>> \notin less
  <2> HIDE DEF less
  <2> QED
    BY <1>1, WFMin
<1>3. ASSUME NEW y \in T
      PROVE  x <= y
  <2>1. <<y, x>> \in Nat \X Nat => (y < x => <<y, x>> \in less)
    OBVIOUS
  <2>2. <<y, x>> \notin less
    BY <1>2, <1>3
  <2> QED
    BY <2>1, <2>2
<1> QED
  BY <1>3

LEMMA FirstIsThere ==
  ASSUME ConstantsAssumption, NEW cams \in SUBSET Cameras, cams # {}
  PROVE  FirstOf(cams) \in cams
<1>1. \E x \in cams : \A y \in cams : x <= y
  BY Least DEF ConstantsAssumption
<1> QED
  BY <1>1 DEF FirstOf

\* One turn of the loop of Kept, and what it makes of the jobs up to n.
Turn(before, job, n) ==
  IF jobs[n].cams \cap job.cams # {} THEN before ELSE Append(before, jobs[n])
Pasts(job, n) == {g \in [0 .. n -> Seq(Job)] :
                    \A m \in 0 .. n : g[m] = IF m = 0 THEN <<>> ELSE Turn(g[m - 1], job, m)}

\* The loop is defined for every length: no length is the least without it.
LEMMA PastExists ==
  ASSUME jobs \in Seq(Job), NEW job, NEW n \in 0 .. Len(jobs)
  PROVE  Pasts(job, n) # {}
<1> DEFINE T == {k \in 0 .. Len(jobs) : Pasts(job, k) = {}}
<1>1. T \subseteq Nat
  OBVIOUS
<1>2. SUFFICES ASSUME T # {}
               PROVE  FALSE
  BY <1>2
<1>3. PICK k \in T : \A y \in T : k <= y
  <2> HIDE DEF T
  <2> QED
    BY <1>1, <1>2, Least
<1>4. k \in 0 .. Len(jobs) /\ Pasts(job, k) = {}
  BY <1>3
<1>5. CASE k = 0
  <2>1. [m \in 0 .. 0 |-> <<>>] \in Pasts(job, 0)
    BY DEF Pasts
  <2> QED
    BY <1>4, <1>5, <2>1
<1>6. CASE k # 0
  <2>1. k - 1 \in 0 .. Len(jobs) /\ k - 1 \notin T
    BY <1>3, <1>4, <1>6
  <2>2. PICK h : h \in Pasts(job, k - 1)
    BY <2>1
  <2>3. /\ h \in [0 .. k - 1 -> Seq(Job)]
        /\ \A m \in 0 .. k - 1 : h[m] = IF m = 0 THEN <<>> ELSE Turn(h[m - 1], job, m)
    BY <2>2 DEF Pasts
  <2>4. jobs[k] \in Job
    BY <1>4, <1>6
  <2>5. h[k - 1] \in Seq(Job)
    BY <1>4, <1>6, <2>3
  <2>6. PICK t : t = Turn(h[k - 1], job, k)
    OBVIOUS
  <2>7. t \in Seq(Job)
    BY <2>4, <2>5, <2>6, AppendProperties DEF Turn
  <2>8. PICK g : g = [m \in 0 .. k |-> IF m = k THEN t ELSE h[m]]
    OBVIOUS
  <2>9. g \in [0 .. k -> Seq(Job)]
    BY <1>4, <2>3, <2>7, <2>8
  <2>10. ASSUME NEW m \in 0 .. k
         PROVE  g[m] = IF m = 0 THEN <<>> ELSE Turn(g[m - 1], job, m)
    <3>1. CASE m = k
      <4>1. g[m] = t /\ g[m - 1] = h[k - 1]
        BY <1>4, <1>6, <2>8, <3>1
      <4> QED
        BY <1>6, <2>6, <3>1, <4>1
    <3>2. CASE m # k /\ m # 0
      <4>1. m \in 0 .. k - 1 /\ g[m] = h[m] /\ g[m - 1] = h[m - 1]
        BY <1>4, <2>8, <3>2
      <4> QED
        BY <2>3, <3>2, <4>1
    <3>3. CASE m # k /\ m = 0
      <4>1. m \in 0 .. k - 1 /\ g[m] = h[m]
        BY <1>4, <2>8, <3>3
      <4> QED
        BY <2>3, <3>3, <4>1
    <3> QED
      BY <3>1, <3>2, <3>3
  <2>11. g \in Pasts(job, k)
    BY <2>9, <2>10 DEF Pasts
  <2> QED
    BY <1>4, <2>11
<1> QED
  BY <1>5, <1>6

\* What is left of the first n jobs.
Survive(q, job, n) ==
  \A i \in 1 .. Len(q) : \E k \in 1 .. n : q[i] = jobs[k] /\ jobs[k].cams \cap job.cams = {}

LEMMA TurnKeeps ==
  ASSUME jobs \in Seq(Job), Apart(jobs), NEW job, NEW n \in 1 .. Len(jobs),
         NEW q \in Seq(Job), Apart(q), Survive(q, job, n - 1)
  PROVE  LET t == Turn(q, job, n) IN Apart(t) /\ Survive(t, job, n)
<1>1. n - 1 \in Nat /\ \A k \in 1 .. n - 1 : k \in 1 .. n
  OBVIOUS
<1>2. CASE jobs[n].cams \cap job.cams # {}
  <2>1. Survive(q, job, n)
    BY <1>1 DEF Survive
  <2> QED
    BY <1>2, <2>1 DEF Turn
<1>3. CASE jobs[n].cams \cap job.cams = {}
  <2>1. PICK t : t = Append(q, jobs[n])
    OBVIOUS
  <2>2. /\ Len(t) = Len(q) + 1 /\ t[Len(q) + 1] = jobs[n]
        /\ \A i \in 1 .. Len(q) : t[i] = q[i]
    BY <2>1, AppendProperties
  <2>3. \A i \in 1 .. Len(t) : i \in 1 .. Len(q) \/ i = Len(q) + 1
    BY <2>2
  <2>4. ASSUME NEW i \in 1 .. Len(t)
        PROVE  \E k \in 1 .. n : t[i] = jobs[k] /\ jobs[k].cams \cap job.cams = {}
    <3>1. CASE i \in 1 .. Len(q)
      BY <1>1, <2>2, <3>1 DEF Survive
    <3>2. CASE i = Len(q) + 1
      BY <1>3, <2>2, <3>2
    <3> QED
      BY <2>3, <3>1, <3>2
  <2>5. ASSUME NEW i \in 1 .. Len(t), NEW j \in 1 .. Len(t), i < j
        PROVE  t[i].cams \cap t[j].cams = {}
    <3>1. i \in 1 .. Len(q)
      BY <2>2, <2>5
    <3>2. CASE j \in 1 .. Len(q)
      BY <2>2, <2>5, <3>1, <3>2 DEF Apart
    <3>3. CASE j = Len(q) + 1
      <4>1. PICK k \in 1 .. n - 1 : q[i] = jobs[k]
        BY <3>1 DEF Survive
      <4>2. k \in 1 .. Len(jobs) /\ k < n
        OBVIOUS
      <4>3. jobs[k].cams \cap jobs[n].cams = {}
        BY <4>2 DEF Apart
      <4> QED
        BY <2>2, <3>1, <3>3, <4>1, <4>3
    <3> QED
      BY <2>3, <3>2, <3>3
  <2>6. t = Turn(q, job, n)
    BY <1>3, <2>1 DEF Turn
  <2>7. Apart(t)
    BY <2>5 DEF Apart
  <2>8. Survive(t, job, n)
    BY <2>4 DEF Survive
  <2> QED
    BY <2>6, <2>7, <2>8
<1> QED
  BY <1>2, <1>3

LEMMA PastKeeps ==
  ASSUME jobs \in Seq(Job), Apart(jobs), NEW job, NEW g \in Pasts(job, Len(jobs))
  PROVE  \A n \in 0 .. Len(jobs) : Apart(g[n]) /\ Survive(g[n], job, n)
<1> DEFINE T == {n \in 0 .. Len(jobs) : ~(Apart(g[n]) /\ Survive(g[n], job, n))}
<1>1. /\ g \in [0 .. Len(jobs) -> Seq(Job)]
      /\ \A m \in 0 .. Len(jobs) : g[m] = IF m = 0 THEN <<>> ELSE Turn(g[m - 1], job, m)
  BY DEF Pasts
<1>2. SUFFICES ASSUME T # {}
               PROVE  FALSE
  BY <1>2
<1>3. PICK n \in T : \A y \in T : n <= y
  <2>1. T \subseteq Nat
    OBVIOUS
  <2> HIDE DEF T
  <2> QED
    BY <1>2, <2>1, Least
<1>4. n \in 0 .. Len(jobs) /\ ~(Apart(g[n]) /\ Survive(g[n], job, n))
  BY <1>3
<1>5. CASE n = 0
  <2>1. g[n] = <<>>
    BY <1>1, <1>4, <1>5
  <2>2. \A i \in 1 .. Len(<<>>) : FALSE
    OBVIOUS
  <2> QED
    BY <1>4, <2>1, <2>2 DEF Apart, Survive
<1>6. CASE n # 0
  <2>1. n \in 1 .. Len(jobs) /\ n - 1 \in 0 .. Len(jobs) /\ n - 1 \notin T
    BY <1>3, <1>4, <1>6
  <2>2. /\ g[n - 1] \in Seq(Job) /\ Apart(g[n - 1]) /\ Survive(g[n - 1], job, n - 1)
        /\ g[n] = Turn(g[n - 1], job, n)
    BY <1>1, <1>6, <2>1
  <2> HIDE DEF T
  <2>3. Apart(g[n]) /\ Survive(g[n], job, n)
    BY <2>1, <2>2, TurnKeeps
  <2> QED
    BY <1>4, <2>3
<1> QED
  BY <1>5, <1>6

\* The function that Kept chooses; it is the only one.
Loop(f, job) ==
  f = [n \in 0 .. Len(jobs) |->
        IF n = 0 THEN <<>>
        ELSE IF jobs[n].cams \cap job.cams # {} THEN f[n - 1]
        ELSE Append(f[n - 1], jobs[n])]

LEMMA OneLoop ==
  ASSUME jobs \in Seq(Job), NEW job, NEW f, NEW h, Loop(f, job), Loop(h, job)
  PROVE  \A n \in 0 .. Len(jobs) : f[n] = h[n]
<1> DEFINE T == {n \in 0 .. Len(jobs) : f[n] # h[n]}
<1>1. SUFFICES ASSUME T # {}
               PROVE  FALSE
  BY <1>1
<1>2. PICK n \in T : \A y \in T : n <= y
  <2>1. T \subseteq Nat
    OBVIOUS
  <2> HIDE DEF T
  <2> QED
    BY <1>1, <2>1, Least
<1>3. n \in 0 .. Len(jobs) /\ f[n] # h[n]
  BY <1>2
<1>4. CASE n = 0
  <2>1. f[0] = <<>> /\ h[0] = <<>>
    BY <1>3, <1>4 DEF Loop
  <2> QED
    BY <1>3, <1>4, <2>1
<1>5. CASE n # 0
  <2>1. n - 1 \in 0 .. Len(jobs) /\ n - 1 \notin T
    BY <1>2, <1>3, <1>5
  <2>2. f[n - 1] = h[n - 1]
    BY <2>1
  <2>3. f[n] = IF jobs[n].cams \cap job.cams # {} THEN f[n - 1] ELSE Append(f[n - 1], jobs[n])
    BY <1>3, <1>5 DEF Loop
  <2>4. h[n] = IF jobs[n].cams \cap job.cams # {} THEN h[n - 1] ELSE Append(h[n - 1], jobs[n])
    BY <1>3, <1>5 DEF Loop
  <2> QED
    BY <1>3, <2>2, <2>3, <2>4
<1> QED
  BY <1>4, <1>5

\* The queue that Push leaves shares no camera with the job it adds.
LEMMA KeptJobs ==
  ASSUME jobs \in Seq(Job), Apart(jobs), NEW job
  PROVE  /\ Kept(job) \in Seq(Job) /\ Apart(Kept(job))
         /\ Survive(Kept(job), job, Len(jobs))
<1>1. CASE path = "legacy"
  <2>1. Kept(job) = <<>>
    BY <1>1 DEF Kept
  <2>2. \A i \in 1 .. Len(<<>>) : FALSE
    OBVIOUS
  <2> QED
    BY <2>1, <2>2 DEF Apart, Survive
<1>2. CASE path # "legacy"
  <2> DEFINE past == CHOOSE f : Loop(f, job)
  <2>1. Kept(job) = past[Len(jobs)]
    BY <1>2 DEF Kept, Loop
  <2>2. Len(jobs) \in 0 .. Len(jobs)
    OBVIOUS
  <2>3. PICK g : g \in Pasts(job, Len(jobs))
    BY <2>2, PastExists
  <2>4. Loop(g, job)
    BY <2>3 DEF Pasts, Turn, Loop
  <2>5. Loop(past, job)
    BY <2>4
  <2> HIDE DEF past
  <2>6. past[Len(jobs)] = g[Len(jobs)]
    BY <2>2, <2>4, <2>5, OneLoop
  <2> QED
    BY <2>1, <2>2, <2>3, <2>6, PastKeeps DEF Pasts
<1> QED
  BY <1>1, <1>2

-----------------------------------------------------------------------------
(* The lanes: what is forgotten as lost stays below what is let through.    *)

LEMMA ReceivedLanes ==
  ASSUME ConstantsAssumption, BaseOK, LanesOK, active, active' = active, sent < MaxReceived,
         NEW cams \in SUBSET Cameras, NEW exact \in BOOLEAN,
         lanes' = Received(cams, received + 1, exact), lost' = LostAfter(lanes')
  PROVE  LanesOK'
<1>1. received + 1 \in 1 .. MaxReceived /\ received + 1 \in 0 .. MaxReceived
  BY DEF BaseOK, ConstantsAssumption
<1>2. ASSUME NEW c \in Cameras
      PROVE  /\ lanes'[c] \in Lanes /\ lost'[c] \in 0 .. MaxReceived
             /\ lost'[c] <= lanes'[c].sequence
             /\ lost'[c] # 0 => lost'[c] < lanes'[c].minimum
  <2>1. /\ lanes[c] \in Lanes /\ lost[c] \in 0 .. MaxReceived
        /\ lost[c] <= lanes[c].sequence /\ (lost[c] # 0 => lost[c] < lanes[c].minimum)
    BY DEF LanesOK
  <2>2. lanes[c].sequence \in 0 .. MaxReceived /\ lanes[c].minimum \in 0 .. MaxReceived + 1
    BY <2>1 DEF Lanes
  <2>3. \/ /\ received + 1 > lanes[c].sequence /\ received + 1 >= lanes[c].minimum
           /\ lanes'[c] = [lanes[c] EXCEPT !.state = "live", !.sequence = received + 1]
        \/ /\ received + 1 >= lanes[c].sequence
           /\ lanes'[c] = [lanes[c] EXCEPT !.state = "missing", !.minimum = (received + 1) + 1]
        \/ lanes'[c] = lanes[c]
    BY DEF Received
  <2>4. lost'[c] = IF lanes'[c].state = "missing" /\ lanes[c].state # "missing"
                     THEN lanes[c].sequence ELSE lost[c]
    BY DEF LostAfter
  <2>5. CASE /\ received + 1 > lanes[c].sequence /\ received + 1 >= lanes[c].minimum
             /\ lanes'[c] = [lanes[c] EXCEPT !.state = "live", !.sequence = received + 1]
    <3>1. /\ lanes'[c] \in Lanes /\ lanes'[c].sequence = received + 1
          /\ lanes'[c].minimum = lanes[c].minimum /\ lanes'[c].state = "live"
      BY <1>1, <2>1, <2>5 DEF Lanes
    <3> QED
      BY <1>1, <2>1, <2>2, <2>4, <2>5, <3>1
  <2>6. CASE /\ received + 1 >= lanes[c].sequence
             /\ lanes'[c] = [lanes[c] EXCEPT !.state = "missing", !.minimum = (received + 1) + 1]
    <3>1. received + 1 \in Nat /\ (received + 1) + 1 \in 0 .. MaxReceived + 1
      BY <1>1 DEF BaseOK, ConstantsAssumption
    <3>2. /\ lanes'[c] \in Lanes /\ lanes'[c].sequence = lanes[c].sequence
          /\ lanes'[c].minimum = (received + 1) + 1
      BY <2>1, <2>6, <3>1 DEF Lanes
    <3> QED
      BY <2>1, <2>2, <2>4, <2>6, <3>1, <3>2
  <2>7. CASE lanes'[c] = lanes[c]
    BY <2>1, <2>4, <2>7
  <2> QED
    BY <2>3, <2>5, <2>6, <2>7
<1>3. lanes' = [c \in Cameras |-> lanes'[c]] /\ lost' = [c \in Cameras |-> lost'[c]]
  BY DEF Received, LostAfter
<1>4. lanes' \in [Cameras -> Lanes] /\ lost' \in [Cameras -> 0 .. MaxReceived]
  BY <1>2, <1>3
<1> QED
  BY <1>2, <1>4 DEF LanesOK

LEMMA SnapshotLanes ==
  ASSUME ConstantsAssumption, BaseOK, LanesOK, active' = active, NEW late \in SUBSET MayVanish,
         late # {} => active, lanes' = SnapshotOf(late), lost' = LostAfter(lanes')
  PROVE  LanesOK'
<1>1. ASSUME NEW c \in Cameras
      PROVE  /\ lanes'[c] \in Lanes /\ lost'[c] \in 0 .. MaxReceived
             /\ lost'[c] <= lanes'[c].sequence
             /\ lost'[c] # 0 => lost'[c] < lanes'[c].minimum
             /\ ~active => lost'[c] = 0
  <2>1. /\ lanes[c] \in Lanes /\ lost[c] \in 0 .. MaxReceived
        /\ lost[c] <= lanes[c].sequence /\ (lost[c] # 0 => lost[c] < lanes[c].minimum)
        /\ ~active => lost[c] = 0
    BY DEF LanesOK
  <2>2. lanes[c].sequence \in 0 .. MaxReceived /\ lanes[c].minimum \in 0 .. MaxReceived + 1
    BY <2>1 DEF Lanes
  <2>3. \/ /\ active /\ lanes[c].state # "missing"
           /\ lanes'[c] = [lanes[c] EXCEPT !.state = "missing",
                                           !.minimum = lanes[c].sequence + 1]
        \/ lanes'[c] = lanes[c]
    BY DEF SnapshotOf
  <2>4. lost'[c] = IF lanes'[c].state = "missing" /\ lanes[c].state # "missing"
                     THEN lanes[c].sequence ELSE lost[c]
    BY DEF LostAfter
  <2>5. CASE /\ active /\ lanes[c].state # "missing"
             /\ lanes'[c] = [lanes[c] EXCEPT !.state = "missing",
                                             !.minimum = lanes[c].sequence + 1]
    <3>1. lanes[c].sequence + 1 \in 0 .. MaxReceived + 1
      BY <2>2 DEF ConstantsAssumption
    <3>2. /\ lanes'[c] \in Lanes /\ lanes'[c].sequence = lanes[c].sequence
          /\ lanes'[c].minimum = lanes[c].sequence + 1
          /\ lanes'[c].state = "missing"
      BY <2>1, <2>5, <3>1 DEF Lanes
    <3> QED
      BY <2>1, <2>2, <2>4, <2>5, <3>2
  <2>6. CASE lanes'[c] = lanes[c]
    BY <2>1, <2>4, <2>6
  <2> QED
    BY <2>3, <2>5, <2>6
<1>2. lanes' = [c \in Cameras |-> lanes'[c]] /\ lost' = [c \in Cameras |-> lost'[c]]
  BY DEF SnapshotOf, LostAfter
<1>3. lanes' \in [Cameras -> Lanes] /\ lost' \in [Cameras -> 0 .. MaxReceived]
  BY <1>1, <1>2
<1> QED
  BY <1>1, <1>3 DEF LanesOK

LEMMA FreshLanes ==
  ASSUME ConstantsAssumption, lanes' = [c \in Cameras |-> FreshLane],
         lost' = [c \in Cameras |-> 0]
  PROVE  LanesOK'
<1>1. FreshLane \in Lanes /\ FreshLane.sequence = 0 /\ 0 \in 0 .. MaxReceived
  BY DEF FreshLane, Lanes, ConstantsAssumption
<1>2. lanes' \in [Cameras -> Lanes] /\ lost' \in [Cameras -> 0 .. MaxReceived]
  BY <1>1
<1>3. \A c \in Cameras : lost'[c] = 0 /\ lanes'[c] = FreshLane
  OBVIOUS
<1> QED
  BY <1>1, <1>2, <1>3 DEF LanesOK

-----------------------------------------------------------------------------
(* The posted drains.                                                      *)

\* A drain that the mailbox asks for is the only one of its generation.
LEMMA PostGroup ==
  ASSUME ConstantsAssumption, PostsOK, mailbox.generation \in Generations,
         NEW m, Mail(m), m.generation = mailbox.generation, m.posted = mailbox.posted,
         mailbox' = Requested(m), posts' = Posted(MustPost(m), "group", mailbox.generation),
         gui' = gui, drop' = drop
  PROVE  PostsOK'
<1>1. /\ mailbox'.generation = mailbox.generation
      /\ mailbox'.posted = (mailbox.posted \/ MustPost(m)) /\ MustPost(m) \in BOOLEAN
  BY RequestedMail DEF SameGroup
<1>2. CASE ~MustPost(m)
  <2>1. posts' = posts
    BY <1>2 DEF Posted
  <2> QED
    BY <1>1, <1>2, <2>1 DEF PostsOK, Present, Painting
<1>3. CASE MustPost(m)
  <2>1. ~mailbox.posted /\ mailbox'.posted
    BY <1>1, <1>3 DEF MustPost
  <2>2. PICK t : t = Drain("group", mailbox.generation)
    OBVIOUS
  <2>3. t \in DrainSet /\ t.generation = mailbox.generation
    BY <2>2 DEF Drain, DrainSet
  <2>4. posts' = Append(posts, t) /\ posts \in Seq(DrainSet)
    BY <1>3, <2>2 DEF Posted, PostsOK
  <2>5. /\ posts' \in Seq(DrainSet) /\ Len(posts') = Len(posts) + 1
        /\ posts'[Len(posts) + 1] = t
        /\ \A i \in 1 .. Len(posts) : posts'[i] = posts[i]
    BY <2>3, <2>4, AppendProperties
  <2>6. \A i \in 1 .. Len(posts') : i \in 1 .. Len(posts) \/ i = Len(posts) + 1
    BY <2>4, <2>5
  <2>7. \A i \in 1 .. Len(posts) : ~Present(i, "group")
    BY <2>1 DEF PostsOK
  <2>8. ~Painting
    BY <2>1 DEF PostsOK
  <2>9. t # Drain("single", mailbox.generation)
    BY <2>2 DEF Drain
  <2>10. \A i \in 1 .. Len(posts') : posts'[i].generation <= mailbox'.generation
    BY <1>1, <2>3, <2>5, <2>6 DEF PostsOK, Generations
  <2>11. \A i \in 1 .. Len(posts') : Present(i, "group")' <=> i = Len(posts) + 1
    BY <1>1, <2>2, <2>5, <2>6, <2>7 DEF Present
  <2>12. \A i \in 1 .. Len(posts') :
            Present(i, "single")' <=> i \in 1 .. Len(posts) /\ Present(i, "single")
    BY <1>1, <2>2, <2>5, <2>6, <2>9 DEF Present
  <2>13. \A i, j \in 1 .. Len(posts') : Present(i, "single")' /\ Present(j, "single")' => i = j
    BY <2>12 DEF PostsOK
  <2>14. \A i \in 1 .. Len(posts') : Present(i, "single")' => drop'.posted
    BY <2>12 DEF PostsOK
  <2>15. ~Painting'
    BY <2>8 DEF Painting
  <2> QED
    BY <2>1, <2>5, <2>10, <2>11, <2>13, <2>14, <2>15 DEF PostsOK
<1> QED
  BY <1>1, <1>2, <1>3

-----------------------------------------------------------------------------
(* What a step that keeps the group of the mailbox leaves true.             *)

LEMMA SameTokens ==
  ASSUME TokensOK, SameGroup(mailbox', mailbox), rx' = rx, jobs' = jobs,
         decoding' = decoding
  PROVE  TokensOK'
BY DEF TokensOK, Fits, SameGroup

LEMMA SameGui ==
  ASSUME GuiOK, mailbox'.generation = mailbox.generation, gui' = gui, batch' = batch,
         generation' = generation, capturing' = capturing
  PROVE  GuiOK'
BY DEF GuiOK, Painting

LEMMA SameRx ==
  ASSUME RxOK, mailbox'.token = mailbox.token, rx' = rx, sent' = sent, path' = path
  PROVE  RxOK'
BY DEF RxOK

LEMMA SameWork ==
  ASSUME WorkOK, jobs' = jobs, decoding' = decoding, path' = path
  PROVE  WorkOK'
BY DEF WorkOK, Apart

LEMMA SamePosts ==
  ASSUME PostsOK, posts' = posts, gui' = gui, drop'.posted = drop.posted,
         mailbox'.generation = mailbox.generation, mailbox'.posted = mailbox.posted
  PROVE  PostsOK'
BY DEF PostsOK, Present, Painting

LEMMA SamePanes ==
  ASSUME PanesOK, notice' = notice, shown' = shown, latest' = latest
  PROVE  PanesOK'
BY DEF PanesOK

LEMMA SameLanes ==
  ASSUME LanesOK, lanes' = lanes, lost' = lost, active' = active
  PROVE  LanesOK'
BY DEF LanesOK

-----------------------------------------------------------------------------
(* The capture thread.                                                     *)

LEMMA StartsStep == ASSUME ConstantsAssumption, IInv, CaptureStarts PROVE IInv'
<1>1. /\ capturing' = TRUE /\ active' = TRUE /\ received' = 0 /\ ~active /\ ~capturing
      /\ lanes' = [c \in Cameras |-> FreshLane]
      /\ gui.at \in {"reset", "clear"} => gui.kind = "hide"
      /\ path' = path /\ sent' = sent /\ rx' = rx /\ lost' = lost /\ enabled' = enabled
      /\ generation' = generation /\ mailbox' = mailbox /\ drop' = drop /\ jobs' = jobs
      /\ decoding' = decoding /\ posts' = posts /\ gui' = gui /\ batch' = batch
      /\ notice' = notice /\ shown' = shown /\ latest' = latest
  BY DEF CaptureStarts, guiVars
<1>2. BaseOK'
  BY <1>1 DEF IInv, BaseOK
<1>3. LanesOK'
  <2>1. lost' = [c \in Cameras |-> 0]
    BY <1>1 DEF IInv, LanesOK
  <2> QED
    BY <1>1, <2>1, FreshLanes
<1>4. RxOK'
  BY <1>1, SameRx DEF IInv
<1>5. MailOK'
  BY <1>1 DEF IInv, MailOK
<1>6. WorkOK' /\ PanesOK'
  BY <1>1, SameWork, SamePanes DEF IInv
<1>7. TokensOK'
  BY <1>1, SameTokens DEF IInv, SameGroup
<1>8. GuiOK'
  BY <1>1 DEF IInv, GuiOK, Painting
<1>9. PostsOK'
  BY <1>1, SamePosts DEF IInv
<1> QED
  BY <1>2, <1>3, <1>4, <1>5, <1>6, <1>7, <1>8, <1>9 DEF IInv

LEMMA EndsStep == ASSUME ConstantsAssumption, IInv, CaptureEnds PROVE IInv'
<1>1. /\ capturing' = FALSE
      /\ path' = path /\ received' = received /\ sent' = sent /\ rx' = rx
      /\ active' = active /\ lanes' = lanes /\ lost' = lost /\ enabled' = enabled
      /\ generation' = generation /\ mailbox' = mailbox /\ drop' = drop /\ jobs' = jobs
      /\ decoding' = decoding /\ posts' = posts /\ gui' = gui /\ batch' = batch
      /\ notice' = notice /\ shown' = shown /\ latest' = latest
  BY DEF CaptureEnds, guiVars, laneVars
<1>2. BaseOK'
  BY <1>1 DEF IInv, BaseOK
<1>3. LanesOK' /\ RxOK'
  BY <1>1, SameLanes, SameRx DEF IInv
<1>5. MailOK'
  BY <1>1 DEF IInv, MailOK
<1>6. WorkOK' /\ PanesOK'
  BY <1>1, SameWork, SamePanes DEF IInv
<1>7. TokensOK'
  BY <1>1, SameTokens DEF IInv, SameGroup
<1>8. GuiOK'
  BY <1>1 DEF IInv, GuiOK, Painting
<1>9. PostsOK'
  BY <1>1, SamePosts DEF IInv
<1> QED
  BY <1>2, <1>3, <1>5, <1>6, <1>7, <1>8, <1>9 DEF IInv

LEMMA ReceiveStep == ASSUME ConstantsAssumption, IInv, Receive PROVE IInv'
<1>1. /\ capturing /\ rx = Idle /\ sent < MaxReceived
      /\ sent' = sent + 1 /\ received' = received + 1
      /\ path' = path /\ capturing' = capturing
      /\ active' = active /\ enabled' = enabled
      /\ generation' = generation /\ mailbox' = mailbox /\ drop' = drop /\ jobs' = jobs
      /\ decoding' = decoding /\ posts' = posts /\ gui' = gui /\ batch' = batch
      /\ notice' = notice /\ shown' = shown /\ latest' = latest
  BY DEF Receive, guiVars
<1>2. PICK cams \in (SUBSET Cameras) \ {{}}, group \in SentGroups, exact \in BOOLEAN :
        /\ lanes' = Received(cams, received + 1, exact)
        /\ lost' = LostAfter(lanes')
        /\ rx' = [at |-> "enrol",
                  job |-> [cams |-> cams, seq |-> received + 1, group |-> group,
                           generation |-> generation, token |-> 0]]
  BY DEF Receive
<1>3. /\ sent \in Nat /\ sent + 1 \in 0 .. MaxReceived /\ received + 1 \in 1 .. MaxReceived
      /\ received + 1 \in 0 .. sent + 1 /\ group \in Groups /\ 0 \in 0 .. MaxReceived
  BY <1>1 DEF IInv, BaseOK, ConstantsAssumption, Groups
<1>4. BaseOK'
  BY <1>1, <1>3 DEF IInv, BaseOK
<1>5. LanesOK'
  BY <1>1, <1>2, ReceivedLanes DEF IInv, BaseOK
<1>6. PICK job : job = [cams |-> cams, seq |-> received + 1, group |-> group,
                        generation |-> generation, token |-> 0]
  OBVIOUS
<1>7. job \in Job /\ job.cams = cams /\ job.token = 0 /\ rx' = [at |-> "enrol", job |-> job]
  BY <1>2, <1>3, <1>6 DEF Job, IInv, BaseOK
<1>8. rx'.at = "enrol" /\ rx'.job = job
  BY <1>7
<1>9. mailbox.token \in 0 .. MaxReceived /\ mailbox.token <= sent
  BY <1>1 DEF IInv, RxOK, Idle, MailOK, Mail, Mailboxes
<1>10. RxOK'
  <2>1. mailbox'.token + 1 <= sent'
    BY <1>1, <1>3, <1>9
  <2>2. cams # {}
    OBVIOUS
  <2>3. /\ rx'.at \in {"enrol", "push"} /\ rx'.job \in Job /\ rx'.job.cams # {}
        /\ rx' = [at |-> rx'.at, job |-> rx'.job]
        /\ rx'.at = "enrol" /\ rx'.job.token = 0
    BY <1>7, <1>8, <2>2
  <2> QED
    BY <2>1, <2>3 DEF RxOK
<1>11. MailOK'
  BY <1>1 DEF IInv, MailOK
<1>12. WorkOK' /\ PanesOK'
  BY <1>1, SameWork, SamePanes DEF IInv
<1>13. TokensOK'
  BY <1>1, <1>8 DEF IInv, TokensOK, Fits
<1>14. GuiOK' /\ PostsOK'
  BY <1>1, SameGui, SamePosts DEF IInv
<1> QED
  BY <1>4, <1>5, <1>10, <1>11, <1>12, <1>13, <1>14 DEF IInv

\* The frame to enrol.
LEMMA EnrolledJob ==
  ASSUME IInv, rx.at = "enrol"
  PROVE  /\ rx.job \in Job /\ rx.job.cams # {} /\ rx.job.token = 0
         /\ rx = [at |-> "enrol", job |-> rx.job] /\ mailbox.token + 1 <= sent
<1>1. RxOK /\ rx # Idle
  BY DEF IInv, Idle
<1> QED
  BY <1>1 DEF RxOK

\* A frame that goes on to the queue, and one that does not.
LEMMA PushNext ==
  ASSUME RxOK, path' = path, sent' = sent, NEW job \in Job, job.cams # {},
         job.token = 0 <=> path = "independent",
         rx' = [at |-> "push", job |-> job], mailbox'.token <= sent,
         mailbox'.token \in Nat
  PROVE  RxOK'
<1>1. rx'.at = "push" /\ rx'.job = job
  OBVIOUS
<1>2. /\ rx'.at \in {"enrol", "push"} /\ rx'.job \in Job /\ rx'.job.cams # {}
      /\ rx' = [at |-> rx'.at, job |-> rx'.job]
  BY <1>1
<1>3. rx'.job.token = 0 <=> path' = "independent"
  BY <1>1
<1>4. mailbox'.token + 0 <= sent'
  OBVIOUS
<1> QED
  BY <1>1, <1>2, <1>3, <1>4 DEF RxOK

LEMMA IdleNext ==
  ASSUME RxOK, path' = path, sent' = sent, rx' = Idle, mailbox'.token <= sent,
         mailbox'.token \in Nat
  PROVE  RxOK'
<1>1. rx'.at = "idle"
  BY DEF Idle
<1> QED
  BY <1>1 DEF RxOK

LEMMA EnrolStep == ASSUME ConstantsAssumption, IInv, Enrol PROVE IInv'
<1>1. /\ rx.at = "enrol"
      /\ path' = path /\ capturing' = capturing /\ received' = received /\ sent' = sent
      /\ active' = active /\ lanes' = lanes /\ lost' = lost /\ enabled' = enabled
      /\ generation' = generation /\ drop' = drop /\ jobs' = jobs
      /\ decoding' = decoding /\ gui' = gui /\ batch' = batch
      /\ notice' = notice /\ shown' = shown /\ latest' = latest
  BY DEF Enrol, guiVars, laneVars
<1>2. /\ rx.job \in Job /\ rx.job.cams # {} /\ rx.job.token = 0
      /\ rx = [at |-> "enrol", job |-> rx.job] /\ mailbox.token + 1 <= sent
  BY <1>1, EnrolledJob
<1>3. /\ Mail(mailbox) /\ mailbox \in Mailboxes /\ mailbox.token \in Nat
      /\ mailbox.generation \in Generations
      /\ sent \in 0 .. MaxReceived /\ MaxReceived \in Nat
  BY DEF IInv, MailOK, Mail, Mailboxes, BaseOK, ConstantsAssumption
<1>4. mailbox.token <= sent /\ mailbox.token < MaxReceived
  BY <1>2, <1>3
<1>5. BaseOK' /\ LanesOK'
  BY <1>1, SameLanes DEF IInv, BaseOK
<1>6. WorkOK' /\ PanesOK'
  BY <1>1, SameWork, SamePanes DEF IInv
<1>7. CASE mailbox' = mailbox /\ posts' = posts /\ RxOK' /\ (rx'.at = "push" => Fits(rx'.job))
  <2>1. MailOK'
    BY <1>1, <1>7 DEF IInv, MailOK
  <2>2. TokensOK'
    BY <1>1, <1>7 DEF IInv, TokensOK, Fits
  <2>3. GuiOK' /\ PostsOK'
    BY <1>1, <1>7, SameGui, SamePosts DEF IInv
  <2> QED
    BY <1>5, <1>6, <1>7, <2>1, <2>2, <2>3 DEF IInv
<1>8. CASE ~enabled
  <2>1. rx' = Idle /\ mailbox' = mailbox /\ posts' = posts
    BY <1>8 DEF Enrol
  <2>2. RxOK' /\ rx'.at = "idle"
    BY <1>1, <1>3, <1>4, <2>1, IdleNext DEF IInv, Idle
  <2> QED
    BY <1>7, <2>1, <2>2
<1>9. CASE enabled /\ path = "independent"
  <2>1. rx' = [rx EXCEPT !.at = "push"] /\ mailbox' = mailbox /\ posts' = posts
    BY <1>9 DEF Enrol
  <2>2. rx' = [at |-> "push", job |-> rx.job]
    BY <1>2, <2>1
  <2>3. RxOK'
    BY <1>1, <1>2, <1>3, <1>4, <1>9, <2>1, <2>2, PushNext DEF IInv
  <2>4. Fits(rx'.job)
    BY <1>2, <2>2 DEF Fits
  <2> QED
    BY <1>7, <2>1, <2>3, <2>4
<1>10. CASE /\ enabled /\ path # "independent"
            /\ rx' = Idle /\ mailbox' = mailbox /\ posts' = posts
  <2>1. RxOK' /\ rx'.at = "idle"
    BY <1>1, <1>3, <1>4, <1>10, IdleNext DEF IInv, Idle
  <2> QED
    BY <1>7, <1>10, <2>1
<1>11. CASE /\ enabled /\ path # "independent"
            /\ ~ (rx' = Idle /\ mailbox' = mailbox /\ posts' = posts)
  <2>1. PICK expected \in SUBSET Cameras :
            expected = IF path = "legacy" THEN rx.job.cams ELSE Cameras
    BY <1>2 DEF Job
  <2>2. PICK a : a = Arrival(mailbox, rx.job.group, rx.job.generation, expected)
    OBVIOUS
  <2>3. /\ mailbox' = a.mailbox /\ posts' = Posted(a.post, "group", rx.job.generation)
        /\ rx' = Enrolled(a.token)
    BY <1>11, <2>1, <2>2 DEF Enrol
  <2>4. rx.job.group \in Groups
    BY <1>2 DEF Job
  <2>5. Arrived(a, mailbox, rx.job.group, rx.job.generation)
    BY <1>3, <1>4, <2>2, <2>4, ArrivalMail
  <2>6. /\ a.token \in 0 .. MaxReceived
        /\ a.mailbox.token \in Nat /\ a.mailbox.token <= sent
    BY <1>2, <1>3, <1>4, <2>5, RequestedMail DEF Arrived, SameGroup
  <2>7. PICK job : job = [rx.job EXCEPT !.token = a.token]
    OBVIOUS
  <2>8. /\ job \in Job /\ job.cams # {} /\ job.token = a.token
        /\ job.group = rx.job.group /\ job.generation = rx.job.generation
    BY <1>2, <2>6, <2>7 DEF Job
  <2>9. rx' = IF a.token = 0 THEN Idle ELSE [at |-> "push", job |-> job]
    BY <2>3, <2>7 DEF Enrolled
  <2>10. mailbox'.token \in Nat /\ mailbox'.token <= sent
    BY <2>3, <2>6
  <2>11. RxOK' /\ (rx'.at = "push" => rx'.job = job /\ job.token # 0)
    <3>1. CASE a.token = 0
      BY <1>1, <2>9, <2>10, <3>1, IdleNext DEF IInv, Idle
    <3>2. CASE a.token # 0
      <4>1. rx' = [at |-> "push", job |-> job]
        BY <2>9, <3>2
      <4>2. job.token = 0 <=> path = "independent"
        BY <1>11, <2>8, <3>2
      <4> QED
        BY <1>1, <2>8, <2>10, <3>2, <4>1, <4>2, PushNext DEF IInv
    <3> QED
      BY <3>1, <3>2
  <2>12. CASE /\ a.mailbox = mailbox /\ a.post = FALSE
              /\ a.token # 0 => /\ a.token = mailbox.token
                                /\ rx.job.generation = mailbox.generation
                                /\ rx.job.group = mailbox.current.group
    <3>1. mailbox' = mailbox /\ posts' = posts
      BY <2>3, <2>12 DEF Posted
    <3>2. rx'.at = "push" => Fits(rx'.job)
      BY <1>3, <2>8, <2>11, <2>12 DEF Fits, Generations
    <3> QED
      BY <1>7, <2>11, <3>1, <3>2
  <2>13. ASSUME NEW n, Mail(n), n.generation = mailbox.generation,
                n.posted = mailbox.posted,
                n.token = mailbox.token + 1, n.current.group = rx.job.group,
                a.mailbox = Requested(n), a.post = MustPost(n),
                a.token = n.token, rx.job.generation = mailbox.generation
         PROVE  IInv'
    <3>1. /\ Mail(mailbox') /\ mailbox'.generation = mailbox.generation
          /\ mailbox'.token = mailbox.token + 1
          /\ mailbox'.current.group = rx.job.group
      BY <2>3, <2>13, RequestedMail DEF SameGroup
    <3>2. MailOK'
      BY <1>1, <3>1 DEF IInv, MailOK
    <3>3. PostsOK'
      BY <1>1, <1>3, <2>3, <2>13, PostGroup DEF IInv
    <3>4. GuiOK'
      BY <1>1, <3>1, SameGui DEF IInv
    <3>5. TokensOK'
      <4>1. (rx.at = "push" => Fits(rx.job))'
        BY <1>3, <2>8, <2>11, <2>13, <3>1 DEF Fits, Generations
      <4>2. ASSUME NEW k \in Job, Fits(k)
            PROVE  Fits(k)'
        <5>1. k.token \in Nat
          BY DEF Job
        <5> QED
          BY <1>3, <3>1, <4>2, <5>1 DEF Fits
      <4>3. /\ \A i \in 1 .. Len(jobs) : jobs[i] \in Job
            /\ \A d \in decoding : d.job \in Job
        BY DEF IInv, WorkOK, Works
      <4> QED
        BY <1>1, <4>1, <4>2, <4>3 DEF IInv, TokensOK
    <3> QED
      BY <1>5, <1>6, <2>11, <3>2, <3>3, <3>4, <3>5 DEF IInv
  <2> QED
    BY <2>5, <2>12, <2>13 DEF Arrived
<1> QED
  BY <1>8, <1>9, <1>10, <1>11 DEF IInv, BaseOK

LEMMA PushStep == ASSUME ConstantsAssumption, IInv, Push PROVE IInv'
<1>1. /\ rx.at = "push" /\ rx' = Idle /\ jobs' = Append(Kept(rx.job), rx.job)
      /\ path' = path /\ capturing' = capturing /\ received' = received /\ sent' = sent
      /\ active' = active /\ lanes' = lanes /\ lost' = lost /\ enabled' = enabled
      /\ generation' = generation /\ mailbox' = mailbox /\ drop' = drop
      /\ decoding' = decoding /\ posts' = posts /\ gui' = gui /\ batch' = batch
      /\ notice' = notice /\ shown' = shown /\ latest' = latest
  BY DEF Push, guiVars, laneVars
<1>2. /\ rx.job \in Job /\ rx.job.cams # {} /\ (rx.job.token = 0 <=> path = "independent")
      /\ mailbox.token + 0 <= sent /\ mailbox.token \in Nat /\ sent \in Nat
  <2>1. rx # Idle /\ RxOK
    BY <1>1 DEF IInv, Idle
  <2> QED
    BY <1>1, <2>1 DEF RxOK, IInv, BaseOK, MailOK, Mail, Mailboxes
<1>3. PICK q : q = Kept(rx.job)
  OBVIOUS
<1>4. jobs \in Seq(Job) /\ Apart(jobs)
  BY DEF IInv, WorkOK
<1>5. q \in Seq(Job) /\ Apart(q) /\ Survive(q, rx.job, Len(jobs))
  BY <1>3, <1>4, KeptJobs
<1>6. /\ jobs' \in Seq(Job) /\ Len(jobs') = Len(q) + 1 /\ jobs'[Len(q) + 1] = rx.job
      /\ \A i \in 1 .. Len(q) : jobs'[i] = q[i]
  BY <1>1, <1>2, <1>3, <1>5, AppendProperties
<1>7. \A i \in 1 .. Len(jobs') : i \in 1 .. Len(q) \/ i = Len(q) + 1
  BY <1>5, <1>6
<1>8. \A i \in 1 .. Len(q) :
         q[i].cams \cap rx.job.cams = {} /\ \E k \in 1 .. Len(jobs) : q[i] = jobs[k]
  BY <1>5 DEF Survive
<1>9. \A i \in 1 .. Len(jobs') :
         jobs'[i] = rx.job \/ \E k \in 1 .. Len(jobs) : jobs'[i] = jobs[k]
  BY <1>6, <1>7, <1>8
<1>10. BaseOK' /\ LanesOK'
  BY <1>1, SameLanes DEF IInv, BaseOK
<1>11. RxOK'
  BY <1>1, <1>2, IdleNext DEF IInv
<1>12. MailOK' /\ PanesOK'
  BY <1>1, SamePanes DEF IInv, MailOK
<1>13. WorkOK'
  <2>1. Apart(jobs')
    <3>1. ASSUME NEW i \in 1 .. Len(jobs'), NEW j \in 1 .. Len(jobs'), i < j
          PROVE  jobs'[i].cams \cap jobs'[j].cams = {}
      <4>1. i \in 1 .. Len(q)
        BY <1>5, <1>6, <3>1
      <4>2. CASE j \in 1 .. Len(q)
        BY <1>5, <1>6, <3>1, <4>1, <4>2 DEF Apart
      <4>3. CASE j = Len(q) + 1
        BY <1>6, <1>8, <4>1, <4>3
      <4> QED
        BY <1>7, <4>2, <4>3
    <3> QED
      BY <3>1 DEF Apart
  <2>2. \A i \in 1 .. Len(jobs) : /\ jobs[i].cams # {}
                                  /\ jobs[i].token = 0 <=> path = "independent"
    BY DEF IInv, WorkOK
  <2>3. \A i \in 1 .. Len(jobs') : /\ jobs'[i].cams # {}
                                   /\ jobs'[i].token = 0 <=> path' = "independent"
    BY <1>1, <1>2, <1>9, <2>2
  <2> QED
    BY <1>1, <1>6, <2>1, <2>3 DEF IInv, WorkOK
<1>14. TokensOK'
  <2>1. \A i \in 1 .. Len(jobs') : Fits(jobs'[i])
    BY <1>1, <1>9 DEF IInv, TokensOK
  <2>2. \A i \in 1 .. Len(jobs') : Fits(jobs[i])'
    BY <1>1, <2>1 DEF Fits
  <2> QED
    BY <1>1, <2>2 DEF IInv, TokensOK, Fits, Idle
<1>15. GuiOK' /\ PostsOK'
  BY <1>1, SameGui, SamePosts DEF IInv
<1> QED
  BY <1>10, <1>11, <1>12, <1>13, <1>14, <1>15 DEF IInv

LEMMA CaptureStep == ASSUME ConstantsAssumption, IInv, Capture PROVE IInv'
BY StartsStep, EndsStep, ReceiveStep, EnrolStep, PushStep DEF Capture

-----------------------------------------------------------------------------
(* The decode workers.                                                     *)

LEMMA TakeStep == ASSUME ConstantsAssumption, IInv, TakeJob PROVE IInv'
<1>1. /\ jobs # <<>> /\ jobs' = Tail(jobs)
      /\ decoding' = decoding \cup {[job |-> Head(jobs), left |-> Head(jobs).cams]}
      /\ path' = path /\ capturing' = capturing /\ received' = received /\ sent' = sent
      /\ rx' = rx
      /\ active' = active /\ lanes' = lanes /\ lost' = lost /\ enabled' = enabled
      /\ generation' = generation /\ mailbox' = mailbox /\ drop' = drop
      /\ posts' = posts /\ gui' = gui /\ batch' = batch
      /\ notice' = notice /\ shown' = shown /\ latest' = latest
  BY DEF TakeJob, guiVars, laneVars, captureVars
<1>2. jobs \in Seq(Job) /\ Apart(jobs)
  BY DEF IInv, WorkOK
<1>3. PICK h : h = Head(jobs)
  OBVIOUS
<1>4. /\ 1 \in 1 .. Len(jobs) /\ h = jobs[1] /\ h \in Job
      /\ jobs' \in Seq(Job) /\ Len(jobs') = Len(jobs) - 1
      /\ \A i \in 1 .. Len(jobs') : jobs'[i] = jobs[i + 1] /\ i + 1 \in 1 .. Len(jobs)
  BY <1>1, <1>2, <1>3, HeadTailProperties
<1>5. PICK e : e = [job |-> h, left |-> h.cams]
  OBVIOUS
<1>6. e \in Works /\ e.job = h /\ e.left = h.cams
  BY <1>4, <1>5 DEF Works, Job
<1>7. \A d \in decoding' : d \in decoding \/ d = e
  BY <1>1, <1>3, <1>5
<1>8. BaseOK' /\ LanesOK' /\ RxOK'
  BY <1>1, SameLanes, SameRx DEF IInv, BaseOK
<1>9. MailOK' /\ PanesOK'
  BY <1>1, SamePanes DEF IInv, MailOK
<1>10. WorkOK'
  <2>1. Apart(jobs')
    BY <1>2, <1>4 DEF Apart
  <2>2. \A i \in 1 .. Len(jobs) : /\ jobs[i].cams # {}
                                  /\ jobs[i].token = 0 <=> path = "independent"
    BY DEF IInv, WorkOK
  <2>3. \A i \in 1 .. Len(jobs') : /\ jobs'[i].cams # {}
                                   /\ jobs'[i].token = 0 <=> path' = "independent"
    BY <1>1, <1>4, <2>2
  <2>4. \A d \in decoding' : d \in Works /\ d.left \subseteq d.job.cams /\ d.left # {}
    BY <1>4, <1>6, <1>7, <2>2 DEF IInv, WorkOK
  <2> QED
    BY <1>4, <2>1, <2>3, <2>4 DEF WorkOK
<1>11. TokensOK'
  <2>1. /\ \A i \in 1 .. Len(jobs') : Fits(jobs'[i])
        /\ \A d \in decoding' : Fits(d.job)
    BY <1>4, <1>6, <1>7 DEF IInv, TokensOK
  <2>2. /\ \A i \in 1 .. Len(jobs') : Fits(jobs[i])'
        /\ \A d \in decoding' : Fits(d.job)'
    BY <1>1, <2>1 DEF Fits
  <2> QED
    BY <1>1, <2>2 DEF IInv, TokensOK, Fits
<1>12. GuiOK' /\ PostsOK'
  BY <1>1, SameGui, SamePosts DEF IInv
<1> QED
  BY <1>8, <1>9, <1>10, <1>11, <1>12 DEF IInv

\* A worker is through with one camera.
LEMMA AdvanceWork ==
  ASSUME WorkOK, NEW d \in decoding, Advance(d)
  PROVE  \A e \in decoding' : /\ e \in Works /\ e.left \subseteq e.job.cams /\ e.left # {}
                              /\ \E k \in decoding : e.job = k.job
<1>1. PICK left : left = d.left \ {FirstOf(d.left)}
  OBVIOUS
<1>2. decoding' = (decoding \ {d}) \cup (IF left = {} THEN {} ELSE {[d EXCEPT !.left = left]})
  BY <1>1 DEF Advance
<1>3. d \in Works /\ d.left \subseteq d.job.cams
  BY DEF WorkOK
<1>4. PICK r : r = [d EXCEPT !.left = left]
  OBVIOUS
<1>5. r \in Works /\ r.job = d.job /\ r.left = left /\ left \subseteq d.left
  BY <1>1, <1>3, <1>4 DEF Works
<1>6. ASSUME NEW e \in decoding'
      PROVE  e \in decoding \/ (e = r /\ left # {})
  BY <1>2, <1>4
<1> QED
  BY <1>3, <1>5, <1>6 DEF WorkOK

LEMMA AdvanceKeeps ==
  ASSUME WorkOK, TokensOK, NEW d \in decoding, Advance(d), jobs' = jobs, path' = path,
         rx' = rx, SameGroup(mailbox', mailbox)
  PROVE  WorkOK' /\ TokensOK'
<1>1. \A e \in decoding' : /\ e \in Works /\ e.left \subseteq e.job.cams /\ e.left # {}
                           /\ \E k \in decoding : e.job = k.job
  BY AdvanceWork
<1>2. WorkOK'
  BY <1>1 DEF WorkOK, Apart
<1>3. \A e \in decoding' : Fits(e.job)
  BY <1>1 DEF TokensOK
<1>4. \A e \in decoding' : Fits(e.job)'
  BY <1>3 DEF Fits, SameGroup
<1>5. TokensOK'
  BY <1>4 DEF TokensOK, Fits, SameGroup
<1> QED
  BY <1>2, <1>5

LEMMA SkipStep == ASSUME ConstantsAssumption, IInv, NEW d \in decoding, Skip(d) PROVE IInv'
<1>1. /\ Advance(d)
      /\ path' = path /\ capturing' = capturing /\ received' = received /\ sent' = sent
      /\ rx' = rx /\ jobs' = jobs
      /\ active' = active /\ lanes' = lanes /\ lost' = lost /\ enabled' = enabled
      /\ generation' = generation /\ mailbox' = mailbox /\ drop' = drop
      /\ posts' = posts /\ gui' = gui /\ batch' = batch
      /\ notice' = notice /\ shown' = shown /\ latest' = latest
  BY DEF Skip, guiVars, laneVars, captureVars
<1>2. BaseOK' /\ LanesOK' /\ RxOK'
  BY <1>1, SameLanes, SameRx DEF IInv, BaseOK
<1>3. MailOK' /\ PanesOK'
  BY <1>1, SamePanes DEF IInv, MailOK
<1>4. WorkOK' /\ TokensOK'
  BY <1>1, AdvanceKeeps DEF IInv, SameGroup
<1>5. GuiOK' /\ PostsOK'
  BY <1>1, SameGui, SamePosts DEF IInv
<1> QED
  BY <1>2, <1>3, <1>4, <1>5 DEF IInv

\* The image a worker passes on.
LEMMA ImageTypes ==
  ASSUME ConstantsAssumption, WorkOK, NEW d \in decoding
  PROVE  LET image == ImageOf(d.job, FirstOf(d.left)) IN
         /\ image \in Image /\ image.group = d.job.group
         /\ image.generation = d.job.generation
<1>1. d \in Works /\ d.left \subseteq d.job.cams /\ d.left # {}
  BY DEF WorkOK
<1>2. d.job \in Job /\ d.job.cams \subseteq Cameras
  BY <1>1 DEF Works, Job
<1>3. FirstOf(d.left) \in Cameras
  BY <1>1, <1>2, FirstIsThere
<1> QED
  BY <1>2, <1>3 DEF ImageOf, Image, Job

LEMMA GroupedStep ==
  ASSUME ConstantsAssumption, IInv, NEW d \in decoding, PublishGrouped(d) PROVE IInv'
<1>1. PICK image : image = ImageOf(d.job, FirstOf(d.left))
  OBVIOUS
<1>2. image \in Image /\ image.group = d.job.group /\ image.generation = d.job.generation
  BY <1>1, ImageTypes DEF IInv
<1>3. PICK m : m = Published(mailbox, image)
  OBVIOUS
<1>4. /\ d.job.token # 0 /\ Accepts(mailbox, d.job.token, image)
      /\ mailbox' = Requested(m) /\ posts' = Posted(MustPost(m), "group", d.job.generation)
      /\ Advance(d)
      /\ path' = path /\ capturing' = capturing /\ received' = received /\ sent' = sent
      /\ rx' = rx /\ jobs' = jobs
      /\ active' = active /\ lanes' = lanes /\ lost' = lost /\ enabled' = enabled
      /\ generation' = generation /\ drop' = drop
      /\ gui' = gui /\ batch' = batch
      /\ notice' = notice /\ shown' = shown /\ latest' = latest
  BY <1>1, <1>3 DEF PublishGrouped, guiVars, laneVars, captureVars
<1>5. Mail(mailbox) /\ mailbox.generation \in Generations
  BY DEF IInv, MailOK, Mail, Mailboxes
<1>6. d.job.generation = mailbox.generation /\ d.job.token = mailbox.token
  BY <1>2, <1>4, <1>5 DEF Accepts, Mail
<1>7. image.group = mailbox.current.group
  BY <1>2, <1>4, <1>6 DEF IInv, TokensOK, Fits
<1>8. Mail(m) /\ SameGroup(m, mailbox) /\ m.posted = mailbox.posted
  BY <1>2, <1>3, <1>4, <1>5, <1>7, PublishedMail
<1>9. Mail(mailbox') /\ SameGroup(mailbox', mailbox)
  BY <1>4, <1>8, RequestedMail DEF SameGroup
<1>10. BaseOK' /\ LanesOK' /\ RxOK'
  BY <1>4, <1>9, SameLanes, SameRx DEF IInv, BaseOK, SameGroup
<1>11. MailOK' /\ PanesOK'
  BY <1>4, <1>9, SamePanes DEF IInv, MailOK, SameGroup
<1>12. WorkOK' /\ TokensOK'
  BY <1>4, <1>9, AdvanceKeeps DEF IInv
<1>13. GuiOK'
  BY <1>4, <1>9, SameGui DEF IInv, SameGroup
<1>14. PostsOK'
  BY <1>4, <1>5, <1>6, <1>8, PostGroup DEF IInv, SameGroup
<1> QED
  BY <1>10, <1>11, <1>12, <1>13, <1>14 DEF IInv

LEMMA SingleStep ==
  ASSUME ConstantsAssumption, IInv, NEW d \in decoding, PublishSingle(d) PROVE IInv'
<1>1. PICK image : image = ImageOf(d.job, FirstOf(d.left))
  OBVIOUS
<1>2. image \in Image /\ image.generation = d.job.generation
  BY <1>1, ImageTypes DEF IInv
<1>3. /\ DropAccepts(image) /\ drop' = Dropped(image)
      /\ posts' = Posted(~drop.posted, "single", d.job.generation)
      /\ Advance(d)
      /\ path' = path /\ capturing' = capturing /\ received' = received /\ sent' = sent
      /\ rx' = rx /\ jobs' = jobs
      /\ active' = active /\ lanes' = lanes /\ lost' = lost /\ enabled' = enabled
      /\ generation' = generation /\ mailbox' = mailbox
      /\ gui' = gui /\ batch' = batch
      /\ notice' = notice /\ shown' = shown /\ latest' = latest
  BY <1>1 DEF PublishSingle, guiVars, laneVars, captureVars
<1>4. drop \in Drops /\ drop.generation = mailbox.generation
  BY DEF IInv, MailOK
<1>5. d.job.generation = mailbox.generation
  BY <1>2, <1>3, <1>4 DEF DropAccepts
<1>6. image.camera \in Cameras /\ image.seq \in 0 .. MaxReceived
  BY <1>2 DEF Image
<1>7. PICK n : n = [drop.newest EXCEPT ![image.camera] = image.seq]
  OBVIOUS
<1>8. PICK f : f = [drop.frames EXCEPT ![image.camera] = image]
  OBVIOUS
<1>9. n \in [Cameras -> 0 .. MaxReceived] /\ f \in Panels
  BY <1>2, <1>4, <1>6, <1>7, <1>8 DEF Drops, Panels, Slots
<1>10. drop' = [drop EXCEPT !.newest = n, !.frames = f, !.posted = TRUE]
  BY <1>3, <1>4, <1>7, <1>8 DEF Dropped, Drops
<1>11. drop' \in Drops /\ drop'.generation = drop.generation /\ drop'.posted = TRUE
  BY <1>4, <1>9, <1>10 DEF Drops
<1>12. BaseOK' /\ LanesOK' /\ RxOK'
  BY <1>3, SameLanes, SameRx DEF IInv, BaseOK
<1>13. MailOK' /\ PanesOK'
  BY <1>3, <1>4, <1>11, SamePanes DEF IInv, MailOK
<1>14. WorkOK' /\ TokensOK'
  BY <1>3, AdvanceKeeps DEF IInv, SameGroup
<1>15. GuiOK'
  BY <1>3, SameGui DEF IInv
<1>16. PostsOK'
  <2>1. CASE drop.posted
    <3>1. posts' = posts /\ drop'.posted = drop.posted
      BY <1>3, <1>4, <1>11, <2>1 DEF Posted, Drops
    <3> QED
      BY <1>3, <3>1, SamePosts DEF IInv
  <2>2. CASE ~drop.posted
    <3>1. PICK t : t = Drain("single", mailbox.generation)
      OBVIOUS
    <3>2. /\ t \in DrainSet /\ t.generation = mailbox.generation
          /\ t # Drain("group", mailbox.generation) /\ mailbox.generation \in Nat
      BY <3>1 DEF Drain, DrainSet, IInv, MailOK, Mail, Mailboxes, Generations
    <3>3. posts' = Append(posts, t) /\ posts \in Seq(DrainSet)
      BY <1>3, <1>5, <2>2, <3>1 DEF Posted, IInv, PostsOK
    <3>4. /\ posts' \in Seq(DrainSet) /\ Len(posts') = Len(posts) + 1
          /\ posts'[Len(posts) + 1] = t
          /\ \A i \in 1 .. Len(posts) : posts'[i] = posts[i]
      BY <3>2, <3>3, AppendProperties
    <3>5. \A i \in 1 .. Len(posts') : i \in 1 .. Len(posts) \/ i = Len(posts) + 1
      BY <3>3, <3>4
    <3>6. \A i \in 1 .. Len(posts) : ~Present(i, "single")
      BY <2>2 DEF IInv, PostsOK
    <3>7. \A i \in 1 .. Len(posts') : posts'[i].generation <= mailbox'.generation
      BY <1>3, <3>2, <3>4, <3>5 DEF IInv, PostsOK
    <3>8. \A i \in 1 .. Len(posts') : Present(i, "single")' <=> i = Len(posts) + 1
      BY <1>3, <3>1, <3>4, <3>5, <3>6 DEF Present
    <3>9. \A i \in 1 .. Len(posts') :
            Present(i, "group")' <=> i \in 1 .. Len(posts) /\ Present(i, "group")
      BY <1>3, <3>2, <3>4, <3>5 DEF Present
    <3>10. \A i, j \in 1 .. Len(posts') : Present(i, "group")' /\ Present(j, "group")' => i = j
      BY <3>9 DEF IInv, PostsOK
    <3>11. \A i \in 1 .. Len(posts') : Present(i, "group")' => mailbox'.posted /\ ~Painting'
      BY <1>3, <3>9 DEF IInv, PostsOK, Painting
    <3>12. Painting' => mailbox'.posted
      BY <1>3 DEF IInv, PostsOK, Painting
    <3> QED
      BY <1>11, <3>4, <3>7, <3>8, <3>10, <3>11, <3>12 DEF PostsOK
  <2> QED
    BY <2>1, <2>2
<1> QED
  BY <1>12, <1>13, <1>14, <1>15, <1>16 DEF IInv

LEMMA DecodeStep == ASSUME ConstantsAssumption, IInv, Decode PROVE IInv'
BY TakeStep, SkipStep, GroupedStep, SingleStep DEF Decode

-----------------------------------------------------------------------------
(* The GUI thread.                                                         *)

LEMMA TailPosts ==
  ASSUME posts \in Seq(DrainSet), posts # <<>>, posts' = Tail(posts)
  PROVE  /\ posts' \in Seq(DrainSet) /\ 1 \in 1 .. Len(posts) /\ Head(posts) = posts[1]
         /\ Head(posts) \in DrainSet
         /\ \A i \in 1 .. Len(posts') :
               posts'[i] = posts[i + 1] /\ i + 1 \in 1 .. Len(posts) /\ i + 1 # 1
BY HeadTailProperties

\* A drain that stays behind was present before, and so is still the only one.
LEMMA TailPresent ==
  ASSUME PostsOK, posts # <<>>, posts' = Tail(posts),
         mailbox'.generation = mailbox.generation
  PROVE  /\ \A kind \in {"group", "single"} : \A i \in 1 .. Len(posts') :
               Present(i, kind)' => /\ Present(i + 1, kind)
                                    /\ i + 1 \in 1 .. Len(posts) /\ i + 1 # 1
         /\ \A kind \in {"group", "single"} : \A i, j \in 1 .. Len(posts') :
               Present(i, kind)' /\ Present(j, kind)' => i = j
         /\ \A i \in 1 .. Len(posts') : posts'[i].generation <= mailbox'.generation
<1>1. \A i \in 1 .. Len(posts') :
         posts'[i] = posts[i + 1] /\ i + 1 \in 1 .. Len(posts) /\ i + 1 # 1
  BY TailPosts DEF PostsOK
<1>2. \A kind \in {"group", "single"} : \A i \in 1 .. Len(posts') :
        Present(i, kind)' => Present(i + 1, kind) /\ i + 1 \in 1 .. Len(posts) /\ i + 1 # 1
  BY <1>1 DEF Present
<1>3. ASSUME NEW kind \in {"group", "single"}, NEW i \in 1 .. Len(posts'),
             NEW j \in 1 .. Len(posts'), Present(i, kind)', Present(j, kind)'
      PROVE  i = j
  <2>1. i + 1 = j + 1
    BY <1>2, <1>3 DEF PostsOK
  <2> QED
    BY <2>1
<1>4. \A i \in 1 .. Len(posts') : posts'[i].generation <= mailbox'.generation
  BY <1>1 DEF PostsOK
<1> QED
  BY <1>2, <1>3, <1>4

LEMMA RefreshPanes ==
  ASSUME ConstantsAssumption, BaseOK, LanesOK, PanesOK, active' = active, latest' = latest,
         NEW late \in SUBSET MayVanish, Refresh(late)
  PROVE  LanesOK' /\ PanesOK'
<1>1. LanesOK'
  BY SnapshotLanes DEF Refresh
<1>2. notice' \in [Cameras -> BOOLEAN]
  BY DEF Refresh
<1>3. shown' \in Panels
  BY DEF Refresh, PanesOK, Panels, Slots
<1> QED
  BY <1>1, <1>2, <1>3 DEF PanesOK

LEMMA SkipDrainStep == ASSUME ConstantsAssumption, IInv, SkipDrain PROVE IInv'
<1>1. /\ posts # <<>> /\ posts' = Tail(posts)
      /\ path' = path /\ capturing' = capturing /\ received' = received /\ sent' = sent
      /\ rx' = rx /\ jobs' = jobs /\ decoding' = decoding
      /\ active' = active /\ lanes' = lanes /\ lost' = lost /\ enabled' = enabled
      /\ generation' = generation /\ mailbox' = mailbox /\ drop' = drop
      /\ gui' = gui /\ batch' = batch
      /\ notice' = notice /\ shown' = shown /\ latest' = latest
  BY DEF SkipDrain, guiVars, laneVars, captureVars
<1>2. BaseOK' /\ LanesOK' /\ RxOK'
  BY <1>1, SameLanes, SameRx DEF IInv, BaseOK
<1>3. MailOK' /\ PanesOK' /\ WorkOK'
  BY <1>1, SamePanes, SameWork DEF IInv, MailOK
<1>4. TokensOK' /\ GuiOK'
  BY <1>1, SameTokens, SameGui DEF IInv, SameGroup
<1>5. PostsOK'
  <2>1. posts' \in Seq(DrainSet)
    BY <1>1, TailPosts DEF IInv, PostsOK
  <2>2. /\ \A kind \in {"group", "single"} : \A i \in 1 .. Len(posts') :
             Present(i, kind)' => Present(i + 1, kind) /\ i + 1 \in 1 .. Len(posts)
        /\ \A kind \in {"group", "single"} : \A i, j \in 1 .. Len(posts') :
             Present(i, kind)' /\ Present(j, kind)' => i = j
        /\ \A i \in 1 .. Len(posts') : posts'[i].generation <= mailbox'.generation
    BY <1>1, TailPresent DEF IInv
  <2>3. \A i \in 1 .. Len(posts') :
          /\ Present(i, "group")' => mailbox'.posted /\ ~Painting'
          /\ Present(i, "single")' => drop'.posted
    BY <1>1, <2>2 DEF IInv, PostsOK, Painting
  <2>4. Painting' => mailbox'.posted
    BY <1>1 DEF IInv, PostsOK, Painting
  <2> QED
    BY <2>1, <2>2, <2>3, <2>4 DEF PostsOK
<1> QED
  BY <1>2, <1>3, <1>4, <1>5 DEF IInv

LEMMA TakeBatchStep == ASSUME ConstantsAssumption, IInv, TakeBatch PROVE IInv'
<1>1. /\ gui = Idle /\ posts # <<>> /\ Head(posts).generation = generation
      /\ posts' = Tail(posts) /\ gui' = [at |-> "apply", kind |-> Head(posts).kind]
      /\ path' = path /\ capturing' = capturing /\ received' = received /\ sent' = sent
      /\ rx' = rx /\ jobs' = jobs /\ decoding' = decoding
      /\ active' = active /\ enabled' = enabled
      /\ generation' = generation /\ latest' = latest
  BY DEF TakeBatch, Outdated, captureVars
<1>2. PICK late \in SUBSET MayVanish : Refresh(late)
  BY DEF TakeBatch
<1>3. BaseOK' /\ LanesOK' /\ PanesOK'
  BY <1>1, <1>2, RefreshPanes DEF IInv, BaseOK
<1>4. /\ posts' \in Seq(DrainSet) /\ 1 \in 1 .. Len(posts) /\ Head(posts) = posts[1]
      /\ Head(posts) \in DrainSet
  BY <1>1, TailPosts DEF IInv, PostsOK
<1>5. gui.at = "idle" /\ mailbox.generation = generation /\ generation \in Nat
  BY <1>1 DEF Idle, IInv, GuiOK, BaseOK, Generations
<1>6. gui'.at = "apply" /\ gui'.kind = Head(posts).kind
  BY <1>1
<1>7. \A kind \in {"group", "single"} : Head(posts).kind = kind => Present(1, kind)
  BY <1>1, <1>4, <1>5 DEF Present, Drain, DrainSet
<1>8. mailbox'.generation = mailbox.generation =>
        /\ \A kind \in {"group", "single"} : \A i \in 1 .. Len(posts') :
             Present(i, kind)' => /\ Present(i + 1, kind)
                                  /\ i + 1 \in 1 .. Len(posts) /\ i + 1 # 1
        /\ \A kind \in {"group", "single"} : \A i, j \in 1 .. Len(posts') :
             Present(i, kind)' /\ Present(j, kind)' => i = j
        /\ \A i \in 1 .. Len(posts') : posts'[i].generation <= mailbox'.generation
  BY <1>1, TailPresent DEF IInv
<1>9. CASE Head(posts).kind = "group"
  <2>1. mailbox' = Taken(mailbox) /\ batch' = mailbox.ready /\ drop' = drop
    BY <1>9 DEF TakeBatch
  <2>2. /\ Mail(mailbox) /\ Mail(mailbox') /\ SameGroup(mailbox', mailbox)
        /\ mailbox'.posted = mailbox.posted
    BY <2>1, TakenMail DEF IInv, MailOK
  <2>3. MailOK' /\ RxOK' /\ WorkOK' /\ TokensOK'
    BY <1>1, <2>1, <2>2, SameRx, SameWork, SameTokens DEF IInv, MailOK, SameGroup
  <2>4. batch' \in Panels /\ OneGroup(batch)'
    BY <2>1, <2>2 DEF Mail, Mailboxes, OneGroup
  <2>5. GuiOK'
    BY <1>1, <1>5, <1>6, <1>9, <2>2, <2>4 DEF GuiOK, SameGroup
  <2>6. \A i \in 1 .. Len(posts') : ~Present(i, "group")'
    BY <1>4, <1>7, <1>8, <1>9, <2>2 DEF SameGroup, IInv, PostsOK
  <2>7. mailbox'.posted
    BY <1>4, <1>7, <1>9, <2>2 DEF IInv, PostsOK
  <2>8. \A i \in 1 .. Len(posts') : Present(i, "single")' => drop'.posted
    BY <1>8, <2>1, <2>2 DEF SameGroup, IInv, PostsOK
  <2>9. PostsOK'
    BY <1>4, <1>8, <2>2, <2>6, <2>7, <2>8 DEF PostsOK, SameGroup
  <2> QED
    BY <1>3, <2>3, <2>5, <2>9 DEF IInv
<1>10. CASE Head(posts).kind = "single"
  <2>1. /\ mailbox' = mailbox /\ batch' = drop.frames
        /\ drop' = [drop EXCEPT !.frames = NoImages, !.posted = FALSE]
    BY <1>10 DEF TakeBatch
  <2>2. drop \in Drops /\ drop.generation = mailbox.generation
    BY DEF IInv, MailOK
  <2>3. /\ drop' \in Drops /\ drop'.generation = drop.generation /\ drop'.posted = FALSE
        /\ batch' \in Panels
    BY <2>1, <2>2, NoPictures DEF Drops
  <2>4. MailOK' /\ RxOK' /\ WorkOK' /\ TokensOK'
    BY <1>1, <2>1, <2>2, <2>3, SameRx, SameWork, SameTokens DEF IInv, MailOK, SameGroup
  <2>5. GuiOK'
    BY <1>1, <1>5, <1>6, <1>10, <2>1, <2>3 DEF GuiOK, Painting
  <2>6. \A i \in 1 .. Len(posts') : ~Present(i, "single")'
    BY <1>4, <1>7, <1>8, <1>10, <2>1 DEF IInv, PostsOK
  <2>7. ~Painting'
    BY <1>6, <1>10 DEF Painting
  <2>8. \A i \in 1 .. Len(posts') : Present(i, "group")' => mailbox'.posted
    BY <1>8, <2>1, <2>2 DEF SameGroup, IInv, PostsOK
  <2>9. PostsOK'
    BY <1>4, <1>8, <2>1, <2>6, <2>7, <2>8 DEF PostsOK
  <2> QED
    BY <1>3, <2>4, <2>5, <2>9 DEF IInv
<1> QED
  BY <1>4, <1>9, <1>10 DEF DrainSet

\* The panes after a batch: what was there or an image of it.
LEMMA PaintPanes ==
  ASSUME ConstantsAssumption, PanesOK, batch \in Panels, notice' = notice,
         shown' = [c \in Cameras |-> IF Fresh(c, batch[c]) THEN batch[c] ELSE shown[c]],
         latest' = [c \in Cameras |-> IF Fresh(c, batch[c]) THEN batch[c].seq ELSE latest[c]]
  PROVE  PanesOK'
<1>1. shown' \in Panels
  BY DEF PanesOK, Panels
<1>2. ASSUME NEW c \in Cameras
      PROVE  latest'[c] \in 0 .. MaxReceived
  <2>1. CASE Fresh(c, batch[c])
    <3>1. batch[c] \in Image
      BY <2>1 DEF Fresh, Panels, Slots
    <3> QED
      BY <2>1, <3>1 DEF Image
  <2>2. CASE ~Fresh(c, batch[c])
    BY <2>2 DEF PanesOK
  <2> QED
    BY <2>1, <2>2
<1>3. latest' \in [Cameras -> 0 .. MaxReceived]
  BY <1>2
<1> QED
  BY <1>1, <1>3 DEF PanesOK

LEMMA ApplyStep == ASSUME ConstantsAssumption, IInv, ApplyBatch PROVE IInv'
<1>1. /\ gui.at = "apply" /\ batch' = NoImages /\ gui' = Idle
      /\ shown' = [c \in Cameras |-> IF Fresh(c, batch[c]) THEN batch[c] ELSE shown[c]]
      /\ latest' = [c \in Cameras |-> IF Fresh(c, batch[c]) THEN batch[c].seq ELSE latest[c]]
      /\ path' = path /\ capturing' = capturing /\ received' = received /\ sent' = sent
      /\ rx' = rx /\ jobs' = jobs /\ decoding' = decoding
      /\ active' = active /\ enabled' = enabled
      /\ generation' = generation /\ drop' = drop /\ notice' = notice
  BY DEF ApplyBatch, captureVars
<1>2. PICK late \in SUBSET MayVanish :
        (late # {} => active) /\ lanes' = SnapshotOf(late) /\ lost' = LostAfter(lanes')
  BY DEF ApplyBatch
<1>3. BaseOK'
  BY <1>1 DEF IInv, BaseOK
<1>4. LanesOK'
  BY <1>1, <1>2, SnapshotLanes DEF IInv
<1>5. PanesOK'
  BY <1>1, PaintPanes DEF IInv, GuiOK
<1>6. /\ mailbox.generation = generation /\ gui'.at = "idle"
      /\ mailbox.generation \in Generations /\ Mail(mailbox)
  BY <1>1 DEF IInv, GuiOK, Idle, MailOK, Mail, Mailboxes
<1>7. ~Painting'
  BY <1>6 DEF Painting
<1>8. WorkOK'
  BY <1>1, SameWork DEF IInv
<1>9. CASE gui.kind = "group"
  <2>1. PICK m : m = Presented(mailbox)
    OBVIOUS
  <2>2. Mail(m) /\ SameGroup(m, mailbox) /\ m.posted = FALSE
    BY <1>6, <2>1, PresentedMail
  <2>3. /\ mailbox' = Requested(m)
        /\ posts' = Posted(mailbox'.posted, "group", generation)
    BY <1>9, <2>1 DEF ApplyBatch, AfterPaint
  <2>4. /\ Mail(mailbox') /\ SameGroup(mailbox', mailbox) /\ MustPost(m) \in BOOLEAN
        /\ mailbox'.posted = MustPost(m)
    BY <2>2, <2>3, RequestedMail DEF SameGroup
  <2>5. MailOK' /\ RxOK' /\ TokensOK'
    BY <1>1, <2>4, SameRx, SameTokens DEF IInv, MailOK, SameGroup
  <2>6. GuiOK'
    BY <1>1, <1>6, <1>7, <2>4, NoPictures DEF GuiOK, SameGroup, IInv, Idle
  <2>7. PostsOK'
    <3>1. \A i \in 1 .. Len(posts) : ~Present(i, "group")
      BY <1>1, <1>9 DEF IInv, PostsOK, Painting
    <3>2. CASE ~MustPost(m)
      <4>1. posts' = posts
        BY <2>3, <2>4, <3>2 DEF Posted
      <4>2. \A kind \in {"group", "single"} : \A i : Present(i, kind)' <=> Present(i, kind)
        BY <2>4, <4>1 DEF Present, SameGroup
      <4> QED
        BY <1>1, <1>7, <2>4, <3>1, <4>1, <4>2 DEF IInv, PostsOK, SameGroup
    <3>3. CASE MustPost(m)
      <4>1. PICK t : t = Drain("group", mailbox.generation)
        OBVIOUS
      <4>2. /\ t \in DrainSet /\ t.generation = mailbox.generation
            /\ t # Drain("single", mailbox.generation) /\ mailbox.generation \in Nat
        BY <1>6, <4>1 DEF Drain, DrainSet, Generations
      <4>3. posts' = Append(posts, t) /\ posts \in Seq(DrainSet)
        BY <1>6, <2>3, <2>4, <3>3, <4>1 DEF Posted, IInv, PostsOK
      <4>4. /\ posts' \in Seq(DrainSet) /\ Len(posts') = Len(posts) + 1
            /\ posts'[Len(posts) + 1] = t
            /\ \A i \in 1 .. Len(posts) : posts'[i] = posts[i]
        BY <4>2, <4>3, AppendProperties
      <4>5. \A i \in 1 .. Len(posts') : i \in 1 .. Len(posts) \/ i = Len(posts) + 1
        BY <4>3, <4>4
      <4>6. mailbox'.generation = mailbox.generation
        BY <2>4 DEF SameGroup
      <4>7. \A i \in 1 .. Len(posts') : posts'[i].generation <= mailbox'.generation
        BY <4>2, <4>4, <4>5, <4>6 DEF IInv, PostsOK
      <4>8. \A i \in 1 .. Len(posts') : Present(i, "group")' <=> i = Len(posts) + 1
        BY <3>1, <4>1, <4>4, <4>5, <4>6 DEF Present
      <4>9. \A i \in 1 .. Len(posts') :
              Present(i, "single")' <=> i \in 1 .. Len(posts) /\ Present(i, "single")
        BY <4>2, <4>4, <4>5, <4>6 DEF Present
      <4>10. \A i, j \in 1 .. Len(posts') : Present(i, "single")' /\ Present(j, "single")' => i = j
        BY <4>9 DEF IInv, PostsOK
      <4>11. \A i \in 1 .. Len(posts') : Present(i, "single")' => drop'.posted
        BY <1>1, <4>9 DEF IInv, PostsOK
      <4> QED
        BY <1>7, <2>4, <3>3, <4>4, <4>7, <4>8, <4>10, <4>11 DEF PostsOK
    <3> QED
      BY <2>4, <3>2, <3>3
  <2> QED
    BY <1>3, <1>4, <1>5, <1>8, <2>5, <2>6, <2>7 DEF IInv
<1>10. CASE gui.kind # "group"
  <2>1. mailbox' = mailbox /\ posts' = posts
    BY <1>10 DEF ApplyBatch
  <2>2. MailOK' /\ RxOK' /\ TokensOK'
    BY <1>1, <2>1, SameRx, SameTokens DEF IInv, MailOK, SameGroup
  <2>3. GuiOK'
    BY <1>1, <1>6, <1>7, <2>1, NoPictures DEF GuiOK, IInv, Idle
  <2>4. PostsOK'
    BY <1>1, <1>7, <2>1 DEF IInv, PostsOK, Present
  <2> QED
    BY <1>3, <1>4, <1>5, <1>8, <2>2, <2>3, <2>4 DEF IInv
<1> QED
  BY <1>9, <1>10

LEMMA TimerStep ==
  ASSUME ConstantsAssumption, IInv, NEW overdue \in BOOLEAN, Timer(overdue) PROVE IInv'
<1>1. /\ gui = Idle
      /\ path' = path /\ capturing' = capturing /\ received' = received /\ sent' = sent
      /\ rx' = rx /\ jobs' = jobs /\ decoding' = decoding
      /\ active' = active /\ enabled' = enabled
      /\ generation' = generation /\ drop' = drop /\ gui' = gui /\ batch' = batch
      /\ latest' = latest
  BY DEF Timer, captureVars
<1>2. BaseOK'
  BY <1>1 DEF IInv, BaseOK
<1>3. LanesOK' /\ PanesOK'
  <2>1. CASE ~capturing /\ UNCHANGED <<lanes, lost, notice, shown>>
    BY <1>1, <2>1, SameLanes, SamePanes DEF IInv
  <2>2. CASE capturing /\ \E late \in SUBSET MayVanish : Refresh(late)
    BY <1>1, <2>2, RefreshPanes DEF IInv
  <2> QED
    BY <2>1, <2>2 DEF Timer
<1>4. /\ mailbox.generation = generation /\ mailbox.generation \in Generations /\ Mail(mailbox)
  BY <1>1 DEF IInv, GuiOK, Idle, MailOK, Mail, Mailboxes
<1>5. PICK m : m = IF overdue THEN Expired(mailbox) ELSE mailbox
  OBVIOUS
<1>6. Mail(m) /\ SameGroup(m, mailbox) /\ m.posted = mailbox.posted
  BY <1>4, <1>5, ExpiredMail DEF SameGroup
<1>7. WorkOK'
  BY <1>1, SameWork DEF IInv
<1>8. \/ mailbox' = mailbox /\ posts' = posts
      \/ mailbox' = Requested(m) /\ posts' = Posted(MustPost(m), "group", generation)
  BY <1>5 DEF Timer
<1>9. Mail(mailbox') /\ SameGroup(mailbox', mailbox)
  BY <1>4, <1>6, <1>8, RequestedMail DEF SameGroup
<1>10. MailOK' /\ RxOK' /\ TokensOK' /\ GuiOK'
  BY <1>1, <1>9, SameRx, SameTokens, SameGui DEF IInv, MailOK, SameGroup
<1>11. PostsOK'
  <2>1. CASE mailbox' = mailbox /\ posts' = posts
    BY <1>1, <2>1, SamePosts DEF IInv
  <2>2. CASE mailbox' = Requested(m) /\ posts' = Posted(MustPost(m), "group", generation)
    BY <1>1, <1>4, <1>6, <2>2, PostGroup DEF IInv, SameGroup
  <2> QED
    BY <1>8, <2>1, <2>2
<1> QED
  BY <1>2, <1>3, <1>7, <1>10, <1>11 DEF IInv

\* A reset begins: the preview is one generation ahead of the mailboxes.
LEMMA BeginStep ==
  ASSUME ConstantsAssumption, IInv, NEW kind \in {"capture", "hide"}, BeginReset(kind),
         kind = "capture" => ~capturing, enabled' \in BOOLEAN,
         UNCHANGED <<captureVars, laneVars, mailbox, drop, jobs, decoding, posts, batch,
                     notice, shown, latest>>
  PROVE  IInv'
<1>1. /\ gui = Idle /\ generation < MaxGeneration /\ generation' = generation + 1
      /\ gui' = [at |-> "reset", kind |-> kind]
      /\ path' = path /\ capturing' = capturing /\ received' = received /\ sent' = sent
      /\ rx' = rx /\ jobs' = jobs /\ decoding' = decoding
      /\ active' = active /\ lanes' = lanes /\ lost' = lost
      /\ mailbox' = mailbox /\ drop' = drop /\ posts' = posts /\ batch' = batch
      /\ notice' = notice /\ shown' = shown /\ latest' = latest
  BY DEF BeginReset, captureVars, laneVars
<1>2. gui.at = "idle" /\ gui'.at = "reset" /\ gui'.kind = kind
  BY <1>1 DEF Idle
<1>3. generation \in Nat /\ generation' \in Generations /\ mailbox.generation < generation'
  BY <1>1, <1>2 DEF IInv, BaseOK, GuiOK, Generations, ConstantsAssumption
<1>4. BaseOK'
  BY <1>1, <1>3 DEF IInv, BaseOK
<1>5. LanesOK' /\ RxOK' /\ WorkOK' /\ PanesOK'
  BY <1>1, SameLanes, SameRx, SameWork, SamePanes DEF IInv
<1>6. MailOK' /\ TokensOK'
  BY <1>1, SameTokens DEF IInv, MailOK, SameGroup
<1>7. ~Painting /\ ~Painting'
  BY <1>2 DEF Painting
<1>8. GuiOK'
  BY <1>1, <1>2, <1>3, <1>7 DEF IInv, GuiOK
<1>9. PostsOK'
  BY <1>1, <1>7 DEF IInv, PostsOK, Present
<1> QED
  BY <1>4, <1>5, <1>6, <1>8, <1>9 DEF IInv

LEMMA NewCaptureStep == ASSUME ConstantsAssumption, IInv, NewCapture PROVE IInv'
<1>1. enabled' \in BOOLEAN
  BY DEF NewCapture, IInv, BaseOK
<1> QED
  BY <1>1, BeginStep DEF NewCapture

LEMMA HideStep == ASSUME ConstantsAssumption, IInv, HidePreview PROVE IInv'
BY BeginStep DEF HidePreview

LEMMA ShowStep == ASSUME ConstantsAssumption, IInv, ShowPreview PROVE IInv'
<1>1. /\ enabled' = TRUE
      /\ path' = path /\ capturing' = capturing /\ received' = received /\ sent' = sent
      /\ rx' = rx /\ jobs' = jobs /\ decoding' = decoding
      /\ active' = active /\ lanes' = lanes /\ lost' = lost /\ generation' = generation
      /\ mailbox' = mailbox /\ drop' = drop /\ posts' = posts /\ gui' = gui
      /\ batch' = batch /\ notice' = notice /\ shown' = shown /\ latest' = latest
  BY DEF ShowPreview, captureVars, laneVars, guiVars
<1>2. BaseOK'
  BY <1>1 DEF IInv, BaseOK
<1>3. LanesOK' /\ RxOK' /\ WorkOK' /\ PanesOK'
  BY <1>1, SameLanes, SameRx, SameWork, SamePanes DEF IInv
<1>4. MailOK' /\ TokensOK'
  BY <1>1, SameTokens DEF IInv, MailOK, SameGroup
<1>5. GuiOK' /\ PostsOK'
  BY <1>1, SameGui, SamePosts DEF IInv
<1> QED
  BY <1>2, <1>3, <1>4, <1>5 DEF IInv

LEMMA ResetStep == ASSUME ConstantsAssumption, IInv, ResetMailboxes PROVE IInv'
<1>1. /\ gui.at = "reset" /\ mailbox' = FreshMailbox(generation)
      /\ drop' = FreshDrop(generation) /\ gui' = [gui EXCEPT !.at = "clear"]
      /\ path' = path /\ capturing' = capturing /\ received' = received /\ sent' = sent
      /\ rx' = rx /\ jobs' = jobs /\ decoding' = decoding /\ enabled' = enabled
      /\ active' = active /\ lanes' = lanes /\ lost' = lost /\ generation' = generation
      /\ posts' = posts /\ batch' = batch
      /\ notice' = notice /\ shown' = shown /\ latest' = latest
  BY DEF ResetMailboxes, captureVars, laneVars
<1>2. /\ generation \in Generations /\ generation \in Nat /\ mailbox.generation \in Nat
      /\ mailbox.generation < generation
  BY <1>1 DEF IInv, BaseOK, GuiOK, Generations, MailOK, Mail, Mailboxes
<1>3. /\ Mail(mailbox') /\ mailbox'.generation = generation /\ mailbox'.token = 0
      /\ mailbox'.posted = FALSE
  BY <1>1, <1>2, FreshMail
<1>4. BaseOK'
  BY <1>1 DEF IInv, BaseOK
<1>5. LanesOK' /\ WorkOK' /\ PanesOK'
  BY <1>1, SameLanes, SameWork, SamePanes DEF IInv
<1>6. MailOK'
  <2>1. 0 \in 0 .. MaxReceived
    BY DEF ConstantsAssumption
  <2>2. drop' \in Drops /\ drop'.generation = generation
    BY <1>1, <1>2, <2>1, NoPictures DEF FreshDrop, Drops
  <2> QED
    BY <1>3, <2>2 DEF MailOK
<1>7. RxOK'
  <2>1. mailbox.token \in Nat /\ sent \in Nat
    BY DEF IInv, MailOK, Mail, Mailboxes, BaseOK
  <2>2. mailbox'.token + (IF rx'.at = "enrol" THEN 1 ELSE 0) <= sent'
    BY <1>1, <1>3, <2>1 DEF IInv, RxOK
  <2> QED
    BY <1>1, <2>2 DEF IInv, RxOK
<1>8. TokensOK'
  <2>1. ASSUME NEW k \in Job, Fits(k)
        PROVE  Fits(k)'
    <3>1. k.generation \in Nat
      BY DEF Job, Generations
    <3> QED
      BY <1>2, <1>3, <2>1, <3>1 DEF Fits
  <2>2. /\ \A i \in 1 .. Len(jobs) : jobs[i] \in Job
        /\ \A d \in decoding : d.job \in Job
    BY DEF IInv, WorkOK, Works
  <2>3. rx.at = "push" => rx.job \in Job
    BY DEF IInv, RxOK, Idle
  <2>4. (rx.at = "push" => Fits(rx.job))'
    BY <1>1, <1>2, <1>3, <2>3 DEF IInv, TokensOK, Fits, Job, Generations
  <2> QED
    BY <1>1, <2>1, <2>2, <2>4 DEF IInv, TokensOK
<1>9. GuiOK'
  <2>1. /\ gui \in [at : {"reset", "clear"}, kind : {"capture", "hide"}]
    BY <1>1 DEF IInv, GuiOK, Idle
  <2>2. /\ gui' \in [at : {"reset", "clear"}, kind : {"capture", "hide"}]
        /\ gui'.at = "clear" /\ gui'.kind = gui.kind
    BY <1>1, <2>1
  <2>3. gui.kind = "capture" => ~capturing
    BY <1>1 DEF IInv, GuiOK
  <2> QED
    BY <1>1, <1>3, <2>2, <2>3 DEF IInv, GuiOK, Painting
<1>10. PostsOK'
  <2>1. posts \in Seq(DrainSet) /\ \A i \in 1 .. Len(posts) : posts[i] \in DrainSet
    BY DEF IInv, PostsOK
  <2>2. \A i \in 1 .. Len(posts) :
           posts[i].generation \in Nat /\ posts[i].generation <= mailbox.generation
    BY <2>1 DEF IInv, PostsOK, DrainSet, Generations
  <2>3. \A i \in 1 .. Len(posts') : posts'[i].generation < mailbox'.generation
    BY <1>1, <1>2, <1>3, <2>2
  <2>4. \A kind \in {"group", "single"} : \A i \in 1 .. Len(posts') : ~Present(i, kind)'
    <3>1. ASSUME NEW kind \in {"group", "single"}, NEW i \in 1 .. Len(posts'),
                 posts'[i] = Drain(kind, mailbox'.generation)
          PROVE  FALSE
      <4>1. posts'[i].generation = mailbox'.generation
        BY <3>1 DEF Drain
      <4> QED
        BY <1>2, <1>3, <2>3, <4>1
    <3> QED
      BY <3>1 DEF Present
  <2>5. ~Painting'
    <3>1. gui'.at # "apply"
      BY <1>1 DEF IInv, GuiOK, Idle
    <3> QED
      BY <3>1 DEF Painting
  <2>6. \A i \in 1 .. Len(posts') : posts'[i].generation <= mailbox'.generation
    BY <1>1, <1>2, <1>3, <2>2
  <2> QED
    BY <1>1, <2>1, <2>4, <2>5, <2>6 DEF PostsOK
<1> QED
  BY <1>4, <1>5, <1>6, <1>7, <1>8, <1>9, <1>10 DEF IInv

LEMMA ClearStep == ASSUME ConstantsAssumption, IInv, ClearJobs PROVE IInv'
<1>1. /\ gui.at = "clear" /\ jobs' = <<>> /\ gui' = Idle
      /\ path' = path /\ capturing' = capturing /\ received' = received /\ sent' = sent
      /\ rx' = rx /\ decoding' = decoding /\ enabled' = enabled
      /\ generation' = generation /\ mailbox' = mailbox /\ drop' = drop
      /\ posts' = posts /\ batch' = batch
  BY DEF ClearJobs, captureVars
<1>2. ~Painting /\ ~Painting' /\ gui'.at = "idle"
  BY <1>1 DEF Painting, Idle
<1>3. \A i \in 1 .. Len(<<>>) : FALSE
  OBVIOUS
<1>4. RxOK' /\ MailOK'
  BY <1>1, SameRx DEF IInv, MailOK
<1>5. WorkOK'
  BY <1>1, <1>3 DEF IInv, WorkOK, Apart
<1>6. TokensOK'
  BY <1>1, <1>3 DEF IInv, TokensOK, Fits
<1>7. GuiOK'
  BY <1>1, <1>2 DEF IInv, GuiOK, Idle
<1>8. PostsOK'
  BY <1>1, <1>2 DEF IInv, PostsOK, Present
<1>9. CASE gui.kind = "capture"
  <2>1. /\ active' = FALSE /\ lanes' = [c \in Cameras |-> FreshLane]
        /\ lost' = [c \in Cameras |-> 0] /\ notice' = [c \in Cameras |-> FALSE]
        /\ shown' = NoImages /\ latest' = [c \in Cameras |-> 0]
    BY <1>9 DEF ClearJobs
  <2>2. ~capturing
    BY <1>1, <1>9 DEF IInv, GuiOK
  <2>3. BaseOK'
    BY <1>1, <2>1, <2>2 DEF IInv, BaseOK
  <2>4. LanesOK' /\ PanesOK'
    BY <2>1, FreshLanes, NoPictures DEF PanesOK, ConstantsAssumption
  <2> QED
    BY <1>4, <1>5, <1>6, <1>7, <1>8, <2>3, <2>4 DEF IInv
<1>10. CASE gui.kind # "capture"
  <2>1. /\ active' = active /\ lanes' = lanes /\ lost' = lost
        /\ notice' = notice /\ shown' = shown /\ latest' = latest
    BY <1>10 DEF ClearJobs, laneVars
  <2>2. BaseOK' /\ LanesOK' /\ PanesOK'
    BY <1>1, <2>1, SameLanes, SamePanes DEF IInv, BaseOK
  <2> QED
    BY <1>4, <1>5, <1>6, <1>7, <1>8, <2>2 DEF IInv
<1> QED
  BY <1>9, <1>10

LEMMA GuiStep == ASSUME ConstantsAssumption, IInv, Gui PROVE IInv'
<1>1. CASE DrainSteps
  BY <1>1, SkipDrainStep, TakeBatchStep, ApplyStep DEF DrainSteps
<1>2. CASE Timer(FALSE) \/ Timer(TRUE)
  BY <1>2, TimerStep
<1> QED
  BY <1>1, <1>2, NewCaptureStep, HideStep, ShowStep, ResetStep, ClearStep DEF Gui

-----------------------------------------------------------------------------
(* The theorems.                                                           *)

LEMMA InitInv == ASSUME ConstantsAssumption, Init PROVE IInv
<1>1. 0 \in Generations /\ 0 \in 0 .. MaxReceived /\ Idle.at = "idle"
  BY DEF Generations, ConstantsAssumption, Idle
<1>2. \A i \in 1 .. Len(<<>>) : FALSE
  OBVIOUS
<1>3. BaseOK
  <2>1. received \in 0 .. sent
    BY DEF Init
  <2>2. /\ path \in Paths /\ generation \in Generations /\ sent \in 0 .. MaxReceived
    BY <1>1 DEF Init
  <2>3. /\ capturing \in BOOLEAN /\ enabled \in BOOLEAN /\ active \in BOOLEAN
        /\ capturing => active
    BY DEF Init
  <2> QED
    BY <2>1, <2>2, <2>3 DEF BaseOK
<1>4. LanesOK
  <2>1. FreshLane \in Lanes /\ FreshLane.sequence = 0
    BY <1>1 DEF FreshLane, Lanes, ConstantsAssumption
  <2> QED
    BY <1>1, <2>1 DEF Init, LanesOK
<1>5. /\ Mail(mailbox) /\ mailbox.generation = 0 /\ mailbox.token = 0
      /\ mailbox.posted = FALSE
  BY <1>1, FreshMail DEF Init
<1>6. drop \in Drops /\ drop.generation = 0
  BY <1>1, NoPictures DEF Init, FreshDrop, Drops
<1>7. MailOK
  BY <1>5, <1>6 DEF MailOK
<1>8. RxOK
  BY <1>1, <1>5 DEF Init, RxOK
<1>9. WorkOK /\ TokensOK
  BY <1>1, <1>2 DEF Init, WorkOK, Apart, TokensOK
<1>10. GuiOK
  BY <1>1, <1>5, NoPictures DEF Init, GuiOK, Painting
<1>11. PostsOK
  BY <1>1, <1>2 DEF Init, PostsOK, Painting
<1>12. PanesOK
  BY <1>1, NoPictures DEF Init, PanesOK
<1> QED
  BY <1>3, <1>4, <1>7, <1>8, <1>9, <1>10, <1>11, <1>12 DEF IInv

LEMMA StutterInv == ASSUME IInv, UNCHANGED vars PROVE IInv'
<1>1. /\ path' = path /\ capturing' = capturing /\ received' = received /\ sent' = sent
      /\ rx' = rx /\ jobs' = jobs /\ decoding' = decoding /\ enabled' = enabled
      /\ active' = active /\ lanes' = lanes /\ lost' = lost /\ generation' = generation
      /\ mailbox' = mailbox /\ drop' = drop /\ posts' = posts /\ gui' = gui
      /\ batch' = batch /\ notice' = notice /\ shown' = shown /\ latest' = latest
  BY DEF vars, captureVars, laneVars, guiVars
<1>2. BaseOK' /\ MailOK'
  BY <1>1 DEF IInv, BaseOK, MailOK
<1>3. LanesOK' /\ RxOK' /\ WorkOK' /\ PanesOK'
  BY <1>1, SameLanes, SameRx, SameWork, SamePanes DEF IInv
<1>4. TokensOK' /\ GuiOK' /\ PostsOK'
  BY <1>1, SameTokens, SameGui, SamePosts DEF IInv, SameGroup
<1> QED
  BY <1>2, <1>3, <1>4 DEF IInv

(* The inductive invariant of the preview holds in every reachable state:   *)
(* types, one group in each mailbox and batch, tokens that fit the open     *)
(* group, no two jobs of a camera, one drain of a kind, what was lost.      *)
THEOREM PreviewCorrect == Spec => []IInv
<1>1. Init => IInv
  BY InitInv, ConstantsAssumption
<1>2. IInv /\ [Next]_vars => IInv'
  <2>1. ASSUME IInv, Next PROVE IInv'
    BY <2>1, CaptureStep, DecodeStep, GuiStep, ConstantsAssumption DEF Next
  <2> QED
    BY <2>1, StutterInv
<1> QED
  BY <1>1, <1>2, PTL DEF Spec

(* What one drain shows together was triggered together, whatever order     *)
(* the workers decode in (the batch that TakeBatch takes and ApplyBatch     *)
(* paints).                                                                *)
THEOREM GroupCorrect == Spec => []OneGroupPerPaint
<1>1. IInv => OneGroupPerPaint
  BY DEF IInv, GuiOK, Painting, OneGroup, OneGroupPerPaint
<1> QED
  BY <1>1, PreviewCorrect, PTL

LEMMA AtMostOneDrain ==
  ASSUME IInv, NEW kind \in {"group", "single"}
  PROVE  Drains(kind) <= 1
<1> DEFINE D == {i \in 1 .. Len(posts) : posts[i] = Drain(kind, generation)}
<1>1. \A i \in 1 .. Len(posts) : posts[i] = Drain(kind, generation) =>
          mailbox.generation = generation /\ Present(i, kind)
  <2>1. ASSUME NEW i \in 1 .. Len(posts), posts[i] = Drain(kind, generation)
        PROVE  mailbox.generation = generation
    <3>1. posts[i].generation = generation
      BY <2>1 DEF Drain
    <3>2. generation \in Nat /\ mailbox.generation \in Nat
      BY DEF IInv, BaseOK, MailOK, Mail, Mailboxes, Generations
    <3>3. ~(mailbox.generation < generation)
      BY <2>1, <3>1, <3>2 DEF IInv, PostsOK
    <3> QED
      BY <3>3 DEF IInv, GuiOK
  <2> QED
    BY <2>1 DEF Present
<1>2. \A i, j \in D : i = j
  BY <1>1 DEF IInv, PostsOK
<1>3. Cardinality(D) = IF D = {} THEN 0 ELSE 1
  <2>1. CASE D = {}
    BY <2>1, FS_EmptySet
  <2>2. CASE D # {}
    <3>1. PICK i : i \in D
      BY <2>2
    <3>2. D = {i}
      BY <1>2, <3>1
    <3> HIDE DEF D
    <3> QED
      BY <2>2, <3>2, FS_Singleton
  <2> QED
    BY <2>1, <2>2
<1>4. Painting /\ kind = "group" => D = {}
  BY <1>1 DEF IInv, PostsOK
<1>5. Drains(kind) = Cardinality(D) + (IF Painting /\ kind = "group" THEN 1 ELSE 0)
  BY DEF Drains, Painting
<1> HIDE DEF D
<1> QED
  BY <1>3, <1>4, <1>5

(* Slow painting makes nothing grow: no two undecoded images of a camera    *)
(* (Push erases the older), at most one drain of this generation posted or  *)
(* painting (requestPost and presented).                                    *)
THEOREM BoundedCorrect == Spec => []BoundedWork
<1>1. IInv => TypeOK
  <2> SUFFICES ASSUME IInv PROVE TypeOK
    OBVIOUS
  <2>1. lanes \in [Cameras -> [state : {"waiting", "live", "missing"},
                              sequence : 0 .. MaxReceived, minimum : 0 .. MaxReceived + 1]]
    BY DEF IInv, LanesOK, Lanes
  <2>2. /\ mailbox.token \in 0 .. MaxReceived
        /\ \A c \in Cameras : mailbox.current.frames[c] \in Image \cup {None}
    BY DEF IInv, MailOK, Mail, Mailboxes, Currents, Panels, Slots
  <2>3. /\ jobs \in Seq(Job) /\ \A i \in 1 .. Len(jobs) : jobs[i].token = 0 <=> path = "independent"
        /\ \A d \in decoding : d.job \in Job /\ d.left \subseteq d.job.cams
    BY DEF IInv, WorkOK, Works
  <2>4. /\ posts \in Seq([kind : {"group", "single"}, generation : Generations])
        /\ notice \in [Cameras -> BOOLEAN] /\ latest \in [Cameras -> 0 .. MaxReceived]
        /\ \A c \in Cameras : shown[c] \in Image \cup {None}
    BY DEF IInv, PostsOK, DrainSet, PanesOK, Panels, Slots
  <2> QED
    BY <2>1, <2>2, <2>3, <2>4 DEF IInv, BaseOK, TypeOK
<1>2. IInv => \A i, j \in 1 .. Len(jobs) : i # j => jobs[i].cams \cap jobs[j].cams = {}
  <2> SUFFICES ASSUME IInv, NEW i \in 1 .. Len(jobs), NEW j \in 1 .. Len(jobs), i # j
               PROVE  jobs[i].cams \cap jobs[j].cams = {}
    OBVIOUS
  <2>1. i < j \/ j < i
    OBVIOUS
  <2> QED
    BY <2>1 DEF IInv, WorkOK, Apart
<1>3. IInv => BoundedWork
  BY <1>1, <1>2, AtMostOneDrain DEF BoundedWork
<1> QED
  BY <1>3, PreviewCorrect, PTL

(* Once a camera was found missing, only frames received later are shown:   *)
(* Received and SnapshotOf raise the lane's minimum above what was lost,    *)
(* and ApplyBatch looks at the minimum.                                     *)
THEOREM AbsenceCorrect == Spec => NothingFromBeforeAbsence
<1> DEFINE Later == \A c \in Cameras :
              shown'[c] # shown[c] /\ shown'[c] # None => shown'[c].seq > lost'[c]
<1>1. IInv /\ IInv' /\ [Next]_vars => [Later]_vars
  <2> SUFFICES ASSUME IInv, IInv', Next, NEW c \in Cameras, shown'[c] # shown[c],
                      shown'[c] # None
               PROVE  shown'[c].seq > lost'[c]
    BY DEF Later
  <2>1. CASE ApplyBatch
    <3>1. Fresh(c, batch[c]) /\ shown'[c] = batch[c]
      BY <2>1 DEF ApplyBatch
    <3>2. batch[c] \in Image
      BY <3>1 DEF IInv, GuiOK, Fresh, Panels, Slots
    <3>3. batch[c].seq \in Nat /\ batch[c].seq > 0
      BY <3>2 DEF Image
    <3>4. batch[c].seq >= lanes'[c].minimum
      BY <3>1 DEF Fresh
    <3>5. /\ lanes'[c] \in Lanes /\ lost'[c] \in 0 .. MaxReceived
          /\ lost'[c] # 0 => lost'[c] < lanes'[c].minimum
      BY DEF IInv, LanesOK
    <3> QED
      BY <3>1, <3>3, <3>4, <3>5 DEF Lanes
  <2>2. CASE \E late \in SUBSET MayVanish : Refresh(late)
    BY <2>2 DEF Refresh
  <2>3. CASE UNCHANGED shown
    BY <2>3
  <2>4. CASE ClearJobs
    BY <2>4, NoPictures DEF ClearJobs, laneVars
  <2>5. Capture \/ Decode => UNCHANGED shown
    BY DEF Capture, CaptureStarts, CaptureEnds, Receive, Enrol, Push, Decode, TakeJob, Skip,
           PublishGrouped, PublishSingle, guiVars
  <2>6. TakeBatch \/ Timer(FALSE) \/ Timer(TRUE) =>
          UNCHANGED shown \/ \E late \in SUBSET MayVanish : Refresh(late)
    BY DEF TakeBatch, Timer
  <2>7. SkipDrain \/ NewCapture \/ HidePreview \/ ShowPreview \/ ResetMailboxes
          => UNCHANGED shown
    BY DEF SkipDrain, NewCapture, HidePreview, ShowPreview, ResetMailboxes, guiVars
  <2> QED
    BY <2>1, <2>2, <2>3, <2>4, <2>5, <2>6, <2>7 DEF Next, Gui, DrainSteps
<1> QED
  BY <1>1, PreviewCorrect, PTL DEF Spec, NothingFromBeforeAbsence

=============================================================================
