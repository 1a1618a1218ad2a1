--------------------------- MODULE ObjectTracking ---------------------------
(***************************************************************************)
(* Footage with what was tracked in it: the dialog on one tracked object,  *)
(* and the list of reviews beside a recording.                             *)
(***************************************************************************)
EXTENDS FiniteSets, FiniteSetsExt, Integers, Sequences

CONSTANTS
    Null,
    MaxTrackingUser,  \* bound: actions of the user
    MaxStreamUser,    \* bound: actions of the user
    MaxTime           \* bound: seconds of footage

(***************************************************************************)
(* The life of a tracked object beside its video (TrackingDetails).  The   *)
(* video is cut from the recordings around the object: motion only         *)
(* recording leaves gaps, and the first recording is cut at a key frame,   *)
(* which only the manifest tells.  Detections lie annotationOffset away    *)
(* from what was recorded.  Times are in seconds.                          *)
(***************************************************************************)
VARIABLES
    recorded, gop,           \* the recordings of the camera, the distance of their key frames (0: unknown)
    event,                   \* start_time of the object shown
    trackingAnnotationOffset,        \* of the provider: the slider moves it
    sourceOffsetRef, sourceOffset, recordingsOffset, \* sourceOffsetRef; as videoSource and as eventStartRecord have it
    recordings, manifest,    \* loaded; the offset of the manifest loaded, or Null
    video,                   \* position of the player
    trackingCurrentTime,             \* time shown, in the time of the recordings
    isOpen, trackingPinned,          \* the popover of the offset, the detection the video is held at
    asked,                   \* history: where the video was sent last, Null once it plays on
    trackingUser

trackingVars == <<recorded, gop, event, trackingAnnotationOffset, sourceOffsetRef, sourceOffset, recordingsOffset, recordings, manifest, video,
                  trackingCurrentTime, isOpen, trackingPinned, asked, trackingUser>>

REVIEW_PADDING == 2
Length == 2   \* the object is seen for two seconds
Starts == {4, 5}
TrackingOffsets == {0, 1}
Segment(s, e) == [start_time |-> s, end_time |-> e]
\* All of it; with a gap; beginning after the video should; in short pieces.  None ends where a video
\* begins: the server leaves out what is shorter than min_duration_ms.
Layouts == {<<Segment(0, 12)>>, <<Segment(1, 5), Segment(7, 12)>>, <<Segment(3, 12)>>, <<Segment(0, 5), Segment(5, 6), Segment(7, 12)>>}

(***************************************************************************)
(* The video of an offset, as the server cuts it                           *)
(***************************************************************************)
WindowStart(off) == event + off - REVIEW_PADDING
WindowEnd(off) == event + Length + off + REVIEW_PADDING
Found(off) == SelectSeq(recorded, LAMBDA r : r.start_time <= WindowEnd(off) /\ r.end_time >= WindowStart(off))
\* clipFrom goes back to a key frame; it is left out when none is known.
Snapped(inpoint) == IF gop = 0 THEN 0 ELSE inpoint - (inpoint % gop)
From(r, off) == IF r.start_time < WindowStart(off) THEN r.start_time + Snapped(WindowStart(off) - r.start_time) ELSE r.start_time
vod_ts(off) ==
    UNION {From(r, off) .. (IF r.end_time > WindowEnd(off) THEN WindowEnd(off) ELSE r.end_time) - 1 : r \in {Found(off)[i] : i \in DOMAIN Found(off)}}
Content == vod_ts(sourceOffset)
FrameAt(p) == CHOOSE x \in Content : Cardinality({y \in Content : y < x}) = p
Last == Cardinality(Content) - 1

TrackingTypeOK ==
    /\ recorded \in Layouts /\ gop \in {0, 1, 2} /\ event \in Starts /\ isOpen \in BOOLEAN /\ recordings \in BOOLEAN
    /\ {trackingAnnotationOffset, sourceOffsetRef, sourceOffset, recordingsOffset} \subseteq TrackingOffsets /\ manifest \in TrackingOffsets \cup {Null}
    /\ video \in 0 .. Last /\ trackingPinned # Null => trackingPinned \in 4 .. 7

TrackingInit ==
    /\ recorded \in Layouts /\ gop \in {0, 1, 2} /\ event = 4 /\ trackingAnnotationOffset \in TrackingOffsets
    /\ sourceOffsetRef = trackingAnnotationOffset /\ sourceOffset = trackingAnnotationOffset /\ recordingsOffset = trackingAnnotationOffset
    /\ recordings = FALSE /\ manifest = Null /\ video = 0 /\ trackingCurrentTime = event - REVIEW_PADDING
    /\ isOpen = FALSE /\ trackingPinned = Null /\ asked = Null /\ trackingUser = 0

(***************************************************************************)
(* From the time of the recordings to that of the player and back          *)
(***************************************************************************)
VideoStart == WindowStart(recordingsOffset)
\* Where the video begins: told by the manifest when the first recording began earlier.
MutNoPreroll(recs, loaded, m) == IF ~loaded \/ recs = <<>> \/ recs[1].start_time < VideoStart THEN VideoStart ELSE recs[1].start_time   \* mutant
actualVideoStart(recs, loaded, m) ==
    IF m = Null \/ ~loaded \/ recs = <<>> THEN VideoStart
    ELSE IF recs[1].start_time >= VideoStart THEN recs[1].start_time
    ELSE LET first == Found(m)[1] IN recs[1].start_time + (From(first, m) - first.start_time)

\* The seconds of each recording that the player is taken to have.
Begins(recs, i, start) == IF i = 1 /\ recs[1].start_time < start /\ start < recs[1].end_time THEN start ELSE recs[i].start_time
Seconds(recs, i, start) == recs[i].end_time - Begins(recs, i, start)
timestampToVideoTime(recs, loaded, start, t) ==
    IF ~loaded \/ recs = <<>> THEN t - start
    ELSE IF t < start \/ t < recs[1].start_time \/ t > recs[Len(recs)].end_time THEN 0
    ELSE MapThenSumSet(LAMBDA i : IF recs[i].end_time <= t THEN Seconds(recs, i, start) ELSE IF recs[i].start_time <= t THEN t - Begins(recs, i, start) ELSE 0,
                       DOMAIN recs)
videoTimeToTimestamp(recs, loaded, start, p) ==
    IF ~loaded \/ recs = <<>> THEN p + start
    ELSE LET Before(i) == MapThenSumSet(LAMBDA k : Seconds(recs, k, start), 1 .. i - 1)
             Holding == {i \in DOMAIN recs : Before(i) + Seconds(recs, i, start) > p}
         IN IF Holding = {} THEN 0 ELSE LET i == Min(Holding) IN Begins(recs, i, start) + (p - Before(i))

ToVideo(t) ==
    LET recs == Found(recordingsOffset) IN timestampToVideoTime(recs, recordings, actualVideoStart(recs, recordings, manifest), t)
ToTimestamp(p) ==
    LET recs == Found(recordingsOffset) IN videoTimeToTimestamp(recs, recordings, actualVideoStart(recs, recordings, manifest), p)
Clamped(p) == IF p < 0 THEN 0 ELSE IF p > Last THEN Last ELSE p

(***************************************************************************)
(* What the user does                                                      *)
(***************************************************************************)
TrackingUser == trackingUser < MaxTrackingUser /\ trackingUser' = trackingUser + 1
Page == <<recorded, gop>>
Source == <<event, sourceOffsetRef, sourceOffset, recordingsOffset>>
\* While the popover is open the video is held at the pinned detection: again whenever the offset,
\* the recordings or the manifest changes.
MutOnlyOnOpen(settingsOpen, p) == UNCHANGED <<video, trackingCurrentTime, asked>>   \* mutant
Pin(settingsOpen, p) ==
    IF settingsOpen /\ p # Null
    THEN LET recs == Found(recordingsOffset)
             at == p + trackingAnnotationOffset'
         IN /\ video' = Clamped(timestampToVideoTime(recs, recordings', actualVideoStart(recs, recordings', manifest'), at))
            /\ trackingCurrentTime' = at /\ asked' = [at |-> at, known |-> manifest' # Null /\ recordings']
    ELSE UNCHANGED <<video, trackingCurrentTime, asked>>
OpenSettings ==
    /\ ~isOpen /\ TrackingUser /\ isOpen' = TRUE /\ trackingPinned' = event
    /\ UNCHANGED <<Page, Source, trackingAnnotationOffset, recordings, manifest>> /\ Pin(TRUE, event)
CloseSettings ==
    /\ isOpen /\ isOpen' = FALSE /\ trackingPinned' = Null
    /\ UNCHANGED <<Page, Source, trackingAnnotationOffset, recordings, manifest, video, trackingCurrentTime, asked, trackingUser>>
\* The slider, its steps and its reset: the manifest of the new offset is asked for.
trackingApplyOffset(o) ==
    /\ isOpen /\ o # trackingAnnotationOffset /\ TrackingUser /\ trackingAnnotationOffset' = o /\ manifest' = Null
    /\ UNCHANGED <<Page, Source, recordings, isOpen, trackingPinned>> /\ Pin(isOpen, trackingPinned)

\* A row of the list, or a point of the path.
Rows == event .. event + Length
handleLifecycleClick(t) ==
    /\ ~isOpen /\ TrackingUser /\ video' = Clamped(ToVideo(t + trackingAnnotationOffset))
    /\ asked' = [at |-> t + trackingAnnotationOffset, known |-> manifest # Null /\ recordings]
    /\ UNCHANGED <<Page, Source, trackingAnnotationOffset, recordings, manifest, trackingCurrentTime, isOpen, trackingPinned>>
TrackingPlay ==
    /\ ~isOpen /\ video < Last /\ TrackingUser /\ video' = video + 1 /\ trackingCurrentTime' = ToTimestamp(video + 1) /\ asked' = Null
    /\ UNCHANGED <<Page, Source, trackingAnnotationOffset, recordings, manifest, isOpen, trackingPinned>>
handleTimeUpdate ==
    /\ trackingCurrentTime # ToTimestamp(video) /\ trackingCurrentTime' = ToTimestamp(video)
    /\ UNCHANGED <<Page, Source, trackingAnnotationOffset, recordings, manifest, video, isOpen, trackingPinned, asked, trackingUser>>

\* Another object of the list: its video is cut at the offset that was known for the one before.
SelectEvent(e) ==
    /\ e # event /\ ~isOpen /\ TrackingUser /\ event' = e /\ sourceOffset' = sourceOffsetRef /\ recordingsOffset' = sourceOffsetRef
    /\ sourceOffsetRef' = trackingAnnotationOffset /\ recordings' = FALSE /\ manifest' = Null /\ video' = 0 /\ asked' = Null
    /\ UNCHANGED <<Page, trackingAnnotationOffset, trackingCurrentTime, isOpen, trackingPinned>>
\* The same object, read again: the video is cut anew.
EventRead ==
    /\ TrackingUser /\ sourceOffset' = sourceOffsetRef /\ video' = 0 /\ asked' = Null
    /\ UNCHANGED <<Page, event, trackingAnnotationOffset, sourceOffsetRef, recordingsOffset, recordings, manifest, trackingCurrentTime, isOpen, trackingPinned>>

RecordingsArrive ==
    /\ ~recordings /\ recordings' = TRUE
    /\ UNCHANGED <<Page, Source, trackingAnnotationOffset, manifest, isOpen, trackingPinned, trackingUser>> /\ Pin(isOpen, trackingPinned)
ManifestArrives ==
    /\ manifest = Null /\ manifest' = trackingAnnotationOffset
    /\ UNCHANGED <<Page, Source, trackingAnnotationOffset, recordings, isOpen, trackingPinned, trackingUser>> /\ Pin(isOpen, trackingPinned)

TrackingNext ==
    \/ OpenSettings \/ CloseSettings \/ TrackingPlay \/ handleTimeUpdate \/ EventRead \/ RecordingsArrive \/ ManifestArrives
    \/ \E o \in TrackingOffsets : trackingApplyOffset(o)
    \/ \E t \in Rows : handleLifecycleClick(t)
    \/ \E e \in Starts : SelectEvent(e)

TrackingSpec == TrackingInit /\ [][TrackingNext]_trackingVars

(***************************************************************************)
(* Properties                                                              *)
(***************************************************************************)
\* Once recordings and manifest are there, and are those of the video, the time shown of any
\* position is the time its frame was recorded.  They are not those of the video while the offset is
\* another than the video was cut with: the manifest is read for the offset of the slider.
Known == recordings /\ manifest = sourceOffset /\ recordingsOffset = sourceOffset
TimeIsFrame == Known => \A p \in 0 .. Last : ToTimestamp(p) = FrameAt(p)
\* A row clicked then sends the video to its frame, or to the next one recorded, when the video has it.
SeekLands ==
    LET later == IF asked = Null THEN {} ELSE {x \in Content : x >= asked.at} IN
    Known /\ later # {} /\ asked.known /\ asked.at >= Min(Content) => FrameAt(video) = Min(later)
\* While the popover is open the boxes are those of the detection it pinned, if that was recorded and
\* the object has not been read again, which begins its video anew.
OverlayIsPinned ==
    isOpen /\ asked # Null /\ recordings /\ trackingPinned + trackingAnnotationOffset \in Content => trackingCurrentTime - trackingAnnotationOffset = trackingPinned
\* The frame shown while the popover is open is the one recorded at the pinned detection and the
\* offset (TrackingDetails.tsx:380).  It is not once the manifest of a new offset was read.
FrameIsOfOffset ==
    isOpen /\ asked # Null /\ recordings /\ manifest # Null /\ recordingsOffset = sourceOffset /\ trackingPinned + trackingAnnotationOffset \in Content => FrameAt(video) = trackingPinned + trackingAnnotationOffset

(***************************************************************************)
(* The detail list beside the recording view (DetailStreamProvider,        *)
(* DetailStream, AnnotationOffsetSlider, ObjectTrackOverlay): the reviews  *)
(* of the camera, the objects selected, whose paths are drawn over the     *)
(* video, and the offset between detections and recordings, which the user *)
(* adjusts while the video is held at a detection.                         *)
(***************************************************************************)
VARIABLES
    cfg, config,         \* annotation_offset of each camera: on the server, as the client knows it
    camera, isDetailMode,
    streamCurrentTime,         \* of the recording view, in the time of the recordings
    streamAnnotationOffset, selected,     \* of the provider
    controls, before, streamPinned,       \* of the list: its settings open, what was selected before, the object held
    activeReview, opened,           \* the review marked, those unfolded
    saving,              \* the offset being saved: [of, value, sent], or Null
    held,                \* history: nothing has moved the video since it was held, and the object is still selected
    moved,               \* history: the slider has been moved for this camera, with no configuration read since
    restored,            \* history: a selection of another camera was restored
    streamUser

detailVars == <<cfg, config, camera, isDetailMode, streamCurrentTime, streamAnnotationOffset, selected, controls, before, streamPinned, activeReview, opened, saving, held,
                moved, restored, streamUser>>

Cameras == {"c", "d"}
StreamOffsets == {0, 1}
\* Each review has one object, seen as long as the review lasts; the last of a camera is still there.
Reviews == {"r1", "r2", "r3"}
Of(r) == IF r = "r3" THEN "d" ELSE "c"
Start(r) == CASE r = "r1" -> 1 [] r = "r2" -> 4 [] r = "r3" -> 2
Ends(r) == r = "r1"
End(r) == IF Ends(r) THEN 3 ELSE MaxTime + 2
Items(c) == {r \in Reviews : Of(r) = c}
Distance(a, b) == IF a < b THEN b - a ELSE a - b

StreamTypeOK ==
    /\ cfg \in [Cameras -> StreamOffsets] /\ config \in [Cameras -> StreamOffsets] /\ camera \in Cameras /\ streamCurrentTime \in 0 .. MaxTime + 1
    /\ streamAnnotationOffset \in StreamOffsets /\ selected \subseteq Reviews /\ before \subseteq Reviews /\ opened \subseteq Reviews
    /\ activeReview \in Reviews \cup {Null} /\ streamPinned \in Reviews \cup {Null}

StreamInit ==
    /\ cfg = [c \in Cameras |-> IF c = "d" THEN 1 ELSE 0] /\ config = cfg /\ camera = "c" /\ isDetailMode = FALSE
    /\ streamCurrentTime = 2 /\ streamAnnotationOffset = 0 /\ selected = {} /\ controls = FALSE /\ before = {} /\ streamPinned = Null
    /\ activeReview = Null /\ opened = {} /\ saving = Null /\ held = FALSE /\ moved = FALSE /\ restored = FALSE /\ streamUser = 0

StreamUser == streamUser < MaxStreamUser /\ streamUser' = streamUser + 1
Server == <<cfg, config, saving>>
effectiveTime == streamCurrentTime - streamAnnotationOffset
\* The overlay draws the path of a selected object up to the time shown.
objectsData == {r \in selected : Start(r) <= effectiveTime}

(***************************************************************************)
(* What follows every change of the time, the offset or the camera         *)
(***************************************************************************)
\* The review of that time is marked; when there is none the mark stays, or goes to the nearest.
Marked(c, t, a) ==
    LET now == {r \in Items(c) : Start(r) <= t /\ t <= End(r)} IN
    IF now # {} THEN CHOOSE r \in now : TRUE
    ELSE IF a = Null THEN CHOOSE r \in Items(c) : \A s \in Items(c) : Distance(Start(r) + End(r), 2 * t) <= Distance(Start(s) + End(s), 2 * t)
    ELSE a
\* An unfolded object that is over by then is not selected any more.
MutStays(sel, open, t) == sel   \* mutant
StillSelected(sel, open, t) == sel \ {r \in open : Ends(r) /\ t >= End(r)}
Follows(sel, a) ==
    LET t == streamCurrentTime' - streamAnnotationOffset'
        open == IF camera' = camera THEN opened ELSE {}
    IN IF ~isDetailMode' THEN selected' = {} /\ activeReview' = Null /\ opened' = {}
       ELSE /\ activeReview' = Marked(camera', t, a)
            /\ opened' = open \cup ({activeReview'} \cap Items(camera')) /\ selected' = StillSelected(sel, opened', t)

(***************************************************************************)
(* The recording view                                                      *)
(***************************************************************************)
StreamPlay ==
    /\ streamCurrentTime < MaxTime /\ streamCurrentTime' = streamCurrentTime + 1 /\ held' = FALSE
    /\ UNCHANGED <<Server, camera, isDetailMode, streamAnnotationOffset, controls, before, streamPinned, streamUser, moved, restored>>
    /\ Follows(selected, activeReview)
Seek(t) ==
    /\ t # streamCurrentTime /\ StreamUser /\ streamCurrentTime' = t /\ held' = FALSE
    /\ UNCHANGED <<Server, camera, isDetailMode, streamAnnotationOffset, controls, before, streamPinned, moved, restored>> /\ Follows(selected, activeReview)
\* The list comes and goes with its mode, and so do its settings.
SetTimelineType ==
    /\ StreamUser /\ isDetailMode' = ~isDetailMode /\ controls' = FALSE /\ before' = {} /\ streamPinned' = Null /\ held' = FALSE
    /\ UNCHANGED <<Server, camera, streamCurrentTime, streamAnnotationOffset, moved, restored>> /\ Follows(selected, Null)
\* Another camera: its offset, and nothing selected.  The settings of the list stay as they are.
MutSelection(sel) == sel   \* mutant: what was selected stays
CameraSelection(sel) == {}
SelectCamera(c) ==
    /\ c # camera /\ StreamUser /\ camera' = c /\ streamAnnotationOffset' = config[c] /\ held' = FALSE
    /\ moved' = FALSE /\ UNCHANGED <<Server, isDetailMode, streamCurrentTime, controls, before, streamPinned, restored>> /\ Follows(CameraSelection(selected), activeReview)

(***************************************************************************)
(* The list                                                                *)
(***************************************************************************)
\* A review, an object or a row of its life: the video goes there, the object alone is selected.
onActivate(r) ==
    /\ isDetailMode /\ ~controls /\ r \in Items(camera) /\ StreamUser /\ streamCurrentTime' = Start(r) + streamAnnotationOffset /\ held' = FALSE
    /\ UNCHANGED <<Server, camera, isDetailMode, streamAnnotationOffset, controls, before, streamPinned, moved, restored>> /\ Follows(selected, r)
handleObjectSelect(r) ==
    /\ isDetailMode /\ ~controls /\ r \in opened /\ StreamUser /\ streamCurrentTime' = Start(r) + streamAnnotationOffset /\ held' = FALSE
    /\ UNCHANGED <<Server, camera, isDetailMode, streamAnnotationOffset, controls, before, streamPinned, moved, restored>> /\ Follows({r}, activeReview)
Deselect ==
    /\ isDetailMode /\ ~controls /\ selected # {} /\ StreamUser /\ selected' = {}
    /\ UNCHANGED <<Server, camera, isDetailMode, streamCurrentTime, streamAnnotationOffset, controls, before, streamPinned, activeReview, opened, held, moved, restored>>

\* A point of a path drawn: the video goes to its time, and stays held when it was.
handlePointClick(r) ==
    /\ isDetailMode /\ r \in objectsData /\ StreamUser /\ streamCurrentTime' = Start(r) + streamAnnotationOffset
    /\ UNCHANGED <<Server, camera, isDetailMode, streamAnnotationOffset, controls, before, streamPinned, held, moved, restored>> /\ Follows(selected, activeReview)

\* The settings open: the video is held at the object nearest to the time shown.
Expand ==
    /\ isDetailMode /\ ~controls /\ StreamUser /\ controls' = TRUE /\ before' = selected
    /\ \E r \in Items(camera) :
          /\ \A s \in Items(camera) : Distance(Start(r), effectiveTime) <= Distance(Start(s), effectiveTime)
          /\ streamPinned' = r /\ streamCurrentTime' = Start(r) + streamAnnotationOffset /\ held' = TRUE
          /\ UNCHANGED <<Server, camera, isDetailMode, streamAnnotationOffset, moved, restored>> /\ Follows({r}, r)
\* They close: what was selected before is again, also when another camera was chosen meanwhile.
Collapse ==
    /\ controls /\ controls' = FALSE /\ streamPinned' = Null /\ held' = FALSE
    /\ restored' = (restored \/ before \ Items(camera) # {})
    /\ UNCHANGED <<moved, Server, camera, isDetailMode, streamCurrentTime, streamAnnotationOffset, before, streamUser>> /\ Follows(before, activeReview)
\* The slider, its steps and its reset: the offset changes and the video moves with it.
MutNoSeek(o) == UNCHANGED <<streamCurrentTime, held>>   \* mutant: it does not move
handleApplyOffset(o) == IF streamPinned = Null THEN UNCHANGED <<streamCurrentTime, held>> ELSE streamCurrentTime' = Start(streamPinned) + o /\ held' = (streamPinned \in selected)
streamApplyOffset(o) ==
    /\ controls /\ o # streamAnnotationOffset /\ StreamUser /\ streamAnnotationOffset' = o /\ handleApplyOffset(o)
    /\ moved' = TRUE /\ UNCHANGED <<restored, Server, camera, isDetailMode, controls, before, streamPinned>> /\ Follows(selected, activeReview)

(***************************************************************************)
(* Saving the offset                                                       *)
(***************************************************************************)
Provider == <<camera, isDetailMode, streamCurrentTime, selected, controls, before, streamPinned, activeReview, opened>>
Save ==
    /\ controls /\ saving = Null /\ StreamUser /\ saving' = [of |-> camera, value |-> streamAnnotationOffset, sent |-> TRUE]
    /\ UNCHANGED <<cfg, config, Provider, streamAnnotationOffset, held, moved, restored>>
Served ==
    /\ saving # Null /\ saving.sent /\ cfg' = [cfg EXCEPT ![saving.of] = saving.value] /\ saving' = [saving EXCEPT !.sent = FALSE]
    /\ UNCHANGED <<config, Provider, streamAnnotationOffset, held, streamUser, moved, restored>>
\* A new configuration, whatever changed in it, puts back the offset it has for the camera, wherever the slider is by then;
\* the video does not move with it.
Reads ==
    /\ config' = cfg /\ streamAnnotationOffset' = cfg[camera] /\ moved' = FALSE
    /\ UNCHANGED <<cfg, camera, isDetailMode, streamCurrentTime, controls, before, streamPinned, restored>>
    /\ held' = (held /\ streamAnnotationOffset' = streamAnnotationOffset) /\ Follows(selected, activeReview)
Saved ==
    /\ saving # Null /\ ~saving.sent /\ saving' = Null /\ Reads /\ UNCHANGED streamUser
ConfigRead ==
    /\ (config # cfg \/ moved) /\ UNCHANGED <<saving, streamUser>> /\ Reads

StreamNext ==
    \/ StreamPlay \/ SetTimelineType \/ Deselect \/ Expand \/ Collapse \/ Save \/ Served \/ Saved \/ ConfigRead
    \/ \E t \in {0, MaxTime} : Seek(t)
    \/ \E c \in Cameras : SelectCamera(c)
    \/ \E r \in Reviews : onActivate(r) \/ handleObjectSelect(r) \/ handlePointClick(r)
    \/ \E o \in StreamOffsets : streamApplyOffset(o)

StreamSpec == StreamInit /\ [][StreamNext]_detailVars

(***************************************************************************)
(* Properties                                                              *)
(***************************************************************************)
\* The paths drawn over the video are those of objects of its camera, unless the settings were
\* closed on another camera than they were opened on (DetailStream.tsx:120).
SelectionIsOwn == selected # {} => isDetailMode /\ (restored \/ selected \subseteq Items(camera))
\* Nothing stays selected in the list that is over.
NoneIsOver == \A r \in selected \cap opened : Ends(r) => effectiveTime < End(r)
\* While the video is held at an object that did not end while it was held, that object is drawn, its boxes
\* are those of the time shown, and its review is marked.
HeldIsShown == held => streamPinned \in objectsData /\ effectiveTime = Start(streamPinned) /\ activeReview = streamPinned
\* The offset is that of the camera shown, until the slider is moved.
OffsetIsOwn == ~moved => streamAnnotationOffset = config[camera]
=============================================================================
