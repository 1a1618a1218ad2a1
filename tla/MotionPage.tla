----------------------------- MODULE MotionPage -----------------------------
(***************************************************************************)
(* Motion review: the previews of all cameras, which follow one clock, and *)
(* the clips of one camera.                                                *)
(***************************************************************************)
EXTENDS FiniteSets, FiniteSetsExt, Integers, Sequences, SequencesExt

CONSTANTS
    Null,
    MaxClockUser,  \* bound: things the user does
    MaxClipsUser   \* bound: things the user does

(***************************************************************************)
(* The motion page of the review (EventView.MotionReview): the previews of *)
(* all cameras follow one clock that the user drags, seeks and plays, and  *)
(* that may jump over what has no motion (useCameraMotionNextTimestamp).   *)
(* One unit of time is half a segment: a step of the playback is as long.  *)
(***************************************************************************)
ClockEnd == 8        \* bound: two ranges of four units
Segment == 2
Slack == 1      \* how far the clock may leave a range before the next is taken
Ranges == <<[after |-> 0, before |-> 4], [after |-> 4, before |-> ClockEnd]>>

VARIABLES
    clockMotion, clockReviews,    \* units with motion; items of the review [from, to], to = Null while it lasts
    motionOnly,
    currentTime, selectedRangeIdx, playing, scrubbing,
    timeoutIdRef,       \* "none" before the first timeout, "set", "cleared"
    resume,             \* the timeout of a seek that plays on
    scrubbedTo,         \* where the previews are
    strays,             \* history: steps made while nothing plays
    clockUser

clockVars == <<clockMotion, clockReviews, motionOnly, currentTime, selectedRangeIdx, playing, scrubbing, timeoutIdRef, resume,
          scrubbedTo, strays, clockUser>>
clockData == <<clockMotion, clockReviews>>

ClockTypeOK ==
    /\ clockMotion \subseteq 0..(ClockEnd - 1) /\ {playing, scrubbing, motionOnly, resume} \subseteq BOOLEAN
    /\ currentTime \in -ClockEnd..(2 * ClockEnd) /\ selectedRangeIdx \in 1..2 /\ timeoutIdRef \in {"none", "set", "cleared"}

(***************************************************************************)
(* What has no motion                                                      *)
(***************************************************************************)
Min2(a, b) == IF a < b THEN a ELSE b
ClockTo(item) == IF item.to = Null THEN ClockEnd + 1 ELSE item.to
ClockOverlaps(item, a, b) ==
    \/ item.from >= a /\ item.from < b
    \/ ClockTo(item) > a /\ ClockTo(item) <= b
    \/ item.from <= a /\ ClockTo(item) >= b
MotionStart == IF clockMotion = {} THEN 0 ELSE CHOOSE u \in clockMotion : \A v \in clockMotion : u <= v
MotionEnd == IF clockMotion = {} THEN 0 ELSE CHOOSE u \in clockMotion : \A v \in clockMotion : u >= v

\* The data runs from the first motion to the last; its segments begin where the timeline's do.
Starts == LET first == MotionStart + (MotionStart % Segment) IN
          SetToSortSeq({u \in first..MotionEnd : (u - first) % Segment = 0}, LAMBDA a, b : a < b)
Quiet(u) == clockMotion \cap (u..(u + Segment - 1)) = {} \/ \E i \in clockReviews : ClockOverlaps(i, u, u + Segment)

\* A segment without motion, or with an item of the review, extends the range or opens one.
Extend(acc, u) ==
    IF Quiet(u) THEN [acc EXCEPT !.open = IF @ = Null THEN u ELSE @]
    ELSE IF acc.open = Null THEN acc ELSE [open |-> Null, ranges |-> Append(acc.ranges, <<acc.open, u>>)]

noMotionRanges(only) ==
    IF ~only \/ clockMotion = {} THEN <<>>
    ELSE LET all == FoldLeft(Extend, [open |-> Null, ranges |-> <<>>], Starts)
         IN IF all.open = Null THEN all.ranges
            ELSE Append(all.ranges, <<all.open, Starts[Len(Starts)] + Segment>>)

\* The next moment: one step on, but no step into a quiet range and out of one at once.
nextTimestamp(t, only) ==
    FoldLeft(LAMBDA next, r : IF t < r[1] THEN Min2(r[1], next) ELSE IF t < r[2] THEN r[2] ELSE next,
             t + 1, noMotionRanges(only))

ClockInit ==
    /\ clockMotion \in {S \in SUBSET (0..(ClockEnd - 1)) : Cardinality(S) \in 1..2}
    /\ clockReviews \in {{}, {[from |-> 3, to |-> 4]}, {[from |-> 5, to |-> Null]}}
    /\ motionOnly = FALSE /\ currentTime = ClockEnd /\ selectedRangeIdx = 2 /\ scrubbedTo = ClockEnd
    /\ playing = FALSE /\ scrubbing = FALSE /\ timeoutIdRef = "none" /\ resume = FALSE /\ strays = 0 /\ clockUser = 0

(***************************************************************************)
(* The effects after a change                                              *)
(***************************************************************************)
Leaves(t, r) == t > r.before + Slack \/ t < r.after - Slack
Inside(t) == {i \in 1..2 : Ranges[i].after <= t /\ t <= Ranges[i].before}

\* The previews follow, those of another range start where the clock is.
Follow(t) ==
    IF t = currentTime THEN UNCHANGED <<selectedRangeIdx, scrubbedTo>>
    ELSE IF Leaves(t, Ranges[selectedRangeIdx])
    THEN IF Inside(t) = {} THEN UNCHANGED <<selectedRangeIdx, scrubbedTo>>
         ELSE selectedRangeIdx' = (CHOOSE i \in Inside(t) : \A j \in Inside(t) : i <= j) /\ scrubbedTo' = t
    ELSE scrubbedTo' = t /\ UNCHANGED selectedRangeIdx

\* Nothing plays, the end is reached, or the next step is set; the first timeout of all is set
\* though nothing plays.
Schedule(next, p) ==
    IF ~p /\ timeoutIdRef # "none" THEN timeoutIdRef' = "cleared" /\ playing' = p
    ELSE IF next >= ClockEnd - 1
    THEN timeoutIdRef' = (IF timeoutIdRef = "none" THEN "none" ELSE "cleared") /\ playing' = FALSE
    ELSE timeoutIdRef' = "set" /\ playing' = p

Rendered(t, p) ==
    /\ currentTime' = t /\ Follow(t)
    /\ IF t = currentTime /\ p = playing /\ motionOnly' = motionOnly THEN UNCHANGED <<timeoutIdRef, playing>>
       ELSE Schedule(nextTimestamp(t, motionOnly'), p)

(***************************************************************************)
(* The user and the clock                                                  *)
(***************************************************************************)
ClockUser == clockUser < MaxClockUser /\ clockUser' = clockUser + 1 /\ UNCHANGED <<clockData, strays>>

onPlayPause ==
    ClockUser /\ ~scrubbing /\ UNCHANGED <<motionOnly, scrubbing, resume>> /\ Rendered(currentTime, ~playing)
SetMotionOnly ==
    ClockUser /\ ~scrubbing /\ motionOnly' = ~motionOnly /\ UNCHANGED <<scrubbing, resume>> /\ Rendered(currentTime, playing)

\* A seek stops the playback and takes it up again a little later.
onSeek(diff) ==
    /\ ClockUser /\ ~scrubbing /\ currentTime + diff \in -2..(ClockEnd + 2) /\ resume' = (resume \/ playing)
    /\ UNCHANGED <<motionOnly, scrubbing>> /\ Rendered(currentTime + diff, FALSE)
Resume ==
    resume /\ resume' = FALSE /\ UNCHANGED <<clockData, motionOnly, scrubbing, strays, clockUser>> /\ Rendered(currentTime, TRUE)

DragStart == ClockUser /\ ~scrubbing /\ scrubbing' = TRUE /\ UNCHANGED <<motionOnly, resume>> /\ Rendered(currentTime, FALSE)
setHandlebarTime(t) ==
    ClockUser /\ scrubbing /\ t # currentTime /\ UNCHANGED <<motionOnly, scrubbing, resume>> /\ Rendered(t, playing)
DragEnd ==
    /\ scrubbing /\ scrubbing' = FALSE /\ UNCHANGED <<clockData, motionOnly, resume, strays, clockUser>>
    /\ Rendered(currentTime, playing)

handleTimeout ==
    /\ timeoutIdRef = "set" /\ UNCHANGED <<clockData, motionOnly, scrubbing, resume, clockUser>>
    /\ strays' = IF playing THEN strays ELSE strays + 1
    /\ Rendered(nextTimestamp(currentTime, motionOnly), playing)

ClockNext ==
    \/ onPlayPause \/ SetMotionOnly \/ Resume \/ DragStart \/ DragEnd \/ handleTimeout
    \/ \E d \in {-2, 2} : onSeek(d)
    \/ \E t \in {0, 1, 3, 5} : setHandlebarTime(t)

ClockSpec == ClockInit /\ [][ClockNext]_clockVars

(***************************************************************************)
(* Properties                                                              *)
(***************************************************************************)
\* A unit the user asked for: its segment has motion and no item of the review.
Wanted(u) == \E s \in 0..(ClockEnd - 1) : s % Segment = 0 /\ u \in s..(s + Segment - 1) /\ ~Quiet(s)

\* Playback of motion only passes no moment that was asked for (noMotionRanges, nextTimestamp).
NoMotionPassed == \A u \in 0..(ClockEnd - 1) : currentTime < u /\ u < nextTimestamp(currentTime, motionOnly) => ~motionOnly \/ ~Wanted(u)

\* Once the clock has moved by itself while nothing plays, it does not again (the effect that
\* sets the timeout).
StraysOnce == strays <= 1

\* The previews are those of the clock's range, and at its moment, wherever it was moved to.
PreviewsFollow ==
    LET r == Ranges[selectedRangeIdx] IN
    Inside(currentTime) # {} =>
        currentTime \in (r.after - Slack)..(r.before + Slack) /\ scrubbedTo = currentTime

(***************************************************************************)
(* The clips of one camera's motion (MotionPreviewsPane): the stretches    *)
(* with motion and no object, the footage each is shown from, the region   *)
(* they are filtered by (EventView.MotionReview), and one clip playing its *)
(* stretch of a preview or the frames of the current hour.                 *)
(***************************************************************************)
ClipsEnd == 6
Previews == {[start |-> 0, to |-> 2], [start |-> 2, to |-> 5]}
Cameras == {"c", "d"}
Cells == {1, 2}

VARIABLES
    clipsMotion, clipsReviews, frames,   \* units with motion, items [from, to], moments with a frame
    cameras,                   \* those of the configuration
    camera, dialog, motionFilterCells, pendingFilterCells, hour,
    clip,                      \* the range of the clip that is looked at
    video,                     \* position and rate of its element, Null while it is not visible
    videoPlaying, playbackRate,
    frameIndex, framesReady, loads,   \* frames that are loaded ahead: the lists asked for
    clipsUser, ticks

clipsVars == <<clipsMotion, clipsReviews, frames, cameras, camera, dialog, motionFilterCells, pendingFilterCells, hour, clip,
          video, videoPlaying, playbackRate, frameIndex, framesReady, loads, clipsUser, ticks>>
clipsData == <<clipsMotion, clipsReviews, frames, cameras>>
filter == <<camera, dialog, motionFilterCells, pendingFilterCells>>
player == <<video, videoPlaying, frameIndex, framesReady, loads>>

(***************************************************************************)
(* Which clips                                                             *)
(***************************************************************************)
ClipsTo(item) == IF item.to = Null THEN ClipsEnd ELSE item.to
ClipsOverlaps(i, u) == (i.from >= u /\ i.from < u + 1) \/ (ClipsTo(i) > u /\ ClipsTo(i) <= u + 1) \/ (i.from <= u /\ ClipsTo(i) >= u + 1)
Buckets == SetToSortSeq({u \in clipsMotion : ~\E i \in clipsReviews : ClipsOverlaps(i, u)}, LAMBDA a, b : a < b)
\* A bucket extends the range it touches.
Merge(rs, u) ==
    IF rs # <<>> /\ rs[Len(rs)].end = u THEN [rs EXCEPT ![Len(rs)].end = u + 1]
    ELSE Append(rs, [start |-> u, end |-> u + 1])
motionOnlyRanges == FoldLeft(Merge, <<>>, Buckets)

Overlap(p, r) == Max({0, Min({p.to, r.end}) - Max({p.start, r.start})})
\* The preview that overlaps the range most.
PreviewFor(r) ==
    LET fits == {p \in Previews : p.to > r.start /\ p.start < r.end} IN
    IF fits = {} THEN Null ELSE CHOOSE p \in fits : \A q \in fits : Overlap(q, r) <= Overlap(p, r)

FirstOf(S, n) == {f \in S : Cardinality({g \in S : g < f}) < n}
\* Of the current hour: the frames of the range; beside a single one the next two; else the next
\* three, or the last of all.
FrameTimes(r) ==
    LET in == {f \in frames : r.start <= f /\ f <= r.end}
        next == {f \in frames : f >= r.start} IN
    IF r.end <= hour \/ frames = {} THEN {}
    ELSE IF Cardinality(in) > 1 THEN in
    ELSE IF in # {} THEN in \cup FirstOf({f \in frames : f > Max(in)}, 2)
    ELSE IF next # {} THEN FirstOf(next, 3) ELSE {Max(frames)}

preview == PreviewFor(clip)
srcs == IF preview # Null THEN {} ELSE FrameTimes(clip)
clipStart == Max({0, clip.start - preview.start})
clipEnd == Min({preview.to - preview.start, Max({clipStart + 1, clip.end - preview.start})})

ClipsTypeOK ==
    /\ camera \in cameras \cup {Null} /\ dialog \in BOOLEAN /\ motionFilterCells \cup pendingFilterCells \subseteq Cells
    /\ video # Null =>  video.pos \in 0..ClipsEnd /\ video.rate \in {1, 4, 8}
    /\ framesReady \in BOOLEAN /\ \A l \in loads : l.srcs \subseteq frames

ClipsInit ==
    /\ clipsMotion \in {{0, 1}, {1, 2}, {1, 3, 5}, {5}, {1, 2, 3, 4}} /\ frames \in {{}, {2, 6}, {1, 2}}
    /\ clipsReviews \in {{}, {[from |-> 0, to |-> 1]}, {[from |-> 3, to |-> Null]}} /\ Buckets # <<>>
    /\ cameras = Cameras /\ camera = Null /\ dialog = FALSE /\ motionFilterCells = {} /\ pendingFilterCells = {}
    /\ hour = 4 /\ clip \in {motionOnlyRanges[i] : i \in DOMAIN motionOnlyRanges}
    /\ video = Null /\ videoPlaying = FALSE /\ playbackRate = 8 /\ frameIndex = 0 /\ framesReady = FALSE
    /\ loads = {} /\ clipsUser = 0 /\ ticks = 0

(***************************************************************************)
(* The region the clips are filtered by                                    *)
(***************************************************************************)
ClipsUser == clipsUser < MaxClipsUser /\ clipsUser' = clipsUser + 1 /\ UNCHANGED <<clipsMotion, clipsReviews, hour, ticks>>
ResetFor(c) ==
    IF c = camera THEN UNCHANGED <<motionFilterCells, pendingFilterCells>>
    ELSE motionFilterCells' = {} /\ pendingFilterCells' = {}

\* The clips of a camera: its pane is mounted with no clip visible yet.
setMotionPreviewsCamera(c) ==
    /\ ClipsUser /\ (c = Null) # (camera = Null) /\ (dialog => camera = Null) /\ camera' = c /\ ResetFor(c)
    /\ video' = Null /\ videoPlaying' = FALSE /\ frameIndex' = 0 /\ framesReady' = FALSE
    /\ loads' = (IF c = Null \/ srcs = {} THEN {} ELSE {[srcs |-> srcs, cancelled |-> FALSE]})
    /\ UNCHANGED <<frames, cameras, clip, dialog, playbackRate>>
\* A camera that is gone is left; the dialog over its clips stays open.
CameraGone ==
    /\ ClipsUser /\ cameras = Cameras /\ camera # Null /\ cameras' = cameras \ {camera} /\ camera' = Null /\ ResetFor(Null)
    /\ video' = Null /\ videoPlaying' = FALSE /\ loads' = {} /\ frameIndex' = 0 /\ framesReady' = FALSE
    /\ UNCHANGED <<frames, clip, dialog, playbackRate>>

openRegionFilter ==
    /\ ClipsUser /\ camera # Null /\ ~dialog /\ dialog' = TRUE /\ pendingFilterCells' = motionFilterCells
    /\ UNCHANGED <<frames, cameras, camera, motionFilterCells, clip, player, playbackRate>>
onCellsChange(S) ==
    /\ ClipsUser /\ camera # Null /\ dialog /\ pendingFilterCells' = S
    /\ UNCHANGED <<frames, cameras, camera, dialog, motionFilterCells, clip, player, playbackRate>>
Apply ==
    /\ ClipsUser /\ camera # Null /\ dialog /\ dialog' = FALSE /\ motionFilterCells' = pendingFilterCells
    /\ UNCHANGED <<frames, cameras, camera, pendingFilterCells, clip, player, playbackRate>>
Close ==
    /\ camera # Null /\ dialog /\ dialog' = FALSE
    /\ UNCHANGED <<clipsData, camera, motionFilterCells, pendingFilterCells, hour, clip, player, playbackRate, clipsUser, ticks>>

(***************************************************************************)
(* One clip                                                                *)
(***************************************************************************)
setPlaybackRate(r) ==
    /\ ClipsUser /\ camera # Null /\ ~dialog /\ r # playbackRate /\ playbackRate' = r
    /\ video' = IF video # Null /\ videoPlaying THEN [video EXCEPT !.rate = r] ELSE video
    /\ UNCHANGED <<frames, cameras, filter, clip, videoPlaying, frameIndex, framesReady, loads>>

\* Scrolling, or the window: the element of a clip is there while it is visible.
Visible ==
    /\ ClipsUser /\ camera # Null /\ preview # Null
    /\ video' = IF video = Null THEN [pos |-> 0, rate |-> 1, plays |-> FALSE] ELSE Null
    /\ UNCHANGED <<frames, cameras, filter, clip, videoPlaying, playbackRate, frameIndex, framesReady, loads>>

Env == UNCHANGED <<clipsData, filter, hour, clip, playbackRate, clipsUser>>
\* It plays by itself: from the start of the range, at the chosen rate.
resetPlayback ==
    /\ video # Null /\ ~video.plays /\ video' = [pos |-> clipStart, rate |-> playbackRate, plays |-> TRUE]
    /\ videoPlaying' = TRUE /\ Env /\ UNCHANGED <<frameIndex, framesReady, loads, ticks>>
\* Playback up to a timeupdate; an element at its end loops to the beginning of the file.
VideoPlays ==
    LET last == preview.to - preview.start IN
    /\ video # Null /\ video.plays /\ ticks < 3 /\ ticks' = ticks + 1 /\ (video.pos < clipEnd \/ video.pos = last)
    /\ video' = [video EXCEPT !.pos = IF @ = last THEN 0 ELSE @ + 1]
    /\ Env /\ UNCHANGED <<videoPlaying, frameIndex, framesReady, loads>>
onTimeUpdate ==
    /\ video # Null /\ video.plays /\ video.pos >= clipEnd /\ video' = [video EXCEPT !.pos = clipStart]
    /\ Env /\ UNCHANGED <<videoPlaying, frameIndex, framesReady, loads, ticks>>

\* Frames are loaded ahead; more of them arrive; who asked for others is not heard.
preloadFrames(l) ==
    /\ loads' = loads \ {l} /\ framesReady' = (framesReady \/ ~l.cancelled)
    /\ Env /\ UNCHANGED <<video, videoPlaying, frameIndex, ticks>>
NextFrame ==
    /\ framesReady /\ Cardinality(srcs) > 1 /\ ticks < 3 /\ ticks' = ticks + 1
    /\ frameIndex' = (frameIndex + 1) % Cardinality(srcs)
    /\ Env /\ UNCHANGED <<video, videoPlaying, framesReady, loads>>
FramesArrive ==
    /\ camera # Null /\ ClipsUser /\ frames' = frames \cup {5} /\ frames' # frames
    /\ UNCHANGED <<cameras, filter, clip, video, videoPlaying, playbackRate>>
    /\ frameIndex' = 0 /\ framesReady' = FALSE
    /\ loads' = {[l EXCEPT !.cancelled = TRUE] : l \in loads}
                \cup (IF srcs' = {} THEN {} ELSE {[srcs |-> srcs', cancelled |-> FALSE]})

ClipsNext ==
    \/ \E c \in cameras \cup {Null} : setMotionPreviewsCamera(c)
    \/ CameraGone \/ openRegionFilter \/ Apply \/ Close
    \/ \E S \in SUBSET Cells : onCellsChange(S)
    \/ setPlaybackRate(4) \/ setPlaybackRate(8) \/ Visible \/ resetPlayback \/ VideoPlays \/ onTimeUpdate
    \/ \E l \in loads : preloadFrames(l)
    \/ NextFrame \/ FramesArrive

ClipsSpec == ClipsInit /\ [][ClipsNext]_clipsVars

(***************************************************************************)
(* Properties                                                              *)
(***************************************************************************)
\* The ranges are apart and hold just the motion without an object (useCameraMotionOnlyRanges).
RangesAreMotion ==
    /\ \A i, j \in DOMAIN motionOnlyRanges : i < j => motionOnlyRanges[i].end < motionOnlyRanges[j].start
    /\ UNION {motionOnlyRanges[i].start..(motionOnlyRanges[i].end - 1) : i \in DOMAIN motionOnlyRanges}
         = {u \in clipsMotion : \A x \in clipsReviews : ClipsTo(x) <= u \/ x.from >= u + 1}

\* A clip plays its range, up to the next timeupdate; but a range that ends with its preview or
\* after it may be played from the beginning of the file (clipStart, clipEnd, onTimeUpdate).
ClipInRange ==
    video # Null =>
        (video.plays => video.pos >= clipStart \/ clipEnd = preview.to - preview.start)

\* What plays has the rate that is chosen (resetPlayback and the effect on the rate).
RateIsChosen == video # Null => (video.plays => video.rate = playbackRate)

\* Frames are shown once those of this range, as they are now, are loaded, and are among them.
FramesAreLoaded ==
    camera # Null /\ framesReady => (\A l \in loads : l.cancelled) /\ (srcs # {} => frameIndex < Cardinality(srcs))

\* The region of one camera is not used on another.
FilterIsOwn == camera = Null => motionFilterCells = {} /\ pendingFilterCells = {}
=============================================================================
