-------------------------- MODULE RecordingPlayback --------------------------
(***************************************************************************)
(* The history view: RecordingView chooses camera, hour and time,          *)
(* DynamicVideoPlayer loads the recordings of that hour and the source of  *)
(* the player, DynamicVideoController turns timeline times into positions  *)
(* of the video and back, HlsVideoPlayer owns the video element.           *)
(*                                                                         *)
(* Times are five points of two hours, more than ten seconds apart; 0 is   *)
(* what the code uses for "none" and for a time it could not compute.  An  *)
(* event of the browser and the effects it triggers are one step.          *)
(***************************************************************************)
EXTENDS Integers, FiniteSets

CONSTANTS
    Null,
    MaxUser,    \* bound: seeks, drags and camera changes of the user
    MaxSteps    \* bound: changes of the preview controller

Cameras == {"c1", "c2"}
Hours == {1, 2}
Times == 1..5

\* getChunkedTimeDay, findChunkIndex: half-open, the last hour is closed.
After(h) == IF h = 1 THEN 1 ELSE 3
Before(h) == IF h = 1 THEN 3 ELSE 5
InRange(h, t) == h # 0 /\ After(h) <= t /\ t <= Before(h)
findChunkIndex(t) == IF t \notin Times THEN 0 ELSE IF t < 3 THEN 1 ELSE 2

\* What was recorded: c2 has nothing in the first hour and starts late in the second.
Recorded(key) ==
    IF key = Null THEN {}
    ELSE IF key.cam = "c1" THEN {t \in Times : InRange(key.hour, t)}
    ELSE IF key.hour = 1 THEN {} ELSE {4, 5}
FirstOf(S) == CHOOSE t \in S : \A u \in S : t <= u
LastOf(S) == CHOOSE t \in S : \A u \in S : u <= t
Length(key) == IF Recorded(key) = {} THEN 0 ELSE LastOf(Recorded(key)) - FirstOf(Recorded(key))

MutUnchecked(t, key) ==   \* mutant: the range of the recordings is not checked
    IF Recorded(key) = {} THEN Null ELSE t - FirstOf(Recorded(key))

\* calculateSeekPosition: Null when the recordings do not reach to the time.
calculateSeekPosition(t, key) ==
    IF t \in Recorded(key) THEN t - FirstOf(Recorded(key)) ELSE Null

\* getProgress: 0 past the last segment, its end included.
getProgress(pos, key) ==
    IF pos < Length(key) THEN FirstOf(Recorded(key)) + pos ELSE 0

VARIABLES
    detail,       \* timelineType is "detail"
    mainCamera, selectedRangeIdx, playbackStart, currentTime, playerTime, scrubbing,
    cached,       \* recordings SWR has fetched
    source,       \* the source last set: its recordings and start position
    noRecording,  \* the notice over the player
    controller,   \* mainControllerRef: its recordings, range and postponed seek
    video,        \* the element: what is attached, where it is, whether it plays
    want,         \* history: the recorded time the user asked for last
    upset,        \* history: that request met a change of source or controller
    users, steps

view == <<mainCamera, selectedRangeIdx, playbackStart, currentTime, playerTime, scrubbing>>
vars == <<detail, view, cached, source, noRecording, controller, video, want, upset, users, steps>>

Key == [cam : Cameras, hour : Hours]
key == [cam |-> mainCamera, hour |-> selectedRangeIdx]
Controller == [recordings : Key \cup {Null}, range : 0..2, timeToStart : 0..5]
Source == [key : Key, start : 0..4 \cup {Null}]
Video == [key : Key \cup {Null}, pos : 0..4, ready : BOOLEAN, paused : BOOLEAN,
          auto : BOOLEAN, waiting : BOOLEAN]

TypeOK ==
    /\ mainCamera \in Cameras /\ selectedRangeIdx \in Hours /\ scrubbing \in BOOLEAN
    /\ {playbackStart, currentTime, playerTime} \subseteq 0..5
    /\ cached \subseteq Key /\ source \in Source \cup {Null}
    /\ controller \in Controller \cup {Null} /\ video \in Video
    /\ want \in Times \cup {Null}

\* The player's part of the state, as a value the effects hand on.
Player == [source |-> source, controller |-> controller, video |-> video, none |-> noRecording]
SetPlayer(p) ==
    /\ source' = p.source /\ controller' = p.controller
    /\ video' = p.video /\ noRecording' = p.none

(***************************************************************************)
(* DynamicVideoController                                                  *)
(***************************************************************************)
Pause(p) == [p EXCEPT !.video.paused = TRUE, !.video.auto = FALSE]

\* waitAndPlay: plays when the element reports that it has seeked.
seekToTimestamp(p, t, play) ==
    IF p.controller = Null THEN p
    ELSE IF ~InRange(p.controller.range, t) THEN [p EXCEPT !.controller.timeToStart = t]
    ELSE LET pos == calculateSeekPosition(t, p.controller.recordings)
         IN  IF pos = Null THEN [p EXCEPT !.none = TRUE]
             ELSE IF pos = 0 THEN p
             ELSE IF play THEN [p EXCEPT !.video.pos = pos, !.video.waiting = TRUE]
             ELSE Pause([p EXCEPT !.video.pos = pos])

\* A postponed seek is done, twice, without playing; one outside of the new
\* range is dropped.
newPlayback(p, k) ==
    IF p.controller = Null THEN p
    ELSE LET q == [p EXCEPT !.controller.recordings = k, !.controller.range = k.hour]
             t == q.controller.timeToStart
         IN  IF t = 0 THEN q
             ELSE [seekToTimestamp(q, t, FALSE) EXCEPT !.controller.timeToStart = 0]

NewController == [recordings |-> Null, range |-> 0, timeToStart |-> 0]

(***************************************************************************)
(* DynamicVideoPlayer                                                      *)
(***************************************************************************)
\* HlsVideoPlayer attaches a new source to the element, which stops it.
Attach(p, s) ==
    [p EXCEPT !.source = s,
              !.video = [key |-> s.key, pos |-> IF s.start = Null THEN 0 ELSE s.start,
                         ready |-> FALSE, paused |-> TRUE, auto |-> TRUE, waiting |-> FALSE]]

MutSameCamera(p, k, start) ==   \* mutant: another hour of the camera keeps the source
    IF k \notin cached' THEN p
    ELSE IF Recorded(k) = {} THEN [p EXCEPT !.none = TRUE]
    ELSE IF source # Null /\ source.key.cam = k.cam THEN newPlayback(p, k)
    ELSE newPlayback(Attach(p, [key |-> k, start |-> calculateSeekPosition(start, k)]), k)

\* The effects on recordings: nothing recorded shows the notice and keeps the
\* source; otherwise the source starts at playbackStart and the controller
\* gets the recordings.
RecordingsEffects(p, k, start) ==
    IF k \notin cached' THEN p
    ELSE IF Recorded(k) = {} THEN [p EXCEPT !.none = TRUE]
    ELSE newPlayback(Attach(p, [key |-> k, start |-> IF start = 0 THEN Null
                                                     ELSE calculateSeekPosition(start, k)]), k)

\* A change of camera rebuilds the controller, a change of hour does not.
SelectionEffects(p, cam, hour, start) ==
    LET k == [cam |-> cam, hour |-> hour]
        q == IF cam # mainCamera /\ p.controller # Null
             THEN [p EXCEPT !.controller = NewController] ELSE p
    IN  IF k = key THEN q ELSE RecordingsEffects(q, k, start)

Init ==
    /\ detail \in BOOLEAN
    /\ mainCamera \in Cameras /\ selectedRangeIdx = 2 /\ currentTime = 4
    /\ playbackStart = 4 /\ playerTime = 4 /\ scrubbing = FALSE
    /\ cached = {} /\ source = Null /\ noRecording = FALSE /\ controller = Null
    /\ video = [key |-> Null, pos |-> 0, ready |-> FALSE, paused |-> TRUE,
                auto |-> TRUE, waiting |-> FALSE]
    /\ want = 4 /\ upset = FALSE /\ users = 0 /\ steps = 0

\* The recordings of the shown hour arrive.
RecordingsLoaded ==
    /\ key \notin cached /\ cached' = cached \cup {key}
    /\ SetPlayer(RecordingsEffects(Player, key, playbackStart))
    /\ UNCHANGED <<detail, view, want, upset, users, steps>>

\* The preview player reports a (new) controller: this one is rebuilt.
ControllerReady ==
    /\ source # Null /\ (controller = Null \/ steps < MaxSteps)
    /\ steps' = IF controller = Null THEN steps ELSE steps + 1
    /\ SetPlayer(LET p == [Player EXCEPT !.controller = NewController]
                 IN  IF key \in cached /\ Recorded(key) # {} THEN newPlayback(p, key) ELSE p)
    /\ upset' = (upset \/ (controller # Null /\ controller.timeToStart # 0))
    /\ UNCHANGED <<detail, view, cached, want, users>>

(***************************************************************************)
(* The video element                                                       *)
(***************************************************************************)
\* onTimestampUpdate, unless the position is 0 or the timeline is dragged.
Report(p) ==
    IF scrubbing \/ p.controller = Null \/ p.video.pos = 0
    THEN UNCHANGED <<currentTime, playerTime>>
    ELSE LET t == getProgress(p.video.pos, p.controller.recordings)
         IN  currentTime' = t /\ playerTime' = t
Chosen == UNCHANGED <<detail, mainCamera, selectedRangeIdx, playbackStart, scrubbing, cached, users, steps>>

\* onLoadedData: the player seeks to where it was asked to start; the element
\* plays by itself unless it was paused meanwhile or the timeline is dragged.
onLoadedData ==
    /\ video.key # Null /\ ~video.ready
    /\ LET plays == video.auto /\ ~scrubbing
           p == [Player EXCEPT !.video.ready = TRUE, !.video.paused = ~plays]
           q == IF playbackStart = 0 THEN p ELSE seekToTimestamp(p, playbackStart, TRUE)
       IN  SetPlayer([q EXCEPT !.none = @ /\ ~plays])
    /\ Chosen /\ UNCHANGED <<currentTime, playerTime, want, upset>>

onSeeked ==
    /\ video.ready /\ video.waiting
    /\ LET p == [Player EXCEPT !.video.waiting = FALSE, !.video.paused = scrubbing,
                               !.none = FALSE]
       IN  SetPlayer(p) /\ Report(p)
    /\ Chosen /\ UNCHANGED <<want, upset>>

Playing == video.ready /\ ~video.paused /\ ~video.waiting

onTimeUpdate ==
    /\ video.ready /\ ~video.waiting /\ Report(Player)
    /\ currentTime' # currentTime
    /\ SetPlayer(Player) /\ Chosen /\ UNCHANGED <<want, upset>>

PlayOn ==
    /\ Playing /\ video.pos < Length(video.key)
    /\ LET p == [Player EXCEPT !.video.pos = @ + 1]
       IN  SetPlayer(p) /\ Report(p)
    /\ want' = IF video.key = key THEN Null ELSE want
    /\ Chosen /\ UNCHANGED upset

\* onValidateClipEnd, onClipEnded: on to the next hour.
onEnded ==
    /\ Playing /\ video.pos = Length(video.key) /\ selectedRangeIdx = 1
    /\ controller # Null /\ key \in cached
    /\ selectedRangeIdx' = 2 /\ cached' = cached
    /\ SetPlayer(SelectionEffects([Player EXCEPT !.video.paused = TRUE], mainCamera, 2, playbackStart))
    /\ want' = Null
    /\ UNCHANGED <<detail, mainCamera, playbackStart, currentTime, playerTime, scrubbing,
                   upset, users, steps>>

(***************************************************************************)
(* The user                                                                *)
(***************************************************************************)
UserActs == users < MaxUser /\ users' = users + 1

MutKeepsStart(p, t, isPlaying) ==   \* mutant: another hour is selected, its start is not
    [p |-> IF InRange(selectedRangeIdx, t) THEN seekToTimestamp(p, t, TRUE)
           ELSE SelectionEffects(p, mainCamera, findChunkIndex(t), playbackStart),
     hour |-> IF InRange(selectedRangeIdx, t) THEN selectedRangeIdx ELSE findChunkIndex(t),
     start |-> playbackStart]

\* The effect on currentTime and scrubbing: seek, or select another hour.
TimeEffect(p, t, isPlaying) ==
    IF t # playerTime
    THEN IF InRange(selectedRangeIdx, t)
         THEN [p |-> seekToTimestamp(p, t, IF detail THEN isPlaying ELSE TRUE),
               hour |-> selectedRangeIdx, start |-> playbackStart]
         ELSE [p |-> SelectionEffects(p, mainCamera, findChunkIndex(t), t),
               hour |-> findChunkIndex(t), start |-> t]
    ELSE [p |-> p, hour |-> selectedRangeIdx, start |-> playbackStart]

Unsettled == key \notin cached \/ source = Null \/ source.key # key \/ controller = Null
             \/ controller.recordings # key \/ ~video.ready
Asked(t, k) ==
    /\ want' = IF t \in Recorded(k) /\ t # FirstOf(Recorded(k)) THEN t ELSE Null
    /\ upset' = Unsettled

\* manuallySetCurrentTime: a card, the detail stream, the tracking overlay.
manuallySetCurrentTime(t, play) ==
    /\ UserActs /\ ~scrubbing
    /\ currentTime' = t /\ cached' = cached
    /\ LET p == IF InRange(selectedRangeIdx, t) THEN seekToTimestamp(Player, t, play) ELSE Player
           e == TimeEffect(p, t, ~p.video.paused)
           s == IF InRange(selectedRangeIdx, t) \/ t # playerTime THEN e
                ELSE [p |-> SelectionEffects(p, mainCamera, findChunkIndex(t), t),
                      hour |-> findChunkIndex(t), start |-> t]
       IN  /\ SetPlayer(s.p) /\ selectedRangeIdx' = s.hour /\ playbackStart' = s.start
           /\ Asked(t, [cam |-> mainCamera, hour |-> s.hour])
    /\ UNCHANGED <<detail, mainCamera, playerTime, scrubbing, steps>>

StartDrag ==
    /\ UserActs /\ ~scrubbing /\ scrubbing' = TRUE
    /\ SetPlayer(Pause(Player))
    /\ UNCHANGED <<detail, mainCamera, selectedRangeIdx, playbackStart, currentTime, playerTime,
                   cached, want, upset, steps>>

\* The timeline is dragged to a time, into another hour if need be.
DragTo(t) ==
    /\ UserActs /\ scrubbing /\ t # currentTime /\ currentTime' = t /\ cached' = cached
    /\ IF InRange(selectedRangeIdx, t)
       THEN /\ SetPlayer(Pause(Player)) /\ UNCHANGED selectedRangeIdx
       ELSE /\ selectedRangeIdx' = findChunkIndex(t)
            /\ SetPlayer(Pause(SelectionEffects(Player, mainCamera, findChunkIndex(t), playbackStart)))
    /\ UNCHANGED <<detail, mainCamera, playbackStart, playerTime, scrubbing, want, upset, steps>>

EndDrag ==
    /\ scrubbing /\ scrubbing' = FALSE /\ cached' = cached
    /\ LET e == TimeEffect(Player, currentTime, ~video.paused)
       IN  /\ SetPlayer(e.p) /\ selectedRangeIdx' = e.hour /\ playbackStart' = e.start
           /\ IF currentTime = playerTime THEN want' = Null /\ UNCHANGED upset
              ELSE Asked(currentTime, [cam |-> mainCamera, hour |-> e.hour])
    /\ UNCHANGED <<detail, mainCamera, currentTime, playerTime, users, steps>>

onSelectCamera(c) ==
    /\ UserActs /\ ~scrubbing /\ c # mainCamera
    /\ mainCamera' = c /\ playbackStart' = currentTime /\ cached' = cached
    /\ SetPlayer(SelectionEffects(Player, c, selectedRangeIdx, currentTime))
    /\ Asked(currentTime, [cam |-> c, hour |-> selectedRangeIdx])
    /\ UNCHANGED <<detail, selectedRangeIdx, currentTime, playerTime, scrubbing, steps>>

onPlayPause ==
    /\ UserActs /\ video.ready
    /\ video' = [video EXCEPT !.paused = ~@, !.waiting = FALSE]
    /\ noRecording' = (noRecording /\ ~video.paused)
    /\ UNCHANGED <<detail, view, cached, source, controller, want, upset, steps>>

Next ==
    \/ RecordingsLoaded \/ onLoadedData \/ onSeeked \/ ControllerReady \/ onTimeUpdate \/ PlayOn \/ onEnded
    \/ \E t \in Times, play \in BOOLEAN : manuallySetCurrentTime(t, play)
    \/ StartDrag \/ (\E t \in Times : DragTo(t)) \/ EndDrag
    \/ (\E c \in Cameras : onSelectCamera(c)) \/ onPlayPause
Spec == Init /\ [][Next]_vars

(***************************************************************************)
(* Properties                                                              *)
(***************************************************************************)
Settled == ~Unsettled /\ ~video.waiting /\ ~scrubbing

\* A request made while the player was settled, for a time that is recorded
\* and not the first of its hour, ends with the video at that time, whatever
\* hours, cameras and drags it took (manuallySetCurrentTime, onSelectCamera,
\* the effects on currentTime and on recordings, onPlayerLoaded).
SeekLands ==
    ~upset /\ Settled /\ want # Null =>
        \/ getProgress(video.pos, video.key) = want
        \/ want = LastOf(Recorded(key)) /\ video.pos = Length(video.key)

\* Once the recordings of the selected camera and hour are known, the player
\* has their source and the controller computes with them, whichever of them
\* arrived first and whatever was rebuilt in between.
SourceFollows ==
    key \in cached /\ Recorded(key) # {} =>
        source.key = key /\ (controller # Null => controller.recordings = key)

\* Do not hold: the time shown is one of the timeline; a video of another
\* camera or hour is covered by the notice.
TimeIsReal == currentTime # 0
OtherVideoIsMarked == key \in cached /\ video.key # key /\ ~scrubbing => noRecording
=============================================================================
