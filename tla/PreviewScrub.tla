---------------------------- MODULE PreviewScrub ----------------------------
(***************************************************************************)
(* The low resolution preview that follows a drag of the timeline: a video *)
(* of the hour (PreviewVideoController) or, for the running hour, single   *)
(* frames (PreviewFramesController).  Seeks are slow, so while one runs    *)
(* the controller keeps only the newest request.                           *)
(***************************************************************************)
EXTENDS Naturals

CONSTANTS
    Null,
    MaxScrubs,   \* bound: requests
    MaxHours     \* bound: changes of the shown hour

Positions == 0..2   \* seconds into the preview, or frames of the hour

VARIABLES
    kind,        \* which player PreviewPlayer renders
    late,        \* Android Chrome: finishedSeeking is called 25 ms after the event
    newPreviewLoaded,
    seeking,
    timeToSeek,  \* the request that waits; 0 is none
    pos,         \* what the video or image element shows, or is going to
    busy,        \* the element is seeking or loading
    due,         \* a delayed finishedSeeking is on its way
    asked,       \* history: the last request the controller accepted
    lost,        \* history: a request for position 0 had to wait, or one waited
                 \* when the hour changed, or an image failed to load
    scrubs, hours

vars == <<kind, late, newPreviewLoaded, seeking, timeToSeek, pos, busy, due, asked, lost,
          scrubs, hours>>

TypeOK ==
    /\ {timeToSeek, pos} \subseteq Positions /\ asked \in Positions \cup {Null}
    /\ {late, newPreviewLoaded, seeking, busy, due, lost} \subseteq BOOLEAN
    /\ due => late

Init ==
    /\ kind \in {"video", "frames"} /\ late \in BOOLEAN /\ (late => kind = "video")
    /\ newPreviewLoaded = (kind = "frames") /\ seeking = FALSE /\ timeToSeek = 0
    /\ pos = 0 /\ busy = (kind = "video") /\ due = FALSE
    /\ asked = Null /\ lost = FALSE /\ scrubs = 0 /\ hours = 0

\* scrubToTimestamp: refused until the preview is loaded, kept while a seek
\* runs.  An image that already shows the frame is left alone.
scrubToTimestamp(t) ==
    /\ scrubs < MaxScrubs /\ scrubs' = scrubs + 1
    /\ newPreviewLoaded
    /\ asked' = t
    /\ IF seeking
       THEN /\ timeToSeek' = t /\ lost' = (lost \/ t = 0)
            /\ UNCHANGED <<pos, busy, seeking>>
       ELSE /\ IF kind = "frames" /\ pos = t THEN UNCHANGED <<pos, busy, seeking>>
               ELSE pos' = t /\ busy' = TRUE /\ seeking' = TRUE
            /\ UNCHANGED <<timeToSeek, lost>>
    /\ UNCHANGED <<kind, late, newPreviewLoaded, due, hours>>

MutNoChase ==   \* mutant: the waiting request is dropped
    seeking' = FALSE /\ timeToSeek' = 0 /\ busy' = FALSE /\ UNCHANGED pos
MutStaysSeeking ==   \* mutant: only a waiting request that is reached ends the seek
    IF timeToSeek # 0 /\ timeToSeek # pos
    THEN pos' = timeToSeek /\ busy' = TRUE /\ UNCHANGED <<seeking, timeToSeek>>
    ELSE seeking' = (seeking /\ timeToSeek = 0) /\ timeToSeek' = 0 /\ busy' = FALSE /\ UNCHANGED pos

\* finishedSeeking: go on to the waiting request, until it is shown.
finishedSeeking ==
    IF timeToSeek # 0 /\ timeToSeek # pos
    THEN pos' = timeToSeek /\ busy' = TRUE /\ UNCHANGED <<seeking, timeToSeek>>
    ELSE seeking' = FALSE /\ timeToSeek' = 0 /\ busy' = FALSE /\ UNCHANGED pos

MutAlwaysLate ==   \* mutant: every browser gets the delay
    /\ busy /\ newPreviewLoaded
    /\ due' = TRUE /\ busy' = FALSE
    /\ UNCHANGED <<kind, late, newPreviewLoaded, pos, seeking, timeToSeek, asked, lost, scrubs, hours>>

\* onSeeked, onImageLoaded.
onSeeked ==
    /\ busy /\ newPreviewLoaded
    /\ IF late THEN due' = TRUE /\ busy' = FALSE /\ UNCHANGED <<pos, seeking, timeToSeek>>
       ELSE finishedSeeking /\ UNCHANGED due
    /\ UNCHANGED <<kind, late, newPreviewLoaded, asked, lost, scrubs, hours>>
Delayed ==
    /\ due /\ due' = FALSE
    /\ finishedSeeking
    /\ UNCHANGED <<kind, late, newPreviewLoaded, asked, lost, scrubs, hours>>

\* A frame that cannot be loaded: nothing listens to the error.
ImageError ==
    /\ kind = "frames" /\ busy /\ hours < MaxHours /\ hours' = hours + 1
    /\ busy' = FALSE /\ lost' = TRUE
    /\ UNCHANGED <<kind, late, newPreviewLoaded, seeking, timeToSeek, pos, due, asked, scrubs>>

\* Another hour: the video changes its source, the waiting request stays.
newPlayback ==
    /\ hours < MaxHours /\ hours' = hours + 1 /\ kind = "video"
    /\ newPreviewLoaded' = FALSE /\ seeking' = FALSE /\ busy' = TRUE
    /\ asked' = Null /\ lost' = (lost \/ timeToSeek # 0)
    /\ UNCHANGED <<kind, late, timeToSeek, pos, due, scrubs>>

\* previewReady, and the element starts at startTime if that is in the hour.
previewReady ==
    /\ ~newPreviewLoaded /\ newPreviewLoaded' = TRUE
    /\ seeking' = FALSE
    /\ \E start \in Positions : pos' = start
    /\ busy' = TRUE
    /\ UNCHANGED <<kind, late, timeToSeek, due, asked, lost, scrubs, hours>>

Next ==
    \/ (\E t \in Positions : scrubToTimestamp(t))
    \/ onSeeked \/ Delayed \/ ImageError \/ newPlayback \/ previewReady
Spec == Init /\ [][Next]_vars /\ WF_vars(onSeeked) /\ WF_vars(Delayed) /\ WF_vars(previewReady)

\* The controller only waits for an event that will come: a seek or load is
\* under way, or its delayed end (finishedSeeking, previewReady, newPlayback).
SeekIsUnderWay == seeking /\ ~lost => busy \/ due

\* When the drag stops, the preview comes to rest on what was asked for last
\* (scrubToTimestamp against finishedSeeking).
Resting == lost \/ (~busy /\ ~due /\ ~seeking /\ (asked = Null \/ pos = asked))
RestsOnLast == <>[]Resting
=============================================================================
