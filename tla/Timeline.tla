------------------------------ MODULE Timeline ------------------------------
(***************************************************************************)
(* Timelines of reviews: the one that is dragged and scrolled, the zoom of *)
(* a timeline, and what stands beside the cards of the reviews.  The three *)
(* share no state.                                                         *)
(***************************************************************************)
EXTENDS FiniteSets, Integers, Sequences, SequencesExt

CONSTANTS
    Null,
    MaxMotionUser,    \* bound: acts of the user
    MaxPlay,          \* bound: times the playback moves the handlebar
    MaxZoomUser,      \* bound: acts of the user
    MaxOverviewUser   \* bound: acts of the user

(***************************************************************************)
(* The vertical timeline beside the recordings: a list of segments of time *)
(* that can be zoomed and reduced to those with motion and no review, and  *)
(* on it a handlebar or the two handles of an export, each dragged by the  *)
(* pointer or placed by the time it stands for. Later times are above.     *)
(***************************************************************************)
segmentHeight == 8     \* pixels, and half the cross bar of a handle is two
CrossBar == 10         \* pixels from the top of a handle to the middle of its bar
motionTimelineStart == 32
motionTimelineEnd == 0
zoomLevels == {4, 8}   \* time of a segment
reviews == {[start |-> 13, end |-> 15], [start |-> 29, end |-> Null]}
motionEvents == {2, 6, 10, 12, 18, 22, 26}
Handles == {"handlebar", "export_start", "export_end"}
motionLess(a, b) == IF a < b THEN a ELSE b
motionMore(a, b) == IF a > b THEN a ELSE b

VARIABLES
    motionSegmentDuration, motionOnly, exporting,
    motionTime,        \* handle -> the time it stands for
    motionTop,         \* handle -> pixels from the top of the timeline
    isDragging,  \* the handle that is dragged, or "none"
    pending,     \* the time of the drag that has not been told yet, if any
    told,        \* the time shown last by the drag
    raw,         \* handles that stand where the pointer has put them
    crossed,     \* the end has been dragged to the start or before it
    wandered,    \* the handlebar has been dragged or played since the list was reduced
    motionUsers, plays
motionVars == <<motionSegmentDuration, motionOnly, exporting, motionTime, motionTop, isDragging, pending, told, raw, crossed, wandered, motionUsers, plays>>

MotionTypeOK ==
    /\ motionSegmentDuration \in zoomLevels /\ motionOnly \in BOOLEAN /\ exporting \in BOOLEAN /\ ~(motionOnly /\ exporting)
    /\ motionTime \in [Handles -> Int] /\ motionTop \in [Handles -> Int] /\ isDragging \in Handles \cup {"none"}
    /\ Len(pending) <= 1 /\ Len(told) <= 1 /\ raw \subseteq Handles /\ {crossed, wandered} \subseteq BOOLEAN

----------------------------------------------------------------------------
(* Segments: two more than the range on either side.                        *)
motionAlignStart(t, d) == t - (t % d)
motionAlignEnd(t, d) == IF t % d = 0 THEN t ELSE t + d - (t % d)
motionTimelineDuration(d) == motionTimelineStart - motionTimelineEnd + 4 * d
timelineStartAligned(d) == motionAlignStart(motionTimelineStart, d) + 2 * d
allSegments(d) == [i \in 1..((motionTimelineDuration(d) + d - 1) \div d) |-> timelineStartAligned(d) - (i - 1) * d]

(* Motion counts for the half of a segment it is nearest to.                *)
eventRounded(t, half) == ((2 * t + half) \div (2 * half)) * half
InHalf(e, t, half) == eventRounded(e, half) \in motionAlignStart(t, half)..(motionAlignStart(t, half) + half - 1)
getMotionSegmentValue(t, d) == {e \in motionEvents : InHalf(e, t, d \div 2)}
segmentMotion(s, d) == \E t \in {s, s + d \div 2} : getMotionSegmentValue(t, d) # {}
overlappingReviewItems(s, d, now) ==
    \E item \in reviews :
        LET end == IF item.end = Null THEN now ELSE item.end
        IN \/ item.start >= s /\ item.start < s + d
           \/ end > s /\ end <= s + d
           \/ item.start <= s /\ end >= s + d
segmentTimes(d, collapsed) ==
    IF collapsed THEN SelectSeq(allSegments(d), LAMBDA s : segmentMotion(s, d) /\ ~overlappingReviewItems(s, d, motionTimelineStart))
    ELSE allSegments(d)
segments == segmentTimes(motionSegmentDuration, motionOnly)

(* A segment is drawn unless it is covered, and then by every severity of a *)
(* review whose first to last segment it is between.                        *)
getSeverity(s, d) ==
    {item \in reviews : s >= motionAlignStart(item.start, d) /\ (item.end = Null \/ s < motionAlignStart(item.end, d) + d)}
renderSegment(s, d) == segmentMotion(s, d) /\ ~overlappingReviewItems(s, d, s) /\ getSeverity(s, d) = {}

----------------------------------------------------------------------------
(* What stands where: the bar of a placed handle is at its time, counted    *)
(* from the lower edge of the segment, which is where the segment begins.   *)
MotionListed(t, list, d) == \E i \in DOMAIN list : list[i] = motionAlignStart(t, d)
topOf(t, list, d) ==
    LET i == CHOOSE i \in DOMAIN list : list[i] = motionAlignStart(t, d)
    IN (i - 1) * segmentHeight - ((t - motionAlignStart(t, d)) * segmentHeight) \div d - 2
timestampToPixels(t) == ((timelineStartAligned(motionSegmentDuration) - t) * segmentHeight) \div motionSegmentDuration
MotionShown(exports) == IF exports THEN {"export_start", "export_end"} ELSE {"handlebar"}

(* The effect that places the handles shown after a change of what they     *)
(* stand for or of the segments. None does while one is dragged.            *)
Place(times, d, collapsed, moved) ==
    LET list == segmentTimes(d, collapsed)
        placed == {h \in MotionShown(exporting) : h \in moved /\ MotionListed(times[h], list, d)}
    IN /\ motionTop' = [h \in Handles |-> IF h \in placed THEN topOf(times[h], list, d) ELSE motionTop[h]]
       /\ raw' = raw \ placed

MotionInit ==
    /\ motionSegmentDuration = 4 /\ motionOnly = FALSE /\ exporting \in BOOLEAN
    /\ motionTime = [handlebar |-> 18, export_start |-> 14, export_end |-> 21]
    /\ motionTop = [h \in Handles |-> topOf(motionTime[h], allSegments(4), 4)]
    /\ isDragging = "none" /\ pending = <<>> /\ told = <<>> /\ raw = {} /\ crossed = FALSE /\ wandered = FALSE
    /\ motionUsers = MaxMotionUser /\ plays = MaxPlay

----------------------------------------------------------------------------
(* Dragging: between a handle's bounds it goes with the pointer and its     *)
(* time is told at once or, within a while of the last one, kept; at a      *)
(* bound and beyond nothing is done, nor when a handle is taken with the    *)
(* pointer where it was let go before.                                      *)
elementEarliest(h) ==
    IF h = "export_end"
    THEN timestampToPixels(motionAlignStart(motionTime["export_start"], motionSegmentDuration) + motionSegmentDuration)
    ELSE Len(segments) * segmentHeight - 12
elementLatest(h) ==
    IF h = "export_start" THEN timestampToPixels(motionAlignEnd(motionTime["export_end"], motionSegmentDuration)) ELSE 12
targetTime(y) ==
    LET index == y \div segmentHeight + 1
        offset == motionLess(index * segmentHeight - y, segmentHeight)
    IN segments[index + 1] + (motionSegmentDuration * offset) \div segmentHeight
CanDrag(h, y) ==
    /\ elementLatest(h) < y /\ y < elementEarliest(h)
    /\ y \div segmentHeight + 1 < Len(segments)

handleScroll(h, y, held) ==
    \/ /\ ~CanDrag(h, y) /\ pending' = held /\ UNCHANGED <<motionTime, motionTop, told, raw, crossed, wandered>>
    \/ \E commit \in BOOLEAN :
        /\ CanDrag(h, y)
        /\ motionTop' = [motionTop EXCEPT ![h] = y] /\ raw' = raw \cup {h} /\ told' = <<targetTime(y)>>
        /\ pending' = IF commit THEN <<>> ELSE <<targetTime(y)>>
        /\ motionTime' = IF commit THEN [motionTime EXCEPT ![h] = targetTime(y)] ELSE motionTime
        /\ crossed' = (crossed \/ (h = "export_end" /\ targetTime(y) <= motionTime["export_start"]))
        /\ wandered' = (wandered \/ h = "handlebar")

MotionActs == motionUsers > 0 /\ motionUsers' = motionUsers - 1 /\ UNCHANGED <<exporting, plays>>

motionHandleMouseDown(h) ==
    /\ MotionActs /\ isDragging = "none" /\ h \in MotionShown(exporting) /\ isDragging' = h
    /\ \/ /\ told' = <<>> /\ pending' = <<>> /\ UNCHANGED <<motionTime, motionTop, raw, crossed, wandered>>
       \/ CanDrag(h, motionTop[h]) /\ handleScroll(h, motionTop[h], <<>>)
    /\ UNCHANGED <<motionSegmentDuration, motionOnly>>

motionHandleMouseMove(y) ==
    /\ MotionActs /\ isDragging # "none" /\ handleScroll(isDragging, y, pending)
    /\ UNCHANGED <<motionSegmentDuration, motionOnly, isDragging>>

motionHandleMouseUp ==
    /\ isDragging # "none" /\ isDragging' = "none" /\ pending' = <<>>
    /\ IF pending = <<>> THEN UNCHANGED <<motionTime, motionTop, raw>>
       ELSE /\ motionTime' = [motionTime EXCEPT ![isDragging] = pending[1]]
            /\ Place(motionTime', motionSegmentDuration, motionOnly, {isDragging})
    /\ crossed' = (crossed \/ (pending # <<>> /\ isDragging = "export_end" /\ motionTime'["export_end"] <= motionTime["export_start"]))
    /\ UNCHANGED <<motionSegmentDuration, motionOnly, exporting, told, wandered, motionUsers, plays>>

----------------------------------------------------------------------------
(* A segment is clicked, the playback goes on, the timeline is zoomed.      *)
segmentClick(i) ==
    /\ MotionActs /\ isDragging = "none" /\ motionTime' = [motionTime EXCEPT !["handlebar"] = segments[i]] /\ told' = <<>>
    /\ Place(motionTime', motionSegmentDuration, motionOnly, IF motionTime' = motionTime THEN {} ELSE {"handlebar"})
    /\ UNCHANGED <<motionSegmentDuration, motionOnly, isDragging, pending, crossed, wandered>>

Play ==
    /\ plays > 0 /\ plays' = plays - 1 /\ isDragging = "none" /\ motionTime["handlebar"] < motionTimelineStart
    /\ motionTime' = [motionTime EXCEPT !["handlebar"] = @ + 1]
    /\ told' = IF exporting THEN told ELSE <<>>
    /\ Place(motionTime', motionSegmentDuration, motionOnly, {"handlebar"}) /\ wandered' = TRUE
    /\ UNCHANGED <<motionSegmentDuration, motionOnly, exporting, isDragging, pending, crossed, motionUsers>>

(* Whenever the list is reduced to the segments with motion, a handlebar    *)
(* whose segment is not listed goes to the next one that is, or else to the *)
(* latest.                                                                  *)
findNextAvailableSegment(t, list) ==
    LET next == {i \in DOMAIN list : list[i] > t}
    IN IF next = {} THEN Head(list) ELSE list[CHOOSE i \in next : \A j \in next : j <= i]
Collapsed(d) ==
    LET list == segmentTimes(d, TRUE)  t == motionTime["handlebar"]
    IN IF list = <<>> \/ MotionListed(t, list, d) THEN motionTime
       ELSE [motionTime EXCEPT !["handlebar"] = findNextAvailableSegment(motionAlignStart(t, d), list)]

onZoomChange(d) ==
    /\ MotionActs /\ isDragging = "none" /\ d # motionSegmentDuration /\ motionSegmentDuration' = d /\ told' = <<>>
    /\ motionTime' = (IF motionOnly THEN Collapsed(d) ELSE motionTime) /\ wandered' = FALSE
    /\ Place(motionTime', d, motionOnly, Handles)
    /\ UNCHANGED <<motionOnly, isDragging, pending, crossed>>

setMotionOnly ==
    /\ MotionActs /\ ~exporting /\ isDragging = "none" /\ motionOnly' = ~motionOnly /\ told' = <<>>
    /\ motionTime' = (IF motionOnly THEN motionTime ELSE Collapsed(motionSegmentDuration)) /\ wandered' = FALSE
    /\ Place(motionTime', motionSegmentDuration, ~motionOnly, Handles)
    /\ UNCHANGED <<motionSegmentDuration, isDragging, pending, crossed>>

Positions == {6 * k : k \in 0..16}
MotionNext ==
    \/ \E h \in Handles : motionHandleMouseDown(h)
    \/ \E y \in Positions : motionHandleMouseMove(y)
    \/ motionHandleMouseUp \/ Play \/ setMotionOnly
    \/ \E i \in DOMAIN segments : segmentClick(i)
    \/ \E d \in zoomLevels : onZoomChange(d)
MotionSpec == MotionInit /\ [][MotionNext]_motionVars

----------------------------------------------------------------------------
(* The virtual list: the segments drawn are those of the view and Overscan  *)
(* more on either side, and one that is scrolled to is brought to the       *)
(* middle of the view unless it is taken to be visible.                     *)
MotionOverscan == 2
motionClientHeight == 28
motionMaxScroll(count) == motionMore(0, count * segmentHeight - motionClientHeight)
visibleRange(scrollTop, count) ==
    [start |-> motionMore(0, scrollTop \div segmentHeight - MotionOverscan),
     end |-> motionLess(count, (scrollTop + motionClientHeight + segmentHeight - 1) \div segmentHeight + MotionOverscan)]
isVisible(index, range) == index > range.start + MotionOverscan /\ index < range.end - MotionOverscan
motionScrollToSegment(index, scrollTop, count) ==
    IF isVisible(index, visibleRange(scrollTop, count)) THEN scrollTop
    ELSE motionLess(motionMaxScroll(count), motionMore(0, index * segmentHeight - motionClientHeight \div 2 + segmentHeight \div 2))

(* The time at a height of the list, from the lower edge of its segment.    *)
timeAt(y) ==
    LET i == (y - 1) \div segmentHeight
    IN segments[i + 1] + motionSegmentDuration - ((y - i * segmentHeight) * motionSegmentDuration) \div segmentHeight

(* The middle of a handle's bar is at the time it stands for, however the   *)
(* timeline was zoomed, reduced, clicked or played, unless its segment is   *)
(* not listed or it stands where it was dropped.                            *)
HandleIsPlaced ==
    \A h \in MotionShown(exporting) \ (raw \cup {isDragging}) :
        MotionListed(motionTime[h], segments, motionSegmentDuration) => timeAt(motionTop[h] + CrossBar) = motionTime[h]

(* What a drag showed last is what is told when the handle is let go,       *)
(* though it is not told on every move.                                     *)
DroppedIsTold == (isDragging = "none" /\ told # <<>>) => \E h \in Handles : motionTime[h] = told[1]

(* The end of an export is never dragged to its start or before it.         *)
EndStaysBehind == ~crossed

(* The start may be dragged past the end, but by less than a segment of the *)
(* coarsest zoom.                                                           *)
StartIsNear == motionTime["export_start"] < motionAlignEnd(motionTime["export_end"], 8)

(* The motion of the range is counted once in every zoom: in one half of    *)
(* one segment.                                                             *)
MotionIsCountedOnce ==
    LET half == motionSegmentDuration \div 2
        halves == {s + k * (motionSegmentDuration \div 2) : s \in ToSet(allSegments(motionSegmentDuration)), k \in {0, 1}}
    IN \A e \in motionEvents : Cardinality({h \in halves : InHalf(e, h, half)}) = 1

(* Reduced to motion, every segment that is listed is drawn: the list, the  *)
(* virtual list and the segment each look for reviews in their own way.     *)
ListedIsDrawn == motionOnly => \A i \in DOMAIN segments : renderSegment(segments[i], motionSegmentDuration)

(* Once the list is reduced or zoomed the handlebar is on a segment of it,  *)
(* whichever segment it was on, until it is dragged or played off it.       *)
ReducedIsListed ==
    (motionOnly /\ ~wandered /\ segments # <<>>) => MotionListed(motionTime["handlebar"], segments, motionSegmentDuration)

(* Wherever the list was scrolled to, the segments in view are drawn, and   *)
(* the one the handlebar is scrolled to comes into view.                    *)
MotionInView(index, scrollTop) == index * segmentHeight < scrollTop + motionClientHeight /\ (index + 1) * segmentHeight > scrollTop
ScrolledToIsInView ==
    LET list == segments  count == Len(list)
    IN \A index \in {i - 1 : i \in {i \in DOMAIN list : list[i] = motionAlignStart(motionTime["handlebar"], motionSegmentDuration)}} :
           \A scrollTop \in {4 * k : k \in 0..(motionMaxScroll(count) \div 4)} :
               LET range == visibleRange(scrollTop, count)
               IN /\ MotionInView(index, scrollTop) => index >= range.start /\ index < range.end
                  /\ MotionInView(index, motionScrollToSegment(index, scrollTop, count))

StartBeforeEnd == motionTime["export_start"] < motionTime["export_end"]
DroppedIsPlaced == \A h \in raw \cap MotionShown(exporting) : isDragging = h \/ timeAt(motionTop[h] + CrossBar) = motionTime[h]
HandlebarIsListed == motionOnly => MotionListed(motionTime["handlebar"], segments, motionSegmentDuration)
CanBeDragged == motionOnly => \E y \in Positions : CanDrag("handlebar", y)

(***************************************************************************)
(* Zooming a timeline: by turning the wheel, by pinching and, where the    *)
(* page shows them, by two buttons. The hook that hears the first two      *)
(* keeps a level of its own and tells the page; the buttons only tell the  *)
(* page.                                                                   *)
(***************************************************************************)
segmentDurations == <<6, 3, 1>>
lastLevel == 2
zoomTimelineDuration == 24
zoomClientHeight == 16
wheelThreshold == 2     \* turns are counted in halves of it
pinchThreshold == 1
Distances == 1..4

VARIABLES
    zoomLevel,      \* of the hook
    zoomShown,          \* zoomSettings, of the page
    zoomScrollTop,
    wheelDelta, isZooming,
    touchStart, fingers, \* distance of two fingers when last used and now, 0 while there are none
    pressed,        \* a button has been used
    turned,         \* turned in sum since the last zoom of the wheel, those not heard left out
    astray,         \* a zoom went the wrong way or further than a level
    zoomMoved,          \* a zoom moved the time in the middle though no end of the timeline came in view
    zoomUsers
zoomVars == <<zoomLevel, zoomShown, zoomScrollTop, wheelDelta, isZooming, touchStart, fingers, pressed, turned, astray, zoomMoved, zoomUsers>>

ZoomTypeOK ==
    /\ {zoomLevel, zoomShown} \subseteq 0..lastLevel /\ zoomScrollTop \in Int /\ wheelDelta \in Int /\ turned \in Int
    /\ {isZooming, pressed, astray, zoomMoved} \subseteq BOOLEAN
    /\ {touchStart, fingers} \subseteq Distances \cup {0} /\ zoomUsers \in 0..MaxZoomUser

zoomLess(a, b) == IF a < b THEN a ELSE b
zoomMore(a, b) == IF a > b THEN a ELSE b
clamp(l) == zoomMore(0, zoomLess(lastLevel, l))
zoomScrollHeight(l) == (zoomTimelineDuration * 8) \div segmentDurations[l + 1]
zoomMaxScroll(l) == zoomMore(0, zoomScrollHeight(l) - zoomClientHeight)

ZoomInit ==
    /\ zoomLevel = 0 /\ zoomShown = 0 /\ zoomScrollTop \in {0, 8, zoomMaxScroll(0)} /\ wheelDelta = 0 /\ isZooming = FALSE
    /\ touchStart = 0 /\ fingers = 0 /\ pressed = FALSE /\ turned = 0 /\ astray = FALSE /\ zoomMoved = FALSE
    /\ zoomUsers = MaxZoomUser

(* The time in the middle of the view is brought to the middle again, as    *)
(* far as the browser can scroll.                                           *)
newScrollTop(level) == ((zoomScrollTop + zoomClientHeight \div 2) * zoomScrollHeight(level)) \div zoomScrollHeight(zoomShown) - zoomClientHeight \div 2
Strays(level, y) ==
    LET before == (zoomScrollTop + zoomClientHeight \div 2) * zoomScrollHeight(level)
        after == (y + zoomClientHeight \div 2) * zoomScrollHeight(zoomShown)
    IN before - after > zoomScrollHeight(zoomShown) \/ after - before > zoomScrollHeight(zoomShown)
handleZoom(delta) ==
    LET level == clamp(zoomLevel - delta)
    IN /\ zoomLevel' = level
       /\ IF level = zoomLevel THEN UNCHANGED <<zoomShown, zoomScrollTop, astray, zoomMoved>>
          ELSE /\ zoomShown' = level
               /\ zoomScrollTop' = zoomMore(0, zoomLess(zoomMaxScroll(level), newScrollTop(level)))
               /\ astray' = (astray \/ level # clamp(zoomShown - delta))
               /\ zoomMoved' = (zoomMoved \/ (zoomScrollTop' \notin {0, zoomMaxScroll(level)} /\ Strays(level, zoomScrollTop')))

ZoomActs == zoomUsers > 0 /\ zoomUsers' = zoomUsers - 1

(* With the control key held. Once enough has been turned a zoom is due and *)
(* what is turned before it is done is not heard.                           *)
handleWheel(delta) ==
    /\ ZoomActs
    /\ IF isZooming THEN UNCHANGED <<wheelDelta, isZooming, turned>>
       ELSE /\ wheelDelta' = wheelDelta + delta /\ turned' = turned + delta
            /\ isZooming' = (wheelDelta' >= wheelThreshold \/ -wheelDelta' >= wheelThreshold)
    /\ UNCHANGED <<zoomLevel, zoomShown, zoomScrollTop, touchStart, fingers, pressed, astray, zoomMoved>>

debouncedZoom ==
    /\ isZooming /\ handleZoom(IF wheelDelta > 0 THEN 1 ELSE -1)
    /\ wheelDelta' = 0 /\ isZooming' = FALSE /\ turned' = 0
    /\ UNCHANGED <<touchStart, fingers, pressed, zoomUsers>>

handleTouchStart(distance) ==
    /\ ZoomActs /\ fingers = 0 /\ touchStart' = distance /\ fingers' = distance
    /\ UNCHANGED <<zoomLevel, zoomShown, zoomScrollTop, wheelDelta, isZooming, pressed, turned, astray, zoomMoved>>

handleTouchMove(distance) ==
    /\ ZoomActs /\ fingers # 0 /\ fingers' = distance
    /\ LET distanceDelta == distance - touchStart
       IN IF distanceDelta > pinchThreshold \/ -distanceDelta > pinchThreshold
          THEN handleZoom(IF distanceDelta > 0 THEN -1 ELSE 1) /\ touchStart' = distance
          ELSE UNCHANGED <<zoomLevel, zoomShown, zoomScrollTop, astray, zoomMoved, touchStart>>
    /\ UNCHANGED <<wheelDelta, isZooming, pressed, turned>>

TouchEnd ==
    /\ fingers # 0 /\ fingers' = 0
    /\ UNCHANGED <<zoomLevel, zoomShown, zoomScrollTop, wheelDelta, isZooming, touchStart, pressed, turned, astray, zoomMoved, zoomUsers>>

(* The page's buttons, each off at its end of the levels.                   *)
handleZoomChange(level) ==
    /\ ZoomActs /\ level \in 0..lastLevel /\ level - zoomShown \in {-1, 1} /\ zoomShown' = level /\ pressed' = TRUE
    /\ zoomScrollTop' = zoomLess(zoomMaxScroll(level), zoomScrollTop)
    /\ UNCHANGED <<zoomLevel, wheelDelta, isZooming, touchStart, fingers, turned, astray, zoomMoved>>

ZoomNext ==
    \/ \E delta \in {-3, -1, 1, 3} : handleWheel(delta)
    \/ debouncedZoom \/ TouchEnd
    \/ \E distance \in Distances : handleTouchStart(distance) \/ handleTouchMove(distance)
    \/ \E level \in 0..lastLevel : handleZoomChange(level)
ZoomSpec == ZoomInit /\ [][ZoomNext]_zoomVars

----------------------------------------------------------------------------
(* The hook's level and the page's are the same, and a zoom goes one level  *)
(* its own way or is at the end, for as long as no button is used.          *)
LevelsAgree == pressed \/ (zoomLevel = zoomShown /\ ~astray)

(* Wherever the hook's level came from, a zoom that leaves no end of the    *)
(* timeline in view keeps the time in its middle, to a pixel.               *)
MiddleStays == ~zoomMoved

(* A zoom is due exactly when enough has been turned since the last: turns  *)
(* to and fro make up for each other, and none is left over.                *)
TurnsAreUsed == isZooming = (turned >= wheelThreshold \/ -turned >= wheelThreshold)

AlwaysAgree == zoomLevel = zoomShown
NeverAstray == ~astray

(***************************************************************************)
(* Beside the cards of the reviews: the timeline, which marks the part of  *)
(* it whose cards are in view (the minimap) and follows it, the handlebar  *)
(* of the preview that plays, and a summary of the whole range with a box  *)
(* for the part the timeline shows. An observer tells which cards are in   *)
(* view; it is made once the page is mounted and told of cards when they   *)
(* are.                                                                    *)
(***************************************************************************)
overviewTimelineStart == 172
overviewTimelineEnd == 100
overviewSegmentDuration == 2
overviewClientHeight == 12          \* segments the timeline shows at once
overviewScrollHeight == 36
summaryHeight == 12
Box == 4                    \* height of the summary's box
OverviewOverscan == 2
Cards == {"r1", "r2", "r3"} \* r3 comes while the page is used
startOf == [r1 |-> 97, r2 |-> 111, r3 |-> 163]
endOf == [r1 |-> 116, r2 |-> 119, r3 |-> Null]
Newest == <<"r3", "r2", "r1">>
overviewLess(a, b) == IF a < b THEN a ELSE b
overviewMore(a, b) == IF a > b THEN a ELSE b
Greatest(S) == CHOOSE x \in S : \A y \in S : y <= x
Least(S) == CHOOSE x \in S : \A y \in S : x <= y

VARIABLES
    db, reviewed,      \* reviews there are, and those seen
    items,             \* currentItems, Null until they are read
    open, nodes,       \* the page is mounted; card -> none, seen by the observer or missed
    scroll,            \* cards above the view
    reported,          \* cards the observer reported last as in view
    hovered, frame,    \* the card whose preview plays, and its time
    previewTime,
    orphan,            \* a card was taken away while its preview played
    timelineTop,       \* segments above the timeline's view
    drag,              \* where the summary's box was taken and where the timeline stood, or Null
    pointer,
    last,              \* what the timeline has followed last: the cards, the handlebar, the user or none of these
    overviewUsers
overviewVars == <<db, reviewed, items, open, nodes, scroll, reported, hovered, frame, previewTime, orphan, timelineTop, drag,
          pointer, last, overviewUsers>>

OverviewTypeOK ==
    /\ db \subseteq Cards /\ reviewed \subseteq db /\ (items = Null \/ items \subseteq db) /\ open \in BOOLEAN
    /\ nodes \in [Cards -> {"none", "seen", "missed"}] /\ scroll \in 0..1 /\ reported \subseteq Cards
    /\ (hovered = Null \/ hovered \in Cards) /\ (previewTime = Null \/ previewTime \in Int)
    /\ timelineTop \in 0..(overviewScrollHeight - overviewClientHeight) /\ orphan \in BOOLEAN
    /\ last \in {"cards", "handlebar", "user", "none"}

OverviewShown(list) == IF list = Null THEN <<>> ELSE SelectSeq(Newest, LAMBDA r : r \in list)
OverviewInView == {OverviewShown(items)[i] : i \in {i \in DOMAIN OverviewShown(items) : i > scroll /\ i <= scroll + 2}}
visibleTimestamps(cards) == {startOf[r] : r \in cards}

----------------------------------------------------------------------------
(* The summary: the range in pieces, each a review's segments or what is    *)
(* between two; what an earlier review has covered is left to it.           *)
overviewAlignStart(t) == t - (t % overviewSegmentDuration)
overviewAlignEnd(t) == IF t % overviewSegmentDuration = 0 THEN t ELSE t + overviewSegmentDuration - (t % overviewSegmentDuration)
Empty(a, b) == IF a < b THEN <<[start |-> a, end |-> b, review |-> Null]>> ELSE <<>>
Consolidate(acc, r) ==
    LET start == overviewMore(overviewAlignStart(startOf[r]), acc.at)
        end == overviewLess(IF endOf[r] = Null THEN start + overviewSegmentDuration ELSE overviewAlignEnd(endOf[r]), overviewAlignStart(overviewTimelineStart))
    IN IF start < end
       THEN [at |-> end, pieces |-> acc.pieces \o Empty(acc.at, start) \o <<[start |-> start, end |-> end, review |-> r]>>]
       ELSE acc
consolidatedSegments ==
    LET sorted == SelectSeq(Reverse(Newest), LAMBDA r : r \in db)
        all == FoldLeft(Consolidate, [at |-> overviewAlignEnd(overviewTimelineEnd), pieces |-> <<>>], sorted)
    IN all.pieces \o Empty(all.at, overviewAlignStart(overviewTimelineStart))

----------------------------------------------------------------------------
(* The timeline: its segments from the latest down, and the scrolling to    *)
(* the middle of one that is listed and not taken to be visible.            *)
overviewIndex(t) == (overviewTimelineStart - overviewAlignStart(t)) \div overviewSegmentDuration
OverviewListed(t) == overviewIndex(t) >= 0 /\ overviewIndex(t) < overviewScrollHeight
Drawn(t, top) == OverviewListed(t) /\ overviewIndex(t) >= top - OverviewOverscan /\ overviewIndex(t) < top + overviewClientHeight + OverviewOverscan
overviewScrollToSegment(t, top) ==
    IF ~OverviewListed(t) \/ (overviewIndex(t) > overviewMore(0, top - OverviewOverscan) + OverviewOverscan /\ overviewIndex(t) < overviewLess(overviewScrollHeight, top + overviewClientHeight + OverviewOverscan) - OverviewOverscan)
    THEN top
    ELSE overviewLess(overviewScrollHeight - overviewClientHeight, overviewMore(0, overviewIndex(t) - overviewClientHeight \div 2))

(* The minimap is shown unless it would fill three quarters of the view or  *)
(* a preview plays. The timeline follows the latest card in view, or, with  *)
(* the minimap, its first segment if that is drawn.                         *)
showMinimap(cards) ==
    IF cards = {} THEN TRUE
    ELSE LET starts == visibleTimestamps(cards)
         IN 4 * (Greatest(starts) - Least(starts)) < 3 * overviewClientHeight * overviewSegmentDuration
scrollToMinimap(cards, time, top) ==
    LET first == Least(visibleTimestamps(cards))
    IN IF cards # {} /\ showMinimap(cards) /\ time = Null /\ Drawn(first, top)
       THEN overviewScrollToSegment(overviewAlignStart(first), top) ELSE top
Followed(cards, time, top) ==
    IF cards # {} /\ ~(showMinimap(cards) /\ time = Null)
    THEN overviewScrollToSegment(overviewAlignStart(Greatest(visibleTimestamps(cards))), top)
    ELSE scrollToMinimap(cards, time, top)

OverviewInit ==
    /\ db = {"r1", "r2"} /\ reviewed = {} /\ items = Null /\ open = TRUE
    /\ nodes = [r \in Cards |-> "none"] /\ scroll = 0 /\ reported = {} /\ hovered = Null /\ frame = 0
    /\ previewTime = Null /\ orphan = FALSE /\ timelineTop = 0 /\ drag = Null /\ pointer = 0 /\ last = "none"
    /\ overviewUsers = MaxOverviewUser

OverviewActs == overviewUsers > 0 /\ overviewUsers' = overviewUsers - 1
Still == UNCHANGED <<timelineTop, last>>
Moves(by) == last' = IF timelineTop' = timelineTop THEN last ELSE by
NoDrag == UNCHANGED <<drag, pointer>>
NoPreview == UNCHANGED <<hovered, frame, previewTime, orphan>>

----------------------------------------------------------------------------
(* The list is read at first, and again when the user asks for what is new. *)
(* Cards that come up tell that no preview plays; one that goes away while  *)
(* its preview plays does not.                                              *)
Read ==
    LET list == db \ reviewed
        new == {r \in list : nodes[r] = "none"}
    IN /\ items' = list /\ scroll' = 0
       /\ nodes' = [r \in Cards |-> IF ~open \/ r \notin list THEN "none" ELSE IF r \in new THEN "seen" ELSE nodes[r]]
       /\ hovered' = IF hovered \in list THEN hovered ELSE Null
       /\ frame' = IF hovered \in list THEN frame ELSE 0
       /\ previewTime' = IF open /\ new # {} THEN Null ELSE previewTime
       /\ orphan' = ((orphan \/ (hovered # Null /\ hovered \notin list)) /\ previewTime' # Null)
       /\ timelineTop' = IF ~open THEN timelineTop
                         ELSE IF previewTime' # previewTime THEN Followed(reported, previewTime', timelineTop)
                         ELSE scrollToMinimap(reported, previewTime', timelineTop)
       /\ Moves("none")
       /\ UNCHANGED <<db, reviewed, open, reported>> /\ NoDrag

Loaded == items = Null /\ Read /\ UNCHANGED overviewUsers
pullLatestData == OverviewActs /\ open /\ items # Null /\ Read

Arrive ==
    /\ db # Cards /\ db' = Cards
    /\ UNCHANGED <<reviewed, items, open, nodes, scroll, reported, overviewUsers>> /\ Still /\ NoDrag /\ NoPreview

markItemAsReviewed(r) ==
    /\ OverviewActs /\ open /\ r \in OverviewInView /\ r \notin reviewed /\ reviewed' = reviewed \cup {r}
    /\ UNCHANGED <<db, items, open, nodes, scroll, reported>> /\ Still /\ NoDrag /\ NoPreview

(* To the motion and back. What has been read is there at once, and its     *)
(* cards come up before there is an observer.                               *)
setSeverity ==
    /\ OverviewActs /\ open' = ~open /\ drag' = Null /\ pointer' = 0 /\ scroll' = 0 /\ reported' = {}
    /\ nodes' = [r \in Cards |-> IF open \/ items = Null \/ r \notin items THEN "none" ELSE "missed"]
    /\ hovered' = Null /\ previewTime' = Null /\ frame' = 0 /\ orphan' = FALSE /\ timelineTop' = 0 /\ last' = "none"
    /\ UNCHANGED <<db, reviewed, items>>

----------------------------------------------------------------------------
(* The cards are scrolled, and later the observer reports what changed.     *)
Scroll(k) ==
    /\ OverviewActs /\ open /\ hovered = Null /\ drag = Null /\ k # scroll /\ k + 2 <= Len(OverviewShown(items)) /\ scroll' = k
    /\ UNCHANGED <<db, reviewed, items, open, nodes, reported>> /\ Still /\ NoDrag /\ NoPreview

Seen == {r \in OverviewInView : nodes[r] = "seen"}
Observed ==
    /\ open /\ reported # Seen /\ reported' = Seen
    /\ timelineTop' = Followed(Seen, previewTime, timelineTop) /\ last' = "cards"
    /\ UNCHANGED <<db, reviewed, items, open, nodes, scroll, overviewUsers>> /\ NoDrag /\ NoPreview

(* A preview begins a little before its review. The handlebar is placed at  *)
(* its time and brought into view; where the minimap gives way to it, the   *)
(* timeline then goes to the latest card.                                   *)
Hover(r) ==
    /\ OverviewActs /\ open /\ hovered = Null /\ drag = Null /\ r \in OverviewInView /\ hovered' = r /\ frame' = startOf[r] - 5
    /\ UNCHANGED <<db, reviewed, items, open, nodes, scroll, reported, previewTime, orphan>> /\ Still /\ NoDrag

onPreviewTimeUpdate(time) ==
    LET placed == IF previewTime = Null \/ time > previewTime THEN time ELSE previewTime
        brought == overviewScrollToSegment(overviewAlignStart(placed), timelineTop)
    IN /\ previewTime' = placed
       /\ timelineTop' = IF placed = previewTime THEN timelineTop
                         ELSE IF previewTime = Null /\ showMinimap(reported) THEN Followed(reported, placed, brought)
                         ELSE brought
       /\ last' = IF placed = previewTime THEN last
                  ELSE IF timelineTop' = brought THEN "handlebar" ELSE "none"

onProgress ==
    /\ hovered # Null /\ frame < startOf[hovered] + 5 /\ frame' = frame + 5 /\ onPreviewTimeUpdate(frame')
    /\ UNCHANGED <<db, reviewed, items, open, nodes, scroll, reported, hovered, orphan, overviewUsers>> /\ NoDrag

onManualSeek ==
    /\ OverviewActs /\ hovered # Null /\ frame > startOf[hovered] - 5 /\ frame' = frame - 5 /\ onPreviewTimeUpdate(frame')
    /\ UNCHANGED <<db, items, open, nodes, scroll, reported, hovered, orphan>> /\ reviewed' = reviewed \cup {hovered} /\ NoDrag

Leave ==
    /\ hovered # Null /\ hovered' = Null /\ frame' = 0 /\ previewTime' = Null /\ orphan' = FALSE
    /\ timelineTop' = IF previewTime = Null THEN timelineTop ELSE Followed(reported, Null, timelineTop)
    /\ Moves("none")
    /\ UNCHANGED <<db, reviewed, items, open, nodes, scroll, reported, overviewUsers>> /\ NoDrag

----------------------------------------------------------------------------
(* The summary's box stands for the part in view; it is dragged, or the     *)
(* summary is clicked to bring it there.                                    *)
boxTop == (summaryHeight * timelineTop) \div overviewScrollHeight
Scrolled(top) ==
    /\ timelineTop' = overviewMore(0, overviewLess(overviewScrollHeight - overviewClientHeight, top)) /\ last' = "user"
    /\ UNCHANGED <<db, reviewed, items, open, nodes, scroll, reported, hovered, frame, previewTime, orphan>>

timelineClick(y) ==
    /\ OverviewActs /\ open /\ drag = Null /\ hovered = Null /\ (y < boxTop \/ y >= boxTop + Box)
    /\ Scrolled((overviewScrollHeight * (y - Box \div 2)) \div summaryHeight) /\ NoDrag

overviewHandleMouseDown(y) ==
    /\ OverviewActs /\ open /\ drag = Null /\ hovered = Null /\ y >= boxTop /\ y < boxTop + Box
    /\ drag' = [y |-> y, top |-> timelineTop] /\ pointer' = y
    /\ last' = "user"
    /\ UNCHANGED <<db, reviewed, items, open, nodes, scroll, reported, timelineTop>> /\ NoPreview

overviewHandleMouseMove(y) ==
    /\ OverviewActs /\ drag # Null /\ pointer' = y /\ UNCHANGED drag
    /\ Scrolled(drag.top + ((y - drag.y) * summaryHeight) \div Box)

overviewHandleMouseUp ==
    /\ drag # Null /\ drag' = Null /\ pointer' = 0
    /\ UNCHANGED <<db, reviewed, items, open, nodes, scroll, reported, overviewUsers>> /\ Still /\ NoPreview

OverviewNext ==
    \/ Loaded \/ pullLatestData \/ Arrive \/ setSeverity \/ Observed \/ onProgress \/ onManualSeek \/ Leave \/ overviewHandleMouseUp
    \/ \E r \in Cards : markItemAsReviewed(r) \/ Hover(r)
    \/ \E k \in 0..1 : Scroll(k)
    \/ \E y \in {0, 2, 5, 9, 11} : timelineClick(y) \/ overviewHandleMouseDown(y) \/ overviewHandleMouseMove(y)
OverviewSpec == OverviewInit /\ [][OverviewNext]_overviewVars

----------------------------------------------------------------------------
(* Once the observer has told, the minimap is about the cards in view, but  *)
(* for those that came up together with the page.                           *)
MinimapIsView ==
    (open /\ reported = Seen /\ "missed" \notin {nodes[r] : r \in Cards}) => reported = OverviewInView

(* The handlebar is there only while a preview plays, unless its card was   *)
(* taken away under it.                                                     *)
HandlebarEnds == previewTime # Null => (hovered # Null \/ orphan)

(* The handlebar is in view whenever the preview has told a time and        *)
(* nothing has moved the timeline after it.                                 *)
TopInView(t) == overviewIndex(t) >= timelineTop /\ overviewIndex(t) < timelineTop + overviewClientHeight
HandlebarInView == (previewTime # Null /\ last = "handlebar" /\ OverviewListed(previewTime)) => TopInView(previewTime)

(* With more in view than the minimap marks the timeline shows the latest   *)
(* card, until the user moves it.                                           *)
LatestInView ==
    (open /\ reported # {} /\ ~showMinimap(reported) /\ previewTime = Null /\ last = "cards") =>
        TopInView(Greatest(visibleTimestamps(reported)))

(* The pieces of the summary are the range, one after the other, and every  *)
(* review is in a piece of a review for as long as it lasts.                *)
SummaryTiles ==
    LET p == consolidatedSegments
    IN /\ p[1].start = overviewTimelineEnd /\ p[Len(p)].end = overviewTimelineStart
       /\ \A i \in DOMAIN p : p[i].start < p[i].end /\ (i > 1 => p[i].start = p[i - 1].end)
SummaryShows ==
    LET shown == {p \in ToSet(consolidatedSegments) : p.review # Null}
    IN \A r \in db : \A t \in overviewMore(overviewTimelineEnd, startOf[r])..(IF endOf[r] = Null THEN startOf[r] ELSE endOf[r] - 1) :
          \E p \in shown : p.start <= t /\ t < p.end

(* The box stays under the pointer that drags it, unless it is at an end or *)
(* the timeline follows something else meanwhile.                           *)
BoxIsUnderPointer ==
    (drag # Null /\ last = "user" /\ timelineTop \notin {0, overviewScrollHeight - overviewClientHeight}) => (pointer >= boxTop /\ pointer < boxTop + Box)

EveryCardIsSeen == (open /\ reported = Seen) => reported = OverviewInView
HandlebarIsFrame == (previewTime # Null /\ hovered # Null) => previewTime = frame
UnreviewedIsShown ==
    \A r \in db \ reviewed : \E i \in DOMAIN consolidatedSegments : consolidatedSegments[i].review = r
=============================================================================
