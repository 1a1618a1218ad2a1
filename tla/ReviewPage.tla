----------------------------- MODULE ReviewPage -----------------------------
(***************************************************************************)
(* The review page: Events holds the list of segments in the SWR cache and *)
(* the memo of what it shows, EventView the selection, and every change of *)
(* "reviewed" is an optimistic edit of the cache, a request, or both.      *)
(*                                                                         *)
(* SWR as the page uses it: mutate(fn, no revalidation) discards the       *)
(* answer of a load of the same key that is under way; a new key has no    *)
(* data until its load is answered.                                        *)
(***************************************************************************)
EXTENDS Integers, FiniteSets, Sequences

CONSTANTS
    Null,
    Segs,
    Detections, \* the segments that are no alerts
    Unbegun,    \* the segments not begun when the page is opened
    MaxUser     \* bound: actions of the user

SeverityOf(s) == IF s \in Detections THEN "detection" ELSE "alert"
Severities == {"alert", "detection"}

VARIABLES
    db,           \* per segment: none, open, ended or deleted, and reviewed by this user
    ends,         \* "end" updates on their way to the client
    list,         \* reviews: the cached segments, Null while the key has no data
    load,         \* the request of that key: "asked", its answer, or Null
    items,        \* currentItems, a memo of ids
    endedReviews, \* reviewed flag of the overlaid objects
    own,          \* overlaid objects that are also the cached ones
    summary, severity, showReviewed, dated, recording, selected,
    posts,        \* requests under way
    doubt,        \* history: segments two answers disagree about, since the last clean load
                  \* (see PostOn, PostFail, LoadRead, EndSegment, ClearsUp)
    stuck,        \* history: the present load was lost to the answer of markItemAsReviewed
    users

page == <<severity, showReviewed, dated, recording, selected>>
cache == <<list, load, items, endedReviews, own>>
vars == <<db, ends, cache, summary, page, posts, doubt, stuck, users>>

Row == [ended : BOOLEAN, viewed : BOOLEAN]
Lists == UNION {[S -> Row] : S \in SUBSET Segs}
Load == [data : Lists \cup {Null}, lost : BOOLEAN]
Kinds == {"one", "many", "toggle", "delete", "card"}

TypeOK ==
    /\ db \in [Segs -> [status : {"none", "open", "ended", "deleted"}, viewed : BOOLEAN]]
    /\ list \in Lists \cup {Null} /\ load \in Load \cup {Null} /\ (items = Null \/ items \subseteq Segs)
    /\ selected \subseteq Segs /\ severity \in Severities
    /\ \A p \in posts : p.ids \subseteq Segs /\ p.kind \in Kinds

Stored == {s \in Segs : db[s].status \in {"open", "ended"}}
ServerRows == [s \in Stored |-> [ended |-> db[s].status = "ended", viewed |-> db[s].viewed]]
InFlight == UNION {p.ids : p \in posts}
Cards == UNION {p.ids : p \in {q \in posts : q.kind = "card"}}

\* Cards whose segment object is replaced in the cache while their request is under way.
CardsLose(S) == {IF p.kind = "card" /\ p.ids \subseteq S THEN [p EXCEPT !.stale = TRUE] ELSE p : p \in posts}
Asked == [data |-> Null, lost |-> FALSE]
Ask == load' = Asked /\ stuck' = FALSE

Count(sev) ==
    LET mine == {s \in Stored : SeverityOf(s) = sev}
    IN [total |-> Cardinality(mine), reviewed |-> Cardinality({s \in mine : db[s].viewed})]

\* reviewCounts of the severity shown.
ToReview == IF showReviewed THEN summary[severity].total
            ELSE summary[severity].total - summary[severity].reviewed

Length(l) == IF l = Null THEN -1 ELSE Cardinality(DOMAIN l)

\* currentItems: segments of the severity, the reviewed ones only if asked for.
currentItems(l, sev, all) ==
    IF l = Null THEN Null ELSE {s \in DOMAIN l : SeverityOf(s) = sev /\ (all \/ ~l[s].viewed)}

\* The memo is only computed again when the number of cached segments changes.
SetList(l) ==
    /\ list' = l
    /\ items' = IF Length(l) = Length(list) THEN items ELSE currentItems(l, severity, showReviewed)

Displayed(s) == IF s \in DOMAIN endedReviews THEN endedReviews[s] ELSE list[s].viewed
CanAct == users < MaxUser /\ ~recording
Act == users' = users + 1

MutKeepsList ==   \* mutant: the old list stays on screen while the new key loads
    IF dated THEN UNCHANGED <<list, load, items, own, stuck>>
    ELSE Ask /\ UNCHANGED <<list, items, own>>

\* reloadData: a later "before" is a new key, unless the filter fixes the dates.
reloadData ==
    IF dated THEN UNCHANGED <<list, load, items, own, stuck>>
    ELSE Ask /\ list' = Null /\ items' = Null /\ own' = {}

\* updateSegments() with no arguments: the same key is asked for again.
Revalidate == Ask /\ UNCHANGED <<list, items, own>>

\* updateSegments(fn): the cached rows change, a load under way is lost.
Mutate(l) ==
    /\ SetList(l)
    /\ load' = IF load = Null THEN Null ELSE [load EXCEPT !.lost = TRUE]

\* Marking objects in place: the ones shown as overlays only if the cache holds them.
InPlace(S) ==
    /\ list' = [s \in DOMAIN list |-> IF s \in S THEN [list[s] EXCEPT !.viewed = TRUE] ELSE list[s]]
    /\ endedReviews' = [s \in DOMAIN endedReviews |-> endedReviews[s] \/ (s \in S \cap own)]

ShownInPlace(s) ==
    IF s \in DOMAIN endedReviews
    THEN endedReviews' = [endedReviews EXCEPT ![s] = TRUE]
         /\ list' = IF s \in own THEN [list EXCEPT ![s].viewed = TRUE] ELSE list
    ELSE list' = [list EXCEPT ![s].viewed = TRUE] /\ UNCHANGED endedReviews

\* A request; in doubt are the segments another request, a later end or the filter overtakes.
PostOn(kind, ids, value) ==
    /\ posts' = posts \cup {[kind |-> kind, ids |-> ids, value |-> value, done |-> FALSE,
                                stale |-> FALSE]}
    /\ doubt' = doubt \cup (ids \cap InFlight) \cup (IF kind = "card" /\ load # Null THEN ids ELSE {})
                      \cup {s \in ids : ~list[s].ended \/ \E i \in DOMAIN ends : ends[i] = s}
                      \cup (IF dated /\ kind \notin {"one", "card"} THEN Segs ELSE {})

Init ==
    /\ db = [s \in Segs |-> [status |-> IF s \in Unbegun THEN "none" ELSE "ended", viewed |-> FALSE]]
    /\ ends = <<>> /\ list = Null /\ load = Asked /\ items = Null
    /\ endedReviews = [s \in {} |-> FALSE] /\ own = {}
    /\ summary = [v \in Severities |-> [total |-> 0, reviewed |-> 0]]
    /\ severity = "alert" /\ showReviewed = FALSE /\ dated \in BOOLEAN /\ recording = FALSE
    /\ selected = {} /\ posts = {} /\ doubt = {} /\ stuck = FALSE /\ users = 0

(***************************************************************************)
(* The server, and what arrives from it                                    *)
(***************************************************************************)
StartSegment(s) ==
    /\ db[s].status = "none" /\ db' = [db EXCEPT ![s].status = "open"]
    /\ UNCHANGED <<ends, cache, summary, page, posts, doubt, stuck, users>>

EndSegment(s) ==
    /\ db[s].status = "open" /\ db' = [db EXCEPT ![s].status = "ended"]
    /\ ends' = Append(ends, s)
    /\ doubt' = IF db[s].viewed \/ s \in InFlight THEN doubt \cup {s} ELSE doubt
    /\ UNCHANGED <<cache, summary, page, posts, stuck, users>>

LoadRead ==
    /\ load # Null /\ load.data = Null
    /\ load' = [load EXCEPT !.data = ServerRows] /\ doubt' = doubt \cup Cards
    /\ UNCHANGED <<db, ends, list, items, endedReviews, own, summary, page, posts, stuck, users>>

\* The answer of a new key that nothing has overtaken: it is what the server has.
ClearsUp == list = Null /\ ~load.lost /\ posts = {} /\ ends = <<>> /\ load.data = ServerRows

LoadAnswer ==
    /\ load # Null /\ load.data # Null
    /\ load' = Null /\ doubt' = IF ClearsUp THEN {} ELSE doubt
    /\ IF load.lost
       THEN UNCHANGED <<list, items, own, posts>>
       ELSE SetList(load.data) /\ own' = {} /\ posts' = CardsLose(Segs)
    /\ UNCHANGED <<db, ends, endedReviews, summary, page, stuck, users>>

\* The summary is asked for by every reload and every 30 seconds.
SummaryAnswer ==
    /\ summary' = [v \in Severities |-> Count(v)] /\ summary' # summary
    /\ UNCHANGED <<db, ends, cache, page, posts, doubt, stuck, users>>

MutUnguarded ==   \* mutant: the update is applied before the list has loaded
    /\ ends # <<>> /\ ends' = Tail(ends)
    /\ Mutate(IF list # Null /\ Head(ends) \in DOMAIN list
              THEN [list EXCEPT ![Head(ends)] = [ended |-> TRUE, viewed |-> FALSE]] ELSE list)
    /\ UNCHANGED <<db, endedReviews, own, summary, page, posts, doubt, stuck, users>>

\* An ended segment replaces the cached row and is laid over the shown one.
EndUpdate ==
    /\ ends # <<>> /\ ends' = Tail(ends)
    /\ LET s == Head(ends)
       IN IF list = Null THEN UNCHANGED <<cache, posts>>
          ELSE /\ Mutate(IF s \in DOMAIN list
                         THEN [list EXCEPT ![s] = [ended |-> TRUE, viewed |-> FALSE]] ELSE list)
               /\ endedReviews' = [t \in DOMAIN endedReviews \cup {s} |->
                                     IF t = s THEN FALSE ELSE endedReviews[t]]
               /\ own' = IF s \in DOMAIN list THEN own \cup {s} ELSE own
               /\ posts' = CardsLose({s})
    /\ UNCHANGED <<db, summary, page, doubt, stuck, users>>

\* set_multiple_reviewed, delete_reviews.
PostApply(p) ==
    /\ ~p.done
    /\ posts' = (posts \ {p}) \cup {[p EXCEPT !.done = TRUE]}
    /\ db' = [s \in Segs |->
                IF s \notin p.ids \cap Stored THEN db[s]
                ELSE IF p.kind = "delete" THEN [status |-> "deleted", viewed |-> FALSE]
                ELSE [db[s] EXCEPT !.viewed = p.value]]
    /\ UNCHANGED <<ends, cache, summary, page, doubt, stuck, users>>

MutForgetsRow(s) ==   \* mutant: only the summary learns of the review
    UNCHANGED <<list, load, items, own>>

\* markItemAsReviewed, after its request: the row is replaced by a reviewed copy.
MarkedOne(s) ==
    /\ Mutate(IF list # Null /\ s \in DOMAIN list THEN [list EXCEPT ![s].viewed = TRUE] ELSE list)
    /\ own' = own \ {s}

OneReply(p) ==
    /\ p.kind = "one" /\ p.done /\ posts' = posts \ {p}
    /\ \A s \in p.ids : MarkedOne(s) /\ summary' = [summary EXCEPT ![SeverityOf(s)].reviewed = @ + 1]
    /\ stuck' = (stuck \/ (list = Null /\ load # Null))
    /\ UNCHANGED <<db, ends, endedReviews, page, doubt, users>>

\* markItemsAsReviewed, after its request.
ManyReply(p) ==
    /\ p.kind = "many" /\ p.done /\ posts' = posts \ {p}
    /\ IF dated THEN Revalidate ELSE reloadData
    /\ UNCHANGED <<db, ends, endedReviews, summary, page, doubt, users>>

\* The incident card marks the object it was rendered with; nothing is asked for again.
CardReply(p) ==
    /\ p.kind = "card" /\ p.done /\ posts' = posts \ {p}
    /\ IF p.stale \/ list = Null THEN UNCHANGED <<list, endedReviews>> ELSE InPlace(p.ids)
    /\ UNCHANGED <<db, ends, load, items, own, summary, page, doubt, stuck, users>>

\* The action group: the selection is cleared, the list asked for again.
GroupReply(p) ==
    /\ p.kind \in {"toggle", "delete"} /\ p.done /\ posts' = posts \ {p}
    /\ reloadData /\ selected' = {}
    /\ UNCHANGED <<db, ends, endedReviews, summary, severity, showReviewed, dated, recording,
                   doubt, users>>

\* A request that fails, before or after the server applied it, takes nothing back.
PostFail(p) ==
    /\ posts' = posts \ {p} /\ doubt' = doubt \cup (IF p.kind = "many" THEN Segs ELSE p.ids)
    /\ UNCHANGED <<db, ends, cache, summary, page, stuck, users>>

(***************************************************************************)
(* The user                                                                *)
(***************************************************************************)
MutUnselect(v, old) ==   \* mutant: the group button pressed again unselects the severity
    /\ CanAct /\ Act /\ v = severity /\ severity' = Null /\ items' = Null
    /\ UNCHANGED <<db, ends, list, load, own, endedReviews, summary, showReviewed, dated, recording,
                   selected, posts, doubt, stuck>>

\* The other severity; more than a minute after the last load the list is asked for again.
SetSeverity(v, old) ==
    /\ CanAct /\ Act /\ v # severity /\ severity' = v
    /\ IF old /\ ~dated THEN reloadData
       ELSE items' = currentItems(list, v, showReviewed) /\ UNCHANGED <<list, load, own, stuck>>
    /\ UNCHANGED <<db, ends, endedReviews, summary, showReviewed, dated, recording, selected, posts,
                   doubt>>

SetShowReviewed ==
    /\ CanAct /\ Act /\ showReviewed' = ~showReviewed
    /\ items' = currentItems(list, severity, showReviewed')
    /\ UNCHANGED <<db, ends, list, load, endedReviews, own, summary, severity, dated, recording,
                   selected, posts, doubt, stuck>>

\* A preview seen to its end, or swiped away.
handleSetReviewed(s) ==
    /\ CanAct /\ Act /\ items # Null /\ s \in items /\ s \in DOMAIN list
    /\ list[s].ended /\ ~Displayed(s)
    /\ ShownInPlace(s) /\ PostOn("one", {s}, TRUE)
    /\ UNCHANGED <<db, ends, load, items, own, summary, page, stuck>>

\* onSelectReview: opens the recording of the segment, ended or not.
OpenSegment(s) ==
    /\ CanAct /\ Act /\ items # Null /\ s \in items /\ s \in DOMAIN list /\ selected = {}
    /\ recording' = TRUE /\ ShownInPlace(s) /\ PostOn("one", {s}, TRUE)
    /\ UNCHANGED <<db, ends, load, items, own, summary, severity, showReviewed, dated, selected, stuck>>

CloseRecording ==
    /\ recording /\ recording' = FALSE
    /\ UNCHANGED <<db, ends, cache, summary, severity, showReviewed, dated, selected, posts, doubt,
                   stuck, users>>

SelectReviews(S) ==
    /\ CanAct /\ items # Null /\ selected' = S
    /\ \/ \E s \in items : S = (selected \cup {s}) \ (selected \cap {s})
       \/ S = IF Cardinality(selected) < Cardinality(items) THEN items ELSE {}
       \/ S = {}
    /\ UNCHANGED <<db, ends, cache, summary, severity, showReviewed, dated, recording, posts, doubt,
                   stuck, users>>

\* markItemsAsReviewed: everything ended of the severity looks reviewed at once.
MarkItems(ids) ==
    /\ CanAct /\ Act /\ items # Null /\ items # {} /\ list # Null
    /\ InPlace({s \in DOMAIN list : list[s].ended /\ SeverityOf(s) = severity})
    /\ load' = IF load = Null THEN Null ELSE [load EXCEPT !.lost = TRUE]
    /\ IF ids = {} THEN UNCHANGED <<posts, doubt>> ELSE PostOn("many", ids, TRUE)
    /\ selected' = {}
    /\ UNCHANGED <<db, ends, items, own, summary, severity, showReviewed, dated, recording, stuck>>

MarkThese ==
    /\ items # Null /\ ToReview > 0
    /\ MarkItems({s \in items \cap DOMAIN list : list[s].ended})

MarkSelected == list # Null /\ selected # {} /\ selected \subseteq DOMAIN list /\ MarkItems(selected)

GroupAction(kind) ==
    /\ CanAct /\ Act /\ selected # {} /\ list # Null /\ selected \subseteq DOMAIN list
    /\ PostOn(kind, selected, \E s \in selected : ~Displayed(s))
    /\ UNCHANGED <<db, ends, cache, summary, page, stuck>>

\* handleMarkResolved of an incident card, also while the incident is open.
handleMarkResolved(s) ==
    /\ CanAct /\ Act /\ list # Null /\ s \in DOMAIN list /\ ~list[s].viewed
    /\ PostOn("card", {s}, TRUE)
    /\ UNCHANGED <<db, ends, cache, summary, page, stuck>>

MoreThanShown == items # Null /\ ToReview > Cardinality(items)

\* The button for new items, and the effect that pulls when all are gone.
pullLatestData ==
    /\ CanAct /\ Act /\ MoreThanShown /\ (~dated \/ items = {})
    /\ reloadData
    /\ UNCHANGED <<db, ends, endedReviews, summary, page, posts, doubt>>

Next ==
    \/ \E s \in Segs : \/ StartSegment(s) \/ EndSegment(s) \/ handleSetReviewed(s)
                       \/ OpenSegment(s) \/ handleMarkResolved(s)
    \/ LoadRead \/ LoadAnswer \/ SummaryAnswer \/ EndUpdate
    \/ \E p \in posts : PostApply(p) \/ OneReply(p) \/ ManyReply(p) \/ CardReply(p)
                         \/ GroupReply(p) \/ PostFail(p)
    \/ \E v \in Severities, old \in BOOLEAN : SetSeverity(v, old)
    \/ SetShowReviewed \/ CloseRecording \/ MarkThese \/ MarkSelected \/ pullLatestData
    \/ \E S \in SUBSET Segs : SelectReviews(S)
    \/ \E kind \in {"toggle", "delete"} : GroupAction(kind)

Spec == Init /\ [][Next]_vars

Quiet == posts = {} /\ ends = <<>> /\ load = Null /\ list # Null

\* The list is missing only while it is being loaded, save for a load that the answer of
\* markItemAsReviewed threw away before it came (Events.tsx:583): then nothing asks again
\* until something else does.
ListComes == list = Null /\ load = Null => stuck

\* Once everything is answered, a listed segment is on the server and looks reviewed exactly
\* if the server has it reviewed: optimistic edits, reloads and late answers leave no wrong
\* mark behind. Not so a segment about which two requests were under way at a time, whose
\* end or whose load met a request, or whose request failed, nor any in a list of fixed
\* dates a group was marked in, until a load of a new key clears it up.
ViewedIsTrue ==
    Quiet => \A s \in (DOMAIN list) \ doubt : s \in Stored /\ list[s].viewed = db[s].viewed

\* A segment the list holds as not reviewed, and of the severity shown, is on the screen,
\* although the memo of the screen is only computed again when the number of segments
\* changes; with the same exceptions. It says nothing of segments the list does not hold.
NothingHidden ==
    Quiet /\ ~showReviewed =>
        \A s \in (DOMAIN list) \ doubt : SeverityOf(s) = severity /\ ~list[s].viewed => s \in items

Wanted(s) == s \in Stored /\ SeverityOf(s) = severity /\ (showReviewed \/ ~db[s].viewed)

\* Marked as reviewed on this page, a segment stays on the screen until the memo is computed.
Lingers(s) == s \in doubt \/ (~showReviewed /\ s \in DOMAIN list /\ list[s].viewed)

\* A segment the server has and the screen lacks is announced by the button for new items
\* once the summary is current; not so while a segment marked on this page lingers on the
\* screen, for each of these takes the place of a new one in the count.
NoticeComes ==
    Quiet /\ summary[severity] = Count(severity) =>
        \A s \in Segs \ items : Wanted(s) => MoreThanShown \/ \E i \in items : Lingers(i)
=============================================================================
