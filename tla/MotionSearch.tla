---------------------------- MODULE MotionSearch ----------------------------
(***************************************************************************)
(* The search for motion in a region of the picture: the dialog in which   *)
(* the region is drawn, the job the server runs for it, its state as every *)
(* client hears it over the websocket, and the list of hits.               *)
(***************************************************************************)
EXTENDS Naturals, Sequences

CONSTANTS
    Null,
    MaxSearch,   \* bound: searches started by the user
    MaxOther     \* bound: other clients' searches, changes of camera and moves in the player

Jobs == 1..MaxSearch
Cameras == {"c1", "c2"}
Hits == {"h1", "h2"}
\* The day shown, or the last 24 hours, and the hits in it.
timeRange == [last |-> {"h1"}, d1 |-> {"h1"}, d2 |-> {"h2"}]

VARIABLES
    jobs,      \* server: status, camera and cancel_event of each job
    wire,      \* job states on the way to the client
    payload,   \* useJobStatus: the last one heard
    posts,     \* searches being started: number, camera, state
    cancels,   \* cancel requests on the way: job and camera
    ui,        \* MotionSearchView and its dialog
    roi,       \* polygonPoints (their number) and isDrawingROI
    mounted,
    asked,     \* the number of the last search
    late,      \* history: a search was given up before its start was answered
    hidden,    \* history: another client's search overwrote the state of one not yet answered
    others

view == <<ui, roi, mounted>>
vars == <<jobs, wire, payload, posts, cancels, view, asked, late, hidden, others>>

Final == {"success", "failed", "cancelled"}
Active(st) == st = "running"
\* A job of the server, and its state as it is told; that of another client's job has no number here.
Job == [st : Final \cup {"running"}, cam : Cameras, cancel : BOOLEAN, done : BOOLEAN]
Message == [id : Jobs \cup {Null}, st : Final \cup {"running"}]

TypeOK ==
    /\ jobs \in [Jobs -> Job \cup {Null}] /\ payload \in Message \cup {Null}
    /\ ui.camera \in Cameras /\ ui.day \in DOMAIN timeRange /\ ui.jobId \in Jobs \cup {Null}
    /\ (ui.jobId # Null) = (ui.jobCamera # Null)
    /\ ui.results \in Jobs \cup {Null} /\ ui.time \in Hits \cup {"end"}
    /\ roi.points \in 0..4 /\ (~roi.drawing => roi.points >= 3)
    /\ (ui.results # Null => ui.hasSearched \/ late)

Fresh == [dialog |-> TRUE, camera |-> "c1", day |-> "last", time |-> "end", isSearching |-> FALSE,
          hasSearched |-> FALSE, results |-> Null, jobId |-> Null, jobCamera |-> Null]

Init ==
    /\ jobs = [j \in Jobs |-> Null] /\ wire = <<>> /\ payload = Null
    /\ posts = {} /\ cancels = {}
    /\ ui = Fresh
    /\ roi = [points |-> 0, drawing |-> TRUE]
    /\ mounted = TRUE /\ asked = 0 /\ late = FALSE /\ hidden = FALSE /\ others = 0

(***************************************************************************)
(* The region.  Bound: it is drawn before the first search.                *)
(***************************************************************************)
Draw == ui.dialog /\ mounted /\ asked = 0 /\ UNCHANGED <<jobs, wire, payload, posts, cancels, ui, mounted, asked, late, hidden, others>>

\* A click adds a corner, or on the first one closes the polygon.
handleMouseDown ==
    /\ Draw /\ roi.drawing
    /\ \/ roi.points < 4 /\ roi' = [roi EXCEPT !.points = @ + 1]
       \/ roi.points >= 3 /\ roi' = [roi EXCEPT !.drawing = FALSE]

MutDropsCorner ==   \* mutant: also of a closed polygon's last three
    /\ Draw /\ roi.points > 0 /\ roi' = [roi EXCEPT !.points = @ - 1]
\* A right click takes a corner away, unless it is one of the three of a closed polygon.
handleContextMenu ==
    /\ Draw /\ roi.points > 0 /\ (roi.points > 3 \/ roi.drawing)
    /\ roi' = [points |-> roi.points - 1, drawing |-> roi.drawing \/ roi.points - 1 < 3]

undoPolygonPoint ==
    Draw /\ roi.points > 0 /\ ~ui.isSearching /\ roi' = [points |-> roi.points - 1, drawing |-> TRUE]
resetPolygon ==
    Draw /\ roi.points > 0 /\ ~ui.isSearching /\ roi' = [points |-> 0, drawing |-> TRUE]

(***************************************************************************)
(* The state of the job                                                    *)
(***************************************************************************)
\* The effect on the job state and the job's id.
MutAnyJob(u, p) ==   \* mutant: the state of any search is taken for the own one
    IF p = Null \/ u.jobId = Null THEN u
    ELSE IF p.st = "running" THEN [u EXCEPT !.results = IF p.id # Null THEN p.id ELSE @]
    ELSE [u EXCEPT !.results = IF p.st = "success" /\ p.id # Null THEN p.id ELSE @, !.isSearching = FALSE,
                   !.jobId = Null, !.jobCamera = Null]
JobEffect(u, p) ==
    IF p = Null \/ u.jobId = Null \/ p.id # u.jobId THEN u
    ELSE IF p.st = "running" THEN [u EXCEPT !.results = p.id]
    ELSE [u EXCEPT !.results = IF p.st = "success" THEN p.id ELSE @, !.isSearching = FALSE,
                   !.jobId = Null, !.jobCamera = Null]

Broadcast(id, st) == Append(wire, [id |-> id, st |-> st])

Receive ==
    /\ wire # <<>> /\ wire' = Tail(wire) /\ payload' = Head(wire)
    /\ ui' = IF mounted THEN JobEffect(ui, Head(wire)) ELSE ui
    /\ hidden' = (hidden \/ (payload # Null /\ payload.id # Null /\ payload.id # Head(wire).id
                             /\ \E p \in posts : p.n = payload.id))
    /\ UNCHANGED <<jobs, posts, cancels, roi, mounted, asked, late, others>>

\* The thread of a job: progress, with some hits, and its end.  Bound: progress is told once.
Running(j) == [id |-> j, st |-> "running"]
Progress(j) ==
    /\ jobs[j] # Null /\ Active(jobs[j].st) /\ wire = <<>> /\ payload # Running(j)
    /\ wire' = Append(wire, Running(j))
    /\ UNCHANGED <<jobs, payload, posts, cancels, view, asked, late, hidden, others>>

\* run looks at cancel_event only after the search.  A cancel may have set the status already.
Finish(j) ==
    /\ jobs[j] # Null /\ ~jobs[j].done
    /\ \E st \in IF jobs[j].cancel THEN {"cancelled", "failed"} ELSE {"success", "failed"} :
          /\ jobs' = [jobs EXCEPT ![j].st = st, ![j].done = TRUE]
          /\ wire' = Broadcast(j, st)
    /\ UNCHANGED <<payload, posts, cancels, view, asked, late, hidden, others>>

\* A request for a job of another camera is refused; a finished job is left alone.
CancelJob(c) ==
    /\ c \in cancels /\ cancels' = cancels \ {c}
    /\ IF jobs[c.id].cam = c.cam /\ Active(jobs[c.id].st)
       THEN /\ jobs' = [jobs EXCEPT ![c.id].st = "cancelled", ![c.id].cancel = TRUE]
            /\ wire' = Broadcast(c.id, "cancelled")
       ELSE UNCHANGED <<jobs, wire>>
    /\ UNCHANGED <<payload, posts, view, asked, late, hidden, others>>

\* Another client's search: its states are broadcast to all, under the same name.
OtherSearch ==
    /\ others < MaxOther /\ asked + others < MaxSearch /\ others' = others + 1
    /\ wire' = Broadcast(Null, "success")
    /\ UNCHANGED <<jobs, payload, posts, cancels, view, asked, late, hidden>>

(***************************************************************************)
(* The search                                                              *)
(***************************************************************************)
canStartSearch == roi.points >= 3 /\ ~roi.drawing

\* Bound: no second search once one was given up too early, about which nothing is claimed.
performSearch ==
    /\ ~late /\ mounted /\ ui.dialog /\ canStartSearch /\ ~ui.isSearching /\ asked + others < MaxSearch
    /\ asked' = asked + 1
    /\ posts' = posts \cup {[n |-> asked + 1, cam |-> ui.camera, state |-> "sent"]}
    /\ ui' = [ui EXCEPT !.isSearching = TRUE, !.results = Null, !.hasSearched = TRUE]
    /\ UNCHANGED <<jobs, wire, payload, cancels, roi, mounted, late, hidden, others>>

start_motion_search(p) ==
    /\ p \in posts /\ p.state = "sent"
    /\ \E ok \in BOOLEAN :
          /\ posts' = (posts \ {p}) \cup {[p EXCEPT !.state = IF ok THEN "ok" ELSE "bad"]}
          /\ jobs' = IF ok THEN [jobs EXCEPT ![p.n] = [st |-> "running", cam |-> p.cam, cancel |-> FALSE, done |-> FALSE]]
                     ELSE jobs
    /\ UNCHANGED <<wire, payload, cancels, view, asked, late, hidden, others>>

\* The answer, and the effect that looks at what was heard of the job already.
MutSeesOnlyNews(p) ==   \* mutant: the effect only runs when a state arrives
    /\ p \in posts /\ p.state # "sent" /\ posts' = posts \ {p}
    /\ ui' = IF ~mounted THEN ui
             ELSE IF p.state = "bad" THEN [ui EXCEPT !.isSearching = FALSE]
             ELSE [ui EXCEPT !.jobId = p.n, !.jobCamera = p.cam, !.dialog = FALSE]
    /\ UNCHANGED <<jobs, wire, payload, cancels, roi, mounted, asked, late, hidden, others>>
StartAnswer(p) ==
    /\ p \in posts /\ p.state # "sent" /\ posts' = posts \ {p}
    /\ ui' = IF ~mounted THEN ui
             ELSE IF p.state = "bad" THEN [ui EXCEPT !.isSearching = FALSE]
             ELSE JobEffect([ui EXCEPT !.jobId = p.n, !.jobCamera = p.cam, !.dialog = FALSE], payload)
    /\ UNCHANGED <<jobs, wire, payload, cancels, roi, mounted, asked, late, hidden, others>>

MutCancelShown == IF ui.jobId = Null THEN {} ELSE {[id |-> ui.jobId, cam |-> ui.camera]}   \* mutant: the camera shown
cancelMotionSearchJob == IF ui.jobId = Null THEN {} ELSE {[id |-> ui.jobId, cam |-> ui.jobCamera]}

GiveUp == /\ cancels' = cancels \cup cancelMotionSearchJob
          /\ late' = (late \/ posts # {})
          /\ UNCHANGED <<jobs, wire, payload, posts, asked, hidden, others>>

handleNewSearch ==
    /\ mounted /\ ~ui.dialog /\ GiveUp
    /\ ui' = [ui EXCEPT !.results = Null, !.isSearching = FALSE, !.jobId = Null, !.jobCamera = Null,
                        !.hasSearched = FALSE, !.dialog = TRUE]
    /\ UNCHANGED <<roi, mounted>>

\* The cross beside the progress bar.
CancelSearch ==
    /\ mounted /\ ~ui.dialog /\ ui.isSearching /\ GiveUp
    /\ ui' = [ui EXCEPT !.isSearching = FALSE, !.jobId = Null, !.jobCamera = Null]
    /\ UNCHANGED <<roi, mounted>>

\* Leaving the page, also by closing the tab (cancelMotionSearchJobViaBeacon).
Leave == /\ mounted /\ GiveUp /\ mounted' = FALSE
         /\ ui' = Fresh /\ roi' = [points |-> 0, drawing |-> TRUE]
handleBack == ~ui.dialog /\ Leave

\* Closing the dialog before anything was searched leaves the page.
handleSearchDialogOpenChange ==
    /\ mounted /\ ui.dialog
    /\ IF ~ui.isSearching /\ ~ui.hasSearched THEN Leave
       ELSE /\ ui' = [ui EXCEPT !.dialog = FALSE]
            /\ UNCHANGED <<jobs, wire, payload, posts, cancels, roi, mounted, asked, late, hidden, others>>

onCameraSelect(c) ==
    /\ mounted /\ ui.dialog /\ c # ui.camera /\ ui' = [ui EXCEPT !.camera = c]
    /\ others < MaxOther /\ asked + others < MaxSearch /\ others' = others + 1
    /\ UNCHANGED <<jobs, wire, payload, posts, cancels, roi, mounted, asked, late, hidden>>

(***************************************************************************)
(* The player under the list                                               *)
(***************************************************************************)
\* Another day starts at its end.
onDaySelect(d) ==
    /\ mounted /\ ~ui.dialog /\ d # ui.day /\ ui' = [ui EXCEPT !.day = d, !.time = "end"]
    /\ others < MaxOther /\ asked + others < MaxSearch /\ others' = others + 1
    /\ UNCHANGED <<jobs, wire, payload, posts, cancels, roi, mounted, asked, late, hidden>>

\* A hit of another day changes the day, and the seek waits for it.
handleResultClick(h) ==
    /\ mounted /\ ~ui.dialog /\ ui.results # Null
    /\ ui' = [ui EXCEPT !.time = h,
                        !.day = IF h \in timeRange[@] THEN @ ELSE CHOOSE d \in {"d1", "d2"} : h \in timeRange[d]]
    /\ others < MaxOther /\ asked + others < MaxSearch /\ others' = others + 1
    /\ UNCHANGED <<jobs, wire, payload, posts, cancels, roi, mounted, asked, late, hidden>>

Next ==
    \/ handleMouseDown \/ handleContextMenu \/ undoPolygonPoint \/ resetPolygon
    \/ performSearch \/ handleNewSearch \/ CancelSearch \/ handleBack \/ handleSearchDialogOpenChange
    \/ \E c \in Cameras : onCameraSelect(c)
    \/ \E d \in DOMAIN timeRange : onDaySelect(d)
    \/ \E h \in Hits : handleResultClick(h)
    \/ \E p \in posts : start_motion_search(p) \/ StartAnswer(p)
    \/ \E j \in Jobs : Progress(j) \/ Finish(j)
    \/ \E c \in cancels : CancelJob(c)
    \/ Receive \/ OtherSearch

Spec == Init /\ [][Next]_vars

(***************************************************************************)
(* Properties                                                              *)
(***************************************************************************)
\* The hits listed are those of the last search, unless a search was given up before the
\* server had said which job it is: then its hits come after all.
ResultsAreOfSearch == mounted /\ ui.results # Null /\ ~late => ui.results = asked

\* The page only shows a search as running that is being started or whose end is still to be
\* heard, unless another client's search hid its end.
SearchingIsReal ==
    mounted /\ ui.isSearching /\ ~late /\ ~hidden =>
        \/ \E p \in posts : p.n = asked
        \/ /\ ui.jobId = asked
           /\ ~jobs[asked].done \/ \E i \in DOMAIN wire : wire[i].id = asked /\ wire[i].st \in Final

\* The server runs no search that nobody waits for, unless it was given up too early.
NoOrphan ==
    ~late => \A j \in Jobs :
        jobs[j] # Null /\ Active(jobs[j].st) =>
            \/ mounted /\ ui.jobId = j
            \/ \E c \in cancels : c.id = j
            \/ \E p \in posts : p.n = j
=============================================================================
