------------------------------ MODULE Exports -------------------------------
(***************************************************************************)
(* Exports: the page that lists them with the jobs that make them, and the *)
(* dialog and drawer in which a range of footage is chosen for one.  The   *)
(* two share no state.                                                     *)
(***************************************************************************)
EXTENDS FiniteSets, Integers

CONSTANTS
    Null,
    Jobs,
    CaseJobs,      \* the jobs started for the case
    MaxUser,       \* bound: requests of the user
    MaxWaiting,    \* bound: broadcasts taken and not yet published
    Cams,
    SeenLastHour,  \* the cameras with objects in the last hour
    SeenAround,    \* the cameras with objects around the moment shown
    MaxFields      \* bound: fields of the forms filled in at a time

(***************************************************************************)
(* The exports page with the export jobs behind it: jobs are queued, run   *)
(* by worker threads and announced over the websocket; the page keeps the  *)
(* announced jobs, a cached list of exports, a selection and its requests. *)
(* An export has the id of its job.  SWR: see ReviewPage.                  *)
(***************************************************************************)
Threads == Jobs \cup {"api"}
Case == "c1"
caseOf(j) == IF j \in CaseJobs THEN Case ELSE "none"   \* the case the job was started for

VARIABLES
    job,         \* status of each job: none, queued, running, ended or cancelled
    row,         \* the database: [done, case] of each export, or Null
    caseExists,
    sending,     \* per thread: the jobs of a broadcast not yet published
    exportJobState, \* the page: jobs of the last broadcast, Null before the first
    pollExportJobs, \* jobs of the one HTTP request, Null before its answer
    previousActiveJobIds,
    rawExports,  \* cached exports, Null before the first answer
    loading,     \* the request of them: its answer and whether it is lost, or Null
    selectedExports, selectedCaseId,
    requests,
    unheard,     \* history: a request was applied but its answer lost
    overtaken,   \* history: a job ended while an old broadcast hid it from the page
    acts

server == <<job, row, caseExists, sending>>
active == <<exportJobState, pollExportJobs, previousActiveJobIds>>
pageVars == <<server, active, rawExports, loading, selectedExports, selectedCaseId, requests, unheard, overtaken, acts>>

Row == [done : BOOLEAN, case : {"none", Case}]
Listing == UNION {[S -> Row] : S \in SUBSET Jobs}
Load == [data : Listing \cup {Null}, lost : BOOLEAN]

PageTypeOK ==
    /\ job \in [Jobs -> {"none", "queued", "running", "ended", "cancelled"}]
    /\ row \in [Jobs -> Row \cup {Null}] /\ caseExists \in BOOLEAN
    /\ \A t \in Threads : sending[t] = Null \/ sending[t] \subseteq Jobs
    /\ rawExports \in Listing \cup {Null} /\ selectedExports \subseteq Jobs
    /\ previousActiveJobIds \subseteq Jobs /\ loading \in Load \cup {Null}

Active(j) == {k \in Jobs : j[k] \in {"queued", "running"}}
Rows == {j \in Jobs : row[j] # Null}
Ask == [data |-> Null, lost |-> FALSE]

\* The announced jobs once there are any, the polled ones before.
ActiveOf(ws, poll) == IF ws # Null THEN ws ELSE IF poll # Null THEN poll ELSE {}
activeExportJobs == ActiveOf(exportJobState, pollExportJobs)

visibleExports == IF rawExports = Null THEN {} ELSE (DOMAIN rawExports) \ activeExportJobs
AllExportsView == {e \in visibleExports : rawExports[e].case = "none"}
CaseView == {e \in visibleExports : rawExports[e].case = Case}
Shown == IF selectedCaseId = Case THEN CaseView ELSE AllExportsView

PageInit ==
    /\ job = [j \in Jobs |-> "none"]
    /\ row = [j \in Jobs |-> Null] /\ caseExists = TRUE
    /\ sending = [t \in Threads |-> Null]
    /\ exportJobState = Null /\ pollExportJobs = Null /\ previousActiveJobIds = {}
    /\ rawExports = Null /\ loading = Ask /\ selectedExports = {} /\ selectedCaseId = "none"
    /\ requests = {} /\ unheard = FALSE /\ overtaken = FALSE /\ acts = 0

(***************************************************************************)
(* Jobs: every broadcast is a snapshot under the lock, published later     *)
(***************************************************************************)
Broadcast(t, j) ==
    /\ Cardinality({u \in Threads : sending[u] # Null}) < MaxWaiting
    /\ sending' = [sending EXCEPT ![t] = Active(j)]

\* POST export, batch export: the job joins the queue.
enqueue(j) ==
    /\ job[j] = "none" /\ sending["api"] = Null /\ (caseOf(j) = Case => caseExists)
    /\ job' = [job EXCEPT ![j] = "queued"]
    /\ Broadcast("api", job')
    /\ UNCHANGED <<row, caseExists, active, rawExports, loading, selectedExports, selectedCaseId,
                   requests, unheard, overtaken, acts>>

run_job(j) ==
    /\ job[j] = "queued" /\ sending[j] = Null
    /\ job' = [job EXCEPT ![j] = "running"] /\ Broadcast(j, job')
    /\ UNCHANGED <<row, caseExists, active, rawExports, loading, selectedExports,
                   selectedCaseId, requests, unheard, overtaken, acts>>

\* RecordingExporter.run stores the export before it encodes; the case may be gone.
InsertExport(j) ==
    /\ job[j] = "running" /\ sending[j] = Null /\ row[j] = Null
    /\ row' = [row EXCEPT ![j] = [done |-> FALSE, case |-> caseOf(j)]]
    /\ UNCHANGED <<job, caseExists, sending, active, rawExports, loading, selectedExports,
                   selectedCaseId, requests, unheard, overtaken, acts>>

\* The encoder is done, or failed and its row is dropped; a row deleted meanwhile stays so.
FinishJob(j, ok) ==
    /\ job[j] = "running" /\ sending[j] = Null
    /\ row' = [row EXCEPT ![j] = IF @ = Null \/ ~ok THEN Null ELSE [@ EXCEPT !.done = TRUE]]
    /\ job' = [job EXCEPT ![j] = "ended"] /\ Broadcast(j, job')
    /\ overtaken' = (overtaken \/ j \notin activeExportJobs)
    /\ UNCHANGED <<caseExists, active, rawExports, loading, selectedExports, selectedCaseId,
                   requests, unheard, acts>>

MutOnAdded(now) ==   \* mutant: a job that is new asks for the exports, one gone does not
    /\ previousActiveJobIds' = now
    /\ loading' = IF now \ previousActiveJobIds # {} THEN Ask ELSE loading

\* The effect on the active jobs: a job gone asks for the exports again.
SetActive(now) ==
    /\ previousActiveJobIds' = now
    /\ loading' = IF previousActiveJobIds \ now # {} THEN Ask ELSE loading

publish(t) ==
    /\ sending[t] # Null /\ sending' = [sending EXCEPT ![t] = Null]
    /\ exportJobState' = sending[t] /\ SetActive(sending[t])
    /\ pollExportJobs' = IF previousActiveJobIds # {} /\ sending[t] = {} THEN {} ELSE pollExportJobs
    /\ UNCHANGED <<job, row, caseExists, rawExports, selectedExports, selectedCaseId,
                   requests, unheard, overtaken, acts>>

(***************************************************************************)
(* The page                                                                *)
(***************************************************************************)
PollAnswer ==
    /\ pollExportJobs = Null /\ pollExportJobs' = Active(job)
    /\ SetActive(ActiveOf(exportJobState, Active(job)))
    /\ UNCHANGED <<server, exportJobState, rawExports, selectedExports, selectedCaseId, requests,
                   unheard, overtaken, acts>>

ListRead ==
    /\ loading # Null /\ loading.data = Null
    /\ loading' = [loading EXCEPT !.data = [j \in Rows |-> row[j]]]
    /\ UNCHANGED <<server, active, rawExports, selectedExports, selectedCaseId, requests, unheard, overtaken, acts>>

ListAnswer ==
    /\ loading # Null /\ loading.data # Null /\ loading' = Null
    /\ rawExports' = IF loading.lost THEN rawExports ELSE loading.data
    /\ UNCHANGED <<server, active, selectedExports, selectedCaseId, requests, unheard, overtaken, acts>>

\* refreshInterval: every two seconds while an export is in progress.
refreshInterval ==
    /\ loading = Null /\ rawExports # Null /\ \E e \in DOMAIN rawExports : ~rawExports[e].done
    /\ loading' = Ask
    /\ UNCHANGED <<server, active, rawExports, selectedExports, selectedCaseId, requests, unheard, overtaken, acts>>

CanSend == acts < MaxUser /\ acts' = acts + 1
Finished == {e \in Shown : rawExports[e].done}   \* cards with a menu
Request(kind, ids, to, from) == [kind |-> kind, ids |-> ids, to |-> to, from |-> from, state |-> "sent"]

Post(kind, ids, to, from) ==
    /\ CanSend /\ requests' = requests \cup {Request(kind, ids, to, from)}
    /\ UNCHANGED <<server, active, rawExports, loading, selectedExports, selectedCaseId, unheard, overtaken>>

MutBlanksRows(ids, from) ==   \* mutant: the rows are blanked, not dropped
    /\ CanSend /\ rawExports # Null
    /\ rawExports' = [e \in DOMAIN rawExports |-> IF e \in ids THEN Null ELSE rawExports[e]]
    /\ UNCHANGED <<server, active, loading, requests, selectedExports, selectedCaseId, unheard, overtaken>>

\* The rows go at once; a load under way would bring them back and is lost.
deleteExports(ids, from) ==
    /\ CanSend
    /\ rawExports' = IF rawExports = Null THEN Null
                     ELSE [e \in (DOMAIN rawExports) \ ids |-> rawExports[e]]
    /\ loading' = IF loading = Null THEN Null ELSE [loading EXCEPT !.lost = TRUE]
    /\ requests' = requests \cup {Request("delete", ids, "none", from)}
    /\ UNCHANGED <<server, active, selectedExports, selectedCaseId, unheard, overtaken>>

onHandleDelete(e) == e \in Finished /\ deleteExports({e}, "card")

onDelete == selectedExports # {} /\ deleteExports(selectedExports, "group")

\* Out of the case, or deleted with it.
handleRemoveFromCase ==
    /\ selectedExports # {} /\ selectedCaseId = Case
    /\ \/ Post("reassign", selectedExports, "none", "group")
       \/ deleteExports(selectedExports, "group")

\* A new case is created before and stays when the assignment fails.
handleAssignToCase == selectedExports # {} /\ Post("reassign", selectedExports, Case, "group")

handleRemoveExportFromCase(e) ==
    e \in Finished /\ selectedCaseId = Case /\ Post("reassign", {e}, "none", "card")

AssignOne(e) == e \in Finished /\ Post("reassign", {e}, Case, "card")

\* CaseAddExportDialog, opened on a case: finished exports that are in none.
handleAdd(ids) ==
    /\ selectedCaseId = Case /\ ids # {} /\ ids \subseteq visibleExports
    /\ \A e \in ids : rawExports[e] = [done |-> TRUE, case |-> "none"]
    /\ Post("reassign", ids, Case, "card")

handleDeleteCase(kind) == selectedCaseId = Case /\ Post(kind, {}, "none", "card")

OfCase == {j \in Rows : row[j].case = Case}

\* bulk_delete_exports, bulk_reassign_exports, delete_export_case: refused as a whole or applied.
Allowed(r) ==
    CASE r.kind = "delete" -> r.ids \subseteq Rows /\ \A e \in r.ids : row[e].done
      [] r.kind = "reassign" -> r.ids \subseteq Rows /\ (r.to = Case => caseExists)
      [] OTHER -> caseExists

Apply(r) ==
    /\ r.state = "sent"
    /\ requests' = (requests \ {r}) \cup {[r EXCEPT !.state = IF Allowed(r) THEN "done" ELSE "refused"]}
    /\ IF ~Allowed(r) THEN UNCHANGED <<row, job, caseExists>>
       ELSE /\ row' = [j \in Jobs |->
                         IF j \in r.ids THEN IF r.kind = "delete" THEN Null ELSE [row[j] EXCEPT !.case = r.to]
                         ELSE IF r.kind = "caseAndExports" /\ j \in OfCase THEN Null
                         ELSE IF r.kind = "case" /\ j \in OfCase THEN [row[j] EXCEPT !.case = "none"]
                         ELSE row[j]]
            \* cancel_queued_jobs_for_case tells nobody
            /\ job' = [j \in Jobs |-> IF r.kind = "caseAndExports" /\ job[j] = "queued" /\ caseOf(j) = Case
                                      THEN "cancelled" ELSE job[j]]
            /\ caseExists' = (caseExists /\ r.kind \in {"delete", "reassign"})
    /\ UNCHANGED <<sending, active, rawExports, loading, selectedExports, selectedCaseId,
                   unheard, overtaken, acts>>

\* The answer: a delete always asks for the list again, the others only on success.
Reply(r) ==
    LET done == r.state = "done"
        closes == done /\ r.kind \in {"case", "caseAndExports"}
    IN
    /\ requests' = requests \ {r} /\ r.state # "sent"
    /\ loading' = IF done \/ r.kind = "delete" THEN Ask ELSE loading
    /\ selectedExports' = IF closes \/ (done /\ r.from = "group") THEN {} ELSE selectedExports
    /\ selectedCaseId' = IF closes THEN "none" ELSE selectedCaseId
    /\ UNCHANGED <<server, active, rawExports, unheard, overtaken, acts>>

\* No answer: a delete asks again, the others leave the page as it is.
Fail(r) ==
    /\ requests' = requests \ {r}
    /\ loading' = IF r.kind = "delete" THEN Ask ELSE loading
    /\ unheard' = (unheard \/ r.state = "done")
    /\ UNCHANGED <<server, active, rawExports, selectedExports, selectedCaseId, overtaken, acts>>

onSelectExport(e) ==
    /\ e \in Finished
    /\ selectedExports' = (selectedExports \cup {e}) \ (selectedExports \cap {e})
    /\ UNCHANGED <<server, active, rawExports, loading, selectedCaseId, requests, unheard, overtaken, acts>>

\* Ctrl+A
onSelectAllExports ==
    /\ selectedExports' = IF Cardinality(selectedExports) < Cardinality(Finished) THEN Finished ELSE {}
    /\ UNCHANGED <<server, active, rawExports, loading, selectedCaseId, requests, unheard, overtaken, acts>>

SetCase ==
    /\ selectedCaseId' = IF selectedCaseId = Case THEN "none" ELSE Case
    /\ selectedCaseId' = Case => caseExists
    /\ selectedExports' = {}
    /\ UNCHANGED <<server, active, rawExports, loading, requests, unheard, overtaken, acts>>

PageNext ==
    \/ \E j \in Jobs : \/ enqueue(j) \/ run_job(j) \/ InsertExport(j) \/ \E ok \in BOOLEAN : FinishJob(j, ok)
                       \/ onSelectExport(j) \/ onHandleDelete(j) \/ handleRemoveExportFromCase(j) \/ AssignOne(j)
    \/ \E t \in Threads : publish(t)
    \/ PollAnswer \/ ListRead \/ ListAnswer \/ refreshInterval \/ SetCase \/ onSelectAllExports
    \/ onDelete \/ handleRemoveFromCase \/ handleAssignToCase
    \/ \E ids \in SUBSET Jobs : handleAdd(ids)
    \/ \E kind \in {"case", "caseAndExports"} : handleDeleteCase(kind)
    \/ \E r \in requests : Apply(r) \/ Reply(r) \/ Fail(r)

PageSpec == PageInit /\ [][PageNext]_pageVars

\* When nothing is under way and the page knows the active jobs, its cards are the exports
\* of the database, each in its case: neither a job that ended, nor an optimistic delete that
\* was refused, nor a late answer leaves a card too many or too few.
CardsAreExports ==
    requests = {} /\ loading = Null /\ rawExports # Null /\ ~unheard /\ ~overtaken
    /\ (\A t \in Threads : sending[t] = Null) /\ Active(job) = {} /\ activeExportJobs = {}
        => rawExports = [j \in Rows |-> row[j]]

(***************************************************************************)
(* Starting exports from a recording: the dialog (a drawer on a phone),    *)
(* its tab for one camera and its tab for many, the choice of a range on   *)
(* the timeline, and the cameras the second tab selects by itself from the *)
(* objects seen in the range.  Dialog state outlives the dialog; Content   *)
(* state (cameras, batch flag) dies with it.                               *)
(***************************************************************************)
Ranges == {"hour", "around", "picked"}
Seen(r) == IF r = "hour" THEN SeenLastHour ELSE IF r = "around" THEN SeenAround ELSE {}
Fields == {"name", "case", "single", "batchCase"}   \* batchCase: a case chosen, or a new one named

VARIABLES
    device,    \* desktop or mobile
    ui,        \* mode, drawer, tab, range, preTimelineRange, fields filled in
    content,   \* option, debouncedRange, selected cameras, manual, batch under way
    fetched,   \* ranges whose events are cached
    isStartingExport,
    batches,   \* batch requests in flight
    switched   \* history: the tab was changed while an export was being started

dialogVars == <<device, ui, content, fetched, isStartingExport, batches, switched>>

Fresh == [option |-> "1", debounced |-> Null, selected |-> {}, manual |-> FALSE, batch |-> FALSE]
Mounted(u) == IF device = "desktop" THEN u.mode = "select" ELSE u.drawer = "export"
Key(u) == IF u.tab = "multi" THEN u.range ELSE Null

DialogTypeOK ==
    /\ device \in {"desktop", "mobile"} /\ fetched \subseteq Ranges
    /\ ui \in [mode : {"none", "select", "timeline", "timeline_multi"}, tab : {"export", "multi"},
               drawer : {"none", "select", "export"}, range : Ranges \cup {Null},
               pre : Ranges \cup {Null}, form : SUBSET Fields]
    /\ content.debounced \in Ranges \cup {Null} /\ content.selected \subseteq Cams
    /\ isStartingExport \in BOOLEAN /\ batches \in BOOLEAN /\ (content.batch => batches)

DialogInit ==
    /\ device \in {"desktop", "mobile"}
    /\ ui = [mode |-> "none", drawer |-> "none", tab |-> "export", range |-> Null, pre |-> Null, form |-> {}]
    /\ content = Fresh /\ fetched = {} /\ isStartingExport = FALSE /\ batches = FALSE /\ switched = FALSE

(***************************************************************************)
(* The effects that follow a change                                        *)
(***************************************************************************)
\* ExportDialog: the tab follows the mode (the drawer has no such effect).
TabOf(u) ==
    IF device = "mobile" \/ u.mode = ui.mode THEN u.tab
    ELSE IF u.mode = "none" \/ (u.mode = "select" /\ ui.mode = "none") THEN "export"
    ELSE IF u.mode = "select" /\ ui.mode = "timeline_multi" THEN "multi" ELSE u.tab

\* The second tab gives itself a range, even while its dialog is closing.
DefaultRange(u) ==
    IF u.range = Null /\ u.tab = "multi" /\ (Mounted(u) \/ Mounted(ui)) THEN "around" ELSE u.range

MutKeepsChoice(c, cached) ==   \* mutant: only an empty selection is filled
    IF c.manual \/ c.selected # {} \/ (c.debounced # Null /\ c.debounced \notin cached) THEN c
    ELSE [c EXCEPT !.selected = IF c.debounced = Null THEN {} ELSE Seen(c.debounced)]

\* Without a manual choice: the cameras with objects in the range last settled on.
AutoSelect(c, cached) ==
    IF c.manual \/ (c.debounced # Null /\ c.debounced \notin cached) THEN c
    ELSE [c EXCEPT !.selected = IF c.debounced = Null THEN {} ELSE Seen(c.debounced)]

MutKeepsManual(u, c) ==   \* mutant: a manual choice survives another range
    LET mine == IF Mounted(ui) THEN c ELSE Fresh
        known == [mine EXCEPT !.debounced = IF Key(u) = Null THEN Null ELSE @]
    IN  IF ~Mounted(u) THEN Fresh ELSE IF u.tab = "multi" THEN AutoSelect(known, fetched) ELSE known

ContentAfter(u, c) ==
    LET mine == IF Mounted(ui) THEN c ELSE Fresh
        known == [mine EXCEPT !.debounced = IF Key(u) = Null THEN Null ELSE @,
                              !.manual = @ /\ Key(u) = Key(ui)]
    IN  IF ~Mounted(u) THEN Fresh ELSE IF u.tab = "multi" THEN AutoSelect(known, fetched) ELSE known

\* u and c: what a handler leaves behind.
Settle(u, c) ==
    LET ranged == [u EXCEPT !.range = DefaultRange(u)]
        tabbed == [ranged EXCEPT !.tab = TabOf(u)]
    IN  ui' = tabbed /\ content' = ContentAfter(tabbed, c)

Other == UNCHANGED <<device, fetched, isStartingExport, batches, switched>>

(***************************************************************************)
(* The parent: dialog, drawer and the overlay of the timeline              *)
(***************************************************************************)
Open ==
    /\ ui.mode = "none" /\ device = "desktop"
    /\ Settle([ui EXCEPT !.tab = "export", !.range = "hour", !.mode = "select"], content) /\ Other

OpenDrawer ==
    /\ device = "mobile"
    /\ \/ ui.drawer = "none" /\ Settle([ui EXCEPT !.drawer = "select"], content)
       \/ ui.drawer = "select"
          /\ Settle([ui EXCEPT !.drawer = "export", !.tab = "export", !.mode = "select"], content)
    /\ Other

Cleared == [ui EXCEPT !.form = {}, !.mode = "none", !.range = Null]

MutKeepsRange ==   \* mutant: the range stays
    /\ Mounted(ui)
    /\ Settle([ui EXCEPT !.form = {}, !.mode = "none", !.tab = "export", !.drawer = "none"], content) /\ Other

\* handleCancel of the dialog, onCancel of the drawer's content.
handleCancel ==
    /\ Mounted(ui)
    /\ Settle([Cleared EXCEPT !.tab = "export", !.form = IF device = "mobile" THEN ui.form \cap {"name"} ELSE {},
                              !.drawer = IF device = "mobile" THEN "select" ELSE "none"], content)
    /\ Other

\* The drawer is swiped away: nothing else changes.
CloseDrawer == device = "mobile" /\ ui.drawer # "none" /\ Settle([ui EXCEPT !.drawer = "none"], content) /\ Other

\* "Use this range", or cancel back to the range from before the timeline.
LeaveTimelineMulti(save) ==
    /\ ui.mode = "timeline_multi"
    /\ Settle([ui EXCEPT !.mode = "select", !.tab = "multi", !.range = IF save THEN @ ELSE ui.pre,
                         !.drawer = IF device = "mobile" THEN "export" ELSE "none"], content)
    /\ Other

CancelTimeline ==
    /\ ui.mode = "timeline"
    /\ Settle([Cleared EXCEPT !.tab = "export", !.form = IF device = "mobile" THEN ui.form ELSE {}], content)
    /\ Other

MoveHandles ==
    /\ ui.mode \in {"timeline", "timeline_multi"} /\ ui.range # Null
    /\ Settle([ui EXCEPT !.range = "picked"], content) /\ Other

\* One camera: from the dialog, or with the overlay's button.
onStartExport ==
    /\ ui.mode = "timeline" \/ (Mounted(ui) /\ ui.tab = "export" /\ content.option # "timeline")
    /\ ~isStartingExport /\ ui.range # Null
    /\ isStartingExport' = TRUE
    /\ UNCHANGED <<device, ui, content, fetched, batches, switched>>

StartAnswer(ok) ==
    /\ isStartingExport /\ isStartingExport' = FALSE
    /\ IF ok THEN Settle(Cleared, [content EXCEPT !.option = "1"]) ELSE UNCHANGED <<ui, content>>
    /\ UNCHANGED <<device, fetched, batches, switched>>

(***************************************************************************)
(* ExportContent                                                           *)
(***************************************************************************)
onSelectTime(o) ==
    /\ Mounted(ui) /\ ui.tab = "export"
    /\ Settle([ui EXCEPT !.range = "hour"], [content EXCEPT !.option = o]) /\ Other

PickTimes == Mounted(ui) /\ Settle([ui EXCEPT !.range = "picked"], content) /\ Other

SelectTab(tab) ==
    /\ Mounted(ui) /\ tab # ui.tab
    /\ Settle(IF tab = "multi"
              THEN [ui EXCEPT !.tab = tab, !.range = "around",
                              !.form = IF "case" \in @ THEN @ \cup {"batchCase"} ELSE @ \ {"batchCase"}]
              ELSE [ui EXCEPT !.tab = tab, !.range = "hour"], content)
    /\ switched' = (switched \/ isStartingExport)
    /\ UNCHANGED <<device, fetched, isStartingExport, batches>>

Fill(f) ==
    /\ Mounted(ui) /\ f \notin ui.form /\ Cardinality(ui.form) < MaxFields
    /\ Settle([ui EXCEPT !.form = @ \cup {f}], content) /\ Other

ToTimeline ==
    /\ Mounted(ui) /\ ui.tab = "export" /\ content.option = "timeline" /\ ~isStartingExport
    /\ Settle([ui EXCEPT !.range = "around", !.mode = "timeline", !.drawer = "none"], content) /\ Other

onSelectFromTimeline ==
    /\ Mounted(ui) /\ ui.tab = "multi"
    /\ Settle([ui EXCEPT !.pre = ui.range, !.mode = "timeline_multi", !.drawer = "none"], content) /\ Other

Debounce ==
    /\ Mounted(ui) /\ Key(ui) # Null
    /\ ui' = ui /\ content' = AutoSelect([content EXCEPT !.debounced = ui.range], fetched) /\ Other

EventsAnswer ==
    /\ content.debounced # Null /\ fetched' = fetched \cup {content.debounced}
    /\ content' = IF ui.tab = "multi" THEN AutoSelect(content, fetched') ELSE content
    /\ UNCHANGED <<device, ui, isStartingExport, batches, switched>>

toggleCameraSelection(cam) ==
    /\ Mounted(ui) /\ ui.tab = "multi"
    /\ content' = [content EXCEPT !.manual = TRUE, !.selected = (@ \cup {cam}) \ (@ \cap {cam})]
    /\ ui' = ui /\ Other

\* Groups, all cameras, none, those with activity.
applyCameraSelection(cams) ==
    /\ Mounted(ui) /\ ui.tab = "multi"
    /\ content' = [content EXCEPT !.manual = TRUE, !.selected = cams] /\ ui' = ui /\ Other

canStartBatchExport == content.selected # {} /\ ~content.batch /\ "batchCase" \in ui.form

startBatchExport ==
    /\ Mounted(ui) /\ ui.tab = "multi" /\ canStartBatchExport /\ ~batches
    /\ batches' = TRUE /\ content' = [content EXCEPT !.batch = TRUE]
    /\ UNCHANGED <<device, ui, fetched, isStartingExport, switched>>

MutNoFinally(ok) ==   \* mutant: the flag is not taken back
    /\ batches /\ batches' = FALSE /\ UNCHANGED <<device, ui, content, fetched, isStartingExport, switched>>

\* An answer closes the dialog whoever opened it; the new case of the other tab stays.
BatchAnswer(ok) ==
    /\ batches /\ batches' = FALSE
    /\ LET c == [content EXCEPT !.batch = FALSE]
       IN  IF ok THEN Settle([Cleared EXCEPT !.form = ui.form \cap {"single"}, !.tab = "export"], c)
           ELSE ui' = ui /\ content' = c
    /\ UNCHANGED <<device, fetched, isStartingExport, switched>>

DialogNext ==
    \/ Open \/ OpenDrawer \/ handleCancel \/ CloseDrawer \/ CancelTimeline \/ MoveHandles
    \/ \E b \in BOOLEAN : LeaveTimelineMulti(b) \/ StartAnswer(b) \/ BatchAnswer(b)
    \/ onStartExport \/ PickTimes \/ ToTimeline \/ onSelectFromTimeline \/ Debounce \/ EventsAnswer
    \/ \E o \in {"1", "timeline"} : onSelectTime(o)
    \/ \E t \in {"export", "multi"} : SelectTab(t)
    \/ \E f \in Fields : Fill(f)
    \/ \E cam \in Cams : toggleCameraSelection(cam)
    \/ \E cams \in SUBSET Cams : applyCameraSelection(cams)
    \/ startBatchExport

DialogSpec == DialogInit /\ [][DialogNext]_dialogVars

\* A closed dialog leaves no range behind (the recording view would stay on the timeline and
\* stop following the player) and no text of an earlier export but the new case's name; not so
\* when the tab is changed while an export of one camera is being started.
ClosedIsClean ==
    device = "desktop" /\ ui.mode = "none" /\ ~switched
        => ui.range = Null /\ ui.tab = "export" /\ ui.form \subseteq {"single"}

\* Cameras nobody chose by hand are those with objects in the range, once it is settled on
\* and its events are there: never the choice of an earlier range or of a closed dialog.
SelectionFits ==
    Mounted(ui) /\ ui.tab = "multi" /\ ~content.manual /\ content.debounced = ui.range /\ ui.range \in fetched
        => content.selected = Seen(ui.range)
=============================================================================
