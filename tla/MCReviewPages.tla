--------------------------- MODULE MCReviewPages ----------------------------
(***************************************************************************)
(* The pages on which recorded footage is reviewed, in one TLC run.        *)
(***************************************************************************)
EXTENDS FiniteSets

CONSTANTS
    Null,
    Segs,           \* the reviews
    Detections,     \* those that are no alerts
    Unbegun,        \* those that begin while the page is open
    Jobs,           \* the exports
    CaseJobs,       \* those made for the case
    Cams,           \* the cameras to export
    SeenLastHour,   \* those with objects in the last hour
    SeenAround,     \* those with objects around the moment shown
    Events,         \* the tracked objects
    Second,         \* those with the second description
    MaxReview,      \* bound: what the user does to reviews
    MaxExports,     \* bound: requests about exports
    MaxWaiting,     \* bound: broadcasts of jobs on the way
    MaxFields,      \* bound: fields of the export forms filled in
    MaxDetails      \* bound: requests about tracked objects

VARIABLES
    shown,  \* the page or dialog the user is on
    db, ends, list, load, items, endedReviews, own, summary, severity, showReviewed, dated,
    recording, selected, posts, doubt, stuck, users,
    job, row, caseExists, sending, exportJobState, pollExportJobs, previousActiveJobIds,
    rawExports, exportsLoading, selectedExports, selectedCaseId, exportsRequests, unheard,
    overtaken, exportsActs,
    device, ui, content, fetched, isStartingExport, batches, switched,
    server, rows, detailsLoading, selectedId, isOpen, page, closing, tab, detailsRequests,
    generating, announced, strayed, behind, detailsActs

reviewVars == <<db, ends, list, load, items, endedReviews, own, summary, severity,
    showReviewed, dated, recording, selected, posts, doubt, stuck, users>>
exportsVars == <<job, row, caseExists, sending, exportJobState, pollExportJobs,
    previousActiveJobIds, rawExports, exportsLoading, selectedExports, selectedCaseId,
    exportsRequests, unheard, overtaken, exportsActs>>
exportVars == <<device, ui, content, fetched, isStartingExport, batches, switched>>
detailsVars == <<server, rows, detailsLoading, selectedId, isOpen, page, closing, tab,
    detailsRequests, generating, announced, strayed, behind, detailsActs>>

Review == INSTANCE ReviewPage WITH Segs <- Segs, Detections <- Detections, Unbegun <- Unbegun,
    MaxUser <- MaxReview
Exports == INSTANCE Exports WITH Jobs <- Jobs, CaseJobs <- CaseJobs, MaxUser <- MaxExports,
    MaxWaiting <- MaxWaiting, Cams <- Cams, SeenLastHour <- SeenLastHour,
    SeenAround <- SeenAround, MaxFields <- MaxFields, loading <- exportsLoading,
    requests <- exportsRequests, acts <- exportsActs
Details == INSTANCE ObjectDetails WITH Events <- Events, Second <- Second,
    MaxUser <- MaxDetails, loading <- detailsLoading, requests <- detailsRequests,
    acts <- detailsActs

\* No segment, job, object, list or request is the value that stands for none.
ASSUME NullAssumption ==
    /\ Null \notin Review!Lists \cup Review!Load /\ \A S \in SUBSET Segs : S # Null
    /\ Null \notin Exports!Row \cup Exports!Listing \cup Exports!Load
    /\ Null \notin Exports!Ranges
    /\ Null \notin Events \cup Details!Rec \cup Details!List \cup Details!Load \cup Details!Tab

\* The page counts the reviews it lists.
ASSUME SegsAssumption == IsFiniteSet(Segs)

\* The API is no export.
ASSUME ApiAssumption == "api" \notin Jobs

\* Objects are only seen on cameras there are.
ASSUME CamsAssumption == SeenLastHour \subseteq Cams /\ SeenAround \subseteq Cams

NoReview == db = Null /\ ends = Null /\ list = Null /\ load = Null /\ items = Null /\
    endedReviews = Null /\ own = Null /\ summary = Null /\ severity = Null /\
    showReviewed = Null /\ dated = Null /\ recording = Null /\ selected = Null /\
    posts = Null /\ doubt = Null /\ stuck = Null /\ users = Null
NoExports == job = Null /\ row = Null /\ caseExists = Null /\ sending = Null /\
    exportJobState = Null /\ pollExportJobs = Null /\ previousActiveJobIds = Null /\
    rawExports = Null /\ exportsLoading = Null /\ selectedExports = Null /\
    selectedCaseId = Null /\ exportsRequests = Null /\ unheard = Null /\ overtaken = Null /\
    exportsActs = Null
NoExport == device = Null /\ ui = Null /\ content = Null /\ fetched = Null /\
    isStartingExport = Null /\ batches = Null /\ switched = Null
NoDetails == server = Null /\ rows = Null /\ detailsLoading = Null /\ selectedId = Null /\
    isOpen = Null /\ page = Null /\ closing = Null /\ tab = Null /\ detailsRequests = Null /\
    generating = Null /\ announced = Null /\ strayed = Null /\ behind = Null /\
    detailsActs = Null

\* The page or dialog the user is on: the others are not mounted.
Init ==
    \/ shown = "review" /\ Review!Init /\ NoExports /\ NoExport /\ NoDetails
    \/ shown = "exports" /\ Exports!PageInit /\ NoReview /\ NoExport /\ NoDetails
    \/ shown = "export" /\ Exports!DialogInit /\ NoReview /\ NoExports /\ NoDetails
    \/ shown = "object" /\ Details!Init /\ NoReview /\ NoExports /\ NoExport

Next ==
    \/ shown = "review" /\ Review!Next /\ UNCHANGED <<shown, exportsVars, exportVars,
           detailsVars>>
    \/ shown = "exports" /\ Exports!PageNext /\ UNCHANGED <<shown, reviewVars, exportVars,
           detailsVars>>
    \/ shown = "export" /\ Exports!DialogNext /\ UNCHANGED <<shown, reviewVars, exportsVars,
           detailsVars>>
    \/ shown = "object" /\ Details!Next /\ UNCHANGED <<shown, reviewVars, exportsVars,
           exportVars>>

vars == <<shown, reviewVars, exportsVars, exportVars, detailsVars>>
Spec == Init /\ [][Next]_vars

\* Every variable of what is shown has its type: the type invariant of each module.
TypeOK ==
    /\ shown = "review" => Review!TypeOK
    /\ shown = "exports" => Exports!PageTypeOK
    /\ shown = "export" => Exports!DialogTypeOK
    /\ shown = "object" => Details!TypeOK

\* The list of reviews is shown or on its way; once nothing is under way, a listed review is on
\* the server and marked as reviewed exactly if the server has it so, and one listed as not
\* reviewed is on the screen; and one the server has and the screen lacks is announced by the
\* button for new items, unless one marked on this page lingers on the screen. Each but for the
\* cases named in ReviewPage.
ReviewsAgree == shown = "review" => Review!ListComes /\ Review!ViewedIsTrue /\ Review!NothingHidden /\ Review!NoticeComes

\* Every export is shown once, as a running job or as a card, no card is left without its
\* export, a closed export dialog leaves no range behind in the recording view, and cameras
\* nobody chose by hand are those with objects in the range.
ExportsAgree ==
    /\ shown = "exports" => Exports!CardsAreExports
    /\ shown = "export" => Exports!ClosedIsClean /\ Exports!SelectionFits

\* The description in the dialog is that of the object shown, but for a cancel or failed save
\* after the dialog moved on, and the cached list agrees with the server once everything is
\* answered.
DetailsAgree == shown = "object" => Details!ShownIsOwnElse /\ Details!ListIsCurrent
=============================================================================
