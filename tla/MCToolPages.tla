---------------------------- MODULE MCToolPages -----------------------------
(***************************************************************************)
(* The pages and dialogs beside live view, review and settings, in one TLC run.*)
(***************************************************************************)
EXTENDS Naturals

CONSTANTS
    Null,
    MaxSearch,      \* bound: the user's motion searches
    MaxMotion,      \* bound: other clients' searches, changes of camera and moves beside them
    Images,         \* the training images
    Categories,     \* what they are sorted into
    Waiting,        \* the images that wait for it in the beginning; of the others, those that do not
    Coming,         \* come, saved by recognition while the page is open, are
    First,          \* in this category
    SaveAttempts,   \* as many images wait at most
    MinClasses,     \* a custom model keeps as many categories
    MaxLibrary,     \* bound: actions of the user of the library
    LiveCameras,    \* the cameras of the dashboard
    FirstCamera,    \* the one that all groups have
    MaxEvents,      \* bound: manual events
    MaxLive,        \* bound: actions on the dashboard or on the page of a camera
    MaxLiveElse,    \* bound: groups taken away by other clients
    MaxTold         \* bound: transcriptions switched by other clients

VARIABLES
    shown,  \* the tool the user is on
    detail, mainCamera, selectedRangeIdx, playbackStart, recordingCurrentTime, playerTime,
    scrubbing, cached, source, noRecording, controller, recordingVideo, want, upset, users,
    steps,
    jobs, motionWire, payload, posts, cancels, ui, roi, mounted, motionAsked, late, hidden,
    motionOthers,
    zonesServer, zonesConfig, fetch, kind, list, editing, pane, profile, req, zonesIsLoading,
    ghost, failed, used, zonesOthers,
    points, pointsOrder, isFinished, added, torn,
    library, files, data, libraryAsked, answers, libraryPage, librarySelected, deleteDialog,
    libraryRequests, state, told, modelState, wasTraining, libraryUser, came, news, given,
    missed, early,
    groups, dashboardConfig, reading, group, stored, migrated, ops, gridLayout, loadedKey,
    isLoaded, currentGridLayout, isEditMode, allSettings, audioStates, dialog, request, chosen,
    unheard, dashboardUser, dashboardOther, crossed,
    recorded, gop, event, trackingAnnotationOffset, sourceOffsetRef, sourceOffset,
    recordingsOffset, recordings, manifest, trackingVideo, trackingCurrentTime, isOpen,
    trackingPinned, trackingAsked, trackingUser,
    streamCfg, streamConfig, camera, isDetailMode, streamCurrentTime, streamAnnotationOffset,
    streamSelected, controls, before, streamPinned, activeReview, opened, saving, streamHeld,
    moved, restored, streamUser,
    restreamed, candidates, viewPage, debug, events, recordingEventId, isRecording,
    viewRequests, stray, streamName, mic, webRTC, lowBandwidth, failedModes, transcription,
    viewWire, transcriptionState, viewAsked, viewHeld, moving, aim, viewUser, viewOther

recordingVars == <<detail, mainCamera, selectedRangeIdx, playbackStart, recordingCurrentTime,
    playerTime, scrubbing, cached, source, noRecording, controller, recordingVideo, want,
    upset, users, steps>>
motionVars == <<jobs, motionWire, payload, posts, cancels, ui, roi, mounted, motionAsked, late,
    hidden, motionOthers>>
zonesVars == <<zonesServer, zonesConfig, fetch, kind, list, editing, pane, profile, req,
    zonesIsLoading, ghost, failed, used, zonesOthers>>
drawingVars == <<points, pointsOrder, isFinished, added, torn>>
libraryVars == <<library, files, data, libraryAsked, answers, libraryPage, librarySelected,
    deleteDialog, libraryRequests, state, told, modelState, wasTraining, libraryUser, came,
    news, given, missed, early>>
dashboardVars == <<groups, dashboardConfig, reading, group, stored, migrated, ops, gridLayout,
    loadedKey, isLoaded, currentGridLayout, isEditMode, allSettings, audioStates, dialog,
    request, chosen, unheard, dashboardUser, dashboardOther, crossed>>
trackingVars == <<recorded, gop, event, trackingAnnotationOffset, sourceOffsetRef,
    sourceOffset, recordingsOffset, recordings, manifest, trackingVideo, trackingCurrentTime,
    isOpen, trackingPinned, trackingAsked, trackingUser>>
streamVars == <<streamCfg, streamConfig, camera, isDetailMode, streamCurrentTime,
    streamAnnotationOffset, streamSelected, controls, before, streamPinned, activeReview,
    opened, saving, streamHeld, moved, restored, streamUser>>
viewVars == <<restreamed, candidates, viewPage, debug, events, recordingEventId, isRecording,
    viewRequests, stray, streamName, mic, webRTC, lowBandwidth, failedModes, transcription,
    viewWire, transcriptionState, viewAsked, viewHeld, moving, aim, viewUser, viewOther>>

Recording == INSTANCE RecordingPlayback WITH MaxUser <- 2, MaxSteps <- 1,
    currentTime <- recordingCurrentTime, video <- recordingVideo
Motion == INSTANCE MotionSearch WITH MaxSearch <- MaxSearch, MaxOther <- MaxMotion,
    wire <- motionWire, asked <- motionAsked, others <- motionOthers
ZonesAndMasks == INSTANCE ZonesAndMasks WITH MaxUser <- 2, MaxOther <- 1, MaxAdds <- 5,
    server <- zonesServer, config <- zonesConfig, isLoading <- zonesIsLoading,
    others <- zonesOthers
Library == INSTANCE TrainingLibrary WITH Images <- Images, Categories <- Categories,
    Waiting <- Waiting, Coming <- Coming, First <- First, SaveAttempts <- SaveAttempts,
    MinClasses <- MinClasses, MaxUser <- MaxLibrary, asked <- libraryAsked,
    page <- libraryPage, selected <- librarySelected, requests <- libraryRequests,
    user <- libraryUser
Live == INSTANCE Live WITH AllCameras <- LiveCameras, First <- FirstCamera, MaxUser <- MaxLive,
    MaxDashboardOther <- MaxLiveElse, MaxEvents <- MaxEvents, MaxViewOther <- MaxTold,
    dashboardCrossed <- crossed, page <- viewPage, requests <- viewRequests, wire <- viewWire,
    asked <- viewAsked, held <- viewHeld
ObjectTracking == INSTANCE ObjectTracking WITH MaxTrackingUser <- 3, MaxStreamUser <- 6,
    MaxTime <- 6, video <- trackingVideo, asked <- trackingAsked, cfg <- streamCfg,
    config <- streamConfig, selected <- streamSelected, held <- streamHeld

\* No number, job or message is the value that stands for none.
ASSUME SearchAssumption == MaxSearch \in Nat /\ Null \notin Nat \cup Motion!Job \cup Motion!Message

\* Some images wait, others come, and no category is called "train"; neither images nor a list
\* of them are the value that stands for none.
ASSUME LibraryAssumption ==
    /\ Waiting \subseteq Images /\ Coming \subseteq Images \ Waiting /\ First \in Categories /\ "train" \notin Categories
    /\ \A S \in SUBSET Images : S # Null
    /\ \A P \in SUBSET Library!Pages : Null \notin [P -> (SUBSET Images) \cup {Null}]

\* Nor is a layout, a setting, a group or a write of one.
ASSUME LiveAssumption ==
    /\ FirstCamera \in LiveCameras
    /\ Null \notin Live!Layouts \cup Live!Setting \cup Live!Settings \cup Live!Groups
    /\ Null \notin Live!Write /\ \A S \in SUBSET LiveCameras : S # Null

NoRecording == detail = Null /\ mainCamera = Null /\ selectedRangeIdx = Null /\
    playbackStart = Null /\ recordingCurrentTime = Null /\ playerTime = Null /\
    scrubbing = Null /\ cached = Null /\ source = Null /\ noRecording = Null /\
    controller = Null /\ recordingVideo = Null /\ want = Null /\ upset = Null /\
    users = Null /\ steps = Null
NoMotion == jobs = Null /\ motionWire = Null /\ payload = Null /\ posts = Null /\
    cancels = Null /\ ui = Null /\ roi = Null /\ mounted = Null /\ motionAsked = Null /\
    late = Null /\ hidden = Null /\ motionOthers = Null
NoZones == zonesServer = Null /\ zonesConfig = Null /\ fetch = Null /\ kind = Null /\
    list = Null /\ editing = Null /\ pane = Null /\ profile = Null /\ req = Null /\
    zonesIsLoading = Null /\ ghost = Null /\ failed = Null /\ used = Null /\ zonesOthers = Null
NoDrawing == points = Null /\ pointsOrder = Null /\ isFinished = Null /\ added = Null /\
    torn = Null
NoLibrary == library = Null /\ files = Null /\ data = Null /\ libraryAsked = Null /\
    answers = Null /\ libraryPage = Null /\ librarySelected = Null /\ deleteDialog = Null /\
    libraryRequests = Null /\ state = Null /\ told = Null /\ modelState = Null /\
    wasTraining = Null /\ libraryUser = Null /\ came = Null /\ news = Null /\ given = Null /\
    missed = Null /\ early = Null
NoDashboard == groups = Null /\ dashboardConfig = Null /\ reading = Null /\ group = Null /\
    stored = Null /\ migrated = Null /\ ops = Null /\ gridLayout = Null /\ loadedKey = Null /\
    isLoaded = Null /\ currentGridLayout = Null /\ isEditMode = Null /\ allSettings = Null /\
    audioStates = Null /\ dialog = Null /\ request = Null /\ chosen = Null /\ unheard = Null /\
    dashboardUser = Null /\ dashboardOther = Null /\ crossed = Null
NoTracking == recorded = Null /\ gop = Null /\ event = Null /\
    trackingAnnotationOffset = Null /\ sourceOffsetRef = Null /\ sourceOffset = Null /\
    recordingsOffset = Null /\ recordings = Null /\ manifest = Null /\ trackingVideo = Null /\
    trackingCurrentTime = Null /\ isOpen = Null /\ trackingPinned = Null /\
    trackingAsked = Null /\ trackingUser = Null
NoStream == streamCfg = Null /\ streamConfig = Null /\ camera = Null /\ isDetailMode = Null /\
    streamCurrentTime = Null /\ streamAnnotationOffset = Null /\ streamSelected = Null /\
    controls = Null /\ before = Null /\ streamPinned = Null /\ activeReview = Null /\
    opened = Null /\ saving = Null /\ streamHeld = Null /\ moved = Null /\ restored = Null /\
    streamUser = Null
NoView == restreamed = Null /\ candidates = Null /\ viewPage = Null /\ debug = Null /\
    events = Null /\ recordingEventId = Null /\ isRecording = Null /\ viewRequests = Null /\
    stray = Null /\ streamName = Null /\ mic = Null /\ webRTC = Null /\ lowBandwidth = Null /\
    failedModes = Null /\ transcription = Null /\ viewWire = Null /\
    transcriptionState = Null /\ viewAsked = Null /\ viewHeld = Null /\ moving = Null /\
    aim = Null /\ viewUser = Null /\ viewOther = Null

\* The tool the user is on: the others are not mounted.
Init ==
    \/ shown = "recording" /\ Recording!Init /\ NoMotion /\ NoZones /\ NoDrawing /\
           NoLibrary /\ NoDashboard /\ NoTracking /\ NoStream /\ NoView
    \/ shown = "motion" /\ Motion!Init /\ NoRecording /\ NoZones /\ NoDrawing /\ NoLibrary /\
           NoDashboard /\ NoTracking /\ NoStream /\ NoView
    \/ shown = "zones" /\ ZonesAndMasks!ZoneInit /\ NoRecording /\ NoMotion /\ NoDrawing /\
           NoLibrary /\ NoDashboard /\ NoTracking /\ NoStream /\ NoView
    \/ shown = "drawing" /\ ZonesAndMasks!DrawingInit /\ NoRecording /\ NoMotion /\ NoZones /\
           NoLibrary /\ NoDashboard /\ NoTracking /\ NoStream /\ NoView
    \/ shown = "library" /\ Library!Init /\ NoRecording /\ NoMotion /\ NoZones /\ NoDrawing /\
           NoDashboard /\ NoTracking /\ NoStream /\ NoView
    \/ shown = "dashboard" /\ Live!DashboardInit /\ NoRecording /\ NoMotion /\ NoZones /\
           NoDrawing /\ NoLibrary /\ NoTracking /\ NoStream /\ NoView
    \/ shown = "tracking" /\ ObjectTracking!TrackingInit /\ NoRecording /\ NoMotion /\
           NoZones /\ NoDrawing /\ NoLibrary /\ NoDashboard /\ NoStream /\ NoView
    \/ shown = "stream" /\ ObjectTracking!StreamInit /\ NoRecording /\ NoMotion /\ NoZones /\
           NoDrawing /\ NoLibrary /\ NoDashboard /\ NoTracking /\ NoView
    \/ shown = "view" /\ Live!ViewInit /\ NoRecording /\ NoMotion /\ NoZones /\ NoDrawing /\
           NoLibrary /\ NoDashboard /\ NoTracking /\ NoStream

Next ==
    \/ shown = "recording" /\ Recording!Next /\ UNCHANGED <<shown, motionVars, zonesVars,
           drawingVars, libraryVars, dashboardVars, trackingVars, streamVars, viewVars>>
    \/ shown = "motion" /\ Motion!Next /\ UNCHANGED <<shown, recordingVars, zonesVars,
           drawingVars, libraryVars, dashboardVars, trackingVars, streamVars, viewVars>>
    \/ shown = "zones" /\ ZonesAndMasks!ZoneNext /\ UNCHANGED <<shown, recordingVars,
           motionVars, drawingVars, libraryVars, dashboardVars, trackingVars, streamVars,
           viewVars>>
    \/ shown = "drawing" /\ ZonesAndMasks!DrawingNext /\ UNCHANGED <<shown, recordingVars,
           motionVars, zonesVars, libraryVars, dashboardVars, trackingVars, streamVars,
           viewVars>>
    \/ shown = "library" /\ Library!Next /\ UNCHANGED <<shown, recordingVars, motionVars,
           zonesVars, drawingVars, dashboardVars, trackingVars, streamVars, viewVars>>
    \/ shown = "dashboard" /\ Live!DashboardNext /\ UNCHANGED <<shown, recordingVars,
           motionVars, zonesVars, drawingVars, libraryVars, trackingVars, streamVars, viewVars>>
    \/ shown = "tracking" /\ ObjectTracking!TrackingNext /\ UNCHANGED <<shown, recordingVars,
           motionVars, zonesVars, drawingVars, libraryVars, dashboardVars, streamVars,
           viewVars>>
    \/ shown = "stream" /\ ObjectTracking!StreamNext /\ UNCHANGED <<shown, recordingVars,
           motionVars, zonesVars, drawingVars, libraryVars, dashboardVars, trackingVars,
           viewVars>>
    \/ shown = "view" /\ Live!ViewNext /\ UNCHANGED <<shown, recordingVars, motionVars,
           zonesVars, drawingVars, libraryVars, dashboardVars, trackingVars, streamVars>>

vars == <<shown, recordingVars, motionVars, zonesVars, drawingVars, libraryVars, dashboardVars,
    trackingVars, streamVars, viewVars>>
Spec == Init /\ [][Next]_vars

\* Every variable of what is shown has its type: the type invariant of each module.
TypeOK ==
    /\ shown = "recording" => Recording!TypeOK
    /\ shown = "motion" => Motion!TypeOK
    /\ shown = "zones" => ZonesAndMasks!ZoneTypeOK
    /\ shown = "drawing" => ZonesAndMasks!DrawingTypeOK
    /\ shown = "library" => Library!TypeOK
    /\ shown = "dashboard" => Live!DashboardTypeOK
    /\ shown = "tracking" => ObjectTracking!TrackingTypeOK
    /\ shown = "stream" => ObjectTracking!StreamTypeOK
    /\ shown = "view" => Live!ViewTypeOK

\* The hits listed are those of the last motion search, a search shown as running is, and the
\* server runs none that nobody waits for; each but for searches given up before they were
\* answered.
SearchIsOwn == shown = "motion" => Motion!ResultsAreOfSearch /\ Motion!SearchingIsReal /\ Motion!NoOrphan

\* What is edited of a zone or mask is a copy that a cancel drops, the list is that of the
\* configuration once nothing is under way, and undo takes back the last corner drawn; each but
\* for the cases named in ZoneEditor and PolygonDrawing.
ZonesAgree ==
    /\ shown = "zones" => ZonesAndMasks!PaneIsOwn /\ ZonesAndMasks!CopyIsList /\
           ZonesAndMasks!ListIsConfig /\ ZonesAndMasks!SavedIsRead
    /\ shown = "drawing" => ZonesAndMasks!UndoRemovesLastElse /\ ZonesAndMasks!FinishedHasThree

\* A training image leaves the library only if the user gave it up or newer ones were waiting;
\* once nothing is under way the lists shown are the server's, but for what recognition has
\* saved or dropped since they were read; and the end of a training is told. Each but for the
\* cases named in TrainingLibrary.
LibraryAgrees == shown = "library" => Library!OnlyGivenUp /\ Library!ListIsCurrent /\ Library!EndIsTold

\* What the browser stores of a dashboard is stored under the group it was chosen in, the sound
\* heard is the one chosen, the group shown exists; and the page of a camera leaves no event
\* open, no failed player on and no camera moving; each but for the cases named in
\* LiveDashboard and CameraView.
DashboardAgrees ==
    /\ shown = "dashboard" => Live!StoredIsOwn /\ Live!HeardIsChosen /\ Live!GroupExists
    /\ shown = "view" => Live!OpenIsOwn /\ Live!FailedIsLeft /\ Live!LastAskWins /\
           Live!CameraObeys

\* The video is where the user's last request put it, and the moment, the objects and the boxes
\* shown over it are those of the frame on screen; each but for the cases named in
\* RecordingPlayback, TrackingDetails and DetailStream.
FootageFollows ==
    /\ shown = "recording" => Recording!SeekLands /\ Recording!SourceFollows
    /\ shown = "tracking" => ObjectTracking!TimeIsFrame /\ ObjectTracking!SeekLands /\
           ObjectTracking!OverlayIsPinned
    /\ shown = "stream" => ObjectTracking!SelectionIsOwn /\ ObjectTracking!NoneIsOver /\
           ObjectTracking!HeldIsShown /\ ObjectTracking!OffsetIsOwn
=============================================================================
