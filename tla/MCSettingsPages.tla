-------------------------- MODULE MCSettingsPages ---------------------------
(***************************************************************************)
(* The pages that change the configuration, in one TLC run.                *)
(***************************************************************************)
EXTENDS Naturals

CONSTANTS
    Null,
    MaxEdits,      \* bound: edits and discards of drafts, with what MaxOthers bounds
    MaxSaves,      \* bound: saves, resets and Save Alls started
    MaxOthers,     \* bound: changes made by others and failed requests
    Zones,         \* the zones of cloned cameras
    CameraNames,   \* the names of new cameras
    MaxClone,      \* bound: choices made while cloning
    MaxManage,     \* bound: actions on the list of cameras
    MaxWizard,     \* bound: starts, names and tests of the wizard
    MaxElse,       \* bound: writes of other clients to the cameras
    MaxFaults      \* bound: requests that fail while cloning

VARIABLES
    shown,  \* the settings page the user is on
    keys, draftsServer, draftsConfig, draftsRaw, pendingDataBySection, status, draftsPage,
    camera, draftsProfile, saves, all, anySaving, delivered, raced, edits, starts, others,
    profiles, overrides, profilesActive, profilesConfig, shownActive, profilesDialog,
    profilesJobs, profilesUser, profilesOther, profilesFaults, profilesTold, profilesCrossed,
    history, overlayOpen, urlWhenOpened, backs, pressedOver, left, strays, undone,
    overlayCrossed, overlayUser,
    navServer, navConfig, isAdmin, navPage, pageToggle, selectedCamera, editingProfile,
    navDialog, navJobs, gone, navCrossed, navUser, navOther, navFaults,
    notifSelServer, notifSelConfig, mounted, allEnabled, cameras, cameraSelectionTouched,
    pendingAll, notifSelPending, ours, foreign, saved, notifSelUser, notifSelOther,
    registration, worker, deviceActive, sub, subs, tokens, message, steps, failed, hurried,
    deviceUser, deviceFaults,
    section, global, cams, overrideProfile, overrideActive, schema, overrideUser,
    now, ws, metricsPage, visitedTabs, statsHistory, initialStats, reads, storageRead,
    lastUpdated, ahead, overtaken, outrun, metricsUsers,
    segmentDuration, motionOnly, exporting, time, top, isDragging, timelinePending,
    timelineTold, timelineRaw, timelineCrossed, wandered, timelineUsers, plays,
    zoomLevel, zoomShown, scrollTop, wheelDelta, isZooming, touchStart, fingers, pressed,
    turned, astray, moved, zoomUsers,
    db, reviewed, items, overviewOpen, nodes, scroll, reported, hovered, frame, previewTime,
    orphan, timelineTop, drag, pointer, last, overviewUsers,
    cloneCfg, cloneConfig, cloneOpen, form, selectedCategories, job, marked, due, partly,
    cloneUser, cloneOther, cloneFaults,
    camerasServer, camerasConfig, orderedCameras, dragging, localOverrides, savingCamera,
    editor, camerasRequests, camerasWire, enabled, camerasUser, camerasOther, camerasCrossed,
    wizardOpen, currentStep, wizardData, result, visit, wizardAsked, wizardIsLoading,
    wizardSaves, wizardCameras, go2rtc, wizardUser, wizardCrossed

draftsVars == <<keys, draftsServer, draftsConfig, draftsRaw, pendingDataBySection, status,
    draftsPage, camera, draftsProfile, saves, all, anySaving, delivered, raced, edits, starts,
    others>>
profilesVars == <<profiles, overrides, profilesActive, profilesConfig, shownActive,
    profilesDialog, profilesJobs, profilesUser, profilesOther, profilesFaults, profilesTold,
    profilesCrossed>>
overlayVars == <<history, overlayOpen, urlWhenOpened, backs, pressedOver, left, strays, undone,
    overlayCrossed, overlayUser>>
navVars == <<navServer, navConfig, isAdmin, navPage, pageToggle, selectedCamera,
    editingProfile, navDialog, navJobs, gone, navCrossed, navUser, navOther, navFaults>>
notifSelVars == <<notifSelServer, notifSelConfig, mounted, allEnabled, cameras,
    cameraSelectionTouched, pendingAll, notifSelPending, ours, foreign, saved, notifSelUser,
    notifSelOther>>
deviceVars == <<registration, worker, deviceActive, sub, subs, tokens, message, steps, failed,
    hurried, deviceUser, deviceFaults>>
overrideVars == <<section, global, cams, overrideProfile, overrideActive, schema, overrideUser>>
metricsVars == <<now, ws, metricsPage, visitedTabs, statsHistory, initialStats, reads,
    storageRead, lastUpdated, ahead, overtaken, outrun, metricsUsers>>
timelineVars == <<segmentDuration, motionOnly, exporting, time, top, isDragging,
    timelinePending, timelineTold, timelineRaw, timelineCrossed, wandered, timelineUsers,
    plays>>
zoomVars == <<zoomLevel, zoomShown, scrollTop, wheelDelta, isZooming, touchStart, fingers,
    pressed, turned, astray, moved, zoomUsers>>
overviewVars == <<db, reviewed, items, overviewOpen, nodes, scroll, reported, hovered, frame,
    previewTime, orphan, timelineTop, drag, pointer, last, overviewUsers>>
cloneVars == <<cloneCfg, cloneConfig, cloneOpen, form, selectedCategories, job, marked, due,
    partly, cloneUser, cloneOther, cloneFaults>>
camerasVars == <<camerasServer, camerasConfig, orderedCameras, dragging, localOverrides,
    savingCamera, editor, camerasRequests, camerasWire, enabled, camerasUser, camerasOther,
    camerasCrossed>>
wizardVars == <<wizardOpen, currentStep, wizardData, result, visit, wizardAsked,
    wizardIsLoading, wizardSaves, wizardCameras, go2rtc, wizardUser, wizardCrossed>>

Drafts == INSTANCE SettingsDrafts WITH MaxEdits <- MaxEdits, MaxSaves <- MaxSaves,
    MaxOthers <- MaxOthers, server <- draftsServer, config <- draftsConfig, raw <- draftsRaw,
    page <- draftsPage, profile <- draftsProfile
Overrides == INSTANCE Overrides WITH MaxProfileUser <- 4, MaxOther <- 1, MaxFaults <- 1,
    MaxOverrideUser <- 2, profileActive <- profilesActive, config <- profilesConfig,
    dialog <- profilesDialog, jobs <- profilesJobs, profileUser <- profilesUser,
    other <- profilesOther, faults <- profilesFaults, told <- profilesTold,
    crossed <- profilesCrossed, profile <- overrideProfile
Navigation == INSTANCE Navigation WITH MaxOverlayUser <- 5, MaxNavUser <- 6, MaxOther <- 1,
    MaxFaults <- 1, open <- overlayOpen, server <- navServer, config <- navConfig,
    page <- navPage, dialog <- navDialog, jobs <- navJobs, other <- navOther,
    faults <- navFaults
Notifications == INSTANCE Notifications WITH MaxSelectUser <- 5, MaxOther <- 1,
    MaxDeviceUser <- 4, MaxFaults <- 1, server <- notifSelServer, config <- notifSelConfig,
    pending <- notifSelPending, selectUser <- notifSelUser, other <- notifSelOther,
    active <- deviceActive, faults <- deviceFaults
Metrics == INSTANCE SystemMetrics WITH MaxTime <- 4, MaxUser <- 2, page <- metricsPage,
    users <- metricsUsers
Timeline == INSTANCE Timeline WITH MaxMotionUser <- 3, MaxPlay <- 1, MaxZoomUser <- 5,
    MaxOverviewUser <- 4, motionSegmentDuration <- segmentDuration, motionTime <- time,
    motionTop <- top, pending <- timelinePending, told <- timelineTold, raw <- timelineRaw,
    crossed <- timelineCrossed, motionUsers <- timelineUsers, zoomScrollTop <- scrollTop,
    zoomMoved <- moved, open <- overviewOpen
Cameras == INSTANCE Cameras WITH MaxManageUser <- MaxManage, MaxOther <- MaxElse,
    Zones <- Zones, MaxCloneUser <- MaxClone, MaxFaults <- MaxFaults, Names <- CameraNames,
    MaxWizardUser <- MaxWizard, cfg <- cloneCfg, faults <- cloneFaults,
    server <- camerasServer, manageConfig <- camerasConfig, requests <- camerasRequests,
    wire <- camerasWire, manageUser <- camerasUser, manageOther <- camerasOther,
    manageCrossed <- camerasCrossed, asked <- wizardAsked, isLoading <- wizardIsLoading,
    saves <- wizardSaves, cameras <- wizardCameras

\* No configuration of a camera, nor its type, its name or a request is the value for none.
ASSUME CamerasAssumption ==
    /\ Null \notin Cameras!CameraConfigs \cup Cameras!Types \cup CameraNames
    /\ Null \notin Cameras!Job \cup Cameras!Result \cup Cameras!Restreams

NoDrafts == keys = Null /\ draftsServer = Null /\ draftsConfig = Null /\ draftsRaw = Null /\
    pendingDataBySection = Null /\ status = Null /\ draftsPage = Null /\ camera = Null /\
    draftsProfile = Null /\ saves = Null /\ all = Null /\ anySaving = Null /\
    delivered = Null /\ raced = Null /\ edits = Null /\ starts = Null /\ others = Null
NoProfiles == profiles = Null /\ overrides = Null /\ profilesActive = Null /\
    profilesConfig = Null /\ shownActive = Null /\ profilesDialog = Null /\
    profilesJobs = Null /\ profilesUser = Null /\ profilesOther = Null /\
    profilesFaults = Null /\ profilesTold = Null /\ profilesCrossed = Null
NoOverlay == history = Null /\ overlayOpen = Null /\ urlWhenOpened = Null /\ backs = Null /\
    pressedOver = Null /\ left = Null /\ strays = Null /\ undone = Null /\
    overlayCrossed = Null /\ overlayUser = Null
NoNav == navServer = Null /\ navConfig = Null /\ isAdmin = Null /\ navPage = Null /\
    pageToggle = Null /\ selectedCamera = Null /\ editingProfile = Null /\ navDialog = Null /\
    navJobs = Null /\ gone = Null /\ navCrossed = Null /\ navUser = Null /\ navOther = Null /\
    navFaults = Null
NoNotifSel == notifSelServer = Null /\ notifSelConfig = Null /\ mounted = Null /\
    allEnabled = Null /\ cameras = Null /\ cameraSelectionTouched = Null /\
    pendingAll = Null /\ notifSelPending = Null /\ ours = Null /\ foreign = Null /\
    saved = Null /\ notifSelUser = Null /\ notifSelOther = Null
NoDevice == registration = Null /\ worker = Null /\ deviceActive = Null /\ sub = Null /\
    subs = Null /\ tokens = Null /\ message = Null /\ steps = Null /\ failed = Null /\
    hurried = Null /\ deviceUser = Null /\ deviceFaults = Null
NoOverride == section = Null /\ global = Null /\ cams = Null /\ overrideProfile = Null /\
    overrideActive = Null /\ schema = Null /\ overrideUser = Null
NoMetrics == now = Null /\ ws = Null /\ metricsPage = Null /\ visitedTabs = Null /\
    statsHistory = Null /\ initialStats = Null /\ reads = Null /\ storageRead = Null /\
    lastUpdated = Null /\ ahead = Null /\ overtaken = Null /\ outrun = Null /\
    metricsUsers = Null
NoTimeline == segmentDuration = Null /\ motionOnly = Null /\ exporting = Null /\ time = Null /\
    top = Null /\ isDragging = Null /\ timelinePending = Null /\ timelineTold = Null /\
    timelineRaw = Null /\ timelineCrossed = Null /\ wandered = Null /\ timelineUsers = Null /\
    plays = Null
NoZoom == zoomLevel = Null /\ zoomShown = Null /\ scrollTop = Null /\ wheelDelta = Null /\
    isZooming = Null /\ touchStart = Null /\ fingers = Null /\ pressed = Null /\
    turned = Null /\ astray = Null /\ moved = Null /\ zoomUsers = Null
NoOverview == db = Null /\ reviewed = Null /\ items = Null /\ overviewOpen = Null /\
    nodes = Null /\ scroll = Null /\ reported = Null /\ hovered = Null /\ frame = Null /\
    previewTime = Null /\ orphan = Null /\ timelineTop = Null /\ drag = Null /\
    pointer = Null /\ last = Null /\ overviewUsers = Null
NoClone == cloneCfg = Null /\ cloneConfig = Null /\ cloneOpen = Null /\ form = Null /\
    selectedCategories = Null /\ job = Null /\ marked = Null /\ due = Null /\ partly = Null /\
    cloneUser = Null /\ cloneOther = Null /\ cloneFaults = Null
NoCameras == camerasServer = Null /\ camerasConfig = Null /\ orderedCameras = Null /\
    dragging = Null /\ localOverrides = Null /\ savingCamera = Null /\ editor = Null /\
    camerasRequests = Null /\ camerasWire = Null /\ enabled = Null /\ camerasUser = Null /\
    camerasOther = Null /\ camerasCrossed = Null
NoWizard == wizardOpen = Null /\ currentStep = Null /\ wizardData = Null /\ result = Null /\
    visit = Null /\ wizardAsked = Null /\ wizardIsLoading = Null /\ wizardSaves = Null /\
    wizardCameras = Null /\ go2rtc = Null /\ wizardUser = Null /\ wizardCrossed = Null

\* The settings page the user is on: the others are not mounted.
Init ==
    \/ shown = "drafts" /\ Drafts!Init /\ NoProfiles /\ NoOverlay /\ NoNav /\ NoNotifSel /\
           NoDevice /\ NoOverride /\ NoMetrics /\ NoTimeline /\ NoZoom /\ NoOverview /\
           NoClone /\ NoCameras /\ NoWizard
    \/ shown = "profiles" /\ Overrides!ProfileInit /\ NoDrafts /\ NoOverlay /\ NoNav /\
           NoNotifSel /\ NoDevice /\ NoOverride /\ NoMetrics /\ NoTimeline /\ NoZoom /\
           NoOverview /\ NoClone /\ NoCameras /\ NoWizard
    \/ shown = "overlay" /\ Navigation!OverlayInit /\ NoDrafts /\ NoProfiles /\ NoNav /\
           NoNotifSel /\ NoDevice /\ NoOverride /\ NoMetrics /\ NoTimeline /\ NoZoom /\
           NoOverview /\ NoClone /\ NoCameras /\ NoWizard
    \/ shown = "nav" /\ Navigation!NavInit /\ NoDrafts /\ NoProfiles /\ NoOverlay /\
           NoNotifSel /\ NoDevice /\ NoOverride /\ NoMetrics /\ NoTimeline /\ NoZoom /\
           NoOverview /\ NoClone /\ NoCameras /\ NoWizard
    \/ shown = "notifsel" /\ Notifications!SelectInit /\ NoDrafts /\ NoProfiles /\ NoOverlay /\
           NoNav /\ NoDevice /\ NoOverride /\ NoMetrics /\ NoTimeline /\ NoZoom /\
           NoOverview /\ NoClone /\ NoCameras /\ NoWizard
    \/ shown = "device" /\ Notifications!DeviceInit /\ NoDrafts /\ NoProfiles /\ NoOverlay /\
           NoNav /\ NoNotifSel /\ NoOverride /\ NoMetrics /\ NoTimeline /\ NoZoom /\
           NoOverview /\ NoClone /\ NoCameras /\ NoWizard
    \/ shown = "override" /\ Overrides!OverrideInit /\ NoDrafts /\ NoProfiles /\ NoOverlay /\
           NoNav /\ NoNotifSel /\ NoDevice /\ NoMetrics /\ NoTimeline /\ NoZoom /\
           NoOverview /\ NoClone /\ NoCameras /\ NoWizard
    \/ shown = "metrics" /\ Metrics!Init /\ NoDrafts /\ NoProfiles /\ NoOverlay /\ NoNav /\
           NoNotifSel /\ NoDevice /\ NoOverride /\ NoTimeline /\ NoZoom /\ NoOverview /\
           NoClone /\ NoCameras /\ NoWizard
    \/ shown = "timeline" /\ Timeline!MotionInit /\ NoDrafts /\ NoProfiles /\ NoOverlay /\
           NoNav /\ NoNotifSel /\ NoDevice /\ NoOverride /\ NoMetrics /\ NoZoom /\
           NoOverview /\ NoClone /\ NoCameras /\ NoWizard
    \/ shown = "zoom" /\ Timeline!ZoomInit /\ NoDrafts /\ NoProfiles /\ NoOverlay /\ NoNav /\
           NoNotifSel /\ NoDevice /\ NoOverride /\ NoMetrics /\ NoTimeline /\ NoOverview /\
           NoClone /\ NoCameras /\ NoWizard
    \/ shown = "overview" /\ Timeline!OverviewInit /\ NoDrafts /\ NoProfiles /\ NoOverlay /\
           NoNav /\ NoNotifSel /\ NoDevice /\ NoOverride /\ NoMetrics /\ NoTimeline /\
           NoZoom /\ NoClone /\ NoCameras /\ NoWizard
    \/ shown = "clone" /\ Cameras!CloneInit /\ NoDrafts /\ NoProfiles /\ NoOverlay /\ NoNav /\
           NoNotifSel /\ NoDevice /\ NoOverride /\ NoMetrics /\ NoTimeline /\ NoZoom /\
           NoOverview /\ NoCameras /\ NoWizard
    \/ shown = "cameras" /\ Cameras!ManageInit /\ NoDrafts /\ NoProfiles /\ NoOverlay /\
           NoNav /\ NoNotifSel /\ NoDevice /\ NoOverride /\ NoMetrics /\ NoTimeline /\
           NoZoom /\ NoOverview /\ NoClone /\ NoWizard
    \/ shown = "wizard" /\ Cameras!WizardInit /\ NoDrafts /\ NoProfiles /\ NoOverlay /\
           NoNav /\ NoNotifSel /\ NoDevice /\ NoOverride /\ NoMetrics /\ NoTimeline /\
           NoZoom /\ NoOverview /\ NoClone /\ NoCameras

Next ==
    \/ shown = "drafts" /\ Drafts!Next /\ UNCHANGED <<shown, profilesVars, overlayVars,
           navVars, notifSelVars, deviceVars, overrideVars, metricsVars, timelineVars,
           zoomVars, overviewVars, cloneVars, camerasVars, wizardVars>>
    \/ shown = "profiles" /\ Overrides!ProfileNext /\ UNCHANGED <<shown, draftsVars,
           overlayVars, navVars, notifSelVars, deviceVars, overrideVars, metricsVars,
           timelineVars, zoomVars, overviewVars, cloneVars, camerasVars, wizardVars>>
    \/ shown = "overlay" /\ Navigation!OverlayNext /\ UNCHANGED <<shown, draftsVars,
           profilesVars, navVars, notifSelVars, deviceVars, overrideVars, metricsVars,
           timelineVars, zoomVars, overviewVars, cloneVars, camerasVars, wizardVars>>
    \/ shown = "nav" /\ Navigation!NavNext /\ UNCHANGED <<shown, draftsVars, profilesVars,
           overlayVars, notifSelVars, deviceVars, overrideVars, metricsVars, timelineVars,
           zoomVars, overviewVars, cloneVars, camerasVars, wizardVars>>
    \/ shown = "notifsel" /\ Notifications!SelectNext /\ UNCHANGED <<shown, draftsVars,
           profilesVars, overlayVars, navVars, deviceVars, overrideVars, metricsVars,
           timelineVars, zoomVars, overviewVars, cloneVars, camerasVars, wizardVars>>
    \/ shown = "device" /\ Notifications!DeviceNext /\ UNCHANGED <<shown, draftsVars,
           profilesVars, overlayVars, navVars, notifSelVars, overrideVars, metricsVars,
           timelineVars, zoomVars, overviewVars, cloneVars, camerasVars, wizardVars>>
    \/ shown = "override" /\ Overrides!OverrideNext /\ UNCHANGED <<shown, draftsVars,
           profilesVars, overlayVars, navVars, notifSelVars, deviceVars, metricsVars,
           timelineVars, zoomVars, overviewVars, cloneVars, camerasVars, wizardVars>>
    \/ shown = "metrics" /\ Metrics!Next /\ UNCHANGED <<shown, draftsVars, profilesVars,
           overlayVars, navVars, notifSelVars, deviceVars, overrideVars, timelineVars,
           zoomVars, overviewVars, cloneVars, camerasVars, wizardVars>>
    \/ shown = "timeline" /\ Timeline!MotionNext /\ UNCHANGED <<shown, draftsVars,
           profilesVars, overlayVars, navVars, notifSelVars, deviceVars, overrideVars,
           metricsVars, zoomVars, overviewVars, cloneVars, camerasVars, wizardVars>>
    \/ shown = "zoom" /\ Timeline!ZoomNext /\ UNCHANGED <<shown, draftsVars, profilesVars,
           overlayVars, navVars, notifSelVars, deviceVars, overrideVars, metricsVars,
           timelineVars, overviewVars, cloneVars, camerasVars, wizardVars>>
    \/ shown = "overview" /\ Timeline!OverviewNext /\ UNCHANGED <<shown, draftsVars,
           profilesVars, overlayVars, navVars, notifSelVars, deviceVars, overrideVars,
           metricsVars, timelineVars, zoomVars, cloneVars, camerasVars, wizardVars>>
    \/ shown = "clone" /\ Cameras!CloneNext /\ UNCHANGED <<shown, draftsVars, profilesVars,
           overlayVars, navVars, notifSelVars, deviceVars, overrideVars, metricsVars,
           timelineVars, zoomVars, overviewVars, camerasVars, wizardVars>>
    \/ shown = "cameras" /\ Cameras!ManageNext /\ UNCHANGED <<shown, draftsVars, profilesVars,
           overlayVars, navVars, notifSelVars, deviceVars, overrideVars, metricsVars,
           timelineVars, zoomVars, overviewVars, cloneVars, wizardVars>>
    \/ shown = "wizard" /\ Cameras!WizardNext /\ UNCHANGED <<shown, draftsVars, profilesVars,
           overlayVars, navVars, notifSelVars, deviceVars, overrideVars, metricsVars,
           timelineVars, zoomVars, overviewVars, cloneVars, camerasVars>>

vars == <<shown, draftsVars, profilesVars, overlayVars, navVars, notifSelVars, deviceVars,
    overrideVars, metricsVars, timelineVars, zoomVars, overviewVars, cloneVars, camerasVars,
    wizardVars>>

\* The fairness of each module, while it is the one shown.
Fairness ==
    /\ WF_draftsVars(shown = "drafts" /\ Drafts!SaveAllEnd)
    /\ \A k \in Drafts!AllKeys : WF_draftsVars(shown = "drafts" /\ Drafts!AnswerStep(k))

Spec == Init /\ [][Next]_vars /\ Fairness

\* Every variable of what is shown has its type: the type invariant of each module.
TypeOK ==
    /\ shown = "drafts" => Drafts!TypeOK
    /\ shown = "profiles" => Overrides!ProfileTypeOK
    /\ shown = "overlay" => Navigation!OverlayTypeOK
    /\ shown = "nav" => Navigation!NavTypeOK
    /\ shown = "notifsel" => Notifications!SelectTypeOK
    /\ shown = "device" => Notifications!DeviceTypeOK
    /\ shown = "override" => Overrides!OverrideTypeOK
    /\ shown = "metrics" => Metrics!TypeOK
    /\ shown = "timeline" => Timeline!MotionTypeOK
    /\ shown = "zoom" => Timeline!ZoomTypeOK
    /\ shown = "overview" => Timeline!OverviewTypeOK
    /\ shown = "clone" => Cameras!CloneTypeOK
    /\ shown = "cameras" => Cameras!ManageTypeOK
    /\ shown = "wizard" => Cameras!WizardTypeOK

\* A draft that is not on screen and would change something has its dot in the menu, Save All
\* is only refused when some draft is invalid, and what the settings pages show as set,
\* registered, active or overridden is so once nothing is under way; each but for the cases
\* named in its module.
SettingsAgree ==
    /\ shown = "drafts" => Drafts!DotIsTruthful /\ Drafts!NeverBlocked
    /\ shown = "profiles" => Overrides!ActiveExists /\ Overrides!OverridesHaveProfile /\
           Overrides!ShownIsServers /\ Overrides!ToldIsDone
    /\ shown = "overlay" => Navigation!NothingLeft /\ Navigation!BackOnlyCloses /\
           Navigation!ClosedAsAsked /\ Navigation!UrlIsKept
    /\ shown = "nav" => Navigation!CameraIsEnabled /\ Navigation!ViewerIsConfined /\
           Navigation!RemovesWhatWasAsked
    /\ shown = "notifsel" => Notifications!SavedAsShown /\ Notifications!BackIsClean /\
           Notifications!OursAreShown
    /\ shown = "device" => Notifications!RegisteredGetsOnce /\
           Notifications!UnregisteredGetsNone /\ Notifications!MessageIsOfDevice
    /\ shown = "override" => Overrides!InheritsUnmarked /\ Overrides!MarkedIsListed /\
           Overrides!ListedDiffer /\ Overrides!SummaryAgrees /\ Overrides!ProfileSurfaces
    /\ shown = "metrics" => Metrics!PointsAreDated /\ Metrics!ColumnsAreCards /\
           Metrics!OrderUnlessAhead /\ Metrics!CurrentUnlessOvertaken
    /\ shown = "timeline" => Timeline!HandleIsPlaced /\ Timeline!DroppedIsTold /\
           Timeline!EndStaysBehind /\ Timeline!StartIsNear /\ Timeline!MotionIsCountedOnce /\
           Timeline!ListedIsDrawn /\ Timeline!ReducedIsListed /\ Timeline!ScrolledToIsInView
    /\ shown = "zoom" => Timeline!LevelsAgree /\ Timeline!MiddleStays /\ Timeline!TurnsAreUsed
    /\ shown = "overview" => Timeline!MinimapIsView /\ Timeline!HandlebarEnds /\
           Timeline!HandlebarInView /\ Timeline!LatestInView /\ Timeline!SummaryTiles /\
           Timeline!SummaryShows /\ Timeline!BoxIsUnderPointer

\* A camera cloned, reordered, switched off, edited or added is on the server what the user was
\* told it is; each but for the cases named in CloneCamera, CameraManagement and CameraWizard.
CamerasAgree ==
    /\ shown = "clone" => Cameras!SuccessIsCopy /\ Cameras!RefusedForAReason /\
           Cameras!RestartIsMarked
    /\ shown = "cameras" => Cameras!OrderIsShown /\ Cameras!DisabledIsOff /\
           Cameras!TypeIsSaved /\ Cameras!UntypedIsKept
    /\ shown = "wizard" => Cameras!SavedIsOwn /\ Cameras!RestreamExists

\* What the user typed goes only when the user discards it, when the server has taken it as it
\* stands, or when it was changed while a save of its section was running.
DraftsSurvive == [][shown = "drafts" => Drafts!DraftsStep]_draftsVars

\* Every save ends, and with it the lock on Save All.
SavingEnds == (shown = "drafts" /\ Drafts!Saving) ~> (shown = "drafts" => ~Drafts!Saving)
=============================================================================
