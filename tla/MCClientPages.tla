--------------------------- MODULE MCClientPages ----------------------------
(***************************************************************************)
(* The pages of search, of the system and of the settings that are no plain form, in one TLC run.*)
(***************************************************************************)
CONSTANT Null

VARIABLES
    shown,  \* the page or dialog the user is on
    exploreUrl, past, search, saved, exploreCurrent, exploreOpen, labels, events, data, size,
    selected, asked, exploreKept, exploreUser, exploreOther, exploreCrossed,
    filtersPage, filter, copy, filtersOpen, typed, grouped, filtersEdits,
    dbUsers, dbRoles, accountsUsers, roles, accountsReading, accountsDialog, picked,
    accountsCameras, passwordError, accountsLoading, calls, accountsUser, accountsFaults,
    accountsCrossed,
    cfg, embeddings, config, selectedCamera, triggersDialog, unsaved, triggersJob, triggered,
    timer, triggersTold, triggersUser, triggersOther, triggersFaults, triggersCrossed,
    go2RtcServer, running, rawPaths, pending, go2RtcMounted, go2RtcIsLoading, go2RtcDialog,
    jobs, go2RtcUser, go2RtcOther, go2RtcFaults, mine, go2RtcTold, go2RtcCrossed,
    urlUrl, urlEdits, choice, urlKept,
    motionReviewMotion, motionReviewReviews, motionOnly, currentTime, selectedRangeIdx,
    playing, scrubbing, timeoutIdRef, resume, scrubbedTo, strays, motionReviewUser,
    clipsMotion, clipsReviews, clipsFrames, clipsCameras, clipsCamera, clipsDialog,
    motionFilterCells, pendingFilterCells, hour, clipsClip, video, videoPlaying, playbackRate,
    frameIndex, framesReady, loads, clipsUser, ticks,
    session, sessions, runners, active, replayCamera, replayClip, replayFrames, reqs, ws,
    replayJob, replayPage, status, dialogOpen, isStopping, replayCrossed, replayUser,
    replayFaults,
    kind, begun, reviewed, incidentsPage, reviewItems, incidentsLoading, detail,
    incidentsRequests, acknowledgedIds, filters, isMuted, playedIncidentIds, heard, evicted,
    silent, lost, incidentsUsers,
    total, logService, filterSeverity, logs, lines, logsIsLoading, lastFetchedIndex,
    disableStreaming, logsRequests, stream, selectedLog, copied, logsMounted, run, late,
    tangled, logsUsers,
    next, buffer, dirty, messages, paused, selectedTopics, selectedCameras, feedOpen,
    feedCurrent, locked, expanded, accepted, feedUsers,
    modelWizardOpen, step, modelType, areas, mount, isGenerating, hasGenerated, isProcessing,
    isTraining, unknownImages, imageClassifications, currentClassIndex, selectedImages,
    modelWizardRequests, train, modelWizardDataset, folders, configured, made,
    modelWizardCrossed, wanted, gens, mounts, modelWizardUsers, modelWizardFaults,
    cameraAreas, selectedCameraIndex, handed, onScreen, areasUsers,
    modelEditOpen, enabled, classes, deleteDialogOpen, model, modelEditDataset,
    modelEditReading, isSaving, modelEditRequests, modelEditServer, categories, modelEditTold,
    deletedTold, modelEditCrossed, half, modelEditUsers, others, modelEditFaults

exploreVars == <<exploreUrl, past, search, saved, exploreCurrent, exploreOpen, labels, events,
    data, size, selected, asked, exploreKept, exploreUser, exploreOther, exploreCrossed>>
filtersVars == <<filtersPage, filter, copy, filtersOpen, typed, grouped, filtersEdits>>
accountsVars == <<dbUsers, dbRoles, accountsUsers, roles, accountsReading, accountsDialog,
    picked, accountsCameras, passwordError, accountsLoading, calls, accountsUser,
    accountsFaults, accountsCrossed>>
triggersVars == <<cfg, embeddings, config, selectedCamera, triggersDialog, unsaved,
    triggersJob, triggered, timer, triggersTold, triggersUser, triggersOther, triggersFaults,
    triggersCrossed>>
go2RtcVars == <<go2RtcServer, running, rawPaths, pending, go2RtcMounted, go2RtcIsLoading,
    go2RtcDialog, jobs, go2RtcUser, go2RtcOther, go2RtcFaults, mine, go2RtcTold, go2RtcCrossed>>
urlVars == <<urlUrl, urlEdits, choice, urlKept>>
motionReviewVars == <<motionReviewMotion, motionReviewReviews, motionOnly, currentTime,
    selectedRangeIdx, playing, scrubbing, timeoutIdRef, resume, scrubbedTo, strays,
    motionReviewUser>>
clipsVars == <<clipsMotion, clipsReviews, clipsFrames, clipsCameras, clipsCamera, clipsDialog,
    motionFilterCells, pendingFilterCells, hour, clipsClip, video, videoPlaying, playbackRate,
    frameIndex, framesReady, loads, clipsUser, ticks>>
replayVars == <<session, sessions, runners, active, replayCamera, replayClip, replayFrames,
    reqs, ws, replayJob, replayPage, status, dialogOpen, isStopping, replayCrossed, replayUser,
    replayFaults>>
incidentsVars == <<kind, begun, reviewed, incidentsPage, reviewItems, incidentsLoading, detail,
    incidentsRequests, acknowledgedIds, filters, isMuted, playedIncidentIds, heard, evicted,
    silent, lost, incidentsUsers>>
logsVars == <<total, logService, filterSeverity, logs, lines, logsIsLoading, lastFetchedIndex,
    disableStreaming, logsRequests, stream, selectedLog, copied, logsMounted, run, late,
    tangled, logsUsers>>
feedVars == <<next, buffer, dirty, messages, paused, selectedTopics, selectedCameras, feedOpen,
    feedCurrent, locked, expanded, accepted, feedUsers>>
modelWizardVars == <<modelWizardOpen, step, modelType, areas, mount, isGenerating,
    hasGenerated, isProcessing, isTraining, unknownImages, imageClassifications,
    currentClassIndex, selectedImages, modelWizardRequests, train, modelWizardDataset, folders,
    configured, made, modelWizardCrossed, wanted, gens, mounts, modelWizardUsers,
    modelWizardFaults>>
areasVars == <<cameraAreas, selectedCameraIndex, handed, onScreen, areasUsers>>
modelEditVars == <<modelEditOpen, enabled, classes, deleteDialogOpen, model, modelEditDataset,
    modelEditReading, isSaving, modelEditRequests, modelEditServer, categories, modelEditTold,
    deletedTold, modelEditCrossed, half, modelEditUsers, others, modelEditFaults>>

Searching == INSTANCE Searching WITH MaxUser <- 3, MaxOther <- 1, MaxEdits <- 2,
    url <- exploreUrl, current <- exploreCurrent, searchOpen <- exploreOpen,
    kept <- exploreKept, user <- exploreUser, other <- exploreOther, crossed <- exploreCrossed,
    page <- filtersPage, filterOpen <- filtersOpen, edits <- filtersEdits
UsersTriggers == INSTANCE UsersTriggers WITH MaxUser <- 4, MaxFaults <- 1, MaxOther <- 1,
    users <- accountsUsers, reading <- accountsReading, accountDialog <- accountsDialog,
    cameras <- accountsCameras, loading <- accountsLoading, accountUser <- accountsUser,
    accountFaults <- accountsFaults, accountCrossed <- accountsCrossed,
    triggerDialog <- triggersDialog, job <- triggersJob, told <- triggersTold,
    triggerUser <- triggersUser, other <- triggersOther, triggerFaults <- triggersFaults,
    triggerCrossed <- triggersCrossed
Go2Rtc == INSTANCE Go2Rtc WITH MaxUser <- 5, MaxOther <- 1, MaxFaults <- 1, MaxEdits <- 4,
    MaxRows <- 3, server <- go2RtcServer, mounted <- go2RtcMounted,
    isLoading <- go2RtcIsLoading, dialog <- go2RtcDialog, user <- go2RtcUser,
    other <- go2RtcOther, faults <- go2RtcFaults, streamsMine <- mine, told <- go2RtcTold,
    crossed <- go2RtcCrossed, url <- urlUrl, edits <- urlEdits, kept <- urlKept
MotionPage == INSTANCE MotionPage WITH MaxClockUser <- 4, MaxClipsUser <- 3,
    clockMotion <- motionReviewMotion, clockReviews <- motionReviewReviews,
    clockUser <- motionReviewUser, frames <- clipsFrames, cameras <- clipsCameras,
    camera <- clipsCamera, dialog <- clipsDialog, clip <- clipsClip
Replay == INSTANCE DebugReplay WITH MaxUser <- 3, MaxFaults <- 1, camera <- replayCamera,
    clip <- replayClip, frames <- replayFrames, job <- replayJob, page <- replayPage,
    crossed <- replayCrossed, user <- replayUser, faults <- replayFaults
Incidents == INSTANCE Incidents WITH MaxUser <- 3, MaxPlayed <- 2, Hours <- 3,
    page <- incidentsPage, loading <- incidentsLoading, requests <- incidentsRequests,
    users <- incidentsUsers
Feeds == INSTANCE Feeds WITH MaxLogsUser <- 2, MaxLines <- 3, PageSize <- 1,
    MaxMessagesUser <- 3, MaxMessages <- 2, MaxSize <- 1, isLoading <- logsIsLoading,
    requests <- logsRequests, mounted <- logsMounted, open <- feedOpen, current <- feedCurrent,
    messagesUsers <- feedUsers
Models == INSTANCE Models WITH MaxWizardUser <- 2, MaxGens <- 2, MaxFaults <- 1,
    MaxAreasUser <- 4, MaxEditUser <- 3, MaxOther <- 1, wizardOpen <- modelWizardOpen,
    wizardAreas <- areas, wizardRequests <- modelWizardRequests,
    wizardDataset <- modelWizardDataset, wizardCrossed <- modelWizardCrossed,
    wizardUsers <- modelWizardUsers, wizardFaults <- modelWizardFaults,
    editOpen <- modelEditOpen, editClasses <- classes, editDataset <- modelEditDataset,
    reading <- modelEditReading, editRequests <- modelEditRequests,
    editServer <- modelEditServer, told <- modelEditTold, editCrossed <- modelEditCrossed,
    editUsers <- modelEditUsers, editFaults <- modelEditFaults

NoExplore == exploreUrl = Null /\ past = Null /\ search = Null /\ saved = Null /\
    exploreCurrent = Null /\ exploreOpen = Null /\ labels = Null /\ events = Null /\
    data = Null /\ size = Null /\ selected = Null /\ asked = Null /\ exploreKept = Null /\
    exploreUser = Null /\ exploreOther = Null /\ exploreCrossed = Null
NoFilters == filtersPage = Null /\ filter = Null /\ copy = Null /\ filtersOpen = Null /\
    typed = Null /\ grouped = Null /\ filtersEdits = Null
NoAccounts == dbUsers = Null /\ dbRoles = Null /\ accountsUsers = Null /\ roles = Null /\
    accountsReading = Null /\ accountsDialog = Null /\ picked = Null /\
    accountsCameras = Null /\ passwordError = Null /\ accountsLoading = Null /\ calls = Null /\
    accountsUser = Null /\ accountsFaults = Null /\ accountsCrossed = Null
NoTriggers == cfg = Null /\ embeddings = Null /\ config = Null /\ selectedCamera = Null /\
    triggersDialog = Null /\ unsaved = Null /\ triggersJob = Null /\ triggered = Null /\
    timer = Null /\ triggersTold = Null /\ triggersUser = Null /\ triggersOther = Null /\
    triggersFaults = Null /\ triggersCrossed = Null
NoGo2Rtc == go2RtcServer = Null /\ running = Null /\ rawPaths = Null /\ pending = Null /\
    go2RtcMounted = Null /\ go2RtcIsLoading = Null /\ go2RtcDialog = Null /\ jobs = Null /\
    go2RtcUser = Null /\ go2RtcOther = Null /\ go2RtcFaults = Null /\ mine = Null /\
    go2RtcTold = Null /\ go2RtcCrossed = Null
NoUrl == urlUrl = Null /\ urlEdits = Null /\ choice = Null /\ urlKept = Null
NoMotionReview == motionReviewMotion = Null /\ motionReviewReviews = Null /\
    motionOnly = Null /\ currentTime = Null /\ selectedRangeIdx = Null /\ playing = Null /\
    scrubbing = Null /\ timeoutIdRef = Null /\ resume = Null /\ scrubbedTo = Null /\
    strays = Null /\ motionReviewUser = Null
NoClips == clipsMotion = Null /\ clipsReviews = Null /\ clipsFrames = Null /\
    clipsCameras = Null /\ clipsCamera = Null /\ clipsDialog = Null /\
    motionFilterCells = Null /\ pendingFilterCells = Null /\ hour = Null /\ clipsClip = Null /\
    video = Null /\ videoPlaying = Null /\ playbackRate = Null /\ frameIndex = Null /\
    framesReady = Null /\ loads = Null /\ clipsUser = Null /\ ticks = Null
NoReplay == session = Null /\ sessions = Null /\ runners = Null /\ active = Null /\
    replayCamera = Null /\ replayClip = Null /\ replayFrames = Null /\ reqs = Null /\
    ws = Null /\ replayJob = Null /\ replayPage = Null /\ status = Null /\ dialogOpen = Null /\
    isStopping = Null /\ replayCrossed = Null /\ replayUser = Null /\ replayFaults = Null
NoIncidents == kind = Null /\ begun = Null /\ reviewed = Null /\ incidentsPage = Null /\
    reviewItems = Null /\ incidentsLoading = Null /\ detail = Null /\
    incidentsRequests = Null /\ acknowledgedIds = Null /\ filters = Null /\ isMuted = Null /\
    playedIncidentIds = Null /\ heard = Null /\ evicted = Null /\ silent = Null /\
    lost = Null /\ incidentsUsers = Null
NoLogs == total = Null /\ logService = Null /\ filterSeverity = Null /\ logs = Null /\
    lines = Null /\ logsIsLoading = Null /\ lastFetchedIndex = Null /\
    disableStreaming = Null /\ logsRequests = Null /\ stream = Null /\ selectedLog = Null /\
    copied = Null /\ logsMounted = Null /\ run = Null /\ late = Null /\ tangled = Null /\
    logsUsers = Null
NoFeed == next = Null /\ buffer = Null /\ dirty = Null /\ messages = Null /\ paused = Null /\
    selectedTopics = Null /\ selectedCameras = Null /\ feedOpen = Null /\ feedCurrent = Null /\
    locked = Null /\ expanded = Null /\ accepted = Null /\ feedUsers = Null
NoModelWizard == modelWizardOpen = Null /\ step = Null /\ modelType = Null /\ areas = Null /\
    mount = Null /\ isGenerating = Null /\ hasGenerated = Null /\ isProcessing = Null /\
    isTraining = Null /\ unknownImages = Null /\ imageClassifications = Null /\
    currentClassIndex = Null /\ selectedImages = Null /\ modelWizardRequests = Null /\
    train = Null /\ modelWizardDataset = Null /\ folders = Null /\ configured = Null /\
    made = Null /\ modelWizardCrossed = Null /\ wanted = Null /\ gens = Null /\
    mounts = Null /\ modelWizardUsers = Null /\ modelWizardFaults = Null
NoAreas == cameraAreas = Null /\ selectedCameraIndex = Null /\ handed = Null /\
    onScreen = Null /\ areasUsers = Null
NoModelEdit == modelEditOpen = Null /\ enabled = Null /\ classes = Null /\
    deleteDialogOpen = Null /\ model = Null /\ modelEditDataset = Null /\
    modelEditReading = Null /\ isSaving = Null /\ modelEditRequests = Null /\
    modelEditServer = Null /\ categories = Null /\ modelEditTold = Null /\
    deletedTold = Null /\ modelEditCrossed = Null /\ half = Null /\ modelEditUsers = Null /\
    others = Null /\ modelEditFaults = Null

\* The page or dialog the user is on: the others are not mounted.
Init ==
    \/ shown = "explore" /\ Searching!SearchInit /\ NoFilters /\ NoAccounts /\ NoTriggers /\
           NoGo2Rtc /\ NoUrl /\ NoMotionReview /\ NoClips /\ NoReplay /\ NoIncidents /\
           NoLogs /\ NoFeed /\ NoModelWizard /\ NoAreas /\ NoModelEdit
    \/ shown = "filters" /\ Searching!FilterInit /\ NoExplore /\ NoAccounts /\ NoTriggers /\
           NoGo2Rtc /\ NoUrl /\ NoMotionReview /\ NoClips /\ NoReplay /\ NoIncidents /\
           NoLogs /\ NoFeed /\ NoModelWizard /\ NoAreas /\ NoModelEdit
    \/ shown = "accounts" /\ UsersTriggers!AccountInit /\ NoExplore /\ NoFilters /\
           NoTriggers /\ NoGo2Rtc /\ NoUrl /\ NoMotionReview /\ NoClips /\ NoReplay /\
           NoIncidents /\ NoLogs /\ NoFeed /\ NoModelWizard /\ NoAreas /\ NoModelEdit
    \/ shown = "triggers" /\ UsersTriggers!TriggerInit /\ NoExplore /\ NoFilters /\
           NoAccounts /\ NoGo2Rtc /\ NoUrl /\ NoMotionReview /\ NoClips /\ NoReplay /\
           NoIncidents /\ NoLogs /\ NoFeed /\ NoModelWizard /\ NoAreas /\ NoModelEdit
    \/ shown = "go2rtc" /\ Go2Rtc!StreamsInit /\ NoExplore /\ NoFilters /\ NoAccounts /\
           NoTriggers /\ NoUrl /\ NoMotionReview /\ NoClips /\ NoReplay /\ NoIncidents /\
           NoLogs /\ NoFeed /\ NoModelWizard /\ NoAreas /\ NoModelEdit
    \/ shown = "url" /\ Go2Rtc!UrlInit /\ NoExplore /\ NoFilters /\ NoAccounts /\ NoTriggers /\
           NoGo2Rtc /\ NoMotionReview /\ NoClips /\ NoReplay /\ NoIncidents /\ NoLogs /\
           NoFeed /\ NoModelWizard /\ NoAreas /\ NoModelEdit
    \/ shown = "motionreview" /\ MotionPage!ClockInit /\ NoExplore /\ NoFilters /\
           NoAccounts /\ NoTriggers /\ NoGo2Rtc /\ NoUrl /\ NoClips /\ NoReplay /\
           NoIncidents /\ NoLogs /\ NoFeed /\ NoModelWizard /\ NoAreas /\ NoModelEdit
    \/ shown = "clips" /\ MotionPage!ClipsInit /\ NoExplore /\ NoFilters /\ NoAccounts /\
           NoTriggers /\ NoGo2Rtc /\ NoUrl /\ NoMotionReview /\ NoReplay /\ NoIncidents /\
           NoLogs /\ NoFeed /\ NoModelWizard /\ NoAreas /\ NoModelEdit
    \/ shown = "replay" /\ Replay!Init /\ NoExplore /\ NoFilters /\ NoAccounts /\ NoTriggers /\
           NoGo2Rtc /\ NoUrl /\ NoMotionReview /\ NoClips /\ NoIncidents /\ NoLogs /\ NoFeed /\
           NoModelWizard /\ NoAreas /\ NoModelEdit
    \/ shown = "incidents" /\ Incidents!Init /\ NoExplore /\ NoFilters /\ NoAccounts /\
           NoTriggers /\ NoGo2Rtc /\ NoUrl /\ NoMotionReview /\ NoClips /\ NoReplay /\
           NoLogs /\ NoFeed /\ NoModelWizard /\ NoAreas /\ NoModelEdit
    \/ shown = "logs" /\ Feeds!LogsInit /\ NoExplore /\ NoFilters /\ NoAccounts /\
           NoTriggers /\ NoGo2Rtc /\ NoUrl /\ NoMotionReview /\ NoClips /\ NoReplay /\
           NoIncidents /\ NoFeed /\ NoModelWizard /\ NoAreas /\ NoModelEdit
    \/ shown = "feed" /\ Feeds!MessagesInit /\ NoExplore /\ NoFilters /\ NoAccounts /\
           NoTriggers /\ NoGo2Rtc /\ NoUrl /\ NoMotionReview /\ NoClips /\ NoReplay /\
           NoIncidents /\ NoLogs /\ NoModelWizard /\ NoAreas /\ NoModelEdit
    \/ shown = "modelwizard" /\ Models!WizardInit /\ NoExplore /\ NoFilters /\ NoAccounts /\
           NoTriggers /\ NoGo2Rtc /\ NoUrl /\ NoMotionReview /\ NoClips /\ NoReplay /\
           NoIncidents /\ NoLogs /\ NoFeed /\ NoAreas /\ NoModelEdit
    \/ shown = "areas" /\ Models!AreasInit /\ NoExplore /\ NoFilters /\ NoAccounts /\
           NoTriggers /\ NoGo2Rtc /\ NoUrl /\ NoMotionReview /\ NoClips /\ NoReplay /\
           NoIncidents /\ NoLogs /\ NoFeed /\ NoModelWizard /\ NoModelEdit
    \/ shown = "modeledit" /\ Models!EditInit /\ NoExplore /\ NoFilters /\ NoAccounts /\
           NoTriggers /\ NoGo2Rtc /\ NoUrl /\ NoMotionReview /\ NoClips /\ NoReplay /\
           NoIncidents /\ NoLogs /\ NoFeed /\ NoModelWizard /\ NoAreas

Next ==
    \/ shown = "explore" /\ Searching!SearchNext /\ UNCHANGED <<shown, filtersVars,
           accountsVars, triggersVars, go2RtcVars, urlVars, motionReviewVars, clipsVars,
           replayVars, incidentsVars, logsVars, feedVars, modelWizardVars, areasVars,
           modelEditVars>>
    \/ shown = "filters" /\ Searching!FilterNext /\ UNCHANGED <<shown, exploreVars,
           accountsVars, triggersVars, go2RtcVars, urlVars, motionReviewVars, clipsVars,
           replayVars, incidentsVars, logsVars, feedVars, modelWizardVars, areasVars,
           modelEditVars>>
    \/ shown = "accounts" /\ UsersTriggers!AccountNext /\ UNCHANGED <<shown, exploreVars,
           filtersVars, triggersVars, go2RtcVars, urlVars, motionReviewVars, clipsVars,
           replayVars, incidentsVars, logsVars, feedVars, modelWizardVars, areasVars,
           modelEditVars>>
    \/ shown = "triggers" /\ UsersTriggers!TriggerNext /\ UNCHANGED <<shown, exploreVars,
           filtersVars, accountsVars, go2RtcVars, urlVars, motionReviewVars, clipsVars,
           replayVars, incidentsVars, logsVars, feedVars, modelWizardVars, areasVars,
           modelEditVars>>
    \/ shown = "go2rtc" /\ Go2Rtc!StreamsNext /\ UNCHANGED <<shown, exploreVars, filtersVars,
           accountsVars, triggersVars, urlVars, motionReviewVars, clipsVars, replayVars,
           incidentsVars, logsVars, feedVars, modelWizardVars, areasVars, modelEditVars>>
    \/ shown = "url" /\ Go2Rtc!UrlNext /\ UNCHANGED <<shown, exploreVars, filtersVars,
           accountsVars, triggersVars, go2RtcVars, motionReviewVars, clipsVars, replayVars,
           incidentsVars, logsVars, feedVars, modelWizardVars, areasVars, modelEditVars>>
    \/ shown = "motionreview" /\ MotionPage!ClockNext /\ UNCHANGED <<shown, exploreVars,
           filtersVars, accountsVars, triggersVars, go2RtcVars, urlVars, clipsVars, replayVars,
           incidentsVars, logsVars, feedVars, modelWizardVars, areasVars, modelEditVars>>
    \/ shown = "clips" /\ MotionPage!ClipsNext /\ UNCHANGED <<shown, exploreVars, filtersVars,
           accountsVars, triggersVars, go2RtcVars, urlVars, motionReviewVars, replayVars,
           incidentsVars, logsVars, feedVars, modelWizardVars, areasVars, modelEditVars>>
    \/ shown = "replay" /\ Replay!Next /\ UNCHANGED <<shown, exploreVars, filtersVars,
           accountsVars, triggersVars, go2RtcVars, urlVars, motionReviewVars, clipsVars,
           incidentsVars, logsVars, feedVars, modelWizardVars, areasVars, modelEditVars>>
    \/ shown = "incidents" /\ Incidents!Next /\ UNCHANGED <<shown, exploreVars, filtersVars,
           accountsVars, triggersVars, go2RtcVars, urlVars, motionReviewVars, clipsVars,
           replayVars, logsVars, feedVars, modelWizardVars, areasVars, modelEditVars>>
    \/ shown = "logs" /\ Feeds!LogsNext /\ UNCHANGED <<shown, exploreVars, filtersVars,
           accountsVars, triggersVars, go2RtcVars, urlVars, motionReviewVars, clipsVars,
           replayVars, incidentsVars, feedVars, modelWizardVars, areasVars, modelEditVars>>
    \/ shown = "feed" /\ Feeds!MessagesNext /\ UNCHANGED <<shown, exploreVars, filtersVars,
           accountsVars, triggersVars, go2RtcVars, urlVars, motionReviewVars, clipsVars,
           replayVars, incidentsVars, logsVars, modelWizardVars, areasVars, modelEditVars>>
    \/ shown = "modelwizard" /\ Models!WizardNext /\ UNCHANGED <<shown, exploreVars,
           filtersVars, accountsVars, triggersVars, go2RtcVars, urlVars, motionReviewVars,
           clipsVars, replayVars, incidentsVars, logsVars, feedVars, areasVars, modelEditVars>>
    \/ shown = "areas" /\ Models!AreasNext /\ UNCHANGED <<shown, exploreVars, filtersVars,
           accountsVars, triggersVars, go2RtcVars, urlVars, motionReviewVars, clipsVars,
           replayVars, incidentsVars, logsVars, feedVars, modelWizardVars, modelEditVars>>
    \/ shown = "modeledit" /\ Models!EditNext /\ UNCHANGED <<shown, exploreVars, filtersVars,
           accountsVars, triggersVars, go2RtcVars, urlVars, motionReviewVars, clipsVars,
           replayVars, incidentsVars, logsVars, feedVars, modelWizardVars, areasVars>>

vars == <<shown, exploreVars, filtersVars, accountsVars, triggersVars, go2RtcVars, urlVars,
    motionReviewVars, clipsVars, replayVars, incidentsVars, logsVars, feedVars,
    modelWizardVars, areasVars, modelEditVars>>
Spec == Init /\ [][Next]_vars

\* Every variable of what is shown has its type: the type invariant of each module.
TypeOK ==
    /\ shown = "explore" => Searching!SearchTypeOK
    /\ shown = "filters" => Searching!FilterTypeOK
    /\ shown = "accounts" => UsersTriggers!AccountTypeOK
    /\ shown = "triggers" => UsersTriggers!TriggerTypeOK
    /\ shown = "go2rtc" => Go2Rtc!StreamsTypeOK
    /\ shown = "url" => Go2Rtc!UrlTypeOK
    /\ shown = "motionreview" => MotionPage!ClockTypeOK
    /\ shown = "clips" => MotionPage!ClipsTypeOK
    /\ shown = "replay" => Replay!TypeOK
    /\ shown = "incidents" => Incidents!TypeOK
    /\ shown = "logs" => Feeds!LogsTypeOK
    /\ shown = "feed" => Feeds!MessagesTypeOK
    /\ shown = "modelwizard" => Models!WizardTypeOK
    /\ shown = "areas" => Models!AreasTypeOK
    /\ shown = "modeledit" => Models!EditTypeOK

\* The objects listed are those of the search made last, saved searches are lost to nobody's
\* save, and what a filter dialog holds is what is filtered by; each but for the cases named in
\* ExploreSearch and FilterDialogs.
SearchesAgree ==
    /\ shown = "explore" => Searching!SearchIsMade /\ Searching!SavedIsKept /\
           Searching!CopyIsFilter /\ Searching!SelectedIsShown
    /\ shown = "filters" => Searching!NothingEmpty /\ Searching!MainIsFiltered /\
           Searching!RangeIsOrdered /\ Searching!MoreIsMarked

\* What these pages show is what the server has once nothing is under way, what they say is
\* saved is, and a dialog or row shows what belongs to it; each but for the cases named in its
\* module.
ClientAgrees ==
    /\ shown = "accounts" => UsersTriggers!UsersAreServers /\ UsersTriggers!RolesExist /\
           UsersTriggers!AccountDialogIsOwn /\ UsersTriggers!ErrorIsOwn
    /\ shown = "triggers" => UsersTriggers!TriggersHaveEmbeddings /\
           UsersTriggers!SavedIsTold /\ UsersTriggers!ListIsConfig /\
           UsersTriggers!TriggerDialogIsOwn /\ UsersTriggers!UnsavedIsPending /\
           UsersTriggers!MarksEnd
    /\ shown = "go2rtc" => Go2Rtc!RunningIsConfigured /\ Go2Rtc!ShownIsMine /\
           Go2Rtc!SavedIsMine
    /\ shown = "url" => Go2Rtc!ChoiceIsShown /\ Go2Rtc!TypedIsKept /\ Go2Rtc!HardwareNeedsCodec
    /\ shown = "motionreview" => MotionPage!NoMotionPassed /\ MotionPage!StraysOnce /\
           MotionPage!PreviewsFollow
    /\ shown = "clips" => MotionPage!RangesAreMotion /\ MotionPage!ClipInRange /\
           MotionPage!RateIsChosen /\ MotionPage!FramesAreLoaded /\ MotionPage!FilterIsOwn
    /\ shown = "replay" => Replay!NothingLeft /\ Replay!SessionProceeds /\
           Replay!PageTellsSession
    /\ shown = "incidents" => Incidents!EveryReviewAlerts /\ Incidents!SoundsOnce /\
           Incidents!NewestIsHeard /\ Incidents!CentreIsCurrent /\
           Incidents!EveryReviewIsAnIncident /\ Incidents!PeakIsPeak
    /\ shown = "logs" => Feeds!LinesAreChosen /\ Feeds!LinesInOrder /\ Feeds!ScrollContinues /\
           Feeds!StreamIsShown
    /\ shown = "feed" => Feeds!BufferIsNewest /\ Feeds!RowsCatchUp /\
           Feeds!ClosedMenuIsFilter /\ Feeds!LockedIsOwn /\ Feeds!ExpandedIsShown
    /\ shown = "modelwizard" => Models!FiledAsChosen /\ Models!PicturesAreOfAreas /\
           Models!SelectedIsFree /\ Models!TrainsComplete /\ Models!FoldersExist /\
           Models!NoneIsLeft /\ Models!StepIsShown /\ Models!TrainingIsReal
    /\ shown = "areas" => Models!AreaIsInFrame /\ Models!OneAreaEach /\ Models!AreaExists
    /\ shown = "modeledit" => Models!ContentsSurvive /\ Models!ToldIsRenamed /\
           Models!DeletedIsGone /\ Models!CardIsCurrent /\ Models!ListIsCurrent
=============================================================================
