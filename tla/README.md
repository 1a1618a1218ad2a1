# A TLA+ model of ARC VISION (Frigate)

ARC VISION is a Frigate-derived network video recorder: a Python backend
(`src/frigate`), a React client (`src/web/src`) and container scripts. This directory
models the parts of both in which the program's own logic is concurrent, stateful and
hard to test: the pipeline from a detected object to its row in the database, the
hand-over of frames to the detectors, and the pages of the client with the requests, the
websocket messages, the timers and the browser events that cross each other there.
Everything below names code relative to `src/`; a bare `.tsx` or `.ts` is under
`src/web/src/`.

* [1. The system](#1-the-system): components, state, interactions, what is hard
* [2. The modules](#2-the-modules): which module models what, and how
* [3. The runs](#3-the-runs): what TLC checks, bounds, fairness
* [4. The proofs](#4-the-proofs): what TLAPS proves, and how
* [5. Disagreements with the code's own
  statements](#5-disagreements-with-the-codes-own-statements)
* [6. Where the properties end](#6-where-the-properties-end): what is known to be false
* [7. What is not modelled](#7-what-is-not-modelled)
* [8. Plan](#8-plan)

Commands, in this directory:

    tlc -workers 2 -config LifecycleSteady.cfg MCObjectLifecycle.tla
    tlapm SettingsProofs.tla

`PROJECT.json` lists every run with its properties, the source lines the definitions
translate (`map`: the 800 that cover most), the hazards, the theorems, and for every
property a mutation of the code that breaks it (`mutants`; the mutated operators `Mut...`
stand next to the originals).

## 1. The system

### 1.1 The backend

One main process (`frigate/app.py`) starts threads and child processes that talk over
multiprocessing queues, ZMQ sockets (`frigate/comms`), shared memory and an SQLite
database.

| Component | Runs as | State it keeps | Operations | What must hold |
|---|---|---|---|---|
| Detect process, tracker (`video/detect.py`, `track/norfair_tracker.py`) | process per camera | ids of the objects tracked | per frame: detect, associate, queue a batch of ids | ids are never reused; the end of an object is derivable from any later batch |
| Object detection hand-over (`object_detection/base.py`, `comms/object_detector_signaler.py`) | detector processes, called from the detect processes | input/output buffer per camera, request queue, `detection_start` | `detect`: copy in, queue a name, wait 5 s; `run`: get, infer, copy out, signal | a call returns the detections of its own frame; requests are served |
| Watchdog (`watchdog.py`) | thread | restart times | restart a detector that is busy for 10 s | a stuck detector does not stop the others |
| TrackedObjectProcessor, CameraState, TrackedObject (`track/object_processing.py`, `camera/state.py`, `track/tracked_object.py`) | thread | tracked objects per camera, `prev_enabled`, resolution last seen | apply config messages, force-end objects of disabled cameras, turn a batch into start/update/end, forget finished objects | every object is started once, ended once, forgotten after; the thread survives |
| EventProcessor (`events/maintainer.py`) | thread | `events_in_process`, the Event table | start, update, end messages; close open rows at start-up | rows agree with events; what is saved is closed; media are not lost |
| Run-time configuration (`config/camera/updater.py`, `comms/dispatcher.py`, `api/app.py`, `api/camera.py`) | everywhere | config object(s), pub/sub messages | switch, add, delete, resize a camera | all copies of the config agree in the end |
| Camera maintainer (`camera/maintainer.py`) | thread | processes and frame slots per camera | start, stop, recycle a camera's processes | one set of processes per configured camera |
| Debug replay (`debug_replay.py`, `jobs/debug_replay.py`) | thread and job | session, clip, replay camera | start, prepare, stop | a session that is stopped leaves nothing behind |
| Profile manager (`config/profile_manager.py`), dispatcher (`comms/dispatcher.py`), motion search (`jobs/motion_search.py`), API handlers | threads | profiles, toggles, jobs | what the client asks of them | see the client's pages, which are modelled with them |
| Capture, review segments, recording maintainer, retention, export workers, timeline, embeddings, audio, PTZ, Birdseye, MQTT, plugins | processes and threads | see section 7 | | |

### 1.2 The client

A page is a tree of React components over three kinds of shared state: the SWR cache of
what was read from the server, the store of websocket topics (`api/ws.ts`), and state
that a parent keeps for its children. A browser event runs to its end with the renders
and effects it causes; between two of them come answers of requests, websocket messages,
timers, other browser events and what other users do.

| Component | State it keeps | What must hold |
|---|---|---|
| Websocket and live cards (`api/WsProvider.tsx`, `api/ws.ts`, `hooks/use-camera-activity.ts`) | socket, buffered sends, topics, objects of a card | a card shows the server's objects and toggles once everything has arrived, the user's last flip wins |
| Live players (`components/player/*`, `hooks/use-camera-live-mode.ts`) | player, connections, timers | nothing streams unwatched; a dead stream is given up; a fallback ends |
| Recording view and preview (`views/recording`, `components/player/dynamic`) | hour, source, seeks | the video is where the last request put it |
| Reviews (`pages/Events.tsx`, `views/events/EventView.tsx`) | cached list, selection, marks | nothing reviewed is shown as new nor missing unnoticed |
| Exports, export dialog | jobs, cached list, range, cameras | every export is shown once; a closed dialog leaves nothing behind |
| Object details (`SearchDetailDialog.tsx`) | text being edited, object shown | what is shown belongs to the object shown |
| Settings, their frame, profiles, overrides, notifications | drafts, marks, camera and profile selected | nothing typed is lost; what is shown as set is set |
| Zones and masks; camera management, cloning, wizard; face library and model training; classification models; go2rtc streams; users; triggers | a copy of some configuration, the requests that write it | what the user was told is what the server has; a dialog writes what it shows |
| Motion search, motion review, explore and its filters | searches under way, ranges, filters | results belong to the search, the region and the filter shown |
| Live dashboard, page of one camera | groups, layouts, streams, events, commands | what is stored belongs to the group; nothing is left running |
| Tracking details, detail list | time of the video, offset, selected objects | moment, boxes and picture agree |
| Debug replay, incidents and alerts, logs and messages, metrics, timelines, overlays | see 2.6 | see 2.6 |

### 1.3 How the modelled parts interact

    detect process --tracked_objects_queue (mp.Queue, bounded)--> TrackedObjectProcessor
    TrackedObjectProcessor --"event/update" (ZMQ, in order)--> EventProcessor
    EventProcessor --"event/finalized" (ZMQ, in order)--> TrackedObjectProcessor
    TrackedObjectProcessor --events topic--> MQTT clients ("new", "update", "end")
    EventProcessor --> Event table
    API, dispatcher --camera config messages--> TrackedObjectProcessor, detect processes
    API, dispatcher --writes--> the config object both threads read
    detect process --detection_queue, buffers--> detectors --signal--> detect process
    watchdog --kills, restarts--> detectors
    dispatcher, processor --websocket topics--> ws.ts store --> cards, pages
    pages --HTTP requests, websocket commands--> API, dispatcher
    pages --SWR cache, history, browser storage--> pages

### 1.4 What is hard here

* Two threads each hold half of an object's state (`tracked_objects`,
  `events_in_process`) and only messages keep them in step; the end of an object is
  produced in two places (a frame without it, a camera turned off) and its last message
  comes back to delete it.
* An unexpected message is not rejected: a first message of any type is stored as the
  start of an event, and a finished id that is not tracked raises and ends the thread.
* Whether a row is written is decided by comparing a message with a remembered one, while
  users switch recording and snapshots in between.
* The process may die anywhere; the table survives and is repaired at start-up.
* Detection requests and signals are anonymous: they do not say which frame they are for,
  although calls time out, answers come late, and a signal crosses a proxy on its way, where a
  call that empties its socket does not find it. A detector may be killed anywhere, also
  where it holds the lock of a shared queue.
* The socket of the client breaks with messages on the way in both directions, and a
  snapshot may be older than the events it arrives among.
* In the client the answer to a request comes to whatever is on screen by then; a copy of
  the configuration is edited while the original changes; one change is written by several
  requests of which one may fail; state of a parent outlives the child it belongs to.

`PROJECT.json` lists these as `hazards`, each at its line with the properties that watch
it. A note says where the property ends short of the hazard; those without a property either
belong to the components of the plan, or are known to go wrong in the code (section 6).

## 2. The modules

| Module | Models |
|---|---|
| `EventStore` | the EventProcessor thread and the Event table |
| `ObjectProcessor` | the TrackedObjectProcessor thread with its CameraStates and TrackedObjects; EXTENDS `EventStore` (the two share the config object and two message queues) |
| `ObjectLifecycle` | the composition: detect processes, users, crash and restart around the two threads; the properties |
| `EventRecord` | the abstract specification of an event's row |
| `ObjectDetection` | detector hand-over and watchdog |
| `ClientActivity`, `LivePlayback`, `PreviewScrub`, `RecordingPlayback`, ... | one page or dialog of the client each (2.6) |
| `MCObjectLifecycle` | the instance of the pipeline for TLC (symmetry sets) |
| `MCPlayers`, `MCReviewPages`, `MCSettingsPages`, `MCToolPages`, `MCClientPages` | pages of the client put into one run (2.7) |
| `ObjectLifecycleProofs`, `ObjectDetectionProofs`, `ClientActivityProofs`, `LivePlaybackProofs`, `PlayersProofs`, `ReviewPagesProofs`, `SettingsProofs`, `ToolPagesProofs` | theorems and their proofs (section 4) |

### 2.1 EventStore

`inProcess` is `events_in_process`, `rows` the Event table, `eventQ` and `finalQ` the two
ZMQ streams, `started` tells whether `run` has closed the rows left open. Of an event's
data the model keeps what `should_update_db` and `should_update_state` tell apart:
`ended` (end_time set), `media` (has_clip, has_snapshot), `det` (the fields whose change
is written at once), `st` (the fields whose change only refreshes memory).

`Startup` is the statement before the loop. A message is handled by `StoreFirst` (a start,
or the first message heard of an event), `HandleObjectDetection`, or
`IgnoreUnconfigured` (the early return for a deleted camera).

### 2.2 ObjectProcessor

`pc` walks through the loop of `run`: `drain` (config messages), `manage` and `force`
(cameras just turned off, one camera at a time, one object at a time), `fetch` (the queue),
`update` (the loops of `CameraState.update` over new, updated and removed ids), `cleanup`
(finished ids). One step publishes at most one message, so that the other threads and the
users act between any two messages; within a step only thread-local state and the shared
config are read. A frame's ids are new, updated or removed by comparison with
`tracked`, as in the code.

What a tracked object decides is `ended`, `tp` (true positive: stays) and `worthy` (the
media it qualifies for). Whether a true positive is published on a frame is
nondeterministic, except for the frame in which it becomes one, which always publishes
(it sets the first path point). `worthy` of a true positive may grow at any update.

`mqtt[o]` is the type of the last message on the events topic.

### 2.3 ObjectLifecycle

`TrackFrame` is a frame of one detect process: any subset of its ids is dropped, at most
one new one appears (more at once is the same as several frames, except that they share
a batch), and the batch is lost if the queue is full. `TrackerSync` is its reaction to the
config, `Recycle` the camera maintainer's to a new detect resolution: until then batches
come in the old one (`trackerShape`). The users' operations are actions with the guards
of the API; `Ops` says which may occur in an instance and `MaxOps` how many. `Restart`
drops all state but the table, what MQTT clients have seen, the ids ever given out, the
configuration, and which cameras are off, which the dispatcher has stored. `RemoveCamera`
deletes the rows of the camera too.

`SetEnabled` and `SetMedia` change the config object that the processor reads, as the
dispatcher does until the API replaces its config object; the two config objects that
exist after that are left to the planned `ConfigSync`.

### 2.4 EventRecord

The row of an event is unsaved, open or closed. It is saved once, closed once, and
`CloseAll` closes every open row at once. `ObjectLifecycle!Stage` is the refinement
mapping: no row, a row without end_time, a row with one.

### 2.5 ObjectDetection

`client[c]` walks through `RemoteObjectDetector.detect`, `runner[d]` through
`DetectorRunner.run`. Buffers hold frame numbers: `np_shm[c] = n` is the input of frame n,
`out_shm[c] = n` the detections of frame n. `Detect` reads the input buffer as it is when
inference runs, which may be a later frame than the request's. A signal is published to a
proxy (`proxy[c]`), whose thread passes it on (`Forward`) to the socket of the camera
(`signals[c]`); the drain before a call empties the socket and leaves the proxy alone.
`stopping` is the detector the watchdog has decided to kill and waits for.

`Poll`/`PollFails` stand for `multiprocessing.Queue.get(timeout=1)`, which is not in this
repository: it takes the queue's reader lock, polls, receives and releases it; a process
killed in between leaves the lock taken (`Killed`).

Time is one assumption: a detector counts as overdue after 10 s, a call waits 5 s, so when
a detector is overdue the call it works for is no longer waiting (`Overdue`).

`Recovers = TRUE` lets a detector the watchdog is waiting for finish its inference and go
on before it is killed; `FALSE` says that whoever looks stuck is stuck.

### 2.6 The pages of the client

One convention holds in all of them. An action is one browser event with the renders and
effects it causes, or one answer with what follows its `await`. A request is in a set or
sequence (`requests`, `jobs`, `job`) from the moment it is sent; the server applies it in
the action that answers it, or in one of its own where the two may be told apart; a
failure is a disjunct of the same action, and counts against `MaxFaults`. A read of the
server (`reading`, `loading`) is answered with what the server holds when it is answered,
or has held since it was asked for where that is told apart. Others who change the same
things are actions of their own, counted by `MaxOther`. Data are small: a name, an image,
a description is a number; a configuration is the few entries the page writes. History
variables (`crossed`, `mine`, `told`, `exact`, `asked`) remember what a property is about,
and never guard an action but as a bound.

A page is a part with its own state; parts that concern one thing stand in one module
and share no state but what the module's head says. `shown` is the name under which the
composites (2.7) know it.

| Module | Part, `shown` | Code | State and steps |
|---|---|---|---|
| `ClientActivity` | ClientActivity, `card` | `api/WsProvider.tsx`, `api/ws.ts`, `hooks/use-camera-activity.ts`; the dispatcher and processor publish | the two directions of the socket, buffered sends, the store, the list of a card; events, snapshots, toggles by two server threads, breaks, reconnects, remounts |
| `LivePlayback` | LivePlayback, `live` | `LivePlayer.tsx`, the three players, `use-camera-live-mode.ts`, handlers of the two views | one camera's card, the refs and timers of MSE, WebRTC, JSMpeg; every callback and timer |
| `PreviewScrub` | PreviewScrub, `preview` | `PreviewPlayer.tsx` | seek under way, the request that waits, hours that change |
| `RecordingPlayback` | RecordingPlayback, `recording` | `RecordingView.tsx`, `DynamicVideoController.ts`, `DynamicVideoPlayer.tsx`, `HlsVideoPlayer.tsx` | time, hour, camera, recordings and source loading, the video element |
| `ReviewPage` | ReviewPage, `review` | `pages/Events.tsx`, `EventView.tsx` | SWR cache of the list, memo, selection; marks, updates from the websocket |
| `Exports` | ExportsPage, `exports`; ExportDialog, `export` | `pages/Exports.tsx`, `ExportActionGroup.tsx`; `ExportDialog.tsx`, `MobileReviewSettingsDrawer.tsx` | jobs and their broadcasts, cards, cases, selection; range, tab, cameras, mode |
| `ObjectDetails` | ObjectDetails, `object` | `SearchDetailDialog.tsx`, `SearchView.tsx` | object shown, text edited, saves, cached list |
| `SettingsDrafts` | SettingsDrafts, `drafts` | `pages/Settings.tsx`, `BaseSection.tsx`, `configUtil.ts` | drafts per camera and section, forms, saves, Save All, dots |
| `Navigation` | OverlayHistory, `overlay`; SettingsNavigation, `nav` | `use-history-back.ts` and its users; `Settings.tsx`, `SingleSectionPage.tsx` | browser history and open overlays; page, camera, profile, removal of an override |
| `Notifications` | NotificationSelection, `notifsel`; DeviceRegistration, `device` | `NotificationsSettingsExtras.tsx` | switches against unsaved changes; worker, subscription, token |
| `Overrides` | Profiles, `profiles`; ConfigOverride, `override` | `ProfilesView.tsx`, `profile_manager.py`; `use-config-override.ts` | profiles, active one, deletions; a section as a tree of paths, marks and lists |
| `SystemMetrics` | SystemMetrics, `metrics` | `System.tsx`, `GeneralMetrics.tsx`, `CameraMetrics.tsx`, `EnrichmentMetrics.tsx`, `StorageMetrics.tsx` | windows of samples per tab, series and labels |
| `Timeline` | ReviewTimeline, `timeline`; TimelineZoom, `zoom`; ReviewOverview, `overview` | `components/timeline/*`, `use-timeline-zoom.ts`, `EventView.tsx` | segments, handles, drags, virtual list; wheel, pinch, buttons; cards in view, minimap, summary |
| `MotionSearch` | MotionSearch, `motion` | `MotionSearchView.tsx`, dialog, canvas, `jobs/motion_search.py` | region, job, broadcasts, hits |
| `ZonesAndMasks` | ZoneEditor, `zones`; PolygonDrawing, `drawing` | `MasksAndZonesView.tsx` and the three panes; `PolygonCanvas.tsx`, `PolygonEditControls.tsx` | list, copy, pane, saves and deletions; corners and their order |
| `Cameras` | CloneCamera, `clone`; CameraManagement, `cameras`; CameraWizard, `wizard` | `CloneCameraDialog.tsx`, `cameraClone.ts`; `CameraManagementView.tsx`; `CameraWizardDialog.tsx` and its steps | writes one after the other with validation; order, enabled, types; tests of streams and the save |
| `TrainingLibrary` | TrainingLibrary, `library` | `FaceLibrary.tsx`, `ModelTrainingView.tsx`, `use-optimistic-state.ts` | pages, selection, deletion, renaming, training; recognition that saves and drops waiting images |
| `Live` | LiveDashboard, `dashboard`; CameraView, `view` | `LiveDashboardView.tsx`, `DraggableGridLayout.tsx`, `CameraGroupSelector.tsx`, `use-user-persistence.ts`; `LiveCameraView.tsx`, `PtzControlPanel.tsx` | groups, layouts, volumes, browser storage; manual event, fallbacks, transcription, moving the camera |
| `ObjectTracking` | TrackingDetails, `tracking`; DetailStream, `stream` | `TrackingDetails.tsx`; `detail-stream-context.tsx`, `DetailStream.tsx`, `AnnotationOffsetSlider.tsx` | manifest, offset, pinned moment; reviews, selected objects, annotation offset |
| `Searching` | ExploreSearch, `explore`; FilterDialogs, `filters` | `Explore.tsx`, `InputWithTags.tsx`, `SearchView.tsx`; `ReviewFilterGroup.tsx`, `SearchFilterGroup.tsx` and their dialogs | address, text, tags, saved searches, results; copies of fields of the filter |
| `UsersTriggers` | Accounts, `accounts`; Triggers, `triggers` | `AuthenticationView.tsx` and its dialogs; `TriggerView.tsx` and its wizard | users, roles, several requests each; embeddings and entries |
| `Go2Rtc` | Go2RtcStreams, `go2rtc`; StreamUrl, `url` | `Go2RtcStreamsSettingsView.tsx`, `go2rtcFfmpeg.ts` | draft, save in three kinds of requests; a URL parsed and rewritten at every edit |
| `MotionPage` | MotionReview, `motionreview`; MotionPreviews, `clips` | `EventView.tsx`, `use-camera-activity.ts`; `MotionPreviewsPane.tsx` | clock of all previews, timeouts; ranges, clips, region |
| `DebugReplay` | DebugReplay, `replay` | `debug_replay.py`, `jobs/debug_replay.py`, `Replay.tsx` | session, job, two clients |
| `Incidents` | Incidents, `incidents` | `AlertCenter.tsx`, `alertRules.ts`, `incidentRules.ts`, `notificationAudio.ts` and the pages that use them | reviews, rules as operators, sound, workspace |
| `Feeds` | LogsPage, `logs`; MessageFeed, `feed` | `Logs.tsx`, `logUtil.ts`; `WsMessageFeed.tsx`, `use-ws-message-buffer.ts` | pages of a log, stream, copies; ring buffer, batches, filters |
| `Models` | ModelWizard, `modelwizard`; StateAreas, `areas`; ModelEdit, `modeledit` | `ClassificationModelWizardDialog.tsx` and its steps; `Step2StateArea.tsx`; `ClassificationModelEditDialog.tsx` | pictures, classes, requests of the wizard; squares in pictures; renames by position |

### 2.7 The composites

A user is on one page at a time, and what is not mounted keeps no state of its own. A
composite has the variables of all its pages and `shown`; `Init` chooses the page and
leaves the others at `Null`, `Next` is the `Next` of the page shown. A run of a composite
thus checks each of its pages as if it were alone, with its own bounds, and the
properties are conjunctions over the pages: `SettingsAgree`, for example, is for each
page of the settings what the page promises. They are put together because they ask the
same question of different pages, not because the pages act on each other: state that
one page leaves for another (drafts, history, storage, caches) is modelled in the part
that is about it.

`MCPlayers` takes `ClientActivityProofs` and `LivePlaybackProofs`, which extend the two
models, as its instances, so that `PlayersProofs` can cite their lemmas. What the proofs of
a page range over is a constant of its composite, given its value in the configuration:
`MCReviewPages` leaves open the reviews, exports, cameras and objects there are and every
bound, `MCSettingsPages` the numbers of edits, saves and acts of others, and the zones,
names and bounds of the settings of the cameras, `MCToolPages` the images, categories,
cameras and bounds of the motion search, the training pages and live view. A part without
theorems has its sets and bounds in the composite.

## 3. The runs

### 3.1 What each run shows

| Run | Expect | Properties | Question |
|---|---|---|---|
| `LifecycleSteady` | pass | `TypeOK` `LiveIsInProcess` `OneEndPending` `ProcessorAlive` `InProcessIsTracked` `MqttInOrder` `ImplementsEventRecord` | a camera, two objects, a crash and restart anywhere: are objects started, ended, saved, closed and forgotten in order? |
| `LifecycleMedia` | pass | `MediaNeverLost` `EndClosesRow` `LostIsClosed` | recordings and snapshots switched during events, with a restart, no memory-only update: is a saved event closed, with its media and its last data, and always in the end? |
| `LifecycleMembers` | pass | `LostIsForgotten` `SeenOffEndsObjects` | a camera turned off, deleted, added, resized, in any order: are its objects ended and forgotten as long as the processor lives? |
| `Detection` | pass | `TypeOK` `CleanReadsCurrent` `ServedUnlessLocked` | two cameras, two detectors that hang, recover and are killed: is a call that finds nothing under way answered with its own frame, and are requests served unless a killed detector took the lock with it? |
| `Players` | pass | `TypeOK` `CardIsTruthful` `NoLeak` `CardIsFilled` `DeadFallsBack` `FallbackEnds` `RestsOnLast` | a card over a socket that breaks, live streams under errors, stalls and hidden tabs, a preview chasing a drag: does anything lie or hang, or leak but for WebRTC preparations overtaken by their cleanup? |
| `ReviewPages` | pass | `TypeOK` `ReviewsAgree` `ExportsAgree` `DetailsAgree` | reviews, exports and objects that change while they are read, marked, moved and edited |
| `SettingsPages` | pass | `TypeOK` `SettingsAgree` `CamerasAgree` `DraftsSurvive` `SavingEnds` | drafts, cameras, profiles, overrides, notifications, the frame of the settings, metrics and timelines: is what is shown as set, unsaved or measured so, and is nothing typed lost, but by editing a section while it is saved? |
| `ToolPages` | pass | `TypeOK` `SearchIsOwn` `ZonesAgree` `LibraryAgrees` `DashboardAgrees` `FootageFollows` | motion search, zones, training, dashboards, one camera, footage: do dialogs write what they show, and is the rest left as it was? |
| `ClientPages` | pass | `TypeOK` `SearchesAgree` `ClientAgrees` | searches, filters, accounts, triggers, streams, models, replays, motion, incidents, logs: is what a page shows what there is? |
| `DeletedCamera` | violation | `ProcessorAlive` | section 5 |
| `DetectorsLost` | violation | `DetectorsSurvive` | section 5 |
| `DescOfOther` | violation | `ShownIsOwn` | section 5 |

### 3.2 Bounds

*The pipeline and the detectors*

* `MaxEvents` (messages in flight to the EventProcessor) is 2. The processor waits when it
  is reached; the real queue is unbounded. With 2 the end of one object queues behind an
  update of the same or a message of another, and a start behind an end of the same id.
  The proofs hold for any value.
* `QueueSize` 1: a full queue and a lost batch happen on every second frame. A longer
  queue only adds older batches, whose ids the model may report anyway.
* Ids 1 or 2: the parts are independent per id except through the shared queues, the
  loops and the batches, which two ids exercise. Once all ids are given out, frames go on
  with the ids there are.
* Cameras 1 or 2: two where cameras can disturb each other (`visit`, `todo`, queues,
  detectors).
* `Details`, `States`: two values where a change matters, else one.
* `MaxOps` 1 to 3 user operations: off, on and off again; delete, add and delete again;
  one switch and back and another.
* `MaxFrames` 2: a call and the call after it. A stale answer crosses from one call to the
  next; the signals a call can find are bounded by the calls before it.
* Symmetry (`LifecycleSteady`) is used only without liveness properties; cameras, ids and
  detectors appear in nothing but equality.

*The client.* `MaxUser` counts what the user of the page does, `MaxOther` what other users
do, `MaxFaults` failed requests; in most parts the three share one sum. They are chosen as
the length of the shortest story in which two requests, or a request and a change, can cross
and a third step sees the result: 3 to 6 acts. The composite modules or their configurations
give the constants with their values: `ReviewPages` has two alerts, one of which begins
later (`Unbegun`), and a detection, two exports of which one is made for a case, two cameras
seen at different times, and two objects; `SettingsPages` two edits, a save, an act of
another client, one zone to clone and two names for a new camera; `ToolPages` three images,
one of which recognition saves while the page is open and drops the oldest for, and two
categories, two cameras on the dashboard, one of them in all groups, two manual events,
three to five acts on each page and one of another client. Some bounds are in the guards of
the actions:

* `ClientActivity`: one object, two uses (mounts, flips), one message of a kind on the
  wire; `LivePlayback`: two faults, three uses; `PreviewScrub`: four scrubs, two hours.
* `MotionSearch`: the region is drawn before the first search; no second search after one
  given up too early; progress is told once, with nothing else on the way.
* `LiveDashboard`: the first lookup of the storage takes one step longer than others.
* `ExploreSearch`: one text; the pages wanted are kept only for the results last read.
  `ExportsPage`: two broadcasts wait at most. `ExportDialog`: one field at a time.
* `Accounts`: the list is not re-read on focus. `Triggers`: others write both halves of a
  trigger in one step.
* `TrackingDetails`: whole seconds; layouts in which no recording ends where a video
  begins; the mode that shows images is left out. `DetailStream`: one object per review.
* `CameraView`: commands are applied when sent; the JSMpeg player reports no errors.
* `Go2RtcStreams`: a stream is its first source; `StreamUrl`: four edits, three rows.
* `MotionReview`: two ranges of four half segments, a step is half a segment, another day
  remounts the page. `MotionPreviews`: a `timeupdate` comes within every unit.
* `SettingsNavigation`: a camera is removed only while menu and page agree.
  `NotificationSelection`: effects settle before the next change; suspension by minutes
  and the e-mail address are left out.
* `DebugReplay`: the watchdog's automatic stop is a stop by the other client.
* `ConfigOverride`: the configuration is read again after each write; two writes, three
  cameras.
* `Incidents`: three reviews of one camera on one page, two remembered incidents instead
  of 200.
* `LogsPage`: two fetches, one log that is written to, two severities, lines that never
  repeat, a page of 1 instead of 100. `MessageFeed`: three kinds of message, a buffer of 1
  instead of 2000.
* `ModelWizard`: two pictures instead of 24, object models of one class, one name for the
  model. `StateAreas`: pictures of 7x4 and 4x6. `ModelEdit`: three names; the form is let
  alone while it is saved.
* `SystemMetrics`: the client's clock equals the server's, a history of 2 samples instead
  of 80, every other sample published, four kinds of machine.
* `ReviewTimeline`: the view fits while dragging, an aligned range, two zoom levels, no
  zoom, click or playback during a drag, seven times with motion, two reviews.
  `TimelineZoom`: three levels. `ReviewOverview`: three cards of distinct starts, two in
  view; the user leaves the timeline alone while it follows.

`CHECK_DEADLOCK FALSE` stands where the system may stop: in `LifecycleMembers`, because
nothing is left to do once the processor's thread has died (section 5) and the camera is
off, and in the runs of the client, whose users act a bounded number of times and then
leave the page at rest.

### 3.3 Fairness

* `WF(Store)`, `WF(Processor)`: the two threads run until shutdown and neither waits for
  anything but its queue, with a timeout.
* `WF(TrackFrame(c))`: a camera that is on delivers frames. `CameraState` forgets nothing
  without a frame (`cleanup` runs after a processed batch), so without this a lost object
  could stay; the properties are conditional on the camera being on where that matters.
* `WF(TrackerSync(c) \/ Recycle(c))`: a detect process polls its config subscriber in its
  loop, and the camera maintainer its own.
* `ObjectDetection`: a call proceeds (`Ask`, `Return`, `Hear \/ Timeout`); *some* detector
  gets a free lock, not each (`\E d : Poll(d)`); the proxy's thread runs (`Forward`); a
  detector's `QueueEmpty \/ Take`, `Write`, `Publish` and the watchdog's `NoticeStuck` and
  `Restart` proceed. `Detect` has no fairness (inference may hang for ever), nor has `Drain`
  (frames need not come).
* `ClientActivity`: what an open socket delivers is processed, connections open, the
  server answers a snapshot and each of its threads publishes what it has to. `LivePlayback`:
  the browser's timers fire and its sources open. `PreviewScrub`: seeks end and a preview
  that is loading loads.
* `SettingsDrafts`: every request of a save is answered or fails.
* Users never have to act, and crashes, faults and other users never have to happen.

### 3.4 What the properties say

*The object pipeline*

* `LiveIsInProcess`: a live object has an event in process, or its start message is on the
  way. Otherwise its end would be stored as the first message of an event and never closed.
* `OneEndPending`: one end message or one finalized id per object at a time, and the
  processor tracks the object as ended meanwhile, so that `finished(id)` finds it and never
  deletes a live one.
* `ProcessorAlive`: no lookup of `run` raises.
* `InProcessIsTracked`: an event in process has a tracked object or an end under way.
* `EndClosesRow`, `MediaNeverLost`: what is written at the end, and never taken back.
* `MqttInOrder`: the first message of an object on the events topic is `new`, and nothing
  follows its end.
* `ImplementsEventRecord`: a row is saved once and closed once, across restarts.
* `LostIsForgotten`, `LostIsClosed`, `SeenOffEndsObjects`: what must happen in the end. All
  but `LostIsClosed` (checked where the thread cannot die) say "unless the processor has
  died", because its death is a matter of its own.

*Detection*

* `CleanReadsCurrent`: the detections a call reads are of its frame, if nothing of an
  earlier call was queued, worked on or in the proxy when it began. A signal already in the
  socket does no harm: it is drained.
* `ServedUnlessLocked`: the queue of requests empties again and again, or a killed detector
  holds its lock.

*The client*

* `CardIsTruthful`: with the socket open and nothing on the way, a card shows the server's
  objects and toggles, and what the user flipped last. `CardIsFilled`: a card gets its first
  data. `NoLeak`: an MSE socket is open only in an enabled MSE player, on a dashboard only
  while the tab is visible, and JSMpeg runs only in an enabled JSMpeg player. WebRTC
  connections do leak (section 6), but at most one for each preparation that was overtaken
  by its cleanup, and nothing else leaves any. `DeadFallsBack`: a stream that played and
  whose connection died is given up. `FallbackEnds`: low bandwidth mode ends. `RestsOnLast`:
  the preview stops at the moment asked for last.
* `ReviewsAgree`, `ExportsAgree`, `DetailsAgree`, `SearchIsOwn`, `ZonesAgree`, `CamerasAgree`,
  `LibraryAgrees`, `DashboardAgrees`, `FootageFollows`, `SearchesAgree`, `SettingsAgree`,
  `ClientAgrees`: for each page of the run, what is on screen agrees with what is stored
  once nothing is under way, the answers went to what asked for them, and what others
  changed meanwhile is not undone. Each part states its promise in its own module.
* `ReviewsAgree`, in full: the list is shown or on its way; a listed review is marked as on
  the server, and on screen if it is not reviewed; one the server has and the screen lacks
  is announced by the button for new items, unless a review marked here still lingers on the
  screen. Reviews in `doubt` and a list that is `stuck` (section 6) are excepted.
* `LibraryAgrees`, in full: an image leaves the library only if the user confirmed its
  deletion, or its category's, or newer ones were waiting; the lists are the server's, but
  for what recognition did to the waiting images since they were read, and for lists changed
  by a request whose answer was lost; the end of a training is told, unless it came before
  the answer that it had begun.
* `DraftsSurvive`: a draft goes only when the user discards it, when the server has taken it as it
  stands, or when its section was edited or reset while a save of it was running (section 6).
  `SavingEnds`: a save does not lock the page.

## 4. The proofs

tlapm proves the theorems below for every value of the constants that the named
assumptions allow (`NoneAssumption`, `DataAssumption`, `MaxEventsAssumption`,
`ObjectNoneAssumption`, `OpsAssumption`, `QueueSizeAssumption`, `OwnerAssumption`,
`DetectionAssumption`, `RequestAssumption`, `NullAssumption`, `SearchAssumption`,
`SegsAssumption`, `ApiAssumption`, `CamsAssumption`, `LibraryAssumption`, `LiveAssumption`,
`CamerasAssumption`). These say that a "none" value is not a real one, that bounds are numbers,
that the reviews are finitely many and that what a configuration names (cameras an object was
seen on, images waiting, the camera of all groups) is of the set it names it of.

### 4.1 The pipeline

| Theorem | Says | For |
|---|---|---|
| `TypeCorrect` | `[]TypeOK` | all operations |
| `LiveHasEntry` | `[]LiveIsInProcess` | all operations |
| `OneEndHolds` | `[]OneEndPending` | `CamerasStay` |
| `ProcessorLives` | `[]ProcessorAlive` | `CamerasStay` |
| `NothingLeftInProcess` | `[]InProcessIsTracked` | `CamerasStayOn` |
| `MqttIsInOrder` | `MqttInOrder` | `CamerasStayOn` |
| `TableIsRecord` | `ImplementsEventRecord` | `CamerasStayOn` |
| `MediaAreKept` | `MediaNeverLost` | `MediaStay` |
| `EndIsWritten` | `EndClosesRow` | `MediaStay` |

The hypotheses are on `Ops`, the operations the users of an instance may do, and each is
needed:

* `CamerasStay`: no camera is added, deleted or resized. Toggles, switches of media, and
  crashes are allowed. With deletions `ProcessorAlive` is false (run `DeletedCamera`).
* `CamerasStayOn`: `Ops \subseteq {"media", "restart"}`. With toggles an id is published
  again after its end (section 6), so an object can be started twice.
* `MediaStay`: no switches of media, or switches with a single state value (no memory-only
  update). Otherwise an update that changes only memory fields makes `events_in_process`
  forget the media of the row (section 6).

How they hang together:

* `TypeOK` is not inductive: that the objects force-ended are tracked (`ForceTodo`) and that
  a batch is there while its ids are visited (`UpdateBatch`) must be carried along. The two
  are `TypeInv`.
* `LiveHasEntry`. A start that is queued is not enough: an end of the same id may be queued
  from an earlier life (the resolution changed, the tracker went on), and it would delete
  the entry the start creates if it came behind it. `LiveInv` therefore says that every
  queued end of a live object is followed by a start of it, or else the entry is there and
  no end is queued. The proof has a case per action that publishes, one per way of
  receiving, and the rest leave the three variables alone or only forget objects.
* `OneEndHolds`, `ProcessorLives`. `EndsInv` adds to `OneEndPending` that every end and every
  finalized id names the camera of its object (`EndNamesCamera`) and that what is about to
  be force-ended is not ended yet (`ForceLive`); `Unchanging` says that nothing changes the
  set of cameras or their shapes. Then `finished(id)` finds camera and object.
* The second half of `ObjectLifecycleProofs` builds on these and adds `OrderInv`. An id that
  is missing from a batch after it was known never comes back in a later one (`LeftForGood`,
  `RemovedGone`), an object that is over is in no batch to come (`OverGone`), the end is the
  last queued message of an object, and nothing is queued about one that is forgotten or has
  left `events_in_process` with a row (`Protocol`). `Sound` is the conjunction of all of
  these and is inductive. `NothingLeftInProcess` and that nothing follows an end are
  consequences (that the first message is `new` follows from `TrackedTold`: of a tracked
  true positive clients were told); for `TableIsRecord` each way of receiving a message is
  mapped to `Save`, `Close`, `CloseAll` or a stutter of `EventRecord`.
* `Steady` adds that the media of an object only grow from what is remembered through the
  queued messages to what is tracked (`Growing`; not needed with one state value), and that
  what is remembered is not less than what the row has (`Kept`). `MediaAreKept` and
  `EndIsWritten` follow.

All seven properties of `LifecycleSteady` and the two safety properties of `LifecycleMedia`
are thus theorems.

### 4.2 The detectors

* `DetectionTypeCorrect`: `[]TypeOK`, with the two facts that a detector has a job exactly
  while it detects, writes or publishes.
* `CleanCallsReadCurrent`: `[]CleanReadsCurrent`, for any number of cameras and detectors.
  `CleanInv` says that from a clean start at most one thing of the call exists at a time:
  its request in the queue, one detector working on it, or one signal, in the proxy or the
  socket, and what that
  detector has found and written is the call's frame. Kills only remove the detector from
  that picture. `OtherCamera` moves the argument to one camera.

### 4.3 The client

* `ClientActivityProofs`: `CardTypeCorrect`, and `CardShowsTruth` (`Truthful` of
  `ClientActivity`) for any objects, any numbers of mounts, flips and messages on the wire.
  What a card shows depends on what is still to come, so the invariant speaks about the
  *last* message about each object and each toggle, whether it is on the wire, buffered or
  applied: it is right, or a thread of the server still has one to send (`CardInv`, `ListInv`,
  `SettingInv`, `FlipInv`). A snapshot may be older than the messages that follow it; the
  proof shows that these repair it. It needs that `Null` is neither `"ON"` nor `"OFF"`.
* `LivePlaybackProofs`: `LiveTypeCorrect`, and `OnlyOvertakenLeak` for any number of faults and
  switches. `HeldInv` says which refs and states hold a socket, a peer connection or a
  JSMpeg player (`SocketHeld`, `PeerHeld`, `JsHeld`), and that a hidden dashboard has closed its
  sockets (`HiddenIsClosed`). For WebRTC it counts (`Budgeted`): each preparation that its cleanup
  overtook is still to come, or in the refs with nobody to watch it, or lost, and only once, so
  that the connections without a player never outnumber them.
* `PlayersProofs`: `CardsAreTruthful`, `OnlyOvertakenLeaks` and `PlayersTypeCorrect` state the
  same of the composition that the run `Players` checks: what is shown satisfies the
  invariant of its part (`Inv`), and the lemmas of the parts are cited through the instances.
* `ReviewPagesProofs`: `ReviewsAreTrue`, `ExportsAreCards`, `DetailsAreOwn` and
  `ReviewPagesTypeCorrect` state all four invariants of the run `ReviewPages`, for any reviews,
  exports, cameras and objects, and any number of acts.
  - The review page. A list that is missing is on its way (`ListKept`), and only segments that
    have begun are listed or asked about (`OnlyBegun`). The rest is about one segment that is
    not in `doubt`: one request at a time is about it, and what that did is what was asked
    (`PostsFit`); an end on the wire finds it as it was (`EndFits`); the list agrees with the
    database about it and it is on screen (`ListFits`), and so does an answer under way
    (`AnswerFits`). The delicate step is a mark that the server has taken while a list is loading.
    The button for new items is a matter of counting (`ScreenFits`): the screen shows only
    listed segments of the severity shown, and these are on the server; so if none lingers there
    and one that is wanted is not on it, the wanted ones of the summary outnumber the screen.
  - The exports page. `CardsCatchUp`: a card is as in the database, or a list is loading, or the
    page still knows its job as running, whose end will have the list loaded (`Making`), or an
    answer with the same effect is to come (`Answering`); a load that was overtaken by a
    deletion has that deletion's answer to come.
  - The export dialog: `SelectedIsSeen`, `TabOfMode` and `StartedClean`, per device.
  - The object details: the text is the shown object's or typed (`TextIsOwn`); the list agrees
    with the server about an object, or an answer or an update that has it loaded again is
    under way (`ListCatchesUp`), which a load must not have missed.
* `SettingsProofs`: `DraftsAreKept` states the action property `DraftsSurvive` of the run
  `SettingsPages`, for any number of edits, saves and acts of others. That an answer only drops
  what was sent follows from nothing a step sees. `DraftsInv` adds that the draft of a section
  that was not edited since is what its save sends, and delivered once it is sent
  (`SaveIsOfDraft`), and the same of each draft Save All has sent or has still to send
  (`SaveAllIsOfDraft`), although both may run at once. Then every step but the two that end
  a save leaves a draft alone or was asked to drop it (`OnlyEndsDrop`), and these drop what was
  delivered (`DropsAreDue`).
  `CamerasAreAsTold` states `CamerasAgree` of the same run, for any zones, names and numbers of
  acts, failures and acts of others.
  - Cloning (`CloneInv`). A job writes to each target only what was selected, and nothing more
    after a failure (`JobIsOwn`); as long as no other client wrote, what it has written is the
    source's and what is still to be written of the zones is what the client knew of them
    (`Copied`), which is why a refusal is one of the review's zones (`Refused`).
  - The list of cameras (`ManageInv`). Its writes are told apart by what they are about
    (`About`): the order, the state, the details, or the type of one camera. Unless two of one
    kind crossed there is one at a time (`OnlyOne`), and then what it has written is still in
    the file: `OrderInv`, `StatusInv` and `TypeInv` say so of each, and what the page shows
    meanwhile. A camera being disabled, or disabled, was told last to be off (`Disabling`,
    `ToldOff`). An open editor shows the client's copy and what was typed (`EditorInv`), so that
    only what was typed is ever sent (`Typed`). A step that leaves the writes about one thing
    alone keeps the part about it (`Kept`), which is most of the cases of each proof.
  - The wizard (`WizardInv`). Its data is written by four steps and by answers that come late.
    `StreamsInv` follows the name that streams were tested for through everything that keeps
    them: the data from step three on, the result of step two, tests that will write them back,
    saves, cameras. `RestreamInv`: a camera without restreams has a save that is still to write
    them.
* `ToolPagesProofs`: `SearchesAreOwn` states `SearchIsOwn` of the run `ToolPages` for any
  number of searches and of other clients' acts. `SearchIsOwn` says something about what the
  page shows; that it stays true depends on what is on its way. `SearchInv` therefore ties
  the four parties together. The jobs and the broadcasts: the end of a job is only told when
  it is over, progress never after the end (`ToldInTime`, `ProgressFirst`). The requests: a
  start has its own job or none yet (`Posted`), a cancel names the camera its job was
  started for, whatever camera is shown by then, so that the server does not refuse it
  (`Named`). The page, unless a search was given up before it was answered: it is starting
  the last search (`Starting`), or it knows its job, whose end is still to be heard
  (`Known`). And somebody waits for each job that runs (`Awaited`). The delicate steps are
  an answer that comes after the end of its job, where the last state heard must not have
  been overwritten, and a broadcast that arrives while the start is not answered. The other
  pages of `MCToolPages` are not shown at the same time and leave these variables alone.
  `LibraryIsOwn` states `LibraryAgrees` of the same run: any images, categories and
  requests, on the face library and the pages of a model, whatever recognition saves
  meanwhile. `LibraryInv` says that every deletion under way is of images the user gave up,
  and asked of the waiting images of a model only if their page was shown (`AllProper`);
  that each list, as shown or on its way, fits the server but for its news, or will be read
  again, or is owed a reading by a request that was carried out, or that this request's
  answer was lost (`AllCurrent`); and that the last state told is the model's (`LastTold`).
  The delicate steps are a list read between a request and its answer, and recognition that
  saves an image while the list that lacks it is on its way. `DashboardsAreOwn` states
  `DashboardAgrees`, for any cameras and any number of acts, events and groups.
  - The dashboard. What is kept in the browser is read late, and may arrive in another group.
    `LayoutsInv` follows a layout, `SoundInv` the choices of what is heard, from the group they
    were made in to the storage and back; `GroupsInv` says that the group shown exists, or the
    configuration without it is on its way. `DashboardTypes` types them.
  - The page of a camera. `EventsInv`: each event was made once, and one that is open is the one
    the button ends, or its creation or its end is under way (`MadeOnce`, `ButtonTells`).
    `ModesInv`: a player that failed stays left behind until its stream or its camera changes
    (`LeftBehind`). `TextsInv` and `CameraObeys` are inductive as they stand.

What the proofs use about queues stands at the head of `ObjectLifecycleProofs`: where the
elements of `Tail(q)` and `Append(q, e)` come from, and their order. `ObjectDetectionProofs`,
`ToolPagesProofs` and `SettingsProofs` cite the library's theorems on sequences. `Cameras` and
`Notifications` spell out `RemoveAt`: each definition of a module that is extended weighs on every
obligation of the composite, once per instance.

### 4.4 What the proofs changed

A proof that fails for a good reason says something about the model. Trying to show that cards
catch up, the history variable `overtaken` of `Exports` turned out to excuse too much: it was
set whenever the last broadcast published was an old one, whether or not it mattered. Now it is
set only where a job ends that the page does not count among the active ones, so that nobody
asks for the list, and `ExportsAgree` holds with the smaller exception.

`HeardIsChosen` of the dashboard was false once its user had six acts: the exception for choices
that were not heard yet was computed on the settings before the change, and a camera outside the
group kept its. It is now kept per camera, on the settings as they are after the change, and a
save of the muted cameras forgets the choices of those outside the group, as the code does. The
details of a camera were three variables of `Cameras` and are now one function of the fields, so
that what is typed, sent and written is said once for all fields.

### 4.5 Only model-checked

* Liveness, which TLAPS does not prove: `LostIsClosed`, `LostIsForgotten`,
  `SeenOffEndsObjects`, `ServedUnlessLocked`, `CardIsFilled`, `DeadFallsBack`, `FallbackEnds`,
  `RestsOnLast`, `SavingEnds`.
* `SearchesAgree`, `ZonesAgree`, `SettingsAgree`, `ClientAgrees`: conjunctions over pages of
  which some fold over lists, sort them or parse texts; what a fold computes needs an induction
  over data that the installed provers cannot do. `FootageFollows` depends on the positions of
  recordings and manifests, which its modules compute the same way.
* The type invariants of `MCSettingsPages`, `MCToolPages` and `MCClientPages`, for which all
  pages would have to be typed; the pages with theorems are typed by their invariants.

## 5. Disagreements with the code's own statements

Each is a run that ends in a counterexample.

* **`DeletedCamera`** A finalized message names a camera and an object. If the camera was
  deleted before the processor reads it, `camera_states[camera]` raises
  (`track/object_processing.py:815`) and the thread ends for all cameras, although
  `docs/docs/configuration/cameras.md:71` promises that deleting takes effect without a
  restart. Two neighbours of this, both in the model, are not runs of their own:
  `finished(id)` raises when a new detect resolution has dropped the object meanwhile, and a
  drain with an add and then a remove of one camera raises at line 691
  (`CheckForUpdatesDies`).
* **`DetectorsLost`** "Save All" first writes `detectors: null, model: null` and then the new
  detectors and model. When the second request fails it only counts an error, and the server
  is left without detectors (`pages/Settings.tsx:950`), although the message at line 993 says
  "error saving detectors/model atomically". The page of the detectors itself puts them back
  in the same case.
* **`DescOfOther`** The cancel button of a description puts back `originalDescRef`, the text from
  when the edit began (`SearchDetailDialog.tsx:1567`). The arrow keys may have moved the dialog
  to another object meanwhile, and the description of the first is shown under the second,
  although the comment at line 749 wants the selected item to stay in sync.

## 6. Where the properties end

The properties hold as they are stated in the modules, with guards and conditions that name
what is not promised. This section lists what was found not to hold, and was therefore kept
out of them. Unless a run of section 5 shows it, none of it is a run of its own. Some modules
also define what would be wanted and does not hold, such as `ReadsCurrent` and
`RequestsServed` of `ObjectDetection`; a definition that no run's properties reach is not checked.

*Backend*

* A camera that goes on after one look of the processor and off before the next has its
  objects kept until it is on again (`object_processing.py:665`); `SeenOffEndsObjects`
  delimits it. Ids of a camera turned off and on with frames still queued are published
  again after their "end" (`docs/docs/integrations/mqtt.md:29`); `CamerasStayOn` excludes it.
* With recordings and snapshots switched off during a saved event, a message that changes
  only memory fields (`events/maintainer.py:297`) overwrites what was remembered of its
  media; the end then looks like that of an event never saved, and the row stays open until
  the next start (comment at line 20). `MediaStay` excludes it.
* The signal of a detection call that timed out may be taken by the next call for its own:
  the drain (`object_detection/base.py:421`) does not wait, and misses a signal that is
  still in the proxy or that a detector publishes later; `CleanReadsCurrent` delimits it. A
  detector killed while it polls leaves the queue's lock taken, and nothing looks stuck;
  `ServedUnlessLocked`.

*Live streams, reviews, exports, details and searches*

* `LivePlayback`: a WebRTC connection is put in its ref after an `await`, and a cleanup meanwhile
  closes nothing (`WebRTCPlayer.tsx:132`, `:187`): the connection is opened later and nobody
  closes it. JSMpeg and WebRTC play on behind a hidden dashboard until the card goes idle.
  `RestsOnLast` of `PreviewScrub`: a position kept over a change of the hour is lost.
* `ReviewPage`: of two requests about one review, or a request that fails or meets the review
  being loaded or ending, the list may keep a wrong mark (`doubt`) until a list of another key is
  loaded (`Events.tsx:452`). The answer of `markItemAsReviewed` throws away a load under way, and
  nothing asks for the list again (`stuck`, `:583`). Reviews marked here stay on the screen until
  the memo is computed again, and each hides a new one from the count that shows the button
  for new items.
* `ExportsPage`: the end of a job that the page does not count as running has no list loaded
  (`overtaken`), nor has a request whose answer was lost (`unheard`). `ObjectDetails`: a
  cancel or a failed save puts back the text of the object left (`strayed`, section 5); a
  rewrite of the cached list during a load is lost (`behind`).
* `MotionSearch`: a search given up before it was answered runs on, and its answer is taken
  for the next one's (`late`, `MotionSearchView.tsx:820`); another client's search
  overwrites the state of one not yet answered (`hidden`).

*Zones and cameras*

* `ZoneEditor`: an answer closes a pane that is not its own (`MasksAndZonesView.tsx:214`); a
  failed save stays listed; a configuration that comes during a save leaves the copy behind;
  a rename deletes the old zone before it writes the new one (`ZoneEditPane.tsx:405`, `:432`).
* `PolygonDrawing`: a right click on a closed polygon leaves fewer than three corners
  finished; undo after right clicks or a reset takes another corner
  (`PolygonEditControls.tsx:30`).
* `CloneCamera`: a refused or lost write leaves half a copy, and the restart is not asked for.
  `CameraWizard`: late answers come to a later step, and undo what was edited
  meanwhile (`Step3StreamConfig.tsx:271`); the choice of the back channel is
  not always what is saved (`Step4Validation.tsx:270`, comment at
  `CameraWizardDialog.tsx:270`).

*Settings*

* `SettingsDrafts`: what is typed into a section while it is being saved is cleared with the
  draft (`EditedMeanwhile`, `Settings.tsx:1105`). The dots are promised for the global
  sections only, and not once a draft met a save it was not part of, or a change by others.
* `Profiles`: an override another client makes during a deletion is left without its profile
  (`config.py:609`); `set/profile` succeeds for a profile that does not exist; a failed
  deletion leaves the profile deactivated; a rename re-creates one deleted meanwhile; an
  answer closes whichever dialog of its kind is open.
* `OverlayHistory`: on a phone "Back" from `/settings?page=X` opens the page again; two overlays
  closed close together, or one opened right after another, lose one history entry or close
  each other.
* `SettingsNavigation`: the confirmation removes what is shown by then; `cameraEnabledStates`
  iterates the fields of one camera (`Settings.tsx:717`), so the websocket states are never
  used; a deleted profile or camera stays selected.
* `NotificationSelection`: with the global switch on, choosing single cameras saves none of
  those that inherit; unchecking "All" leaves those enabled on their own; undoing a change
  leaves it marked as unsaved; a camera stays off until a restart.
* `DeviceRegistration`: pressing twice posts the token twice; failures to subscribe are not
  handled; a failed post leaves its message in the status bar.
* `SystemMetrics`: a sample delivered before or under way with the history is shown twice or
  out of order (`GeneralMetrics.tsx:71`); the hidden storage tab's re-read renews the one
  "last refreshed" of all tabs (`StorageMetrics.tsx:65`); a machine with only an NPU shows a
  heading without cards (`GeneralMetrics.tsx:801`); a client clock ahead stops updates.
* `ReviewTimeline`: the start of an export may be dragged past its end by less than a segment;
  grab and release moves the time a quarter segment later; reduced to motion, the top
  segments cannot be reached; a review that ends where a segment begins hides a listed one.
  `TimelineZoom`: the buttons leave the hook's level behind (`use-timeline-zoom.ts:26`,
  `RecordingView.tsx:1081`). `ReviewOverview`: cards present at mount are never observed
  (`EventView.tsx:674`, `:717`); the test at `:738` can never hold.

*Search, footage and dashboards*

* `ExploreSearch`: the page remembers the text of a search that was left, and the same text
  entered again is not searched for (`Explore.tsx:90`); a label added to a filter that has
  labels is added to the saved search it came from as well, because the list is extended in
  place (`InputWithTags.tsx:405`). `FilterDialogs`: typed bounds may be in the wrong order;
  sorting by speed stays without its filter (`SearchFilterDialog.tsx:83`, `:620`).
* `TrainingLibrary`: answers turn the page to a deleted category (`FaceLibrary.tsx:217`); a
  deletion from a model is asked of the page shown when it is confirmed, and when an answer has
  turned it, deletes nothing of what was selected (`ModelTrainingView.tsx:249`). Waiting images
  that recognition saves or drops are not shown as such until the list is read again; a change
  whose answer is lost is not shown until then either; a training whose end is told before the
  request for it is answered is never told as ended.
* `LiveDashboard`: deleting a group deletes the layout of the one on screen
  (`CameraGroupSelector.tsx:516`); a group may be renamed onto another (`:917`); unchecking
  every camera writes nothing about cameras, so the group keeps them (`:980`); a camera in
  two groups is heard as the last group says (`DraggableGridLayout.tsx:433`); "unmute all"
  passes over cameras without settings; an overtaken load of the storage may win.
* `CameraView`: an event started twice, answered after leaving or whose end failed stays
  open; the microphone keeps WebRTC whatever fails; "t" is not among the keys heard
  (`LiveCameraView.tsx:392`); the cleanup of transcription answers OFF with OFF (`:214`); a
  panel button released elsewhere never stops the camera; a preset is sent again when its
  key is released (`PtzControlPanel.tsx:90`).
* `TrackingDetails`: the manifest is read for the slider's offset (`:152`, comment at `:380`);
  the source of a next object uses the previous offset. `DetailStream`: closing a list's
  settings on another camera restores the old selection (`DetailStream.tsx:120`); an object
  deselected at its end is not selected again; a new configuration resets an unsaved offset.
* `ExportDialog`: on a phone the mode shown may not be the one used
  (`MobileReviewSettingsDrawer.tsx:703`).
* `MotionReview`: the first timeout is set though nothing plays (`EventView.tsx:1238`); a seek
  resumes playback that was paused meanwhile (`:1758`). `MotionPreviews`: a clip whose range
  ends with its preview loops to the file's beginning; the region dialog of a vanished
  camera opens over the next.

*Accounts, triggers, streams, models*

* `Accounts`: the role dialog stays mounted and shows the role of an earlier user
  (`RoleChangeDialog.tsx:39`); answers close whichever dialog of the kind is open; of
  several requests one may fail. `Triggers`: a failed save closes the dialog; a failed
  rename loses the trigger; an embedding stays without its entry; a mark stays when another
  trigger fires within 3 s (`TriggerView.tsx:158`).
* `Go2RtcStreams`: edits made during a save are dropped, failed requests to go2rtc go unnoticed,
  visibility of credentials is keyed by name and position.
* `ModelWizard`: going back and on loses the selection of a later class
  (`Step3ChooseExamples.tsx:281`); cancelling never deletes the examples, since `step3Data` is
  never set (`ClassificationModelWizardDialog.tsx:123`); processing goes on after a cancel
  and its late end closes a new wizard; an existing name is not refused. `ModelEdit`: a
  configuration that comes while the dialog is open resets the form to no classes
  (`ClassificationModelEditDialog.tsx:191`); renames by position shift names; added classes
  are never created. `StateAreas`: removing an earlier camera moves the selection.
* `DebugReplay`: two starts may run at once; a stop that waits only 2 s leaves the camera; an
  error of the start is seen until the next poll only.

*Incidents and feeds*

* `Incidents`: ids are acknowledged as `"alert-" + id` and compared with the review's id
  (`AlertCenter.tsx:116`); "Keep highest priority" keeps a LOW (`alertRules.ts:60`); hooks of
  the dialog are conditional (`components/incidents/IncidentDetailModal.tsx:57`); "Last 7
  days" changes only the limit (`review.py:65`); resolving a group marks its newest review.
* `LogsPage`: the answer for one service is left shown as another's (`Logs.tsx:239`); filtering
  while scrolling fetches lines again (`:145`); an answer after leaving opens a stream nobody
  ends; copies are of old lines (`:314`); DBG and TRC of go2rtc count as info
  (`logUtil.ts:8`). `MessageFeed`: messages of other cameras stay shown
  (`use-ws-message-buffer.ts:72`).

## 7. What is not modelled

* In the modelled parts of the backend: manual and LPR events and the metadata drain of the
  processor, zone and activity counters, frame caching and drawing; `AsyncDetectorRunner`;
  the watchdog's monitoring of processes that died by themselves.
* ZMQ is reliable, ordered per publisher, and connected from the start; messages a slow
  subscriber misses while it connects are not modelled. All cameras of an instance are
  enabled in the configuration file.
* A frame's detections, boxes, scores, zones and speeds are data no decision here depends on
  beyond the abstraction of section 2.
* In the client: several exports made at once, uploads, the layout of pages, zoom and
  picture in picture, heat maps, translations, and the diagnostics tab. The note of each
  component in `PROJECT.json` says what it leaves out; such components are `partly`.
* Between pages: what one page leaves for another (caches, history, storage, drafts) is
  modelled in the part it is about, with the other page as an action. Two pages of one
  client acting at the same time occur only where a part says so.
* Components with status `not_modelled` in `PROJECT.json`: those named in the plan come next;
  the others are I/O, numeric or rendering code, or keep no state another part depends on.
* Liveness for other bounds than those of the runs, see 4.5.

## 8. Plan

1. **Theorems** of the pages of `MCSettingsPages` and `MCClientPages` that are free of folds,
   whose modules need their sets and bounds as constants first; then type correctness of further
   composites, along the pattern of `ReviewPagesProofs`.
2. **`CamerasStayOn` weakened** to toggles that never meet a queued batch, for
   `NothingLeftInProcess`.
3. **Metadata and manual events** in `ObjectProcessor`/`EventStore`: sub labels and LPR plates
   set from other processes on objects that may be gone, manual events that end by timer
   (`create_manual_event`, `end_manual_event`, `handle_external_detection`).
4. **`ReviewSegments`** (`review/maintainer.py`): the segment state machine of a camera, against
   an abstract specification of non-overlapping intervals; ends of manual events without a
   segment (line 869), forced end when a camera goes off.
5. **`CameraMaintainer`** (`camera/maintainer.py`): process table under batches of adds and
   removes iterated by topic; composed with the config messages of `ObjectLifecycle`.
6. **`ConfigSync`**: the config objects the API swaps (`api/config_util.py`), the dispatcher and
   the subscribers; do the copies agree when messages stop?
7. **`RecordingCache`** (`record/maintainer.py`): a segment is moved once, also over a restart
   between copy and insert; **`ExportJobs`**: states of a job under cancel, run, reap;
   **`FrameSlots`**: round robin reuse of frame slots against the readers.
