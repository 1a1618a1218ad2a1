-------------------------------- MODULE Live --------------------------------
(***************************************************************************)
(* Live view: the dashboard of a group of cameras, and the page of one     *)
(* camera.                                                                 *)
(***************************************************************************)
EXTENDS FiniteSets, Integers, Naturals, Sequences

CONSTANTS
    Null,
    AllCameras,         \* the cameras of the dashboard
    First,              \* the one that all groups have and some settings are for
    MaxUser,            \* bound: actions of the user, with what else is bounded
    MaxDashboardOther,  \* bound: groups taken away by other clients
    MaxEvents,          \* bound: manual events
    MaxViewOther        \* bound: changes of the transcription by another client

(***************************************************************************)
(* The live dashboard: camera groups, chosen, made, changed and deleted    *)
(* (CameraGroupSelector); the layout of each, arranged by hand and kept in *)
(* the browser (DraggableGridLayout, useUserPersistence); and the settings *)
(* of its streams, changed in the dialog of the group or from the menu of  *)
(* a live card (CameraStreamingDialog, LiveContextMenu).                   *)
(***************************************************************************)
VARIABLES
    groups,     \* config.camera_groups of the server: group -> its cameras, or Null
    dashboardConfig,     \* the client's copy
    reading,    \* it is being read again
    group,      \* the group shown, or "default"
    stored,     \* IndexedDB: the layout of each group
    migrated,   \* the groups whose layout was looked for under its old key
    ops,        \* requests to IndexedDB, served in order
    gridLayout, loadedKey, isLoaded,   \* useUserPersistence of the layout
    currentGridLayout,
    isEditMode,
    allSettings,  \* allGroupsStreamingSettings: group -> camera -> setting
    audioStates,
    dialog,     \* CameraGroupEdit
    request,    \* the write of a group under way
    chosen,     \* history: what the user chose to hear, per camera, in the group shown
    unheard,    \* history: cameras whose choice has no setting to keep it, or settings in two groups
    dashboardUser, dashboardOther,
    dashboardCrossed     \* history: the group shown was renamed, taken, or chosen while a write was under way

dashboardVars == <<groups, dashboardConfig, reading, group, stored, migrated, ops, gridLayout, loadedKey, isLoaded, currentGridLayout,
                   isEditMode, allSettings, audioStates, dialog, request, chosen, unheard, dashboardUser, dashboardOther, dashboardCrossed>>

Groups == {"g", "h"}
Places == {"none", "auto"} \cup Groups   \* where a camera is: nowhere, placed, or dragged to in a group
Layouts == [AllCameras -> Places]
Setting == [type : {"smart", "continuous"}, audio : BOOLEAN]
Settings == [AllCameras -> Setting \cup {Null}]
Write == [kind : {"save", "delete"}, of : Groups \cup {Null}, name : Groups, cameras : SUBSET AllCameras,
          stage : {"asked", "taken", "failed"}, active : Groups \cup {"default"},
          settings : [Groups -> Settings \cup {Null}] \cup {Null}]
NoSettings == [c \in AllCameras |-> Null]

\* A group that is not in the configuration shows every camera.
CamerasOf(cfg, g) == IF cfg[g] = Null THEN AllCameras ELSE cfg[g]

DashboardTypeOK ==
    /\ stored \in [Groups -> Layouts \cup {Null}] /\ allSettings \in [Groups -> Settings \cup {Null}]
    /\ group \in Groups \cup {"default"} /\ loadedKey \in Groups \cup {Null}
    /\ \A i \in DOMAIN ops : ops[i].kind \in {"get", "set", "vain"} /\ ops[i].group \in Groups
    /\ audioStates \in [AllCameras -> BOOLEAN] /\ {isLoaded, isEditMode, reading} \subseteq BOOLEAN
    /\ dialog # Null => dialog.cameras \subseteq AllCameras
    /\ request \in Write \cup {Null}
    /\ unheard \subseteq AllCameras /\ dashboardCrossed \in BOOLEAN

DashboardInit ==
    /\ groups = [g \in Groups |-> IF g = "g" THEN {First} ELSE AllCameras] /\ dashboardConfig = groups /\ reading = FALSE
    /\ group = "default" /\ stored = [g \in Groups |-> Null] /\ migrated = {} /\ ops = <<>>
    /\ gridLayout = Null /\ loadedKey = Null /\ isLoaded = FALSE /\ currentGridLayout = Null /\ isEditMode = FALSE
    /\ LET set == [NoSettings EXCEPT ![First] = [type |-> "smart", audio |-> FALSE]] IN
       \E s \in {Null, set} : allSettings = [g \in Groups |-> IF g = "g" THEN set ELSE s]
    /\ audioStates = [c \in AllCameras |-> FALSE] /\ dialog = Null /\ request = Null
    /\ chosen = [c \in AllCameras |-> Null] /\ unheard = {} /\ dashboardUser = 0 /\ dashboardOther = 0 /\ dashboardCrossed = FALSE

User == dashboardUser + dashboardOther < MaxUser /\ dashboardUser' = dashboardUser + 1
Config == <<groups, dashboardConfig, reading>>
Layout == <<stored, migrated, ops, gridLayout, loadedKey, isLoaded, currentGridLayout, isEditMode>>
Sound == <<allSettings, audioStates, chosen, unheard>>

(***************************************************************************)
(* The layout of the group shown                                           *)
(***************************************************************************)
\* AllCameras without a place get one, those that are not in the group lose theirs.
generateLayout(base, cameras) ==
    [c \in AllCameras |-> IF c \notin cameras THEN "none" ELSE IF base = Null \/ base[c] = "none" THEN "auto" ELSE base[c]]

\* A value is only written under the key it was loaded for.
MutAnyKey(key) == TRUE   \* mutant: the key loaded is not compared
MayWrite(key) == key = group'

\* The effect on the layout that was loaded, or on the cameras of the group.
Show(value, key, queue, cfg) ==
    LET layout == generateLayout(value, CamerasOf(cfg, group')) IN
    /\ currentGridLayout' = layout
    /\ IF layout # value /\ MayWrite(key)
       THEN gridLayout' = layout /\ ops' = Append(queue, [kind |-> "set", group |-> group', value |-> layout, left |-> 0])
       ELSE gridLayout' = value /\ ops' = queue

\* Another group is shown: its layout is looked up, under the old key too the first time; what was
\* shown stays until then.  The default group has no layout of its own: what is still looked up is
\* found in vain.
InVain == [i \in DOMAIN ops |-> IF ops[i].kind = "get" THEN [ops[i] EXCEPT !.kind = "vain"] ELSE ops[i]]
Turn(g) ==
    /\ group' = g /\ isEditMode' = FALSE /\ isLoaded' = FALSE /\ loadedKey' = Null /\ UNCHANGED <<stored, migrated>>
    /\ LET load == [kind |-> "get", group |-> g, value |-> Null, left |-> IF stored[g] = Null /\ g \notin migrated THEN 2 ELSE 1] IN
       IF g = "default" THEN ops' = InVain /\ gridLayout' = Null /\ currentGridLayout' = Null
       ELSE IF group = "default" THEN ops' = Append(ops, load) /\ gridLayout' = Null /\ currentGridLayout' = Null
       ELSE IF isLoaded THEN Show(gridLayout, loadedKey', Append(ops, load), dashboardConfig)
       ELSE ops' = Append(ops, load) /\ currentGridLayout' = Null /\ UNCHANGED gridLayout
setGroup(g) ==
    /\ User /\ g # group /\ (g \in Groups => dashboardConfig[g] # Null) /\ dialog = Null /\ Turn(g)
    /\ chosen' = [c \in AllCameras |-> Null]
    /\ dashboardCrossed' = (dashboardCrossed \/ reading \/ request # Null)
    /\ UNCHANGED <<Config, allSettings, audioStates, unheard, dialog, request, dashboardOther>>

\* IndexedDB serves its requests in order; what a load finds is shown, whichever group is by then.
ServeSet ==
    /\ ops # <<>> /\ Head(ops).kind = "set" /\ ops' = Tail(ops) /\ stored' = [stored EXCEPT ![Head(ops).group] = Head(ops).value]
    /\ UNCHANGED <<Config, group, migrated, gridLayout, loadedKey, isLoaded, currentGridLayout, isEditMode, Sound, dialog, request, dashboardUser, dashboardOther, dashboardCrossed>>
loadWithMigration ==
    /\ ops # <<>> /\ Head(ops).kind # "set" /\ Head(ops).left > 0
    /\ ops' = Append(Tail(ops), [Head(ops) EXCEPT !.left = @ - 1])
    /\ UNCHANGED <<Config, group, stored, migrated, gridLayout, loadedKey, isLoaded, currentGridLayout, isEditMode, Sound, dialog, request, dashboardUser, dashboardOther, dashboardCrossed>>
Loaded ==
    /\ ops # <<>> /\ Head(ops).kind = "get" /\ Head(ops).left = 0
    /\ group' = group /\ migrated' = migrated \cup {Head(ops).group} /\ loadedKey' = Head(ops).group /\ isLoaded' = TRUE
    /\ Show(stored[Head(ops).group], Head(ops).group, Tail(ops), dashboardConfig)
    /\ UNCHANGED <<Config, stored, isEditMode, Sound, dialog, request, dashboardUser, dashboardOther, dashboardCrossed>>

LoadedInVain ==
    /\ ops # <<>> /\ Head(ops).kind = "vain" /\ Head(ops).left = 0
    /\ ops' = Tail(ops) /\ migrated' = migrated \cup {Head(ops).group}
    /\ UNCHANGED <<Config, group, stored, gridLayout, loadedKey, isLoaded, currentGridLayout, isEditMode, Sound, dialog, request, dashboardUser, dashboardOther, dashboardCrossed>>

setIsEditMode ==
    /\ User /\ group # "default" /\ isLoaded /\ dialog = Null /\ isEditMode' = ~isEditMode
    /\ UNCHANGED <<Config, group, stored, migrated, ops, gridLayout, loadedKey, isLoaded, currentGridLayout, Sound, dialog, request, dashboardOther, dashboardCrossed>>
handleLayoutChange(c) ==
    /\ isEditMode /\ isLoaded /\ gridLayout = currentGridLayout /\ currentGridLayout[c] \notin {"none", group}
    /\ group' = group /\ MayWrite(loadedKey)
    /\ gridLayout' = [gridLayout EXCEPT ![c] = group] /\ currentGridLayout' = gridLayout'
    /\ ops' = Append(ops, [kind |-> "set", group |-> group, value |-> gridLayout', left |-> 0])
    /\ UNCHANGED <<Config, stored, migrated, loadedKey, isLoaded, isEditMode, Sound, dialog, request, dashboardUser, dashboardOther, dashboardCrossed>>

(***************************************************************************)
(* What is heard                                                           *)
(***************************************************************************)
\* The settings of every group decide, one group after the other.
FromSettings(all) ==
    [c \in AllCameras |-> IF all["h"] # Null /\ all["h"][c] # Null THEN all["h"][c].audio
                       ELSE all["g"] # Null /\ all["g"][c] # Null /\ all["g"][c].audio]
setAllSettings(all) == allSettings' = all /\ audioStates' = FromSettings(all)
InTwo(all, c) == \A g \in Groups : all[g] # Null /\ all[g][c] # Null

\* The sound of one camera, switched in its menu and kept when the menu closes.
MutStoredSound(g, c) == [type |-> "smart", audio |-> FALSE]   \* mutant: the setting is made anew
WithAudio(g, c) ==
    IF allSettings[g][c] = Null THEN [type |-> "smart", audio |-> ~audioStates[c]] ELSE [allSettings[g][c] EXCEPT !.audio = ~audioStates[c]]
WithSound(c) == [allSettings EXCEPT ![group] = [@ EXCEPT ![c] = WithAudio(group, c)]]
handleOpenChange(c) ==
    /\ User /\ dialog = Null /\ group # "default" /\ c \in CamerasOf(dashboardConfig, group)
    /\ chosen' = [chosen EXCEPT ![c] = ~audioStates[c]]
    /\ IF allSettings[group] = Null
       THEN audioStates' = [audioStates EXCEPT ![c] = ~@] /\ unheard' = unheard \cup {c} /\ UNCHANGED allSettings
       ELSE setAllSettings(WithSound(c)) /\ unheard' = IF InTwo(WithSound(c), c) THEN unheard \cup {c} ELSE unheard
    /\ UNCHANGED <<Config, group, Layout, dialog, request, dashboardOther, dashboardCrossed>>

\* All cameras at once: only those with settings keep it, and the settings decide again.
Muted(g, b) == [c \in AllCameras |-> IF allSettings[g] = Null \/ allSettings[g][c] = Null THEN Null
                                  ELSE [allSettings[g][c] EXCEPT !.audio = b]]
onSaveMuting(b) ==
    /\ User /\ dialog = Null /\ group # "default"
    /\ setAllSettings([allSettings EXCEPT ![group] = Muted(group, b)])
    /\ chosen' = [c \in AllCameras |-> IF c \in CamerasOf(dashboardConfig, group) THEN b ELSE Null]
    /\ unheard' = unheard \cup {c \in AllCameras : Muted(group, b)[c] = Null \/ InTwo(allSettings, c)}
    /\ UNCHANGED <<Config, group, Layout, dialog, request, dashboardOther, dashboardCrossed>>

(***************************************************************************)
(* The dialog of the groups                                                *)
(***************************************************************************)
onEditGroup(g) ==
    /\ User /\ dialog = Null
    /\ dialog' = [of |-> IF dashboardConfig[g] = Null THEN Null ELSE g, name |-> g, cameras |-> IF dashboardConfig[g] = Null THEN {} ELSE dashboardConfig[g],
                  settings |-> IF dashboardConfig[g] = Null THEN Null ELSE allSettings[g]]
    /\ UNCHANGED <<Config, group, Layout, Sound, request, dashboardOther, dashboardCrossed>>
\* The name may be that of another group when one is renamed.
TypeName(n) ==
    /\ dialog # Null /\ dialog.name # n /\ User /\ (dialog.of = Null => dashboardConfig[n] = Null) /\ dialog' = [dialog EXCEPT !.name = n]
    /\ UNCHANGED <<Config, group, Layout, Sound, request, dashboardOther, dashboardCrossed>>
onCheckedChange(c) ==
    /\ User /\ dialog # Null /\ dialog' = [dialog EXCEPT !.cameras = IF c \in @ THEN @ \ {c} ELSE @ \cup {c}]
    /\ UNCHANGED <<Config, group, Layout, Sound, request, dashboardOther, dashboardCrossed>>
handleSave(c) ==
    /\ User /\ dialog # Null /\ c \in dialog.cameras
    /\ LET s == IF dialog.settings = Null THEN NoSettings ELSE dialog.settings IN
       dialog' = [dialog EXCEPT !.settings = [s EXCEPT ![c] = [type |-> "continuous", audio |-> s[c] # Null /\ s[c].audio]]]
    /\ UNCHANGED <<Config, group, Layout, Sound, request, dashboardOther, dashboardCrossed>>
onCancel ==
    /\ dialog # Null /\ dialog' = Null
    /\ UNCHANGED <<Config, group, Layout, Sound, request, dashboardUser, dashboardOther, dashboardCrossed>>

\* A save computes the settings of every group when it is sent, and sets them when it is answered.
onSubmit ==
    /\ dialog # Null /\ request = Null
    /\ request' = [kind |-> "save", of |-> dialog.of, name |-> dialog.name, cameras |-> dialog.cameras, stage |-> "asked", active |-> group,
                   settings |-> [g \in Groups |-> IF g = dialog.name THEN dialog.settings ELSE IF g = dialog.of THEN Null ELSE allSettings[g]]]
    /\ UNCHANGED <<Config, group, Layout, Sound, dialog, dashboardUser, dashboardOther, dashboardCrossed>>
\* A deletion takes the layout of the group that is shown.
onDeleteGroup(g) ==
    /\ User /\ dialog = Null /\ request = Null /\ dashboardConfig[g] # Null
    /\ request' = [kind |-> "delete", of |-> g, name |-> g, cameras |-> {}, stage |-> "asked", active |-> group, settings |-> Null]
    /\ stored' = IF group = "default" THEN stored ELSE [stored EXCEPT ![group] = Null]
    /\ UNCHANGED <<Config, group, migrated, ops, gridLayout, loadedKey, isLoaded, currentGridLayout, isEditMode, Sound, dialog, dashboardOther, dashboardCrossed>>

\* The old name is removed, and the new one written; without cameras their list is not sent.
Without(m, g) == IF g = Null THEN m ELSE [m EXCEPT ![g] = Null]
Applied(r) ==
    LET renamed == Without(groups, IF r.kind = "delete" \/ r.of # r.name THEN r.of ELSE Null) IN
    IF r.kind = "delete" THEN renamed
    ELSE [renamed EXCEPT ![r.name] = IF r.cameras = {} /\ @ # Null THEN @ ELSE r.cameras]
Serve(ok) ==
    /\ request # Null /\ request.stage = "asked"
    /\ IF ok THEN groups' = Applied(request) /\ request' = [request EXCEPT !.stage = "taken"]
       ELSE request' = [request EXCEPT !.stage = "failed"] /\ UNCHANGED groups
    /\ UNCHANGED <<dashboardConfig, reading, group, Layout, Sound, dialog, dashboardUser, dashboardOther, dashboardCrossed>>
MutKeepsShown == FALSE   \* mutant: a deleted group goes on being shown
LeavesGroup == request.kind = "delete" /\ request.active = request.name
Answer ==
    /\ request # Null /\ request.stage = "taken" /\ request' = Null /\ reading' = TRUE
    /\ IF LeavesGroup THEN Turn("default") /\ chosen' = [c \in AllCameras |-> Null]
       ELSE UNCHANGED <<group, Layout>> /\ chosen' = IF request.kind = "save" THEN [c \in AllCameras |-> Null] ELSE chosen
    /\ IF request.kind = "save"
       THEN /\ setAllSettings(request.settings) /\ dialog' = Null
            /\ dashboardCrossed' = (dashboardCrossed \/ request.of \notin {Null, request.name})
       ELSE UNCHANGED <<allSettings, audioStates, dialog>> /\ dashboardCrossed' = (dashboardCrossed \/ group # request.active)
    /\ UNCHANGED <<groups, dashboardConfig, unheard, dashboardUser, dashboardOther>>
Fails ==
    /\ request # Null /\ request.stage = "failed" /\ request' = Null
    /\ UNCHANGED <<Config, group, Layout, Sound, dialog, dashboardUser, dashboardOther, dashboardCrossed>>
updateConfig ==
    /\ reading /\ reading' = FALSE /\ dashboardConfig' = groups /\ group' = group
    /\ IF group # "default" /\ isLoaded THEN Show(currentGridLayout, loadedKey, ops, groups)
       ELSE UNCHANGED <<ops, gridLayout, currentGridLayout>>
    /\ UNCHANGED <<groups, stored, migrated, loadedKey, isLoaded, isEditMode, Sound, dialog, request, dashboardUser, dashboardOther, dashboardCrossed>>
OtherClient(g) ==
    /\ dashboardOther < MaxDashboardOther /\ dashboardUser + dashboardOther < MaxUser /\ groups[g] # Null /\ dashboardOther' = dashboardOther + 1 /\ groups' = [groups EXCEPT ![g] = Null]
    /\ reading' = TRUE /\ dashboardCrossed' = TRUE
    /\ UNCHANGED <<dashboardConfig, group, Layout, Sound, dialog, request, dashboardUser>>

DashboardNext ==
    \/ ServeSet \/ loadWithMigration \/ Loaded \/ LoadedInVain \/ setIsEditMode \/ onCancel \/ onSubmit \/ Answer \/ Fails \/ updateConfig
    \/ \E g \in Groups \cup {"default"} : setGroup(g)
    \/ \E c \in AllCameras : handleLayoutChange(c) \/ handleOpenChange(c) \/ onCheckedChange(c) \/ handleSave(c)
    \/ \E b \in BOOLEAN : onSaveMuting(b) \/ Serve(b)
    \/ \E g \in Groups : onEditGroup(g) \/ TypeName(g) \/ onDeleteGroup(g) \/ OtherClient(g)

DashboardSpec == DashboardInit /\ [][DashboardNext]_dashboardVars

(***************************************************************************)
(* Properties                                                              *)
(***************************************************************************)
\* A layout that is kept for a group was arranged in that group, whatever was shown while it loaded.
StoredIsOwn == \A g \in Groups : stored[g] # Null => \A c \in AllCameras : stored[g][c] \in {"none", "auto", g}

\* The user hears what was chosen last, unless the camera has no settings, or settings in two groups.
HeardIsChosen == \A c \in AllCameras : chosen[c] # Null => chosen[c] = audioStates[c] \/ c \in unheard

\* The group shown exists, unless it was renamed, taken by another client, or chosen while
\* a write was under way.
GroupExists == group \in Groups /\ ~reading /\ request = Null => groups[group] # Null \/ dashboardCrossed

(***************************************************************************)
(* The page of one camera (LiveCameraView): the manual event its button    *)
(* starts and ends, the player it falls back to, the live transcription it *)
(* switches off when it is left, and the panel that moves the camera.      *)
(*                                                                         *)
(* Commands to the camera and to the transcription reach the server in the *)
(* order they are sent and are applied when sent; what the server tells of *)
(* the transcription, and every HTTP request, takes its time.              *)
(***************************************************************************)
Streams == {"main", "sub"}           \* only main has two way audio
Keys == {"ArrowLeft", "ArrowUp"}
Ids == 1..MaxEvents
States == {"ON", "OFF"}

VARIABLES
    restreamed, candidates,      \* the configuration: go2rtc streams, WebRTC candidates
    page,                        \* "open", "left" or "unloaded"
    debug,
    \* the manual event
    events,                      \* the server's open events
    recordingEventId, isRecording,
    requests,                    \* creations and ends on their way
    stray,                       \* history: events started twice, too late, or whose end failed
    \* the player
    streamName, mic, webRTC, lowBandwidth,
    failedModes,                 \* history: players that failed since the user chose
    \* the transcription
    transcription, wire, transcriptionState,
    asked,                       \* history: what was asked for last
    \* the camera
    held, moving,
    aim,                         \* history: the command of the last press or release
    viewUser, viewOther

viewVars == <<restreamed, candidates, page, debug, events, recordingEventId, isRecording, requests,
          stray, streamName, mic, webRTC, lowBandwidth, failedModes, transcription, wire,
          transcriptionState, asked, held, moving, aim, viewUser, viewOther>>
eventVars == <<events, recordingEventId, isRecording, requests, stray>>
modeVars == <<streamName, mic, webRTC, lowBandwidth, failedModes>>
textVars == <<transcription, wire, transcriptionState, asked>>
ptzVars == <<held, moving, aim>>
viewConfig == <<restreamed, candidates>>

Request == [kind : {"create", "end"}, id : Ids \cup {0}]
Modes == {"mse", "webrtc", "jsmpeg"}
Motions == {"still", "preset"} \cup Keys

ViewTypeOK ==
    /\ page \in {"open", "left", "unloaded"} /\ {restreamed, candidates, debug, isRecording} \subseteq BOOLEAN
    /\ events \subseteq Ids /\ stray \subseteq Ids /\ recordingEventId \in Ids \cup {0}
    /\ requests \subseteq Request
    /\ streamName \in Streams /\ {mic, webRTC, lowBandwidth} \subseteq BOOLEAN /\ failedModes \subseteq Modes
    /\ {transcription, transcriptionState} \subseteq States /\ wire \in Seq(States)
    /\ asked \in States \cup {Null}
    /\ held \subseteq Keys \cup {"1", "button"} /\ moving \in Motions /\ aim \in Motions \cup {Null}

ViewInit ==
    /\ restreamed \in BOOLEAN /\ candidates \in BOOLEAN /\ page = "open" /\ debug = FALSE
    /\ events = {} /\ recordingEventId = 0 /\ isRecording = FALSE /\ requests = {} /\ stray = {}
    /\ streamName = "main" /\ mic = FALSE /\ webRTC = FALSE /\ lowBandwidth = FALSE
    /\ failedModes = {}
    /\ transcription \in States /\ transcriptionState = transcription /\ wire = <<>>
    /\ asked = transcription
    /\ held = {} /\ moving = "still" /\ aim = "still" /\ viewUser = 0 /\ viewOther = 0

Acts == page = "open" /\ viewUser + viewOther < MaxUser /\ viewUser' = viewUser + 1 /\ UNCHANGED <<viewConfig, viewOther>>
Quiet == UNCHANGED <<viewConfig, page, debug, viewUser, viewOther>>

(***************************************************************************)
(* The manual event                                                        *)
(***************************************************************************)
Seen == events \cup stray \cup {recordingEventId} \cup {r.id : r \in requests}
Free(i) == i \notin Seen /\ \A j \in Ids : j < i => j \in Seen

Creations == {r \in requests : r.kind = "create"}

\* A second press before the first is answered starts a second event.
createEvent ==
    /\ Acts /\ ~debug /\ ~isRecording
    /\ \E i \in Ids :
        /\ Free(i)
        /\ requests' = requests \cup {[kind |-> "create", id |-> i]}
        /\ stray' = IF Creations = {} THEN stray ELSE stray \cup {i} \cup {r.id : r \in Creations}
    /\ UNCHANGED <<page, debug, events, recordingEventId, isRecording, modeVars, textVars, ptzVars>>

\* The end is sent and taken for done.
EndSent(i) == IF i = 0 THEN requests ELSE requests \cup {[kind |-> "end", id |-> i]}

endEvent ==
    /\ Acts /\ ~debug /\ isRecording
    /\ requests' = EndSent(recordingEventId)
    /\ recordingEventId' = 0 /\ isRecording' = FALSE
    /\ UNCHANGED <<page, debug, events, stray, modeVars, textVars, ptzVars>>

\* The server has made the event; the answer is read whether or not the page is there.
CreateAnswer(r) ==
    /\ r \in requests /\ r.kind = "create" /\ page # "unloaded"
    /\ events' = events \cup {r.id} /\ requests' = requests \ {r}
    /\ recordingEventId' = r.id /\ isRecording' = (page = "open")
    /\ stray' = IF page = "open" THEN stray ELSE stray \cup {r.id}
    /\ UNCHANGED <<modeVars, textVars, ptzVars>> /\ Quiet

\* A page that is gone hears nothing, the server does what it was asked.
ServerAlone(r) ==
    /\ r \in requests /\ page = "unloaded" /\ requests' = requests \ {r}
    /\ events' = IF r.kind = "create" THEN events \cup {r.id} ELSE events \ {r.id}
    /\ stray' = IF r.kind = "create" THEN stray \cup {r.id} ELSE stray
    /\ UNCHANGED <<recordingEventId, isRecording, modeVars, textVars, ptzVars>> /\ Quiet

EndDone(r) ==
    /\ r \in requests /\ r.kind = "end" /\ page # "unloaded"
    /\ events' = events \ {r.id} /\ requests' = requests \ {r}
    /\ UNCHANGED <<recordingEventId, isRecording, stray, modeVars, textVars, ptzVars>> /\ Quiet

\* Refused or lost: a failed creation is told, a failed end is not.
RequestFails(r) ==
    /\ r \in requests /\ requests' = requests \ {r}
    /\ stray' = IF r.kind = "end" THEN stray \cup {r.id} ELSE stray
    /\ UNCHANGED <<events, recordingEventId, isRecording, modeVars, textVars, ptzVars>> /\ Quiet

(***************************************************************************)
(* Leaving                                                                 *)
(***************************************************************************)
MutForgetsEnd ==   \* mutant: only an unload ends the event
    /\ requests' = requests /\ UNCHANGED <<events, recordingEventId>>

\* The cleanups of the page: the event is ended, in place when the browser unloads.
EndOnLeave ==
    /\ requests' = EndSent(recordingEventId)
    /\ recordingEventId' = 0 /\ UNCHANGED events

\* The transcription is switched off by whoever leaves, with what was heard of it.
Leave ==
    /\ Acts /\ page' = "left" /\ EndOnLeave
    /\ transcription' = IF transcriptionState = "ON" THEN "OFF" ELSE transcription
    /\ asked' = IF transcriptionState = "ON" THEN Null ELSE asked
    /\ aim' = IF held = {} THEN aim ELSE Null
    /\ UNCHANGED <<debug, isRecording, stray, modeVars, wire, transcriptionState, held, moving>>

endEventViaBeacon ==
    /\ Acts /\ page' = "unloaded"
    /\ events' = events \ {recordingEventId} /\ recordingEventId' = 0
    /\ aim' = IF held = {} THEN aim ELSE Null
    /\ UNCHANGED <<debug, isRecording, requests, stray, modeVars, textVars, held, moving>>

(***************************************************************************)
(* The player                                                              *)
(***************************************************************************)
preferredLiveMode ==
    IF mic THEN "webrtc"
    ELSE IF ~restreamed THEN "jsmpeg"
    ELSE IF webRTC THEN "webrtc"
    ELSE IF lowBandwidth THEN "jsmpeg" ELSE "mse"

MutBackToMse ==   \* mutant: a failed WebRTC goes back to where it came from
    IF ~webRTC /\ candidates THEN webRTC' = TRUE /\ UNCHANGED lowBandwidth
    ELSE webRTC' = FALSE /\ lowBandwidth' = ~webRTC

Fallback ==
    IF ~webRTC /\ candidates THEN webRTC' = TRUE /\ UNCHANGED lowBandwidth
    ELSE webRTC' = FALSE /\ lowBandwidth' = TRUE

\* JSMpeg reports no errors.
handleError ==
    /\ page = "open" /\ ~debug /\ preferredLiveMode # "jsmpeg" /\ (mic => viewUser + viewOther < MaxUser)
    /\ viewUser' = IF mic THEN viewUser + 1 ELSE viewUser
    /\ Fallback
    /\ failedModes' = IF mic THEN {} ELSE failedModes \cup {preferredLiveMode}
    /\ UNCHANGED <<viewConfig, page, debug, viewOther, eventVars, streamName, mic, textVars, ptzVars>>

ResetLowBandwidth ==
    /\ Acts /\ ~debug /\ restreamed /\ preferredLiveMode = "jsmpeg"
    /\ lowBandwidth' = FALSE /\ failedModes' = {}
    /\ UNCHANGED <<page, debug, eventVars, streamName, mic, webRTC, textVars, ptzVars>>

\* Only a restreamed stream tells of two way audio.
ToggleMic ==
    /\ Acts /\ ~debug /\ restreamed /\ streamName = "main" /\ mic' = ~mic
    /\ UNCHANGED <<page, debug, eventVars, streamName, webRTC, lowBandwidth, failedModes, textVars, ptzVars>>

SelectStream(s) ==
    /\ Acts /\ ~debug /\ restreamed /\ s # streamName /\ streamName' = s
    /\ UNCHANGED <<page, debug, eventVars, mic, webRTC, lowBandwidth, failedModes, textVars, ptzVars>>

ToggleDebug ==
    /\ Acts /\ debug' = ~debug
    /\ UNCHANGED <<page, eventVars, modeVars, textVars, ptzVars>>

(***************************************************************************)
(* The transcription                                                       *)
(***************************************************************************)
Set(s) == transcription' = s /\ wire' = IF s = transcription THEN wire ELSE Append(wire, s)

sendTranscription ==
    /\ Acts
    /\ LET s == IF transcriptionState = "ON" THEN "OFF" ELSE "ON"
       IN  Set(s) /\ asked' = s
    /\ UNCHANGED <<page, debug, eventVars, modeVars, transcriptionState, ptzVars>>

OtherSends(s) ==
    /\ viewOther < MaxViewOther /\ viewUser + viewOther < MaxUser /\ viewOther' = viewOther + 1 /\ s # transcription
    /\ Set(s) /\ asked' = s
    /\ UNCHANGED <<viewConfig, page, debug, viewUser, eventVars, modeVars, transcriptionState, ptzVars>>

MutAlwaysOff(s) == TRUE   \* mutant: the cleanup does not look at the state

WasOn(s) == transcriptionState = "ON" /\ s = "OFF"

\* The state is told; the cleanup of the effect runs for every change, not only when
\* the page is left, and answers an OFF with another.
TranscriptionTold ==
    /\ wire # <<>> /\ page = "open"
    /\ LET s == Head(wire)
           crossed == transcriptionState = "ON" /\ s = "OFF" /\ transcription = "ON"
       IN  /\ transcriptionState' = s
           /\ IF WasOn(s) THEN transcription' = "OFF" ELSE UNCHANGED transcription
           /\ wire' = IF WasOn(s) /\ transcription = "ON" THEN Append(Tail(wire), "OFF") ELSE Tail(wire)
           /\ asked' = IF crossed THEN Null ELSE asked
    /\ UNCHANGED <<eventVars, modeVars, ptzVars>> /\ Quiet

(***************************************************************************)
(* PtzControlPanel                                                         *)
(***************************************************************************)
Send(c) == moving' = c /\ aim' = c

MutStopOnEvery(k) == moving' = moving   \* mutant: a key released stops nothing while others are held

StopFor(k) == moving' = "still"

\* A key, or a button of the panel, is pressed.
Press(k) ==
    /\ Acts /\ k \notin held /\ held' = held \cup {k}
    /\ Send(CASE k = "1" -> "preset" [] k = "button" -> "ArrowUp" [] OTHER -> k)
    /\ UNCHANGED <<page, debug, eventVars, modeVars, textVars>>

\* A number sends its preset again when it is released; every other key stops the camera.
Release(k) ==
    /\ page = "open" /\ k \in held /\ held' = held \ {k}
    /\ IF k = "1" THEN moving' = "preset" /\ aim' = IF aim = "preset" THEN aim ELSE Null
       ELSE StopFor(k) /\ aim' = "still"
    /\ UNCHANGED <<eventVars, modeVars, textVars>> /\ Quiet

\* The pointer is released elsewhere: no button hears of it.
ReleaseElsewhere ==
    /\ page = "open" /\ "button" \in held /\ held' = held \ {"button"}
    /\ aim' = Null /\ UNCHANGED <<moving, eventVars, modeVars, textVars>> /\ Quiet

ViewNext ==
    \/ createEvent \/ endEvent \/ Leave \/ endEventViaBeacon
    \/ \E r \in requests : CreateAnswer(r) \/ ServerAlone(r) \/ EndDone(r) \/ RequestFails(r)
    \/ handleError \/ ResetLowBandwidth \/ ToggleMic \/ (\E s \in Streams : SelectStream(s)) \/ ToggleDebug
    \/ sendTranscription \/ (\E s \in States : OtherSends(s)) \/ TranscriptionTold
    \/ \E k \in Keys \cup {"1", "button"} : Press(k) \/ Release(k)
    \/ ReleaseElsewhere

ViewSpec == ViewInit /\ [][ViewNext]_viewVars

(***************************************************************************)
(* Properties                                                              *)
(***************************************************************************)
\* A manual event that is open is the one the page shows and will end, or its end is on
\* its way; but for one started twice, answered after the page was left, or whose end
\* failed (createEvent, endEvent, the cleanup of FrigateCameraFeatures).
OpenIsOwn ==
    \A i \in events \ stray :
        \/ page = "open" /\ isRecording /\ recordingEventId = i
        \/ [kind |-> "end", id |-> i] \in requests

\* A player that failed is not taken again before the user asks for it, so the fallbacks
\* of one stream end; a microphone that is on keeps WebRTC whatever fails.
FailedIsLeft == ~mic => preferredLiveMode \notin failedModes

\* The transcription is what was asked for last, but for the OFF a page answers another
\* client's OFF with, or sends when it is left.
LastAskWins == asked # Null => transcription = asked

\* The camera does what the last key or button pressed or released says, but for a button
\* released elsewhere, a page left with a key down, and the preset a late release repeats.
CameraObeys == aim # Null => moving = aim
=============================================================================
