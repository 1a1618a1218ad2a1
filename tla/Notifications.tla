--------------------------- MODULE Notifications ----------------------------
(***************************************************************************)
(* Notifications: which cameras send them, and the device that is to get   *)
(* them.                                                                   *)
(***************************************************************************)
EXTENDS FiniteSets, Naturals, Sequences

CONSTANTS
    Null,
    MaxSelectUser,  \* bound: things the user does, with what else is bounded
    MaxOther,       \* bound: cameras switched off or on until the next start, by anybody
    MaxDeviceUser,  \* bound: things the user does
    MaxFaults       \* bound: steps that fail

(***************************************************************************)
(* Which cameras send notifications (NotificationsSettingsExtras): the     *)
(* switches of the form become unsaved changes of the global section and   *)
(* of the cameras, which forms of single cameras may hold as well.  The    *)
(* effects of a change run before the next.                                *)
(***************************************************************************)
Cameras == {"a", "b"}
Kept == {"none", "on", "off"}   \* as an unsaved change; "none": as in the configuration

VARIABLES
    server, config,        \* all: the global switch; own: what a camera sets; off: switched off until restart
    mounted, allEnabled, cameras, cameraSelectionTouched,
    pendingAll, pending, ours,   \* unsaved changes, and the cameras whose were made here (pendingCameraOverridesRef)
    foreign,               \* history: an unsaved change of a camera is not of this visit to the form
    saved,                 \* history: a camera was saved otherwise than shown
    selectUser, other

form == <<mounted, allEnabled, cameras, cameraSelectionTouched>>
unsaved == <<pendingAll, pending, ours>>
selectVars == <<server, config, form, unsaved, foreign, saved, selectUser, other>>

States == [all : BOOLEAN, own : [Cameras -> Kept], off : SUBSET Cameras]
SelectTypeOK ==
    /\ {server, config} \subseteq States /\ {mounted, allEnabled, cameraSelectionTouched, foreign, saved} \subseteq BOOLEAN
    /\ cameras \subseteq Cameras /\ pendingAll \in Kept /\ pending \in [Cameras -> Kept] /\ ours \subseteq Cameras

As(b) == IF b THEN "on" ELSE "off"
\* A camera that sets nothing does as the global switch.
EnabledInConfig(s, c) == IF s.own[c] = "none" THEN s.all ELSE s.own[c] = "on"
Enabled(s, c) == EnabledInConfig(s, c) /\ c \notin s.off
notificationCameras(s) == {c \in Cameras : EnabledInConfig(s, c)}
baselineCameraSelection(s) == IF s.all THEN {} ELSE notificationCameras(s)

\* What the form starts from, unsaved changes included.
DefaultAll(s, p) == IF p = "none" THEN s.all ELSE p = "on"
DefaultCameras(s, pAll, p) ==
    IF DefaultAll(s, pAll) THEN {}
    ELSE {c \in Cameras : IF p[c] = "none" THEN EnabledInConfig(s, c) ELSE p[c] = "on"}

SelectInit ==
    /\ \E all \in BOOLEAN, own \in [Cameras -> Kept] : server = [all |-> all, own |-> own, off |-> {}]
    /\ config = server /\ mounted = TRUE /\ allEnabled = server.all /\ cameras = DefaultCameras(server, "none", [c \in Cameras |-> "none"])
    /\ cameraSelectionTouched = FALSE /\ pendingAll = "none" /\ pending = [c \in Cameras |-> "none"] /\ ours = {}
    /\ foreign = FALSE /\ saved = FALSE /\ selectUser = 0 /\ other = 0

(***************************************************************************)
(* The effects of a change of the form or of the configuration             *)
(***************************************************************************)
Nothing(pAll, p) == pAll = "none" /\ \A c \in Cameras : p[c] = "none"

resetFormState(s, pAll, p) ==
    /\ allEnabled' = DefaultAll(s, pAll) /\ cameras' = DefaultCameras(s, pAll, p)
    /\ cameraSelectionTouched' = FALSE /\ ours' = {}

\* Unsaved changes of the cameras: those that are to do otherwise than they do.
Overrides(s, all, chosen, touched) ==
    LET dirty == chosen # baselineCameraSelection(s)
        differ == {c \in Cameras : (all \/ c \in chosen) # Enabled(s, c)}
    IN IF ~touched THEN [pending |-> pending, ours |-> ours, touched |-> FALSE]
       ELSE IF ~dirty
       THEN [pending |-> [c \in Cameras |-> IF c \in ours THEN "none" ELSE pending[c]], ours |-> {}, touched |-> FALSE]
       ELSE [pending |-> [c \in Cameras |-> IF c \in differ THEN As(all \/ c \in chosen)
                                            ELSE IF c \in ours THEN "none" ELSE pending[c]],
             ours |-> differ, touched |-> TRUE]

Settle(s, all, chosen, touched) ==
    LET pAll == IF all = s.all THEN "none" ELSE As(all)
        o == Overrides(s, all, chosen, touched)
    IN /\ pendingAll' = pAll /\ pending' = o.pending
       /\ IF Nothing(pAll, o.pending) /\ (~Nothing(pendingAll, pending) \/ (all = allEnabled /\ chosen = cameras))
          THEN resetFormState(s, pAll, o.pending)
          ELSE allEnabled' = all /\ cameras' = chosen /\ cameraSelectionTouched' = o.touched /\ ours' = o.ours

(***************************************************************************)
(* The user                                                                *)
(***************************************************************************)
SelectUser == selectUser + other < MaxSelectUser /\ selectUser' = selectUser + 1 /\ UNCHANGED other
Here == SelectUser /\ mounted /\ UNCHANGED mounted

ToggleAll ==
    /\ Here /\ Settle(config, ~allEnabled, IF allEnabled THEN cameras ELSE {}, TRUE)
    /\ UNCHANGED <<server, config, foreign, saved>>
ToggleCamera(c) ==
    /\ Here /\ Settle(config, FALSE, IF c \in cameras THEN cameras \ {c} ELSE cameras \cup {c}, TRUE)
    /\ UNCHANGED <<server, config, foreign, saved>>

\* Everything that is unsaved is written, and the configuration read again.
Written(c) == IF pending[c] = "none" THEN server.own[c] ELSE pending[c]
Shown(c) == allEnabled \/ c \in cameras
Save ==
    /\ Here /\ ~Nothing(pendingAll, pending)
    /\ server' = [all |-> DefaultAll(server, pendingAll), own |-> [c \in Cameras |-> Written(c)], off |-> {}]
    /\ config' = server' /\ pendingAll' = "none" /\ pending' = [c \in Cameras |-> "none"]
    /\ resetFormState(server', "none", pending')
    /\ saved' = (saved \/ (~config.all /\ config = server /\ server.off = {} /\ ~allEnabled /\ ~foreign /\ \E c \in Cameras : Enabled(server', c) # Shown(c)))
    /\ foreign' = FALSE
UndoAll ==
    /\ Here /\ ~Nothing(pendingAll, pending) /\ pendingAll' = "none" /\ pending' = [c \in Cameras |-> "none"]
    /\ resetFormState(config, "none", pending') /\ foreign' = FALSE /\ UNCHANGED <<server, config, saved>>

\* Unsaved changes stay when the form is left; forms of single cameras make some too.
Leave == SelectUser /\ mounted /\ mounted' = FALSE /\ UNCHANGED <<server, config, allEnabled, cameras, cameraSelectionTouched, unsaved, foreign, saved>>
CameraForm(c) ==
    /\ SelectUser /\ ~mounted /\ pending' = [pending EXCEPT ![c] = As(~(IF @ = "none" THEN Enabled(config, c) ELSE @ = "on"))]
    /\ UNCHANGED <<server, config, form, pendingAll, ours, foreign, saved>>
Return ==
    /\ SelectUser /\ ~mounted /\ mounted' = TRUE /\ resetFormState(config, pendingAll, pending)
    /\ foreign' = (\E c \in Cameras : pending[c] # "none") /\ UNCHANGED <<server, config, pendingAll, pending, saved>>

(***************************************************************************)
(* Others                                                                  *)
(***************************************************************************)
\* Off until the next start, or on again (CameraNotificationSwitch, MQTT).
handleSuspend(c) ==
    /\ other < MaxOther /\ selectUser + other < MaxSelectUser /\ other' = other + 1 /\ EnabledInConfig(server, c)
    /\ server' = [server EXCEPT !.off = IF c \in @ THEN @ \ {c} ELSE @ \cup {c}]
    /\ UNCHANGED <<config, form, unsaved, foreign, saved, selectUser>>
Reread ==
    /\ config # server /\ config' = server /\ UNCHANGED <<server, mounted, foreign, saved, selectUser, other>>
    /\ IF ~mounted THEN UNCHANGED <<allEnabled, cameras, cameraSelectionTouched, unsaved>>
       ELSE IF Nothing(pendingAll, pending)
       THEN resetFormState(server, "none", pending) /\ UNCHANGED <<pendingAll, pending>>
       ELSE Settle(server, allEnabled, cameras, cameraSelectionTouched)

SelectNext ==
    \/ ToggleAll \/ Save \/ UndoAll \/ Leave \/ Return \/ Reread
    \/ \E c \in Cameras : ToggleCamera(c) \/ CameraForm(c) \/ handleSuspend(c)

SelectSpec == SelectInit /\ [][SelectNext]_selectVars

(***************************************************************************)
(* Properties                                                              *)
(***************************************************************************)
\* Cameras chosen one by one are saved as the switches show, if the configuration had the
\* global switch off, no camera is off until restart and no unsaved change is from elsewhere (pendingCameraOverridesRef).
SavedAsShown == ~saved

\* Choosing back what was there leaves nothing unsaved behind (the effect on the selection).
BackIsClean ==
    mounted /\ ~foreign /\ allEnabled = config.all /\ cameras = baselineCameraSelection(config)
        => Nothing(pendingAll, pending)

\* Unsaved changes made here are of this form's switches: none outlives the switch it is of.
OursAreShown ==
    mounted /\ ~foreign => \A c \in ours : pending[c] = As(Shown(c))

(***************************************************************************)
(* A device that is to get push notifications (NotificationsSettingsExtras)*)
(* needs a worker and a subscription in the browser and a token with the   *)
(* server; each step of the button answers later and may fail.             *)
(***************************************************************************)
Steps == {"permission", "register", "wait", "subscribe", "post", "unregister"}

VARIABLES
    registration,     \* as the page knows it: Null, or "worker"
    worker, active,   \* in the browser
    sub, subs,        \* its subscription, and how many there were
    tokens,           \* with the server, in the order they came
    message,          \* the status bar says a registration is not in use yet
    steps,            \* under way; "post" with the subscription it is of
    failed, hurried,  \* history: what failed, and whether a button was pressed before the last was done
    deviceUser, faults

deviceVars == <<registration, worker, active, sub, subs, tokens, message, steps, failed, hurried, deviceUser, faults>>
device == <<registration, worker, active, sub, subs>>

DeviceTypeOK ==
    /\ registration \in {Null, "worker"} /\ {worker, active, message, hurried} \subseteq BOOLEAN
    /\ sub \in Nat /\ tokens \in Seq(Nat) /\ \A i \in DOMAIN steps : steps[i][1] \in Steps /\ steps[i][2] \in Nat
    /\ failed \subseteq {"subscribe", "post"}

NoSub == 0
DeviceInit ==
    /\ registration = Null /\ worker = FALSE /\ active \in BOOLEAN /\ sub = NoSub /\ subs = 0 /\ tokens = <<>>
    /\ message = FALSE /\ steps = <<>> /\ failed = {} /\ hurried = FALSE /\ deviceUser = 0 /\ faults = 0

DeviceUser == deviceUser < MaxDeviceUser /\ deviceUser' = deviceUser + 1 /\ UNCHANGED <<faults, failed>>

\* One button registers the device or takes it off.
Press ==
    /\ DeviceUser /\ steps' = Append(steps, IF registration = Null THEN <<"permission", NoSub>> ELSE <<"unregister", NoSub>>)
    /\ hurried' = (hurried \/ steps # <<>>) /\ UNCHANGED <<device, tokens, message>>

\* Leaving the page forgets nothing in the browser; coming back it asks for the worker.
Reload ==
    /\ DeviceUser /\ registration' = (IF worker THEN "worker" ELSE Null) /\ message' = FALSE /\ steps' = <<>>
    /\ active' = (active \/ worker) /\ hurried' = (hurried \/ steps # <<>>) /\ UNCHANGED <<worker, sub, subs, tokens>>

\* One of a queue goes, wherever it stands.
RemoveAt(s, i) == SubSeq(s, 1, i - 1) \o SubSeq(s, i + 1, Len(s))
Answered(i, more) == steps' = RemoveAt(steps, i) \o more
Kind(i, k) == i \in DOMAIN steps /\ steps[i][1] = k
Silent == UNCHANGED <<hurried, deviceUser>>
Fault == faults < MaxFaults /\ faults' = faults + 1

Permission(i, granted) ==
    /\ Kind(i, "permission") /\ Silent /\ UNCHANGED <<device, tokens, message, failed, faults>>
    /\ Answered(i, IF granted THEN <<<<"register", NoSub>>>> ELSE <<>>)

\* The worker is there; the subscription waits a second for it to be active.
Register(i) ==
    /\ Kind(i, "register") /\ Silent /\ worker' = TRUE /\ registration' = "worker"
    /\ message' = (message \/ active) /\ Answered(i, <<<<IF active THEN "subscribe" ELSE "wait", NoSub>>>>)
    /\ UNCHANGED <<active, sub, subs, tokens, failed, faults>>
subscribeToNotifications(i) ==
    /\ Kind(i, "wait") /\ Silent /\ active' = worker /\ message' = TRUE /\ Answered(i, <<<<"subscribe", NoSub>>>>)
    /\ UNCHANGED <<registration, worker, sub, subs, tokens, failed, faults>>

\* A worker has one subscription, the same to all who ask.
Subscribe(i) ==
    /\ Kind(i, "subscribe") /\ worker /\ Silent
    /\ subs' = IF sub = NoSub THEN subs + 1 ELSE subs
    /\ sub' = IF sub = NoSub THEN subs + 1 ELSE sub
    /\ Answered(i, <<<<"post", sub'>>>>) /\ UNCHANGED <<registration, worker, active, tokens, message, failed, faults>>
SubscribeFails(i) ==
    /\ Kind(i, "subscribe") /\ Silent /\ Answered(i, <<>>) /\ failed' = failed \cup {"subscribe"}
    /\ IF worker THEN Fault ELSE UNCHANGED faults
    /\ UNCHANGED <<device, tokens, message>>

Post(i) ==
    /\ Kind(i, "post") /\ Silent /\ tokens' = Append(tokens, steps[i][2]) /\ Answered(i, <<>>)
    /\ UNCHANGED <<device, message, failed, faults>>
\* The token did not reach the server, so the device is taken off again.
PostFails(i) ==
    /\ Kind(i, "post") /\ Silent /\ Fault /\ Answered(i, <<>>) /\ failed' = failed \cup {"post"}
    /\ sub' = NoSub /\ worker' = FALSE /\ registration' = Null /\ UNCHANGED <<active, subs, tokens, message>>

Unregister(i) ==
    /\ Kind(i, "unregister") /\ Silent /\ Answered(i, <<>>)
    /\ sub' = NoSub /\ worker' = FALSE /\ registration' = Null /\ message' = FALSE
    /\ UNCHANGED <<active, subs, tokens, failed, faults>>

\* The server drops a token once a push to it was refused.
Expire ==
    /\ \E i \in DOMAIN tokens : tokens[i] # sub /\ tokens' = RemoveAt(tokens, i)
    /\ UNCHANGED <<device, message, steps, failed, hurried, deviceUser, faults>>

DeviceNext ==
    \/ Press \/ Reload \/ Expire
    \/ \E i \in DOMAIN steps :
         \/ \E granted \in BOOLEAN : Permission(i, granted)
         \/ Register(i) \/ subscribeToNotifications(i) \/ Subscribe(i) \/ SubscribeFails(i)
         \/ Post(i) \/ PostFails(i) \/ Unregister(i)

DeviceSpec == DeviceInit /\ [][DeviceNext]_deviceVars

(***************************************************************************)
(* Properties: with nothing under way and no button pressed too early      *)
(***************************************************************************)
Calm == steps = <<>> /\ ~hurried

\* A device that is shown as registered gets each notification once, unless it could not
\* subscribe (which nothing handles).
RegisteredGetsOnce ==
    Calm /\ registration = "worker" /\ "subscribe" \notin failed =>
        sub # NoSub /\ Cardinality({i \in DOMAIN tokens : tokens[i] = sub}) = 1

\* A device that is shown as not registered gets none: it has no subscription left.
UnregisteredGetsNone == Calm /\ registration = Null => sub = NoSub

\* The status bar tells of a registration only while there is one, but after a failure.
MessageIsOfDevice == Calm /\ message /\ failed = {} => registration = "worker"
=============================================================================
