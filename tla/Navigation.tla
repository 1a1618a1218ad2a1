----------------------------- MODULE Navigation -----------------------------
(***************************************************************************)
(* Moving through the client: overlays that Back closes, and the frame of  *)
(* the settings with the camera and the profile its forms are for.         *)
(***************************************************************************)
EXTENDS FiniteSets, Integers, Sequences

CONSTANTS
    Null,
    MaxOverlayUser,  \* bound: things the user does
    MaxNavUser,      \* bound: things the user does, with what else is bounded
    MaxOther,        \* bound: changes by other clients
    MaxFaults        \* bound: requests that fail

(***************************************************************************)
(* Overlays that the browser's back button closes (useHistoryBack, used by *)
(* Dialog, Sheet, MobilePage and the case of the exports): each puts an    *)
(* entry on the history and takes it off when it is closed otherwise.  A   *)
(* parameter of the URL may open one and is then stripped (useSearchEffect)*)
(***************************************************************************)
Overlays == {"a", "b"}   \* "a" is the one a parameter opens

VARIABLES
    history,                \* entries of the page, the current one last
    open, urlWhenOpened,    \* per overlay; historyPushedRef holds just while one is open
    backs,                  \* traversals asked for: "user" or "program"
    pressedOver,            \* history: the user went back over an open overlay
    left,                   \* history: the page was left by going back
    strays,                 \* history: an overlay was closed though nobody asked for it
    undone,                 \* history: a change of the URL was taken back though nobody asked for it
    overlayCrossed,                \* history: which of the known troubles happened
    overlayUser

overlayVars == <<history, open, urlWhenOpened, backs, pressedOver, left, strays, undone, overlayCrossed, overlayUser>>
past == <<pressedOver, left, strays, undone>>

Urls == {"param", "plain", "filtered"}

OverlayTypeOK ==
    /\ history \in Seq([url : Urls, of : Overlays \cup {Null}]) /\ history # <<>>
    /\ \A o \in Overlays : open[o] \in BOOLEAN /\ urlWhenOpened[o] \in Urls \cup {Null}
    /\ backs \in Seq({"user", "program"}) /\ {pressedOver, left, strays, undone} \subseteq BOOLEAN

Top == history[Len(history)]
Popped == SubSeq(history, 1, Len(history) - 1)
AnyOpen == \E o \in Overlays : open[o]

OverlayInit ==
    /\ history \in {<<[url |-> u, of |-> Null]>> : u \in {"param", "plain"}}
    /\ open = [o \in Overlays |-> FALSE] /\ urlWhenOpened = [o \in Overlays |-> Null] /\ backs = <<>>
    /\ pressedOver = FALSE /\ left = FALSE /\ strays = FALSE /\ undone = FALSE /\ overlayCrossed = {} /\ overlayUser = 0

OverlayUser == ~left /\ overlayUser < MaxOverlayUser /\ overlayUser' = overlayUser + 1

\* The entry is pushed when the overlay opens; the URL is kept to see whether it changed since.
Open(o) ==
    /\ OverlayUser /\ ~open[o] /\ Top.url # "param"
    /\ open' = [open EXCEPT ![o] = TRUE] /\ urlWhenOpened' = [urlWhenOpened EXCEPT ![o] = Top.url]
    /\ history' = Append(history, [url |-> Top.url, of |-> o])
    /\ overlayCrossed' = overlayCrossed \cup (IF AnyOpen THEN {"both"} ELSE {}) \cup (IF backs # <<>> THEN {"quick"} ELSE {})
    /\ UNCHANGED <<backs, past>>

\* Closed by its button: its entry is taken off, unless the URL has changed.
Close(o) ==
    /\ OverlayUser /\ open[o] /\ open' = [open EXCEPT ![o] = FALSE]
    /\ backs' = IF urlWhenOpened[o] = Top.url THEN Append(backs, "program") ELSE backs
    /\ overlayCrossed' = IF backs # <<>> THEN overlayCrossed \cup {"quick"} ELSE overlayCrossed
    /\ urlWhenOpened' = [urlWhenOpened EXCEPT ![o] = Null] /\ UNCHANGED <<history, past>>

\* What is chosen in an overlay becomes part of the URL, as an entry of its own.
UpdateFilter ==
    /\ OverlayUser /\ Top.url = "plain" /\ history' = Append(history, [url |-> "filtered", of |-> Null])
    /\ overlayCrossed' = overlayCrossed \cup (IF backs # <<>> THEN {"url", "quick"} ELSE {"url"})
    /\ UNCHANGED <<open, urlWhenOpened, backs, past>>

Back ==
    /\ OverlayUser /\ backs' = Append(backs, "user") /\ pressedOver' = AnyOpen
    /\ overlayCrossed' = IF backs # <<>> THEN overlayCrossed \cup {"quick"} ELSE overlayCrossed
    /\ UNCHANGED <<history, open, urlWhenOpened, left, strays, undone>>

\* popstate: every overlay that is open closes, its entry counts as gone.
handlePopState ==
    /\ open' = [o \in Overlays |-> FALSE] /\ urlWhenOpened' = [o \in Overlays |-> Null]

Traverse ==
    /\ backs # <<>> /\ ~left /\ backs' = Tail(backs) /\ UNCHANGED <<pressedOver, overlayCrossed, overlayUser>>
    /\ strays' = (strays \/ (Head(backs) = "program" /\ AnyOpen))
    /\ undone' = (undone \/ (Head(backs) = "program" /\ Top.of = Null))
    /\ IF Len(history) = 1 THEN left' = TRUE /\ UNCHANGED <<history, open, urlWhenOpened>>
       ELSE history' = Popped /\ handlePopState /\ UNCHANGED left

\* A parameter opens its overlay, which pushes its entry; then the parameter is stripped off
\* the entry that is current by now.
useSearchEffect ==
    /\ Top.url = "param" /\ ~left /\ overlayCrossed' = overlayCrossed \cup {"link"}
    /\ LET plain == [url |-> "plain", of |-> Null] IN
       IF open["a"] THEN history' = Append(Popped, plain) /\ UNCHANGED <<open, urlWhenOpened>>
       ELSE /\ history' = Append(history, plain)
            /\ open' = [open EXCEPT !["a"] = TRUE] /\ urlWhenOpened' = [urlWhenOpened EXCEPT !["a"] = "param"]
    /\ UNCHANGED <<backs, past, overlayUser>>

OverlayNext ==
    \/ \E o \in Overlays : Open(o) \/ Close(o)
    \/ UpdateFilter \/ Back \/ Traverse \/ useSearchEffect

OverlaySpec == OverlayInit /\ [][OverlayNext]_overlayVars

(***************************************************************************)
(* Properties: each but for two overlays at once, one opened while another *)
(* is being taken off the history, and URLs that change or open one.       *)
(***************************************************************************)
\* With every overlay closed the history is what it was before (useHistoryBack).
NothingLeft == ~AnyOpen /\ backs = <<>> /\ overlayCrossed = {} => Len(history) = 1

\* Going back over an overlay closes it and stays on the page.
BackOnlyCloses == left /\ overlayCrossed = {} => ~pressedOver

\* An overlay closes by its button or by going back, not because another was closed.
ClosedAsAsked == strays => overlayCrossed # {}

\* What closing an overlay takes off the history is the entry of an overlay, never a change of
\* the URL made while it was open.
UrlIsKept == undone => overlayCrossed \cap {"quick", "both", "link"} # {}

(***************************************************************************)
(* The frame of the settings page (Settings): which page, camera and       *)
(* profile the forms are for, links into it, and the removal of what a     *)
(* profile overrides in the section of the page.  What the forms hold is   *)
(* the subject of SettingsDrafts.                                          *)
(***************************************************************************)
Cameras == 1..2   \* in the order of the menu
Profiles == {"p", "q"}
CAMERA_SECTION_MAPPING == [record |-> "cameraRecording", review |-> "cameraReview"]
Sections == DOMAIN CAMERA_SECTION_MAPPING
CameraPages == {CAMERA_SECTION_MAPPING[s] : s \in Sections}
ALLOWED_VIEWS_FOR_VIEWER == {"uiSettings"}
Pages == ALLOWED_VIEWS_FOR_VIEWER \cup CameraPages

VARIABLES
    server, config,        \* cameras, those enabled, profiles and overrides; as read
    isAdmin,
    page, pageToggle,      \* the page shown, and the one the menu and the header are at
    selectedCamera, editingProfile,
    dialog,                \* asks to remove: the override it was opened for
    jobs,                  \* removals under way
    gone,                  \* history: overrides removed here, as <<asked, removed>>
    navCrossed,               \* history: the camera or the profile was changed under the dialog
    navUser, other, faults

navVars == <<server, config, isAdmin, page, pageToggle, selectedCamera, editingProfile, dialog, jobs,
          gone, navCrossed, navUser, other, faults>>

Overrides == Cameras \X Profiles \X Sections
States == [cameras : SUBSET Cameras, on : SUBSET Cameras, profiles : SUBSET Profiles, overrides : SUBSET Overrides]

NavTypeOK ==
    /\ {server, config} \subseteq States /\ {page, pageToggle} \subseteq Pages
    /\ selectedCamera \in Cameras /\ \A c \in Cameras : editingProfile[c] \in Profiles \cup {Null}
    /\ dialog = Null \/ dialog \in Overrides
    /\ \A j \in jobs : {j.asked, j.what} \subseteq Overrides /\ j.step \in {"set", "read"}

Section(p) == CHOOSE s \in Sections : CAMERA_SECTION_MAPPING[s] = p
Least(S) == CHOOSE x \in S : \A y \in S : x <= y

NavInit ==
    /\ \E on \in {{1}, {1, 2}} :
         server = [cameras |-> Cameras, on |-> on, profiles |-> Profiles,
                   overrides |-> {<<1, "p", "record">>, <<1, "p", "review">>, <<2, "p", "record">>}]
    /\ config = server /\ isAdmin \in BOOLEAN /\ page = "uiSettings" /\ pageToggle = "uiSettings"
    /\ selectedCamera = 1 /\ editingProfile = [c \in Cameras |-> Null] /\ dialog = Null /\ jobs = {}
    /\ gone = {} /\ navCrossed = FALSE /\ navUser = 0 /\ other = 0 /\ faults = 0

(***************************************************************************)
(* Where the user is                                                       *)
(***************************************************************************)
NavUser == navUser + other + faults < MaxNavUser /\ navUser' = navUser + 1 /\ UNCHANGED <<server, config, isAdmin, gone, other, faults>>
setPageToggle(p) ==
    pageToggle' = IF ~isAdmin /\ p \notin ALLOWED_VIEWS_FOR_VIEWER THEN "uiSettings" ELSE p

\* A camera that is disabled or gone is left for the first that is enabled, but on one page.
CameraOn(camera) ==
    IF camera \in config'.on \/ pageToggle' = "cameraReview" THEN camera
    ELSE Least(IF config'.on # {} THEN config'.on ELSE config'.cameras)
\* The effect on the camera runs after every change of what it depends on.
setSelectedCamera(camera) ==
    /\ selectedCamera' = CameraOn(camera)
    /\ navCrossed' = (navCrossed \/ (dialog # Null /\ selectedCamera' # selectedCamera))

MenuItem(p) ==
    /\ NavUser /\ dialog = Null /\ setPageToggle(p) /\ setSelectedCamera(selectedCamera)
    /\ UNCHANGED <<page, editingProfile, dialog, jobs>>
\* The page follows the menu a little later; the forms of the page before are gone.
PageFollows ==
    /\ page # pageToggle /\ page' = pageToggle /\ dialog' = Null
    /\ UNCHANGED <<server, config, isAdmin, pageToggle, selectedCamera, editingProfile, jobs, gone, navCrossed, navUser, other, faults>>
\* A link names a page and a camera; either may not exist here.
Link(p, c) ==
    /\ NavUser /\ dialog = Null /\ setPageToggle(p) /\ setSelectedCamera(IF c \in config.cameras THEN c ELSE selectedCamera)
    /\ UNCHANGED <<page, editingProfile, dialog, jobs>>

\* The button is there on the pages of a camera; on one page it offers disabled cameras too.
CameraSelectButton(c) ==
    /\ NavUser /\ dialog = Null /\ pageToggle \in CameraPages
    /\ c \in config.cameras /\ (c \in config.on \/ page = "cameraReview")
    /\ UNCHANGED <<page, pageToggle, editingProfile, dialog, jobs>> /\ setSelectedCamera(c)

showProfileDropdown == pageToggle \in CameraPages /\ config.profiles # {}
handleSelectProfile(p) ==
    /\ NavUser /\ dialog = Null /\ showProfileDropdown /\ p \in config.profiles \cup {Null}
    /\ editingProfile' = [editingProfile EXCEPT ![selectedCamera] = p]
    /\ UNCHANGED <<page, pageToggle, selectedCamera, dialog, jobs, navCrossed>>

(***************************************************************************)
(* Removing what a profile overrides                                       *)
(***************************************************************************)
\* What the form on the page is for.
Shown == <<selectedCamera, editingProfile[selectedCamera], Section(page)>>
profileOverridesSection == Shown \in config.overrides

AskRemove ==
    /\ NavUser /\ dialog = Null /\ page \in CameraPages /\ page = pageToggle /\ profileOverridesSection
    /\ dialog' = Shown /\ UNCHANGED <<page, pageToggle, selectedCamera, editingProfile, jobs, navCrossed>>
\* What is shown by then is removed, if a profile is still selected.
ConfirmRemove ==
    /\ NavUser /\ dialog # Null /\ page = pageToggle /\ dialog' = Null
    /\ jobs' = IF editingProfile[selectedCamera] = Null THEN jobs
               ELSE jobs \cup {[asked |-> dialog, what |-> Shown, step |-> "set"]}
    /\ UNCHANGED <<page, pageToggle, selectedCamera, editingProfile, navCrossed>>

\* What is not there cannot be removed.
ConfigSet(j) ==
    /\ j.step = "set" /\ j.what \in server.overrides /\ server' = [server EXCEPT !.overrides = @ \ {j.what}]
    /\ jobs' = (jobs \ {j}) \cup {[j EXCEPT !.step = "read"]} /\ gone' = gone \cup {<<j.asked, j.what>>}
    /\ UNCHANGED <<config, isAdmin, page, pageToggle, selectedCamera, editingProfile, dialog, navCrossed, navUser, other, faults>>

\* Afterwards the camera shows its base configuration, whichever profile is selected by then.
Removed(j) ==
    /\ j.step = "read" /\ config' = server /\ jobs' = jobs \ {j}
    /\ editingProfile' = [editingProfile EXCEPT ![j.what[1]] = Null]
    /\ UNCHANGED <<server, isAdmin, page, pageToggle, dialog, gone, navUser, other, faults>> /\ setSelectedCamera(selectedCamera)
Fails(j) ==
    /\ \/ j.step = "set" /\ j.what \notin server.overrides /\ UNCHANGED faults
       \/ faults < MaxFaults /\ navUser + other + faults < MaxNavUser /\ faults' = faults + 1
    /\ jobs' = jobs \ {j}
    /\ UNCHANGED <<server, config, isAdmin, page, pageToggle, selectedCamera, editingProfile, dialog, gone, navCrossed, navUser, other>>

(***************************************************************************)
(* Others                                                                  *)
(***************************************************************************)
Other ==
    /\ other < MaxOther /\ navUser + other + faults < MaxNavUser /\ other' = other + 1
    /\ \/ \E c \in server.cameras : server' = [server EXCEPT !.on = IF c \in @ THEN @ \ {c} ELSE @ \cup {c}]
       \/ server' = [server EXCEPT !.cameras = {1}, !.on = @ \ {2}, !.overrides = {o \in @ : o[1] = 1}]
       \/ server' = [server EXCEPT !.profiles = @ \ {"p"}, !.overrides = {o \in @ : o[2] # "p"}]
    /\ UNCHANGED <<config, isAdmin, page, pageToggle, selectedCamera, editingProfile, dialog, jobs, gone, navCrossed, navUser, faults>>
Reread ==
    /\ config # server /\ config' = server
    /\ UNCHANGED <<server, isAdmin, page, pageToggle, editingProfile, dialog, jobs, gone, navUser, other, faults>>
    /\ setSelectedCamera(selectedCamera)

NavNext ==
    \/ \E p \in Pages : MenuItem(p) \/ \E c \in Cameras : Link(p, c)
    \/ PageFollows \/ AskRemove \/ ConfirmRemove \/ Other \/ Reread
    \/ \E c \in Cameras : CameraSelectButton(c)
    \/ \E p \in Profiles \cup {Null} : handleSelectProfile(p)
    \/ \E j \in jobs : ConfigSet(j) \/ Removed(j) \/ Fails(j)

NavSpec == NavInit /\ [][NavNext]_navVars

(***************************************************************************)
(* Properties                                                              *)
(***************************************************************************)
\* The forms are for a camera that is enabled, wherever the user goes and whatever becomes of
\* it, but on the page that offers all and while none is enabled (the effect on the camera).
CameraIsEnabled == selectedCamera \in config.on \/ config.on = {} \/ pageToggle = "cameraReview"

\* A viewer gets to no page of an administrator, by menu or by link.
ViewerIsConfined == ~isAdmin => {page, pageToggle} \subseteq ALLOWED_VIEWS_FOR_VIEWER

\* An override is removed for the camera, the profile and the section the user was asked about,
\* unless the camera was changed under the question (handleDeleteProfileForCurrentSection).
RemovesWhatWasAsked == \A g \in gone : g[1] = g[2] \/ navCrossed
=============================================================================
