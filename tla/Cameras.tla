------------------------------ MODULE Cameras -------------------------------
(***************************************************************************)
(* Cameras of the configuration: managed in a list, cloned by a dialog,    *)
(* and added by a wizard.  The three share no state but the configuration, *)
(* of which each keeps what it changes.                                    *)
(***************************************************************************)
EXTENDS FiniteSets, Naturals, Sequences

CONSTANTS
    Null,
    MaxManageUser,  \* bound: actions of the user, with what else is bounded
    MaxOther,       \* bound: writes of other clients
    Zones,          \* the names zones have
    MaxCloneUser,   \* bound: choices made in the dialog, with what else is bounded
    MaxFaults,      \* bound: requests that fail on the way
    Names,          \* the names cameras have
    MaxWizardUser   \* bound: starts, names and tests

(***************************************************************************)
(* The camera list of the settings (CameraManagementView): rows dragged    *)
(* into another order, cameras turned off and disabled, their types and    *)
(* details.  Every change is a write of the configuration followed by a    *)
(* read of it; what the page shows meanwhile is kept beside it.            *)
(***************************************************************************)
VARIABLES
    server,            \* the configuration file: order, type, and of "a" enabled and its details
    manageConfig,            \* the client's copy of it
    orderedCameras,
    dragging,
    localOverrides,    \* types saved and not yet in effect
    savingCamera,
    editor,            \* CameraDetailsEditor of "a"
    requests,          \* writes under way, in the order they were made
    wire,              \* ON and OFF under way to the server
    enabled,           \* run-time state of "a"
    manageUser, manageOther,
    manageCrossed            \* history: which of the known races happened

managementVars == <<server, manageConfig, orderedCameras, dragging, localOverrides, savingCamera, editor, requests, wire,
                    enabled, manageUser, manageOther, manageCrossed>>

ManageCameras == {"a", "b"}
Orders == {<<"a", "b">>, <<"b", "a">>}
Types == {"normal", "lpr"}
Fields == {"name", "url"}
Texts == {"old", "mine", "theirs"}
File == [order : Orders, type : [ManageCameras -> Types], enabled : BOOLEAN, details : [Fields -> Texts]]

\* The writes of the page, each with what config_set is sent.
Stages == {"asked", "taken", "failed"}
OrderWrite == [kind : {"order"}, stage : Stages, order : Orders, enabledCameras : Orders]
StatusWrite == [kind : {"status"}, stage : Stages, enabled : BOOLEAN]
TypeWrite == [kind : {"type"}, stage : Stages, camera : ManageCameras, type : Types]
DetailsWrite == [kind : {"details"}, stage : Stages, fields : UNION {[fs -> Texts] : fs \in SUBSET Fields}]
Write == OrderWrite \cup StatusWrite \cup TypeWrite \cup DetailsWrite

ManageTypeOK ==
    /\ server \in File /\ manageConfig \in File
    /\ orderedCameras \in Orders /\ dragging \in BOOLEAN
    /\ localOverrides \in [ManageCameras -> Types \cup {Null}] /\ savingCamera \in ManageCameras \cup {Null}
    /\ editor \in [open : BOOLEAN, details : [Fields -> Texts]]
    /\ \A i \in DOMAIN requests : requests[i] \in Write
    /\ enabled \in BOOLEAN /\ \A i \in DOMAIN wire : wire[i] \in BOOLEAN
    /\ manageCrossed \subseteq {"order", "type", "on"}

ManageInit ==
    /\ server = [order |-> <<"a", "b">>, type |-> [c \in ManageCameras |-> "normal"], enabled |-> TRUE,
                details |-> [f \in Fields |-> "old"]]
    /\ manageConfig = server /\ orderedCameras = server.order /\ dragging = FALSE
    /\ localOverrides = [c \in ManageCameras |-> Null] /\ savingCamera = Null
    /\ editor = [open |-> FALSE, details |-> server.details]
    /\ requests = <<>> /\ wire = <<>> /\ enabled = TRUE /\ manageUser = 0 /\ manageOther = 0 /\ manageCrossed = {}

ManageUser == manageUser + manageOther < MaxManageUser /\ manageUser' = manageUser + 1
\* One of a queue goes, wherever it stands.
RemoveAt(s, i) == SubSeq(s, 1, i - 1) \o SubSeq(s, i + 1, Len(s))
Asked(r) == requests' = Append(requests, r)
Pending(kind) == \E i \in DOMAIN requests : requests[i].kind = kind

\* Reorder.Group moves rows as they are dragged.
Drag ==
    /\ ManageUser /\ dragging' = TRUE
    /\ \E o \in Orders \ {orderedCameras} : orderedCameras' = o
    /\ UNCHANGED <<server, manageConfig, localOverrides, savingCamera, editor, requests, wire, enabled, manageOther, manageCrossed>>

handleReorderDragEnd ==
    /\ dragging /\ dragging' = FALSE
    /\ IF orderedCameras = manageConfig.order THEN UNCHANGED requests
       ELSE Asked([kind |-> "order", stage |-> "asked", order |-> orderedCameras, enabledCameras |-> manageConfig.order])
    /\ manageCrossed' = IF orderedCameras # manageConfig.order /\ Pending("order") THEN manageCrossed \cup {"order"} ELSE manageCrossed
    /\ UNCHANGED <<server, manageConfig, orderedCameras, localOverrides, savingCamera, editor, wire, enabled, manageUser, manageOther>>

\* CameraStatusSelect of "a", which shows "disabled", "off" or "on".  Off and on go over the
\* websocket; disabling turns the camera off first.
MutNoOff(status) ==   \* mutant: disabled without being turned off
    /\ ManageUser /\ manageConfig.enabled /\ ~Pending("status")
    /\ CASE status = "on" -> wire' = Append(wire, TRUE) /\ UNCHANGED requests
         [] status = "off" -> wire' = Append(wire, FALSE) /\ UNCHANGED requests
         [] OTHER -> UNCHANGED wire /\ Asked([kind |-> "status", stage |-> "asked", enabled |-> FALSE])
    /\ UNCHANGED <<server, manageConfig, orderedCameras, dragging, localOverrides, savingCamera, editor, enabled, manageOther, manageCrossed>>
handleChange(status) ==
    /\ ManageUser /\ manageConfig.enabled /\ ~Pending("status")
    /\ CASE status = "on" -> wire' = Append(wire, TRUE) /\ UNCHANGED requests
         [] status = "off" -> wire' = Append(wire, FALSE) /\ UNCHANGED requests
         [] OTHER -> wire' = Append(wire, FALSE) /\ Asked([kind |-> "status", stage |-> "asked", enabled |-> FALSE])
    /\ UNCHANGED <<server, manageConfig, orderedCameras, dragging, localOverrides, savingCamera, editor, enabled, manageOther, manageCrossed>>
EnableAgain ==
    /\ ManageUser /\ ~manageConfig.enabled /\ ~Pending("status")
    /\ Asked([kind |-> "status", stage |-> "asked", enabled |-> TRUE])
    /\ UNCHANGED <<server, manageConfig, orderedCameras, dragging, localOverrides, savingCamera, editor, wire, enabled, manageOther, manageCrossed>>

\* The server turns the camera on or off; "on" of a disabled one is refused.
Dispatch ==
    /\ wire # <<>> /\ wire' = Tail(wire)
    /\ enabled' = (Head(wire) /\ (server.enabled \/ enabled))
    /\ UNCHANGED <<server, manageConfig, orderedCameras, dragging, localOverrides, savingCamera, editor, requests, manageUser, manageOther, manageCrossed>>

\* The row that is being saved is locked, and only one row is known to be.
handleTypeChange(c, type) ==
    /\ ManageUser /\ savingCamera # c /\ savingCamera' = c
    /\ type # (IF localOverrides[c] # Null THEN localOverrides[c] ELSE manageConfig.type[c])
    /\ Asked([kind |-> "type", stage |-> "asked", camera |-> c, type |-> type])
    /\ manageCrossed' = IF \E i \in DOMAIN requests : requests[i].kind = "type" /\ requests[i].camera = c
                  THEN manageCrossed \cup {"type"} ELSE manageCrossed
    /\ UNCHANGED <<server, manageConfig, orderedCameras, dragging, localOverrides, editor, wire, enabled, manageOther>>

OpenEditor ==
    /\ ManageUser /\ ~editor.open /\ ~Pending("details")
    /\ editor' = [open |-> TRUE, details |-> manageConfig.details]
    /\ UNCHANGED <<server, manageConfig, orderedCameras, dragging, localOverrides, savingCamera, requests, wire, enabled, manageOther, manageCrossed>>
CloseEditor ==
    /\ editor.open /\ editor' = [editor EXCEPT !.open = FALSE]
    /\ UNCHANGED <<server, manageConfig, orderedCameras, dragging, localOverrides, savingCamera, requests, wire, enabled, manageUser, manageOther, manageCrossed>>
Type(f) ==
    /\ ManageUser /\ editor.open /\ ~Pending("details")
    /\ editor' = [editor EXCEPT !.details[f] = "mine"]
    /\ UNCHANGED <<server, manageConfig, orderedCameras, dragging, localOverrides, savingCamera, requests, wire, enabled, manageOther, manageCrossed>>

\* Only the fields that differ from the client's copy are sent.
MutAll == Fields   \* mutant: every field is sent
Changed == {f \in Fields : editor.details[f] # manageConfig.details[f]}
manageOnSubmit ==
    /\ editor.open /\ ~Pending("details")
    /\ IF Changed = {} THEN editor' = [editor EXCEPT !.open = FALSE] /\ UNCHANGED requests
       ELSE Asked([kind |-> "details", stage |-> "asked", fields |-> [f \in Changed |-> editor.details[f]]]) /\ UNCHANGED editor
    /\ UNCHANGED <<server, manageConfig, orderedCameras, dragging, localOverrides, savingCamera, wire, enabled, manageUser, manageOther, manageCrossed>>

\* config_set writes the fields it is sent, or fails.
Applied(r) ==
    CASE r.kind = "order" -> [server EXCEPT !.order = r.order]
      [] r.kind = "type" -> [server EXCEPT !.type[r.camera] = r.type]
      [] r.kind = "status" -> [server EXCEPT !.enabled = r.enabled]
      [] OTHER -> [server EXCEPT !.details = [f \in Fields |-> IF f \in DOMAIN r.fields THEN r.fields[f] ELSE @[f]]]
Serve(i) ==
    /\ requests[i].stage = "asked"
    /\ \/ server' = Applied(requests[i]) /\ requests' = [requests EXCEPT ![i].stage = "taken"]
       \/ UNCHANGED server /\ requests' = [requests EXCEPT ![i].stage = "failed"]
    /\ UNCHANGED <<manageConfig, orderedCameras, dragging, localOverrides, savingCamera, editor, wire, enabled, manageUser, manageOther, manageCrossed>>

\* A new configuration puts the rows in its order, and the fields of an open editor.
Arrives ==
    /\ manageConfig' = server
    /\ orderedCameras' = IF manageConfig'.order # manageConfig.order THEN manageConfig'.order ELSE orderedCameras
    /\ editor' = IF editor.open /\ manageConfig'.details # manageConfig.details THEN [editor EXCEPT !.details = manageConfig'.details] ELSE editor

ManageEnded(i) == requests' = RemoveAt(requests, i)

\* A write that succeeded: the configuration is read, and what was kept beside it settled.
Succeeded(i) ==
    /\ requests[i].stage = "taken" /\ ManageEnded(i)
    /\ IF requests[i].kind = "details"
       THEN manageConfig' = server /\ editor' = [editor EXCEPT !.open = FALSE]
            /\ orderedCameras' = IF manageConfig'.order # manageConfig.order THEN manageConfig'.order ELSE orderedCameras
       ELSE Arrives
    /\ IF requests[i].kind = "type"
       THEN localOverrides' = [localOverrides EXCEPT ![requests[i].camera] = requests[i].type] /\ savingCamera' = Null
       ELSE UNCHANGED <<localOverrides, savingCamera>>
    /\ UNCHANGED <<server, dragging, wire, enabled, manageUser, manageOther, manageCrossed>>

\* A write that failed: the rows go back to where they were when the drag ended.
MutStaysDragged(i) ==   \* mutant: the rows stay where they were dragged
    /\ requests[i].stage = "failed" /\ ManageEnded(i)
    /\ savingCamera' = IF requests[i].kind = "type" THEN Null ELSE savingCamera
    /\ UNCHANGED <<server, manageConfig, orderedCameras, dragging, localOverrides, editor, wire, enabled, manageUser, manageOther, manageCrossed>>
Failed(i) ==
    /\ requests[i].stage = "failed" /\ ManageEnded(i)
    /\ savingCamera' = IF requests[i].kind = "type" THEN Null ELSE savingCamera
    /\ IF requests[i].kind = "order"
       THEN /\ orderedCameras' = requests[i].enabledCameras
            /\ manageCrossed' = IF requests[i].enabledCameras # manageConfig.order THEN manageCrossed \cup {"order"} ELSE manageCrossed
       ELSE UNCHANGED <<orderedCameras, manageCrossed>>
    /\ UNCHANGED <<server, manageConfig, dragging, localOverrides, editor, wire, enabled, manageUser, manageOther>>

ManageRevalidate ==
    /\ manageConfig # server /\ Arrives
    /\ UNCHANGED <<server, dragging, localOverrides, savingCamera, requests, wire, enabled, manageUser, manageOther, manageCrossed>>

ManageOtherClient ==
    /\ manageOther < MaxOther /\ manageUser + manageOther < MaxManageUser /\ manageOther' = manageOther + 1
    /\ \/ server' = [server EXCEPT !.details["name"] = "theirs"] /\ UNCHANGED <<enabled, manageCrossed>>
       \/ (\E o \in Orders \ {server.order} : server' = [server EXCEPT !.order = o]) /\ UNCHANGED enabled
          /\ manageCrossed' = IF Pending("order") THEN manageCrossed \cup {"order"} ELSE manageCrossed
       \/ server' = [server EXCEPT !.type["a"] = "lpr"] /\ manageCrossed' = manageCrossed \cup {"type"} /\ UNCHANGED enabled
       \/ enabled' = TRUE /\ manageCrossed' = manageCrossed \cup {"on"} /\ UNCHANGED server
    /\ UNCHANGED <<manageConfig, orderedCameras, dragging, localOverrides, savingCamera, editor, requests, wire, manageUser>>

ManageNext ==
    \/ Drag \/ handleReorderDragEnd \/ EnableAgain \/ Dispatch \/ OpenEditor \/ CloseEditor \/ manageOnSubmit
    \/ \E s \in {"on", "off", "disabled"} : handleChange(s)
    \/ \E c \in ManageCameras, t \in Types : handleTypeChange(c, t)
    \/ \E f \in Fields : Type(f)
    \/ \E i \in DOMAIN requests : Serve(i) \/ Succeeded(i) \/ Failed(i)
    \/ ManageRevalidate \/ ManageOtherClient

ManageSpec == ManageInit /\ [][ManageNext]_managementVars

(***************************************************************************)
(* Properties                                                              *)
(***************************************************************************)
\* The rows stand in the order of the configuration unless the user drags one, the new order is
\* being saved, a save failed after the order had changed under it or while another ran, or
\* another client moved them back before the new order was read.
OrderIsShown == orderedCameras # manageConfig.order => dragging \/ Pending("order") \/ "order" \in manageCrossed

\* A camera disabled in the configuration is off as soon as the server has heard it, unless
\* another client turned it on.
DisabledIsOff == ~server.enabled /\ wire = <<>> => ~enabled \/ "on" \in manageCrossed

\* A type shown as saved is the one saved, unless two saves of one camera overlapped or another
\* client changed it.
TypeIsSaved ==
    \A c \in ManageCameras : localOverrides[c] \notin {Null, server.type[c]} =>
        "type" \in manageCrossed \/ \E i \in DOMAIN requests : requests[i].kind = "type" /\ requests[i].camera = c

\* The details of a camera that the user did not type are not sent.
UntypedIsKept ==
    \A i \in DOMAIN requests : requests[i].kind = "details" => \A f \in DOMAIN requests[i].fields : requests[i].fields[f] = "mine"

(***************************************************************************)
(* Copying the settings of a camera to others: CloneCameraDialog and       *)
(* utils/cameraClone.  A camera is three of its sections: its type, whose  *)
(* change needs a restart, its zones, and the zones its reviews require.   *)
(* Every write is validated by the server with the whole configuration.    *)
(***************************************************************************)
VARIABLES
    cfg,       \* the server's configuration: camera -> its sections, or Null
    cloneConfig,    \* the client's copy
    cloneOpen,
    form,      \* [source, new, targets]
    selectedCategories,
    job,       \* the submission under way
    marked,    \* the status bar asks for a restart
    due,       \* history: the server has taken something that needs one
    partly,    \* history: a submission failed after its first write
    cloneUser, cloneOther, faults

cloneVars == <<cfg, cloneConfig, cloneOpen, form, selectedCategories, job, marked, due, partly, cloneUser, cloneOther, faults>>

Sections == {"type", "zones", "review"}
CloneCameras == {"a", "b", "n"}   \* "n" is the name of a new camera
CameraConfigs == {c \in [type : {"generic", "lpr"}, zones : SUBSET Zones, review : SUBSET Zones] : c.review \subseteq c.zones}
\* What is written of each target, and what it was computed from.
Writes == UNION {[targets -> SUBSET (Sections \cup {"camera"})] : targets \in SUBSET CloneCameras}
Job == [targets : SUBSET CloneCameras, writes : Writes, src : CameraConfigs, dst : [CloneCameras -> CameraConfigs \cup {Null}], new : BOOLEAN,
        selected : SUBSET Sections, failed : SUBSET CloneCameras, refused : SUBSET CloneCameras]
NoForm == [source |-> Null, new |-> TRUE, targets |-> {}]

CloneTypeOK ==
    /\ \A m \in {cfg, cloneConfig} : \A c \in CloneCameras : m[c] # Null => m[c] \in CameraConfigs
    /\ cloneOpen \in BOOLEAN /\ marked \in BOOLEAN
    /\ form.source \in {Null, "a", "b"} /\ form.targets \subseteq {"a", "b"} \ {form.source}
    /\ selectedCategories \subseteq Sections
    /\ job \in Job \cup {Null} /\ (job # Null => job.failed \subseteq job.targets)

CloneInit ==
    /\ \E a, b \in CameraConfigs :
          /\ a.type = "lpr" /\ b.type = "generic"
          /\ cfg = [c \in CloneCameras |-> CASE c = "a" -> a [] c = "b" -> b [] OTHER -> Null]
    /\ cloneConfig = cfg /\ cloneOpen = FALSE /\ form = NoForm /\ selectedCategories = {}
    /\ job = Null /\ marked = FALSE /\ due = FALSE /\ partly = FALSE
    /\ cloneUser = 0 /\ cloneOther = 0 /\ faults = 0

CloneUser == cloneUser + cloneOther + faults < MaxCloneUser /\ cloneUser' = cloneUser + 1
CloneServer == <<cfg, cloneConfig, job, marked, due, partly, cloneOther, faults>>

\* Everything is selected for a new camera, and nothing for existing ones; the camera's type is
\* only copied on request.
getCategoryDefaults(new) == IF new THEN {"zones", "review"} ELSE {}

\* The form is reset when the dialog opens, not when it closes.
CloneOpen ==
    /\ ~cloneOpen /\ CloneUser /\ cloneOpen' = TRUE /\ form' = NoForm
    /\ selectedCategories' = getCategoryDefaults(TRUE)
    /\ UNCHANGED CloneServer

\* The cross and Escape close it while a submission runs, too.
Close == cloneOpen /\ cloneOpen' = FALSE /\ UNCHANGED <<form, selectedCategories, cloneUser, CloneServer>>

Editable == cloneOpen /\ job = Null

ChooseSource(c) ==
    /\ Editable /\ CloneUser /\ form' = [form EXCEPT !.source = c, !.targets = @ \ {c}]
    /\ UNCHANGED <<cloneOpen, selectedCategories, CloneServer>>

\* Switching between a new camera and existing ones starts the selection again.
ChooseTargets(new, targets) ==
    /\ Editable /\ CloneUser /\ targets \subseteq {"a", "b"} \ {form.source}
    /\ form' = [form EXCEPT !.new = new, !.targets = targets]
    /\ selectedCategories' = IF new # form.new THEN getCategoryDefaults(new) ELSE selectedCategories
    /\ UNCHANGED <<cloneOpen, CloneServer>>

toggleCategory(s) ==
    /\ Editable /\ CloneUser
    /\ selectedCategories' = IF s \in selectedCategories THEN selectedCategories \ {s} ELSE selectedCategories \cup {s}
    /\ UNCHANGED <<cloneOpen, form, CloneServer>>

selectAllCategories ==
    /\ Editable /\ CloneUser /\ selectedCategories' = Sections
    /\ UNCHANGED <<cloneOpen, form, CloneServer>>

\* The sections to write for one existing camera: what differs in the client's copy, zones by name;
\* the type is written in any case.
buildClonedCameraPayloads(src, dst) == selectedCategories \ {s \in {"zones", "review"} : src[s] = dst[s]}

\* A new camera is written in one piece.
bundleNewCameraPayload ==
    [type |-> IF "type" \in job.selected THEN job.src.type ELSE "generic",
     zones |-> IF "zones" \in job.selected THEN job.src.zones ELSE {},
     review |-> IF "review" \in job.selected THEN job.src.review ELSE {}]

Source == cloneConfig[form.source]
targetPayloads ==
    IF form.new THEN [c \in {"n"} |-> {"camera"}]
    ELSE [c \in form.targets |-> buildClonedCameraPayloads(Source, cloneConfig[c])]

cloneOnSubmit ==
    /\ Editable /\ form.source # Null
    /\ form.new => cloneConfig["n"] = Null
    /\ \E c \in DOMAIN targetPayloads : targetPayloads[c] # {}
    /\ job' = [targets |-> DOMAIN targetPayloads, writes |-> targetPayloads, src |-> Source, dst |-> cloneConfig,
               new |-> form.new, selected |-> selectedCategories, failed |-> {}, refused |-> {}]
    /\ UNCHANGED <<cfg, cloneConfig, cloneOpen, form, selectedCategories, marked, due, partly, cloneUser, cloneOther, faults>>

\* One request for each section, in the order of SECTION_KEYS.
MutReviewFirst(c) ==   \* mutant: sections that require zones before the zones
    IF "review" \in job.writes[c] THEN "review" ELSE CHOOSE s \in job.writes[c] : TRUE
Section(c) ==
    IF job.writes[c] \cap {"camera", "type"} # {} THEN CHOOSE s \in job.writes[c] \cap {"camera", "type"} : TRUE
    ELSE IF "zones" \in job.writes[c] THEN "zones" ELSE "review"

NeedsRestart(s) == s \in {"camera", "type"}

\* What the configuration of camera c is after its section s is written: zones are added and removed
\* by what the client knew of them.
Written(c, s) ==
    CASE s = "camera" -> bundleNewCameraPayload
      [] s = "zones" -> [cfg[c] EXCEPT !.zones = (@ \cup (job.src.zones \ job.dst[c].zones)) \ (job.dst[c].zones \ job.src.zones)]
      [] s = "type" -> [cfg[c] EXCEPT !.type = job.src.type]
      [] OTHER -> [cfg[c] EXCEPT !.review = job.src.review]

\* One camera after the other.
PutTaken(c) ==
    /\ job # Null /\ job.writes[c] # {}
    /\ Written(c, Section(c)) \in CameraConfigs
    /\ cfg' = [cfg EXCEPT ![c] = Written(c, Section(c))]
    /\ job' = [job EXCEPT !.writes[c] = @ \ {Section(c)}]
    /\ due' = (due \/ NeedsRestart(Section(c)))
    /\ UNCHANGED <<cloneConfig, cloneOpen, form, selectedCategories, marked, partly, cloneUser, cloneOther, faults>>

\* A write that fails ends its camera, and the next camera follows.
MutGoesOn(c) ==   \* mutant: the failure of a camera is forgotten
    /\ job # Null /\ job.writes[c] # {}
    /\ \/ Written(c, Section(c)) \notin CameraConfigs /\ UNCHANGED faults
          /\ job' = [job EXCEPT !.writes[c] = {}, !.refused = @ \cup {c}]
       \/ faults < MaxFaults /\ cloneUser + cloneOther + faults < MaxCloneUser /\ faults' = faults + 1
          /\ job' = [job EXCEPT !.writes[c] = {}]
    /\ UNCHANGED <<cfg, cloneConfig, cloneOpen, form, selectedCategories, marked, due, partly, cloneUser, cloneOther>>
PutFails(c) ==
    /\ job # Null /\ job.writes[c] # {}
    /\ \/ Written(c, Section(c)) \notin CameraConfigs /\ UNCHANGED faults
          /\ job' = [job EXCEPT !.writes[c] = {}, !.failed = @ \cup {c}, !.refused = @ \cup {c}]
       \/ faults < MaxFaults /\ cloneUser + cloneOther + faults < MaxCloneUser /\ faults' = faults + 1
          /\ job' = [job EXCEPT !.writes[c] = {}, !.failed = @ \cup {c}]
    /\ UNCHANGED <<cfg, cloneConfig, cloneOpen, form, selectedCategories, marked, due, partly, cloneUser, cloneOther>>

CloneEnded == job # Null /\ \A c \in job.targets : job.writes[c] = {}
\* anyNeedsRestart, of what is selected when the answer comes; the form is locked until then.
anyNeedsRestart == job.new \/ "type" \in job.selected

\* The configuration is read again; a success closes the dialog, also one that was reopened.
SubmitEnds ==
    /\ CloneEnded /\ cloneConfig' = cfg /\ job' = Null
    /\ IF job.failed # {}
       THEN partly' = (partly \/ anyNeedsRestart) /\ UNCHANGED <<marked, cloneOpen>>
       ELSE marked' = (marked \/ anyNeedsRestart) /\ cloneOpen' = FALSE /\ UNCHANGED partly
    /\ UNCHANGED <<cfg, form, selectedCategories, due, cloneUser, cloneOther, faults>>

\* Another client edits a camera, or adds one.
CloneOtherClient(c) ==
    /\ cloneOther < MaxOther /\ cloneUser + cloneOther + faults < MaxCloneUser /\ cloneOther' = cloneOther + 1
    /\ \E s \in CameraConfigs : s.type = (IF cfg[c] = Null THEN "generic" ELSE cfg[c].type) /\ cfg' = [cfg EXCEPT ![c] = s]
    /\ cfg' # cfg
    /\ UNCHANGED <<cloneConfig, cloneOpen, form, selectedCategories, job, marked, due, partly, cloneUser, faults>>

\* SWR reads the configuration again on its own.
CloneRevalidate ==
    /\ cloneConfig # cfg /\ cloneConfig' = cfg
    /\ UNCHANGED <<cfg, cloneOpen, form, selectedCategories, job, marked, due, partly, cloneUser, cloneOther, faults>>

CloneNext ==
    \/ CloneOpen \/ Close \/ selectAllCategories \/ cloneOnSubmit \/ SubmitEnds \/ CloneRevalidate
    \/ \E c \in {"a", "b"} : ChooseSource(c)
    \/ \E new \in BOOLEAN, targets \in SUBSET {"a", "b"} : ChooseTargets(new, targets)
    \/ \E s \in Sections : toggleCategory(s)
    \/ job # Null /\ \E c \in job.targets : PutTaken(c) \/ PutFails(c)
    \/ \E c \in CloneCameras : CloneOtherClient(c)

CloneSpec == CloneInit /\ [][CloneNext]_cloneVars

(***************************************************************************)
(* Properties                                                              *)
(***************************************************************************)
\* A submission that ends as a success has made each of its cameras the copy of the source it
\* was asked for, unless another client wrote meanwhile.
SuccessIsCopy ==
    CloneEnded /\ cloneOther = 0 => \A c \in job.targets \ job.failed :
        cfg[c] # Null /\ \A s \in job.selected : cfg[c][s] = job.src[s]

\* The order of the writes is never what a camera is refused for ("detect then zones must
\* precede sections that reference zones"): it is refused when its own reviews require a zone
\* that the copy takes away, or when the zones the copy requires are not copied.
RefusedForAReason ==
    job # Null /\ cloneOther = 0 => \A c \in job.refused :
        IF "zones" \in job.selected /\ ~job.new THEN ~(cfg[c].review \subseteq job.src.zones)
        ELSE "review" \in job.selected

\* Once no submission runs, the status bar asks for the restart a copy needs, unless one failed
\* midway.
RestartIsMarked == due /\ job = Null => marked \/ partly

(***************************************************************************)
(* Adding a camera in four steps (CameraWizardDialog and its Step1 to      *)
(* Step4): name and address, probe or snapshot, streams, validation and    *)
(* save.  Tests of streams and saves are answered late; the wizard's data  *)
(* is one record that every step writes.  Where a camera lies is its name, *)
(* and a stream's URL the camera it leads to.                              *)
(***************************************************************************)
VARIABLES
    wizardOpen,
    currentStep,
    wizardData,    \* [cameraName, probeMode, probeCandidates, streams, hasBackchannel]
    result,        \* probeResult or testResult of step 2
    visit,         \* how often step 2 was entered
    asked,         \* tests under way
    isLoading,
    saves,         \* saves under way, oldest first
    cameras,       \* the server's cameras: [name, urls]
    go2rtc,        \* its restreams: name -> streams, or Null
    wizardUser,
    wizardCrossed        \* history: which of the known races happened

wizardVars == <<wizardOpen, currentStep, wizardData, result, visit, asked, isLoading, saves, cameras, go2rtc, wizardUser, wizardCrossed>>

Result == [probe : BOOLEAN, camera : Names]
Restreams == [urls : Seq(Names), pair : BOOLEAN]
NoData == [cameraName |-> Null, probeMode |-> FALSE, probeCandidates |-> {}, streams |-> <<>>, hasBackchannel |-> FALSE]

WizardTypeOK ==
    /\ wizardOpen \in BOOLEAN /\ currentStep \in 1..4 /\ isLoading \in BOOLEAN
    /\ wizardData.cameraName \in Names \cup {Null} /\ wizardData.probeCandidates \subseteq Names
    /\ \A i \in DOMAIN wizardData.streams : wizardData.streams[i].url \in Names
    /\ \A t \in asked : t.kind \in {"probe", "manual", "test", "validate", "validateAll"}
    /\ \A i \in DOMAIN saves : saves[i].stage \in {"checking", "camera", "go2rtc"}
    /\ result \in Result \cup {Null} /\ go2rtc \in [Names -> Restreams \cup {Null}]
    /\ wizardCrossed \subseteq {"late", "lost", "unwritten"}

WizardInit ==
    /\ wizardOpen = FALSE /\ currentStep = 1 /\ wizardData = NoData /\ result = Null /\ visit = 0 /\ asked = {}
    /\ isLoading = FALSE /\ saves = <<>> /\ cameras = {} /\ go2rtc = [n \in Names |-> Null] /\ wizardUser = 0 /\ wizardCrossed = {}

WizardUser == wizardUser < MaxWizardUser /\ wizardUser' = wizardUser + 1
WizardServer == <<cameras, go2rtc>>
At(n) == wizardOpen /\ currentStep = n

\* RESET_ALL when the wizard opens.
WizardOpen ==
    /\ ~wizardOpen /\ WizardUser /\ wizardOpen' = TRUE /\ currentStep' = 1 /\ wizardData' = NoData /\ result' = Null
    /\ UNCHANGED <<visit, asked, isLoading, saves, WizardServer, wizardCrossed>>

\* It may be closed at any time, and is reset then, too.
Reset == wizardOpen' = FALSE /\ currentStep' = 1 /\ wizardData' = NoData /\ result' = Null
handleClose == wizardOpen /\ Reset /\ UNCHANGED <<visit, asked, isLoading, saves, WizardServer, wizardUser, wizardCrossed>>

\* Step 1: a name that no camera has, its address, and how to find the streams; step 2 starts
\* its test as it is mounted.
Start(d) == [kind |-> IF d.probeMode THEN "probe" ELSE "manual", camera |-> d.cameraName, visit |-> visit', streams |-> <<>>]
\* The client's configuration is read when a save ends.
existingCameraNames == {n \in Names : (\E c \in cameras : c.name = n) /\ ~\E i \in DOMAIN saves : saves[i].data.cameraName = n}
handleContinue(n, probe) ==
    /\ At(1) /\ WizardUser /\ n \notin existingCameraNames
    /\ wizardData' = [wizardData EXCEPT !.cameraName = n, !.probeMode = probe]
    /\ currentStep' = 2 /\ visit' = visit + 1 /\ result' = Null
    /\ asked' = asked \cup {Start(wizardData')}
    /\ UNCHANGED <<wizardOpen, isLoading, saves, WizardServer, wizardCrossed>>

\* Step 2: no way back while the camera is probed; there is while a URL is tested.
Probing == \E t \in asked : t.kind = "probe" /\ t.visit = visit
handleBack ==
    /\ wizardOpen /\ currentStep > 1 /\ (currentStep = 2 => ~Probing) /\ WizardUser
    /\ currentStep' = currentStep - 1 /\ result' = Null
    /\ IF currentStep = 3
       THEN visit' = visit + 1 /\ asked' = asked \cup {Start(wizardData)}
       ELSE UNCHANGED <<visit, asked>>
    /\ UNCHANGED <<wizardOpen, wizardData, isLoading, saves, WizardServer, wizardCrossed>>

\* The retry of the probe, or another test of the URL.
Retry ==
    /\ At(2) /\ result = Null /\ WizardUser /\ ~\E t \in asked : t.visit = visit
    /\ visit' = visit /\ asked' = asked \cup {Start(wizardData)}
    /\ UNCHANGED <<wizardOpen, currentStep, wizardData, result, isLoading, saves, WizardServer, wizardCrossed>>

\* The answer of a probe writes the candidates, also into a wizard started anew.
ProbeAnswer(t, found) ==
    /\ t.kind = "probe" /\ asked' = asked \ {t}
    /\ IF found THEN wizardData' = [wizardData EXCEPT !.probeMode = TRUE, !.probeCandidates = {t.camera}] ELSE UNCHANGED wizardData
    /\ result' = IF found /\ At(2) /\ t.visit = visit THEN [probe |-> t.kind = "probe", camera |-> t.camera] ELSE result
    /\ wizardCrossed' = IF found /\ wizardData.cameraName # t.camera THEN wizardCrossed \cup {"late"} ELSE wizardCrossed
    /\ UNCHANGED <<wizardOpen, currentStep, visit, isLoading, saves, WizardServer, wizardUser>>

\* The answer of a test by hand writes the streams.
ManualAnswer(t, found) ==
    /\ t.kind = "manual" /\ asked' = asked \ {t}
    /\ IF found THEN wizardData' = [wizardData EXCEPT !.streams = <<[url |-> t.camera, tested |-> TRUE]>>] ELSE UNCHANGED wizardData
    /\ result' = IF found /\ At(2) /\ t.visit = visit THEN [probe |-> t.kind = "probe", camera |-> t.camera] ELSE result
    /\ wizardCrossed' = IF found /\ wizardData.cameraName # t.camera THEN wizardCrossed \cup {"late"}
                  ELSE IF found /\ Len(wizardData.streams) > 1 THEN wizardCrossed \cup {"lost"} ELSE wizardCrossed
    /\ UNCHANGED <<wizardOpen, currentStep, visit, isLoading, saves, WizardServer, wizardUser>>

\* A probed camera goes on with its first candidate, a tested one with what is in the data.
Next2 ==
    /\ At(2) /\ result # Null /\ result.probe = wizardData.probeMode /\ currentStep' = 3 /\ result' = Null
    /\ wizardData' = IF result.probe THEN [wizardData EXCEPT !.streams = <<[url |-> result.camera, tested |-> FALSE]>>]
                     ELSE wizardData
    /\ UNCHANGED <<wizardOpen, visit, asked, isLoading, saves, WizardServer, wizardUser, wizardCrossed>>

\* Step 3: streams are added, removed and tested while other tests run.
addStream ==
    /\ At(3) /\ WizardUser /\ Len(wizardData.streams) < 2
    /\ wizardData' = [wizardData EXCEPT !.streams = Append(@, [url |-> wizardData.cameraName, tested |-> FALSE])]
    /\ UNCHANGED <<wizardOpen, currentStep, result, visit, asked, isLoading, saves, WizardServer, wizardCrossed>>
removeStream(i) ==
    /\ At(3) /\ Len(wizardData.streams) > 1 /\ wizardData' = [wizardData EXCEPT !.streams = RemoveAt(@, i)]
    /\ UNCHANGED <<wizardOpen, currentStep, result, visit, asked, isLoading, saves, WizardServer, wizardUser, wizardCrossed>>

\* A test remembers the streams of its start and writes them back when it is answered.
Test(kind, is) ==
    /\ WizardUser /\ is # {}
    /\ asked' = asked \cup {[kind |-> kind, camera |-> wizardData.cameraName, visit |-> visit,
                             streams |-> [i \in DOMAIN wizardData.streams |->
                                 [wizardData.streams[i] EXCEPT !.tested = @ \/ i \in is]]]}
    /\ UNCHANGED <<wizardOpen, currentStep, wizardData, result, visit, isLoading, saves, WizardServer, wizardCrossed>>
testStream(i) == At(3) /\ Test("test", {i})
\* Step 4 tests one stream, or all that were not found to work.
validateStream(i) == At(4) /\ Test("validate", {i})
validateAllStreams ==
    /\ At(4) /\ ~\E t \in asked : t.kind = "validateAll" /\ t.visit = visit
    /\ Test("validateAll", {i \in DOMAIN wizardData.streams : ~wizardData.streams[i].tested})

Urls(s) == [i \in DOMAIN s |-> s[i].url]
WriteBack(t) ==
    /\ asked' = asked \ {t} /\ wizardData' = [wizardData EXCEPT !.streams = t.streams]
    /\ wizardCrossed' = (IF wizardData.cameraName # t.camera THEN wizardCrossed \cup {"late"}
                   ELSE IF Urls(t.streams) # Urls(wizardData.streams) THEN wizardCrossed \cup {"lost"} ELSE wizardCrossed)
    /\ UNCHANGED <<wizardOpen, currentStep, result, visit, isLoading, saves, WizardServer, wizardUser>>
TestAnswer(t) == t.kind = "test" /\ WriteBack(t)
ValidateAnswer(t) == t.kind \in {"validate", "validateAll"} /\ WriteBack(t)

\* Step 3 waits for its tests; a failed one of step 2 may be left there, and step 4 for none.
Next3 ==
    /\ At(3) /\ wizardData.streams # <<>> /\ ~\E t \in asked : t.kind = "test" /\ t.visit = visit
    /\ currentStep' = 4
    /\ UNCHANGED <<wizardOpen, wizardData, result, visit, asked, isLoading, saves, WizardServer, wizardUser, wizardCrossed>>

\* Step 4: all streams are tested; the camera is asked for a backchannel first.
handleSave ==
    /\ At(4) /\ ~isLoading /\ WizardUser /\ wizardData.streams # <<>> /\ \A i \in DOMAIN wizardData.streams : wizardData.streams[i].tested
    /\ saves' = Append(saves, [data |-> wizardData, stage |-> "checking", found |-> FALSE])
    /\ UNCHANGED <<wizardOpen, currentStep, wizardData, result, visit, asked, isLoading, WizardServer, wizardCrossed>>

\* The result goes into the wizard's data, and what is saved is the data of before.
BackchannelAnswer(i, found) ==
    /\ saves[i].stage = "checking"
    /\ saves' = [saves EXCEPT ![i].stage = "camera", ![i].found = found]
    /\ wizardData' = [wizardData EXCEPT !.hasBackchannel = found] /\ isLoading' = TRUE
    /\ UNCHANGED <<wizardOpen, currentStep, result, visit, asked, WizardServer, wizardUser, wizardCrossed>>

\* The first request adds the camera, and unlocks the button; the second adds its restreams.
MutStopsAtCamera(i, ok) ==   \* mutant: the restreams are not written
    /\ saves[i].stage = "camera" /\ isLoading' = FALSE
    /\ IF ok THEN /\ cameras' = cameras \cup {[name |-> saves[i].data.cameraName, urls |-> Urls(saves[i].data.streams)]}
                  /\ saves' = RemoveAt(saves, i) /\ Reset
       ELSE saves' = RemoveAt(saves, i) /\ UNCHANGED <<cameras, wizardOpen, currentStep, wizardData, result>>
    /\ UNCHANGED <<visit, asked, go2rtc, wizardUser, wizardCrossed>>
CameraAnswer(i, ok) ==
    /\ saves[i].stage = "camera" /\ isLoading' = FALSE
    /\ IF ok THEN /\ cameras' = cameras \cup {[name |-> saves[i].data.cameraName, urls |-> Urls(saves[i].data.streams)]}
                  /\ saves' = [saves EXCEPT ![i].stage = "go2rtc"]
       ELSE saves' = RemoveAt(saves, i) /\ UNCHANGED cameras
    /\ UNCHANGED <<wizardOpen, currentStep, wizardData, result, visit, asked, go2rtc, wizardUser, wizardCrossed>>

\* One stream per input, or with a backchannel two: one that leaves the microphone alone.
go2rtcStreams(d) == [urls |-> Urls(d.streams), pair |-> d.hasBackchannel]
\* The end of a save closes the wizard that is open then.
Go2rtcAnswer(i, ok) ==
    /\ saves[i].stage = "go2rtc" /\ saves' = RemoveAt(saves, i)
    /\ IF ok THEN go2rtc' = [go2rtc EXCEPT ![saves[i].data.cameraName] = go2rtcStreams(saves[i].data)] /\ UNCHANGED wizardCrossed
       ELSE UNCHANGED go2rtc /\ wizardCrossed' = wizardCrossed \cup {"unwritten"}
    /\ Reset /\ UNCHANGED <<visit, asked, isLoading, cameras, wizardUser>>

WizardNext ==
    \/ WizardOpen \/ handleClose \/ handleBack \/ Retry \/ Next2 \/ addStream \/ validateAllStreams \/ Next3 \/ handleSave
    \/ \E n \in Names, probe \in BOOLEAN : handleContinue(n, probe)
    \/ \E t \in asked, found \in BOOLEAN : ProbeAnswer(t, found) \/ ManualAnswer(t, found)
    \/ \E t \in asked : TestAnswer(t) \/ ValidateAnswer(t)
    \/ \E i \in DOMAIN wizardData.streams : removeStream(i) \/ testStream(i) \/ validateStream(i)
    \/ \E i \in DOMAIN saves, ok \in BOOLEAN : BackchannelAnswer(i, ok) \/ CameraAnswer(i, ok) \/ Go2rtcAnswer(i, ok)

WizardSpec == WizardInit /\ [][WizardNext]_wizardVars

(***************************************************************************)
(* Properties                                                              *)
(***************************************************************************)
\* A camera is added with streams of its own, unless a test of another one was answered after
\* the user had moved on.
SavedIsOwn == "late" \in wizardCrossed \/ \A c \in cameras : \A i \in DOMAIN c.urls : c.urls[i] = c.name

\* Every camera added has its restreams, as its inputs are, once its save is over, unless they
\* could not be written.
RestreamExists ==
    \A c \in cameras : (~\E i \in DOMAIN saves : saves[i].data.cameraName = c.name)
        => go2rtc[c.name] # Null \/ "unwritten" \in wizardCrossed
=============================================================================
