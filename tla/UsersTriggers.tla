--------------------------- MODULE UsersTriggers ----------------------------
(***************************************************************************)
(* Two pages of the settings whose dialogs make several requests each:     *)
(* users with their roles, and the triggers of the semantic search.  The   *)
(* two share no state.                                                     *)
(***************************************************************************)
EXTENDS FiniteSets, Naturals, Sequences

CONSTANTS
    Null,
    MaxUser,    \* bound: actions of the user
    MaxFaults,  \* bound: requests that fail
    MaxOther    \* bound: triggers made or deleted by others

(***************************************************************************)
(* Users and roles (AuthenticationView and its dialogs).  The users are a  *)
(* list the page changes itself after every answer; the roles are part of  *)
(* the configuration, read again after a change.  A dialog may be closed   *)
(* while its request is on the way.                                        *)
(***************************************************************************)
VARIABLES
    dbUsers, dbRoles,  \* on the server: the role of each user, the cameras of each custom role
    users, roles,      \* the same as the page knows them
    reading,           \* the configuration is being read again
    accountDialog,            \* [kind, of, was, touched], or Null; was: what the page showed when it was opened
    picked,            \* selectedRole of RoleChangeDialog, which stays mounted
    cameras,           \* the form of EditRoleCamerasDialog, Null when not mounted
    passwordError,     \* whose password was refused last
    loading,           \* the dialogs that wait for an answer
    calls,             \* requests: [op, of, value, set, at]
    accountUser, accountFaults,
    accountCrossed            \* history: which of the known losses happened

accountsVars == <<dbUsers, dbRoles, users, roles, reading, accountDialog, picked, cameras, passwordError, loading, calls, accountUser, accountFaults, accountCrossed>>

Users == {"u", "v"}
Custom == {"r", "s"}
AccountCameras == {"c", "d"}
Exists(rs) == {"admin", "viewer"} \cup {r \in Custom : rs[r] # Null}

AccountTypeOK ==
    /\ \A us \in {dbUsers, users} : \A u \in Users : us[u] \in Custom \cup {"admin", "viewer", Null}
    /\ \A rs \in {dbRoles, roles} : \A r \in Custom : rs[r] = Null \/ rs[r] \subseteq AccountCameras
    /\ loading \subseteq {"createRole", "editRole", "deleteRole", "password"}
    /\ accountCrossed \subseteq {"late", "failed", "again", "error"} /\ \A c \in calls : c.at \in {"sent", "ok", "refused"}

AccountInit ==
    /\ dbUsers = [u \in Users |-> IF u = "u" THEN "r" ELSE Null] /\ users = dbUsers
    /\ dbRoles = [r \in Custom |-> IF r = "r" THEN {"c"} ELSE {"d"}] /\ roles = dbRoles
    /\ reading = FALSE /\ accountDialog = Null /\ picked = Null /\ cameras = Null /\ passwordError = Null /\ loading = {}
    /\ calls = {} /\ accountUser = 0 /\ accountFaults = 0 /\ accountCrossed = {}

AccountUser == accountUser < MaxUser /\ accountUser' = accountUser + 1
AccountServer == <<dbUsers, dbRoles, accountFaults>>
Call(op, of, value) == [op |-> op, of |-> of, value |-> value, set |-> Null, at |-> "sent"]
CallFor(op, of, set) == [Call(op, of, Null) EXCEPT !.set = set]
\* A request beside others that have not been answered may overtake them.
Send(cs) == calls' = calls \cup cs /\ accountCrossed' = IF calls # {} THEN accountCrossed \cup {"late"} ELSE accountCrossed

(***************************************************************************)
(* The dialogs                                                             *)
(***************************************************************************)
Opens(kind, of, was) == AccountUser /\ accountDialog = Null /\ accountDialog' = [kind |-> kind, of |-> of, was |-> was, touched |-> FALSE]
\* The dialog of a user's role is mounted with the first user it is opened for, and keeps its choice.
OpenRoleChange(u) ==
    /\ users[u] # Null /\ Opens("role", u, users[u]) /\ picked' = IF picked = Null THEN users[u] ELSE picked
    /\ accountCrossed' = IF picked \notin {Null, users[u]} THEN accountCrossed \cup {"again"} ELSE accountCrossed \ {"again"}
    /\ UNCHANGED <<AccountServer, users, roles, reading, cameras, passwordError, loading, calls>>
OpenUserDialog(kind, u) ==
    /\ (users[u] # Null) = (kind # "create") /\ Opens(kind, u, Null)
    /\ UNCHANGED <<AccountServer, users, roles, reading, picked, cameras, passwordError, loading, calls, accountCrossed>>
OpenRoleDialog(kind, r) ==
    /\ (roles[r] # Null) = (kind # "createRole") /\ Opens(kind, r, roles[r])
    /\ cameras' = IF kind # "editRole" THEN cameras ELSE IF cameras = Null THEN roles[r] ELSE cameras
    /\ UNCHANGED <<AccountServer, users, roles, reading, picked, passwordError, loading, calls, accountCrossed>>

\* Closing the dialog of a role's cameras takes it away, so that the next begins anew; that of a
\* password forgets what was wrong.
MutKeepsForm(d) == UNCHANGED <<cameras, loading, passwordError>>   \* mutant
Closed(d) ==
    /\ cameras' = IF d = "editRole" THEN Null ELSE cameras
    /\ loading' = IF d = "editRole" THEN loading \ {"editRole"} ELSE loading
    /\ passwordError' = IF d = "password" THEN Null ELSE passwordError
onCancel ==
    /\ accountDialog # Null /\ accountDialog' = Null /\ Closed(accountDialog.kind)
    /\ UNCHANGED <<AccountServer, users, roles, reading, picked, calls, accountUser, accountCrossed>>

Choose(role) ==
    /\ accountDialog # Null /\ accountDialog.kind = "role" /\ AccountUser /\ role \in Exists(roles) /\ role # picked /\ picked' = role
    /\ accountDialog' = [accountDialog EXCEPT !.touched = TRUE]
    /\ UNCHANGED <<AccountServer, users, roles, reading, cameras, passwordError, loading, calls, accountCrossed>>
ToggleCamera(c) ==
    /\ accountDialog # Null /\ accountDialog.kind = "editRole" /\ "editRole" \notin loading /\ AccountUser
    /\ cameras' = (IF c \in cameras THEN cameras \ {c} ELSE cameras \cup {c}) /\ accountDialog' = [accountDialog EXCEPT !.touched = TRUE]
    /\ UNCHANGED <<AccountServer, users, roles, reading, picked, passwordError, loading, calls, accountCrossed>>

(***************************************************************************)
(* Their requests                                                          *)
(***************************************************************************)
Submits(kind) == accountDialog # Null /\ accountDialog.kind = kind /\ kind \notin loading /\ AccountUser
Kept == UNCHANGED <<AccountServer, users, roles, reading, accountDialog, picked, cameras, passwordError>>
onChangeRole == Submits("role") /\ picked # accountDialog.was /\ Send({Call("role", accountDialog.of, picked)}) /\ Kept /\ UNCHANGED loading
accountOnCreate(role) == Submits("create") /\ role \in Exists(roles) /\ Send({Call("create", accountDialog.of, role)}) /\ Kept /\ UNCHANGED loading
accountOnDelete == Submits("delete") /\ Send({Call("delete", accountDialog.of, Null)}) /\ Kept /\ UNCHANGED loading
onSavePassword == Submits("password") /\ Send({Call("password", accountDialog.of, Null)}) /\ loading' = loading \cup {"password"} /\ Kept
onCreateRole == Submits("createRole") /\ Send({CallFor("createRole", accountDialog.of, {"c"})}) /\ loading' = loading \cup {"createRole"} /\ Kept
onEditRoleCameras ==
    Submits("editRole") /\ cameras # {} /\ Send({CallFor("editRole", accountDialog.of, cameras)}) /\ loading' = loading \cup {"editRole"} /\ Kept

\* Users of a role that is deleted become viewers: a request for each, beside the one that deletes it.
MutRoleOnly(r) == {Call("deleteRole", r, Null)}   \* mutant: they keep it
Deletion(r) ==
    LET theirs == {u \in Users : users[u] = r} IN
    {Call("deleteRole", r, Null)} \cup (IF theirs = {} THEN {} ELSE {CallFor("toViewer", r, theirs)})
onDeleteRole == Submits("deleteRole") /\ Send(Deletion(accountDialog.of)) /\ loading' = loading \cup {"deleteRole"} /\ Kept

(***************************************************************************)
(* The server                                                              *)
(***************************************************************************)
Becomes(c, at) == calls' = (calls \ {c}) \cup {[c EXCEPT !.at = at]}
Client == <<users, roles, reading, accountDialog, picked, cameras, passwordError, loading, accountUser>>
AccountRefused(c) ==
    \/ c.op = "create" /\ (dbUsers[c.of] # Null \/ c.value \notin Exists(dbRoles))
    \/ c.op = "role" /\ c.value \notin Exists(dbRoles)
Serve(c) ==
    /\ c.at = "sent" /\ c.op # "toViewer" /\ Becomes(c, IF AccountRefused(c) THEN "refused" ELSE "ok")
    /\ dbUsers' = IF AccountRefused(c) \/ c.op \notin {"create", "role", "delete"} \/ (c.op = "role" /\ dbUsers[c.of] = Null) THEN dbUsers
                  ELSE [dbUsers EXCEPT ![c.of] = IF c.op = "delete" THEN Null ELSE c.value]
    /\ dbRoles' = IF c.op \in {"createRole", "editRole", "deleteRole"} THEN [dbRoles EXCEPT ![c.of] = c.set] ELSE dbRoles
    /\ UNCHANGED <<accountFaults, Client, accountCrossed>>
\* The requests that make viewers are served one by one.
update_role(c, u) ==
    /\ c.at = "sent" /\ c.op = "toViewer" /\ u \in c.set
    /\ dbUsers' = IF dbUsers[u] = Null THEN dbUsers ELSE [dbUsers EXCEPT ![u] = "viewer"]
    /\ calls' = (calls \ {c}) \cup {[c EXCEPT !.set = @ \ {u}, !.at = IF c.set = {u} THEN "ok" ELSE "sent"]}
    /\ UNCHANGED <<dbRoles, accountFaults, Client, accountCrossed>>
Fails(c) ==
    /\ c.at = "sent" /\ accountFaults < MaxFaults /\ accountFaults' = accountFaults + 1 /\ Becomes(c, "refused") /\ accountCrossed' = accountCrossed \cup {"failed"}
    /\ UNCHANGED <<dbUsers, dbRoles, Client>>

(***************************************************************************)
(* The answers                                                             *)
(***************************************************************************)
Dialog(op) == IF op = "toViewer" THEN "none" ELSE op
\* The list after an answer: as the request asked for.
MutUnlisted(c) == IF c.op = "toViewer" THEN users ELSE [users EXCEPT ![c.of] = IF c.op = "delete" THEN Null ELSE c.value]   \* mutant
Listed(c) ==
    IF c.op = "toViewer" THEN [u \in Users |-> IF users[u] = c.of THEN "viewer" ELSE users[u]]
    ELSE IF c.op = "role" /\ users[c.of] = Null THEN users
    ELSE [users EXCEPT ![c.of] = IF c.op = "delete" THEN Null ELSE c.value]
Answer(c) ==
    /\ c.at = "ok" /\ calls' = calls \ {c}
    /\ users' = IF c.op \in {"create", "role", "delete", "toViewer"} THEN Listed(c) ELSE users
    /\ reading' = (reading \/ c.op \in {"createRole", "editRole", "deleteRole"})
    \* It closes the dialog of its kind, whoever that is open for.
    /\ accountDialog' = IF accountDialog # Null /\ accountDialog.kind = Dialog(c.op) THEN Null ELSE accountDialog
    /\ cameras' = IF c.op = "editRole" THEN Null ELSE cameras
    /\ passwordError' = IF c.op = "password" THEN Null ELSE passwordError
    /\ loading' = loading \ {c.op}
    /\ UNCHANGED <<AccountServer, roles, picked, accountUser, accountCrossed>>
Refusal(c) ==
    /\ c.at = "refused" /\ calls' = calls \ {c} /\ loading' = loading \ {c.op}
    /\ passwordError' = IF c.op = "password" THEN c.of ELSE passwordError
    /\ accountCrossed' = IF c.op = "password" /\ (accountDialog = Null \/ accountDialog.kind # "password" \/ accountDialog.of # c.of) THEN accountCrossed \cup {"error"} ELSE accountCrossed
    /\ UNCHANGED <<AccountServer, users, roles, reading, accountDialog, picked, cameras, accountUser>>
accountUpdateConfig == reading /\ reading' = FALSE /\ roles' = dbRoles
                /\ UNCHANGED <<AccountServer, users, accountDialog, picked, cameras, passwordError, loading, calls, accountUser, accountCrossed>>

AccountNext ==
    \/ \E u \in Users : OpenRoleChange(u) \/ \E k \in {"create", "delete", "password"} : OpenUserDialog(k, u)
    \/ \E r \in Custom : \E k \in {"createRole", "editRole", "deleteRole"} : OpenRoleDialog(k, r)
    \/ \E r \in Custom \cup {"viewer"} : Choose(r) \/ accountOnCreate(r)
    \/ \E c \in AccountCameras : ToggleCamera(c)
    \/ onCancel \/ onChangeRole \/ accountOnDelete \/ onSavePassword \/ onCreateRole \/ onEditRoleCameras \/ onDeleteRole
    \/ \E c \in calls : Serve(c) \/ Fails(c) \/ Answer(c) \/ Refusal(c) \/ \E u \in Users : update_role(c, u)
    \/ accountUpdateConfig

AccountSpec == AccountInit /\ [][AccountNext]_accountsVars

(***************************************************************************)
(* Properties                                                              *)
(***************************************************************************)
\* Once every request is answered the users listed are those of the server, and so are the roles once
\* read, unless requests were on the way together or one failed.
UsersAreServers == calls = {} /\ accountCrossed \cap {"late", "failed"} = {} => users = dbUsers /\ (reading \/ roles = dbRoles)

\* No user keeps a role that was deleted, with the same exceptions.
RolesExist ==
    calls = {} /\ accountCrossed \cap {"late", "failed"} = {} => \A u \in Users : dbUsers[u] = Null \/ dbUsers[u] \in Exists(dbRoles)

\* A dialog begins with the role of its user or the cameras of its role, unless the choice of another
\* user was left in it.
AccountDialogIsOwn ==
    accountDialog # Null /\ ~accountDialog.touched =>
        /\ accountDialog.kind = "editRole" => cameras = accountDialog.was
        /\ accountDialog.kind = "role" => picked = accountDialog.was \/ "again" \in accountCrossed

\* A password dialog shows no refusal of another user's password, unless that came after its dialog.
ErrorIsOwn == accountDialog # Null /\ accountDialog.kind = "password" => passwordError \in {Null, accountDialog.of} \/ "error" \in accountCrossed

(***************************************************************************)
(* Semantic search triggers (TriggerView and its dialogs).  A trigger is   *)
(* an embedding in the database and an entry in the camera's part of the   *)
(* configuration; each is written by a request of its own, the embedding   *)
(* first.  A trigger is renamed by deleting it and creating another.       *)
(***************************************************************************)
VARIABLES
    cfg, embeddings,  \* on the server: for each camera and name, what the trigger compares with
    config,           \* the configuration as the page knows it
    selectedCamera,
    triggerDialog,           \* [kind, of, name, value, step], or Null
    unsaved,          \* the settings page asks before it is left
    job,              \* the save or deletion under way (isLoading): [old, name, value, camera, steps, from], or Null
    triggered, timer, \* the triggers marked as fired, the one whose mark is about to go
    told,             \* history: the change reported as successful last, Null when others changed triggers since
    triggerUser, other, triggerFaults,
    triggerCrossed           \* history: which of the known losses happened

triggersVars == <<cfg, embeddings, config, selectedCamera, triggerDialog, unsaved, job, triggered, timer, told, triggerUser, other, triggerFaults, triggerCrossed>>

TriggerCameras == {"c", "d"}
Names == {"t", "s"}
Values == {"cat", "dog"}
Free(of) == {n \in Names : config[selectedCamera][n] = Null} \cup ({of} \cap Names)

TriggerTypeOK ==
    /\ \A f \in {cfg, embeddings, config} : \A c \in TriggerCameras : \A n \in Names : f[c][n] \in Values \cup {Null}
    /\ selectedCamera \in TriggerCameras /\ unsaved \in BOOLEAN /\ triggered \subseteq Names /\ timer \in Names \cup {Null}
    /\ triggerCrossed \subseteq {"behind", "others", "failed", "overtaken"}
    /\ job # Null => job.steps # <<>> /\ job.camera \in TriggerCameras

TriggerInit ==
    /\ cfg = [c \in TriggerCameras |-> [n \in Names |-> IF n = "t" /\ c = "c" THEN "cat" ELSE Null]]
    /\ embeddings = cfg /\ config = cfg /\ selectedCamera = "c" /\ triggerDialog = Null /\ unsaved = FALSE /\ job = Null
    /\ triggered = {} /\ timer = Null /\ told = Null /\ triggerUser = 0 /\ other = 0 /\ triggerFaults = 0 /\ triggerCrossed = {}

TriggerUser == triggerUser + other + triggerFaults < MaxUser /\ triggerUser' = triggerUser + 1
TriggerServer == <<cfg, embeddings, other, triggerFaults>>
Marks == <<triggered, timer>>

(***************************************************************************)
(* The dialogs                                                             *)
(***************************************************************************)
\* What opens a dialog is off while a change is under way; the wizard's dialog cannot even be closed.
MutAnyTime == triggerDialog = Null   \* mutant
MayOpen == triggerDialog = Null /\ job = Null
Opened(kind, of, step) ==
    /\ MayOpen /\ TriggerUser
    /\ triggerDialog' = [kind |-> kind, of |-> of, name |-> of, value |-> IF of = Null THEN Null ELSE config[selectedCamera][of], step |-> step]
    /\ UNCHANGED <<TriggerServer, config, selectedCamera, unsaved, job, Marks, told, triggerCrossed>>
OpenWizard == Opened("wizard", Null, 1)
OpenEdit(n) == config[selectedCamera][n] # Null /\ Opened("edit", n, 3)
OpenDelete(n) == config[selectedCamera][n] # Null /\ Opened("delete", n, 3)
\* A link of Explore: the form of a new trigger that compares with the object.
OpenForEvent ==
    /\ MayOpen /\ TriggerUser /\ triggerDialog' = [kind |-> "edit", of |-> Null, name |-> Null, value |-> "dog", step |-> 3]
    /\ UNCHANGED <<TriggerServer, config, selectedCamera, unsaved, job, Marks, told, triggerCrossed>>

\* The wizard: name, data, threshold and actions; its first step forgets the later ones.
wizardReducer(next) ==
    /\ triggerDialog # Null /\ triggerDialog.kind = "wizard" /\ job = Null /\ TriggerUser /\ triggerDialog' = next
    /\ UNCHANGED <<TriggerServer, config, selectedCamera, unsaved, job, Marks, told, triggerCrossed>>
SetStep1(n) == triggerDialog # Null /\ triggerDialog.step = 1 /\ n \in Free(Null) /\ wizardReducer([triggerDialog EXCEPT !.name = n, !.value = Null, !.step = 2])
SetStep2(v) == triggerDialog # Null /\ triggerDialog.step = 2 /\ wizardReducer([triggerDialog EXCEPT !.value = v, !.step = 3])
PreviousStep == triggerDialog # Null /\ triggerDialog.step > 1 /\ wizardReducer([triggerDialog EXCEPT !.step = @ - 1])

Cancel ==
    /\ triggerDialog # Null /\ (triggerDialog.kind = "wizard" => job = Null) /\ triggerDialog' = Null /\ unsaved' = FALSE
    /\ UNCHANGED <<TriggerServer, config, selectedCamera, job, Marks, told, triggerUser, triggerCrossed>>

\* Another camera is chosen: the dialogs close and the marks go, a change under way goes on.
SelectCamera(c) ==
    /\ c # selectedCamera /\ TriggerUser /\ selectedCamera' = c /\ triggerDialog' = Null /\ unsaved' = FALSE /\ triggered' = {}
    /\ UNCHANGED <<TriggerServer, config, job, timer, told, triggerCrossed>>

(***************************************************************************)
(* Changes: the requests still to be made, each for the camera selected at *)
(* the start                                                               *)
(***************************************************************************)
Begin(old, name, value, steps) ==
    /\ job = Null /\ TriggerUser /\ unsaved' = TRUE
    /\ job' = [old |-> old, name |-> name, value |-> value, camera |-> selectedCamera, steps |-> steps, from |-> triggerDialog]
    /\ told' = Null /\ UNCHANGED <<TriggerServer, config, selectedCamera, triggerDialog, Marks, triggerCrossed>>
saveToConfig(isEdit) == <<IF isEdit THEN "put" ELSE "post", "setConfig">>
triggerOnCreate(n, v) == Begin(Null, n, v, saveToConfig(FALSE))
\* A new name: the old trigger is deleted, embedding first, and one of the new name created.
MutForgets(of) == saveToConfig(FALSE)   \* mutant
Renaming(of) == <<"delete", "unsetConfig">> \o saveToConfig(FALSE)
onEdit(of, n, v) == Begin(of, n, v, IF n = of THEN saveToConfig(TRUE) ELSE Renaming(of))
triggerOnDelete == triggerDialog # Null /\ triggerDialog.kind = "delete" /\ Begin(triggerDialog.of, Null, Null, <<"delete", "unsetConfig">>)

handleStep3Next == triggerDialog # Null /\ triggerDialog.kind = "wizard" /\ triggerDialog.step = 3 /\ triggerDialog.value # Null /\ triggerOnCreate(triggerDialog.name, triggerDialog.value)
\* The form edits a trigger the configuration has, and creates any other.
onSubmit(n, v) ==
    /\ triggerDialog # Null /\ triggerDialog.kind = "edit" /\ n \in Free(triggerDialog.of)
    /\ IF triggerDialog.of # Null /\ config[selectedCamera][triggerDialog.of] # Null THEN onEdit(triggerDialog.of, n, v) ELSE triggerOnCreate(n, v)

(***************************************************************************)
(* The requests and their answers                                          *)
(***************************************************************************)
With(f, c, n, v) == [f EXCEPT ![c][n] = v]
MutCameraNow(j) == selectedCamera   \* mutant: the camera selected by then
Camera(j) == j.camera
\* An embedding is not created over another, and only deleted when it is there.
TriggerRefused(step) ==
    \/ step = "post" /\ embeddings[Camera(job)][job.name] # Null
    \/ step = "delete" /\ embeddings[Camera(job)][job.old] = Null
    \/ step = "unsetConfig" /\ cfg[Camera(job)][job.old] = Null
Written(step) ==
    /\ embeddings' = CASE step \in {"post", "put"} -> With(embeddings, Camera(job), job.name, job.value)
                       [] step = "delete" -> With(embeddings, Camera(job), job.old, Null)
                       [] OTHER -> embeddings
    /\ cfg' = CASE step = "setConfig" -> With(cfg, Camera(job), job.name, job.value)
                [] step = "unsetConfig" -> With(cfg, Camera(job), job.old, Null)
                [] OTHER -> cfg
MutOffByOne(j) == j.steps # <<>>   \* mutant: the answer of the last is not the end
Remains(j) == Len(j.steps) > 1
Step ==
    /\ job # Null /\ Remains(job) /\ ~TriggerRefused(Head(job.steps)) /\ Written(Head(job.steps))
    /\ job' = [job EXCEPT !.steps = Tail(@)]
    /\ UNCHANGED <<config, selectedCamera, triggerDialog, unsaved, Marks, told, triggerUser, other, triggerFaults, triggerCrossed>>

\* The answer closes the dialogs: of a save those of the form, of a deletion its own.
Closes == triggerDialog' = IF triggerDialog # Null /\ (job.name = Null) = (triggerDialog.kind = "delete") THEN Null ELSE triggerDialog
MutUnread == UNCHANGED config   \* mutant: the configuration is not read again
triggerUpdateConfig == config' = cfg'
LastStep ==
    /\ job # Null /\ Len(job.steps) = 1 /\ ~TriggerRefused(Head(job.steps)) /\ Written(Head(job.steps)) /\ triggerUpdateConfig
    /\ Closes /\ unsaved' = FALSE /\ told' = [old |-> job.old, name |-> job.name, value |-> job.value, camera |-> job.camera] /\ job' = Null /\ triggerCrossed' = triggerCrossed \ {"behind"}
    /\ UNCHANGED <<selectedCamera, Marks, triggerUser, other, triggerFaults>>
\* A request that fails or is refused ends it where it is; a rename that did not get to the new
\* trigger leaves its dialog open.
Fail ==
    /\ job # Null /\ triggerCrossed' = triggerCrossed \cup {"failed"}
    /\ IF TriggerRefused(Head(job.steps)) THEN UNCHANGED triggerFaults ELSE triggerFaults < MaxFaults /\ triggerUser + other + triggerFaults < MaxUser /\ triggerFaults' = triggerFaults + 1
    /\ IF Head(job.steps) \in {"delete", "unsetConfig"} /\ job.name # Null THEN UNCHANGED triggerDialog ELSE Closes
    /\ job' = Null /\ told' = Null
    /\ UNCHANGED <<cfg, embeddings, config, selectedCamera, unsaved, Marks, triggerUser, other>>

(***************************************************************************)
(* Others, and triggers that fire                                          *)
(***************************************************************************)
ElseWrites(c, n, v) ==
    /\ other < MaxOther /\ triggerUser + other + triggerFaults < MaxUser /\ other' = other + 1 /\ v # cfg[c][n]
    /\ cfg' = With(cfg, c, n, v) /\ embeddings' = With(embeddings, c, n, v) /\ told' = Null
    /\ triggerCrossed' = triggerCrossed \cup {"behind"} \cup (IF job # Null THEN {"others"} ELSE {})
    /\ UNCHANGED <<config, selectedCamera, triggerDialog, unsaved, job, Marks, triggerUser, triggerFaults>>
\* The configuration is read again for another reason.
Read ==
    /\ config # cfg /\ config' = cfg /\ triggerCrossed' = triggerCrossed \ {"behind"}
    /\ UNCHANGED <<TriggerServer, selectedCamera, triggerDialog, unsaved, job, Marks, told, triggerUser>>
\* A mark goes after three seconds, unless another trigger fires by then: its timer replaces it.
Fires(n) ==
    /\ triggerUser + other + triggerFaults < MaxUser /\ triggerUser' = triggerUser + 1 /\ triggered' = triggered \cup {n} /\ timer' = n
    /\ triggerCrossed' = IF triggered \ {n} # {} THEN triggerCrossed \cup {"overtaken"} ELSE triggerCrossed
    /\ UNCHANGED <<TriggerServer, config, selectedCamera, triggerDialog, unsaved, job, told>>
MarkEnds ==
    /\ timer # Null /\ triggered' = triggered \ {timer} /\ timer' = Null
    /\ UNCHANGED <<TriggerServer, config, selectedCamera, triggerDialog, unsaved, job, told, triggerUser, triggerCrossed>>

TriggerNext ==
    \/ OpenWizard \/ OpenForEvent \/ PreviousStep \/ Cancel \/ triggerOnDelete \/ handleStep3Next
    \/ \E n \in Names : OpenEdit(n) \/ OpenDelete(n) \/ SetStep1(n) \/ Fires(n)
    \/ \E v \in Values : SetStep2(v)
    \/ \E n \in Names, v \in Values : onSubmit(n, v)
    \/ \E c \in TriggerCameras : SelectCamera(c)
    \/ Step \/ LastStep \/ Fail \/ Read \/ MarkEnds
    \/ \E c \in TriggerCameras, n \in Names, v \in Values \cup {Null} : ElseWrites(c, n, v)

TriggerSpec == TriggerInit /\ [][TriggerNext]_triggersVars

(***************************************************************************)
(* Properties                                                              *)
(***************************************************************************)
\* Once nothing is under way every trigger has its embedding and no embedding is left of one that
\* is gone, unless a request failed (the embedding is written first) or others wrote meanwhile.
TriggersHaveEmbeddings == job = Null /\ triggerCrossed \cap {"failed", "others"} = {} => cfg = embeddings
\* What was reported as saved is in the camera it was saved for, under the new name alone.
SavedIsTold ==
    told # Null /\ "others" \notin triggerCrossed =>
        /\ told.name # Null => cfg[told.camera][told.name] = told.value
        /\ told.old \notin {Null, told.name} => cfg[told.camera][told.old] = Null
\* The triggers listed are the server's, unless a change failed half way or others' is not read.
ListIsConfig == job = Null /\ triggerCrossed \cap {"failed", "behind"} = {} => config = cfg
\* While a change is under way no dialog but its own is open, so its answer closes no other.
TriggerDialogIsOwn == job # Null /\ triggerDialog # Null => triggerDialog = job.from
\* The page asks before it is left only while a change is under way, or after one that failed.
UnsavedIsPending == unsaved /\ "failed" \notin triggerCrossed => job # Null
\* Every mark goes, unless the next trigger fires within its three seconds.
MarksEnd == "overtaken" \notin triggerCrossed => triggered \subseteq {timer}
=============================================================================
