--------------------------- MODULE SettingsDrafts ---------------------------
(***************************************************************************)
(* The settings pages: drafts of configuration sections, kept by Settings  *)
(* for every page and camera, the forms that edit them (BaseSection, the   *)
(* detector page, the go2rtc page), their saves, Save All, and the server  *)
(* that merges what is sent into its configuration.                        *)
(*                                                                         *)
(* A request is one step from its arrival at the server to the code after  *)
(* its await; what the user does in between interleaves with it.  A        *)
(* section is a record of two fields, 0 standing for the default.          *)
(***************************************************************************)
EXTENDS Naturals, FiniteSets

CONSTANTS
    Null,
    MaxEdits,    \* bound: edits and discards of the user, with what MaxOthers bounds
    MaxSaves,    \* bound: saves, resets and Save Alls started
    MaxOthers    \* bound: changes made by others and failed requests

\* pendingDataKey: "cam1" is cam1::record, "prof1" cam1::profiles.armed.record.
AllKeys == {"detectors", "go2rtc_streams", "global", "cam1", "cam2", "prof1"}
CameraKeys == {"cam1", "cam2", "prof1"}
Fields == {"a", "b"}
Val == [Fields -> 0..1]
Default == [f \in Fields |-> 0]

VARIABLES
    keys,      \* the sections this behaviour is about
    server,    \* the configuration the server runs and stores
    config,    \* SWR's copy of it
    raw,       \* SWR's copy of config/raw_paths: the go2rtc streams
    pendingDataBySection,
    status,    \* sectionStatusByKey: the dots of the menu
    page, camera, profile,  \* what is on screen: pageToggle, selectedCamera, editingProfile
    saves,     \* running saves of single sections
    all,       \* the running handleSaveAll
    anySaving, \* isAnySectionSaving
    delivered, \* history: keys whose draft the server has accepted as it is
    raced,     \* history: a draft met a save it was not part of, or a change by others
    edits, starts, others

screen == <<page, camera, profile>>
vars == <<keys, server, config, raw, pendingDataBySection, status, screen, saves,
          all, anySaving, delivered, raced, edits, starts, others>>

MenuOf(k) == IF k \in CameraKeys THEN "camera" ELSE k
CameraOf(k) == IF k = "cam2" THEN "cam2" ELSE "cam1"
Menus == {MenuOf(k) : k \in AllKeys}
Pages == {MenuOf(k) : k \in keys} \cup {"other"}
Status == [hasChanges : BOOLEAN, hasValidationErrors : BOOLEAN]
Clean == [hasChanges |-> FALSE, hasValidationErrors |-> FALSE]

\* The section the mounted form edits under this page, camera and profile.
KeyOn(p, c, prof) ==
    IF p # "camera" THEN p ELSE IF c = "cam1" /\ prof THEN "prof1" ELSE c
Mounted == KeyOn(page, camera, profile)
OnScreen(k) == k \in keys /\ Mounted = k

Draft == [val : Val, bad : BOOLEAN]
Save == [kind : {"save", "reset"}, val : Val, base : Val, own : BOOLEAN,
         step : {"clear", "put", "restore", "refresh"}, edited : BOOLEAN]
SaveAll == [drafts : [AllKeys -> Val \cup {Null}], base : [AllKeys -> Val],
            todo : SUBSET AllKeys, cleared : SUBSET AllKeys,
            saved : SUBSET AllKeys, edited : SUBSET AllKeys]

TypeOK ==
    /\ keys \subseteq AllKeys
    /\ server \in [AllKeys -> Val] /\ config \in [AllKeys -> Val] /\ raw \in Val
    /\ pendingDataBySection \in [AllKeys -> Draft \cup {Null}]
    /\ status \in [Menus -> Status]
    /\ page \in Menus \cup {"other"} /\ camera \in {"cam1", "cam2"} /\ profile \in BOOLEAN
    /\ saves \in [AllKeys -> Save \cup {Null}]
    /\ all = Null \/ all \in SaveAll
    /\ anySaving \in BOOLEAN /\ delivered \subseteq AllKeys

Pending == {k \in keys : pendingDataBySection[k] # Null}

\* What a form shows of the saved state: formData, serverStreams.
FormData(cfg, rw, k) == IF k = "go2rtc_streams" THEN rw ELSE cfg[k]
HasChanges(drafts, cfg, rw, k) ==
    drafts[k] # Null /\ (k = "detectors" \/ drafts[k].val # FormData(cfg, rw, k))

(***************************************************************************)
(* The menu's dots.  A mounted form reports its status when it changes; an *)
(* effect of Settings then counts the drafts of the selected camera.       *)
(***************************************************************************)
MutLeaveCleans(st, p, c, prof, drafts, cfg, rw) ==   \* mutant: a form that unmounts reports no changes
    [m \in Menus |->
        LET k == KeyOn(p, c, prof)
            here == p = m /\ k \in keys
        IN  [hasChanges |-> here /\ HasChanges(drafts, cfg, rw, k),
             hasValidationErrors |-> here /\ drafts[k] # Null /\ drafts[k].bad]]

StatusAfter(st, p, c, prof, drafts, cfg, rw) ==
    [m \in Menus |->
        LET k == KeyOn(p, c, prof)
            here == p = m /\ k \in keys
        IN  [hasChanges |->
                IF m = "camera"
                THEN \E x \in CameraKeys : CameraOf(x) = c /\ drafts[x] # Null
                ELSE IF here THEN HasChanges(drafts, cfg, rw, k) ELSE st[m].hasChanges,
             hasValidationErrors |->
                IF here THEN drafts[k] # Null /\ drafts[k].bad
                ELSE st[m].hasValidationErrors]]

\* The state after an event, given the drafts, copies and status it leaves.
Settle(drafts, cfg, rw, st) ==
    /\ pendingDataBySection' = drafts /\ config' = cfg /\ raw' = rw
    /\ status' = StatusAfter(st, page', camera', profile', drafts, cfg, rw)

hasPendingValidationErrors ==
    \E m \in Menus : status[m].hasChanges /\ status[m].hasValidationErrors

\* Save All and Undo All are offered for drafts that are not on screen.
showSaveAllButtons ==
    \E k \in Pending : MenuOf(k) # page \/ (k \in CameraKeys /\ CameraOf(k) # camera)

isSaving(k) == \E x \in keys : saves[x] # Null /\ saves[x].own /\ MenuOf(x) = MenuOf(k)

Init ==
    /\ keys \in {{"global", "cam1"}, {"cam1", "cam2"}, {"cam1", "prof1"},
                 {"detectors", "cam1"}, {"go2rtc_streams", "global"}}
    /\ server = [k \in AllKeys |-> [a |-> 1, b |-> 0]]
    /\ config = server /\ raw = server["go2rtc_streams"]
    /\ pendingDataBySection = [k \in AllKeys |-> Null]
    /\ status = [m \in Menus |-> Clean]
    /\ page = "other" /\ camera = "cam1" /\ profile = FALSE
    /\ saves = [k \in AllKeys |-> Null] /\ all = Null /\ anySaving = FALSE
    /\ delivered = {} /\ raced = FALSE /\ edits = 0 /\ starts = 0 /\ others = 0

(***************************************************************************)
(* Moving about                                                            *)
(***************************************************************************)
Leave == [k \in AllKeys |-> IF saves[k] = Null THEN Null ELSE [saves[k] EXCEPT !.own = FALSE]]

\* A page takes its forms with it; their saves run on, without them.
setPageToggle(p) ==
    /\ p \in Pages \ {page}
    /\ page' = p /\ saves' = Leave
    /\ UNCHANGED <<camera, profile>>
    /\ Settle(pendingDataBySection, config, raw, status)
    /\ UNCHANGED <<keys, server, all, anySaving, delivered, raced, edits, starts, others>>

setSelectedCamera(c) ==
    /\ CameraKeys \cap keys # {} /\ c # camera
    /\ camera' = c
    /\ UNCHANGED <<page, profile>>
    /\ Settle(pendingDataBySection, config, raw, status)
    /\ UNCHANGED <<keys, server, saves, all, anySaving, delivered, raced, edits, starts, others>>

handleSelectProfile ==
    /\ "prof1" \in keys /\ page = "camera"
    /\ profile' = ~profile
    /\ UNCHANGED <<page, camera>>
    /\ Settle(pendingDataBySection, config, raw, status)
    /\ UNCHANGED <<keys, server, saves, all, anySaving, delivered, raced, edits, starts, others>>

(***************************************************************************)
(* Editing                                                                 *)
(***************************************************************************)
Edited(k) ==
    /\ saves' = IF saves[k] = Null THEN saves ELSE [saves EXCEPT ![k].edited = TRUE]
    /\ all' = IF all = Null THEN Null ELSE [all EXCEPT !.edited = @ \cup {k}]
    /\ delivered' = delivered \ {k}
    /\ raced' = (raced \/ saves[k] # Null \/ all # Null)

\* handleChange, commitStreams: a draft that equals the saved state is none.
\* The forms of BaseSection are disabled while they save themselves.
handleChange(f, bad) ==
    /\ Mounted \in keys /\ edits + others < MaxEdits /\ edits' = edits + 1
    /\ LET k == Mounted
           was == FormData(config, raw, k)
           cur == IF pendingDataBySection[k] = Null THEN was ELSE pendingDataBySection[k].val
           new == [cur EXCEPT ![f] = 1 - @]
       IN  /\ k \notin {"detectors", "go2rtc_streams"} => ~isSaving(k)
           /\ Edited(k)
           /\ UNCHANGED screen
           /\ Settle([pendingDataBySection EXCEPT ![k] =
                        IF new = was THEN Null ELSE [val |-> new, bad |-> bad]],
                     config, raw, status)
    /\ UNCHANGED <<keys, server, anySaving, starts, others>>

\* Undo of one section.
handleReset ==
    /\ Mounted \in keys /\ edits + others < MaxEdits /\ edits' = edits + 1
    /\ HasChanges(pendingDataBySection, config, raw, Mounted)
    /\ ~isSaving(Mounted) /\ (all = Null \/ Mounted = "detectors")
    /\ Edited(Mounted)
    /\ UNCHANGED screen
    /\ Settle([pendingDataBySection EXCEPT ![Mounted] = Null], config, raw, status)
    /\ UNCHANGED <<keys, server, anySaving, starts, others>>

MutUndoKeepsMarks ==   \* mutant: the marks of the undone drafts stay
    /\ showSaveAllButtons /\ all = Null /\ ~anySaving
    /\ edits + others < MaxEdits /\ edits' = edits + 1
    /\ delivered' = delivered \ Pending
    /\ profile' = FALSE /\ UNCHANGED <<page, camera>>
    /\ Settle([k \in AllKeys |-> Null], config, raw, status)
    /\ UNCHANGED <<keys, server, saves, all, anySaving, raced, starts, others>>

handleUndoAll ==
    /\ showSaveAllButtons /\ all = Null /\ ~anySaving
    /\ edits + others < MaxEdits /\ edits' = edits + 1
    /\ delivered' = delivered \ Pending
    /\ profile' = FALSE /\ UNCHANGED <<page, camera>>
    /\ Settle([k \in AllKeys |-> Null], config, raw,
              [m \in Menus |-> IF \E k \in Pending : MenuOf(k) = m THEN Clean ELSE status[m]])
    /\ UNCHANGED <<keys, server, saves, all, anySaving, raced, starts, others>>

(***************************************************************************)
(* The server's side of a request                                          *)
(***************************************************************************)
\* buildOverrides for a section; the detector page sends everything, the
\* go2rtc page all streams there are and the deletion of those that were.
Sent(k, val, base) ==
    {f \in Fields : CASE k = "detectors" -> TRUE
                      [] k = "go2rtc_streams" -> val[f] = 1 \/ base[f] = 1
                      [] OTHER -> val[f] # base[f]}

MutReplace(k, val, base) ==   \* mutant: the section becomes what was sent
    [server EXCEPT ![k] = [f \in Sent(k, val, base) |-> val[f]]]

\* config_set: what is sent is merged into the configuration.
Merge(k, val, base) ==
    [server EXCEPT ![k] = [f \in Fields |->
        IF f \in Sent(k, val, base) THEN val[f] ELSE server[k][f]]]

\* detectorKeysChanged: field "a" stands for the names of the detectors.
NeedsClear(k, val, base) == k = "detectors" /\ val.a # base.a

\* A request fails with or without having been carried out.
Fails == others < MaxOthers /\ edits + others < MaxEdits /\ others' = others + 1

(***************************************************************************)
(* The save of one section: handleSave, onSave, saveToConfig               *)
(***************************************************************************)
StartSave(k, s) ==
    /\ saves[k] = Null /\ starts < MaxSaves /\ starts' = starts + 1
    /\ saves' = [saves EXCEPT ![k] = s]
    /\ UNCHANGED <<keys, server, config, raw, pendingDataBySection, status, screen,
                   all, delivered, edits, others>>

handleSave ==
    /\ Mounted \in keys
    /\ HasChanges(pendingDataBySection, config, raw, Mounted)
    /\ ~pendingDataBySection[Mounted].bad /\ ~isSaving(Mounted) /\ all = Null
    /\ anySaving' = TRUE /\ UNCHANGED raced
    /\ LET val == pendingDataBySection[Mounted].val
           base == FormData(config, raw, Mounted)
       IN  StartSave(Mounted,
               [kind |-> "save", val |-> val, base |-> base, own |-> TRUE, edited |-> FALSE,
                step |-> IF NeedsClear(Mounted, val, base) THEN "clear" ELSE "put"])

\* Reset to the global or default values, and removal of a profile override.
handleResetToGlobal ==
    /\ OnScreen(Mounted) /\ Mounted \notin {"detectors", "go2rtc_streams"}
    /\ ~HasChanges(pendingDataBySection, config, raw, Mounted) /\ ~isSaving(Mounted)
    /\ raced' = (raced \/ pendingDataBySection[Mounted] # Null) /\ UNCHANGED anySaving
    /\ StartSave(Mounted, [kind |-> "reset", val |-> Default, base |-> config[Mounted],
                           own |-> FALSE, edited |-> FALSE, step |-> "put"])

SaveStep(k, step) == saves' = [saves EXCEPT ![k].step = step]
Accepted(k, val) == pendingDataBySection[k] # Null /\ pendingDataBySection[k].val = val
Unseen == UNCHANGED <<keys, config, raw, pendingDataBySection, status, screen, raced, edits, starts>>

\* The detectors are cleared first when their names change.
PreClear(k) ==
    /\ saves[k] # Null /\ saves[k].step = "clear"
    /\ SaveStep(k, "put")
    /\ \/ server' = [server EXCEPT ![k] = Default] /\ UNCHANGED others
       \/ Fails /\ UNCHANGED server
    /\ Unseen /\ UNCHANGED <<all, anySaving, delivered>>

PutSection(k) ==
    /\ saves[k] # Null /\ saves[k].step = "put"
    /\ LET s == saves[k]
           new == IF s.kind = "reset" THEN [server EXCEPT ![k] = Default]
                  ELSE Merge(k, s.val, s.base)
       IN  \/ /\ server' = new /\ SaveStep(k, "refresh")
              /\ delivered' = IF Accepted(k, s.val) THEN delivered \cup {k} ELSE delivered
              /\ UNCHANGED <<others, anySaving>>
           \/ /\ Fails /\ server' \in {server, new}
              /\ IF NeedsClear(k, s.val, s.base) /\ s.kind = "save"
                 THEN SaveStep(k, "restore") /\ UNCHANGED anySaving
                 ELSE /\ saves' = [saves EXCEPT ![k] = Null]
                      /\ anySaving' = IF s.kind = "save" THEN FALSE ELSE anySaving
              /\ UNCHANGED delivered
    /\ Unseen /\ UNCHANGED all

MutRestoreKeepsLock(k) ==   \* mutant: the lock is not released after a failed write
    /\ saves[k] # Null /\ saves[k].step = "restore"
    /\ \/ server' = Merge(k, saves[k].base, saves[k].base) /\ UNCHANGED others
       \/ Fails /\ UNCHANGED server
    /\ saves' = [saves EXCEPT ![k] = Null] /\ UNCHANGED anySaving
    /\ UNCHANGED screen
    /\ Settle(pendingDataBySection, server', raw, status)
    /\ UNCHANGED <<keys, all, delivered, raced, edits, starts>>

\* The detector page puts the old detectors back and reads the result.
RestoreDetectors(k) ==
    /\ saves[k] # Null /\ saves[k].step = "restore"
    /\ \/ server' = Merge(k, saves[k].base, saves[k].base) /\ UNCHANGED others
       \/ Fails /\ UNCHANGED server
    /\ saves' = [saves EXCEPT ![k] = Null] /\ anySaving' = FALSE
    /\ UNCHANGED screen
    /\ Settle(pendingDataBySection, server', raw, status)
    /\ UNCHANGED <<keys, all, delivered, raced, edits, starts>>

\* The configuration has been read again: the draft goes.  A reset does not
\* wait for that and the form may have a draft by now.
FinishSave(k) ==
    /\ saves[k] # Null /\ saves[k].step = "refresh"
    /\ saves' = [saves EXCEPT ![k] = Null]
    /\ anySaving' = IF saves[k].kind = "save" THEN FALSE ELSE anySaving
    /\ UNCHANGED screen
    /\ Settle([pendingDataBySection EXCEPT ![k] = Null], server,
              IF k = "go2rtc_streams" THEN server[k] ELSE raw, status)
    /\ UNCHANGED <<keys, server, all, delivered, raced, edits, starts, others>>

(***************************************************************************)
(* Save All                                                                *)
(***************************************************************************)
handleSaveAll ==
    /\ showSaveAllButtons /\ all = Null /\ ~anySaving /\ ~hasPendingValidationErrors
    /\ starts < MaxSaves /\ starts' = starts + 1
    /\ all' = [drafts |-> [k \in AllKeys |-> IF k \in Pending THEN pendingDataBySection[k].val
                                             ELSE Null],
               base |-> config, todo |-> Pending, cleared |-> {}, saved |-> {}, edited |-> {}]
    /\ UNCHANGED <<keys, server, config, raw, pendingDataBySection, status, screen,
                   saves, anySaving, delivered, raced, edits, others>>

\* prepareSectionSavePayload returns null: nothing differs, nothing is sent.
NothingToSend(k) == Sent(k, all.drafts[k], all.base[k]) = {}

\* One section of Save All; detectors and go2rtc streams come first.
SaveAllPut(k) ==
    /\ all # Null /\ k \in all.todo
    /\ k \notin {"detectors", "go2rtc_streams"} =>
           all.todo \cap {"detectors", "go2rtc_streams"} = {}
    /\ LET val == all.drafts[k]
           clear == NeedsClear(k, val, all.base[k])
           next == [all EXCEPT !.todo = @ \ {k}]
           before == IF clear THEN {server, [server EXCEPT ![k] = Default]} ELSE {server}
           new == Merge(k, val, all.base[k])
       IN  \/ /\ ~NothingToSend(k)
              /\ server' = new
              /\ all' = [next EXCEPT !.cleared = @ \cup {k}, !.saved = @ \cup {k}]
              /\ delivered' = IF Accepted(k, val) THEN delivered \cup {k} ELSE delivered
              /\ UNCHANGED others
           \/ /\ NothingToSend(k)
              /\ all' = [next EXCEPT !.cleared = @ \cup {k}]
              /\ delivered' = IF Accepted(k, val) THEN delivered \cup {k} ELSE delivered
              /\ UNCHANGED <<server, others>>
           \/ /\ ~NothingToSend(k) /\ Fails
              /\ server' \in before \cup {new}
              /\ all' = next /\ UNCHANGED delivered
    /\ Unseen /\ UNCHANGED <<saves, anySaving>>

MutClearsAll ==   \* mutant: all drafts go, not only those that were sent
    /\ all # Null /\ all.todo = {}
    /\ all' = Null
    /\ UNCHANGED screen
    /\ Settle([k \in AllKeys |-> Null], server, raw,
              [m \in Menus |-> IF \E k \in all.saved : MenuOf(k) = m THEN Clean ELSE status[m]])
    /\ UNCHANGED <<keys, server, saves, anySaving, delivered, raced, edits, starts, others>>

\* The configuration is read again, then the drafts that were sent go, with
\* their dots.  The raw paths are read again without waiting for them.
SaveAllEnd ==
    /\ all # Null /\ all.todo = {}
    /\ all' = Null
    /\ UNCHANGED screen
    /\ Settle([k \in AllKeys |-> IF k \in all.cleared THEN Null ELSE pendingDataBySection[k]],
              server, raw,
              [m \in Menus |-> IF \E k \in all.saved : MenuOf(k) = m THEN Clean ELSE status[m]])
    /\ UNCHANGED <<keys, server, saves, anySaving, delivered, raced, edits, starts, others>>

(***************************************************************************)
(* Others, and the cache                                                   *)
(***************************************************************************)
OtherChange(k) ==
    /\ k \in keys /\ others < MaxOthers /\ edits + others < MaxEdits /\ others' = others + 1
    /\ server' = [server EXCEPT ![k].b = 1 - @]
    /\ raced' = TRUE
    /\ UNCHANGED <<keys, config, raw, pendingDataBySection, status, screen, saves, all,
                   anySaving, delivered, edits, starts>>

\* SWR reads again what is stale: on focus, or after a mutate.
Revalidate ==
    /\ config # server /\ UNCHANGED screen
    /\ Settle(pendingDataBySection, server, raw, status)
    /\ UNCHANGED <<keys, server, saves, all, anySaving, delivered, raced, edits, starts, others>>

RevalidateRaw ==
    /\ raw # server["go2rtc_streams"] /\ UNCHANGED screen
    /\ Settle(pendingDataBySection, config, server["go2rtc_streams"], status)
    /\ UNCHANGED <<keys, server, saves, all, anySaving, delivered, raced, edits, starts, others>>

UserStep ==
    \/ \E p \in Menus \cup {"other"} : setPageToggle(p)
    \/ \E c \in {"cam1", "cam2"} : setSelectedCamera(c)
    \/ handleSelectProfile
    \/ \E f \in Fields, bad \in BOOLEAN : handleChange(f, bad)
    \/ handleReset \/ handleUndoAll \/ handleSave \/ handleResetToGlobal \/ handleSaveAll
AnswerStep(k) == PreClear(k) \/ PutSection(k) \/ RestoreDetectors(k) \/ FinishSave(k) \/ SaveAllPut(k)
Next ==
    \/ UserStep \/ SaveAllEnd \/ Revalidate \/ RevalidateRaw
    \/ \E k \in AllKeys : AnswerStep(k) \/ OtherChange(k)

\* Every request is answered.
Fairness == WF_vars(SaveAllEnd) /\ \A k \in AllKeys : WF_vars(AnswerStep(k))
Spec == Init /\ [][Next]_vars /\ Fairness

(***************************************************************************)
(* Properties                                                              *)
(***************************************************************************)
\* What the user typed goes only when the user discards it, when the server
\* has taken it as it stands, or when it was changed while a save of the
\* section was running (handleSaveAll, handleSave, handleResetToGlobal).
Discards == handleReset \/ handleUndoAll \/ \E f \in Fields, bad \in BOOLEAN : handleChange(f, bad)
Dropped(k) == pendingDataBySection[k] # Null /\ (pendingDataBySection')[k] = Null
EditedMeanwhile(k) ==
    \/ saves[k] # Null /\ (saves[k].edited \/ saves[k].kind = "reset")
    \/ all # Null /\ k \in all.edited
DraftsStep == \A k \in AllKeys : Dropped(k) => Discards \/ k \in delivered \/ EditedMeanwhile(k)
DraftsSurvive == [][DraftsStep]_vars

\* The same without the last case: the comment on keysToClear.
OnlySentIsCleared ==
    [][\A k \in AllKeys : Dropped(k) => Discards \/ k \in delivered]_vars

\* A draft of the global sections that would change something has its dot in the menu, as
\* long as no draft met a save it was not part of, or a change by others.  Those of a
\* camera share one dot, which is also set and taken back when the camera is chosen.
DotIsTruthful ==
    ~raced => \A k \in keys \ CameraKeys :
        HasChanges(pendingDataBySection, config, raw, k) => status[MenuOf(k)].hasChanges

\* Save All is only refused when some draft is invalid, unless a section was
\* edited while a save of it was running, or changed by someone else: a save
\* that ends takes an invalid draft away and leaves its mark in the menu, if
\* the form is not on screen then.
NeverBlocked ==
    ~raced /\ hasPendingValidationErrors =>
        \E k \in Pending : pendingDataBySection[k].bad

\* A Save All that could not store the detectors leaves them as they were.
DetectorsSurvive ==
    [][SaveAllEnd /\ others = 1
        /\ all.drafts["detectors"] # Null /\ "detectors" \notin all.saved
        => server["detectors"] # Default]_vars

\* Every save ends, and with it the lock on Save All.
Saving == all # Null \/ anySaving
SavingEnds == Saving ~> ~Saving
=============================================================================
