----------------------------- MODULE Overrides ------------------------------
(***************************************************************************)
(* Profiles and overrides of the configuration: the page on which profiles *)
(* are made, activated and deleted, and what the forms mark as set by a    *)
(* camera or a profile.  The two share no state.                           *)
(***************************************************************************)
EXTENDS FiniteSets, FiniteSetsExt, Functions, Integers, Naturals, Sequences

CONSTANTS
    Null,
    MaxProfileUser,   \* bound: things the user does, with what else is bounded
    MaxOther,         \* bound: things another client does
    MaxFaults,        \* bound: requests that fail
    MaxOverrideUser   \* bound: fields written or taken away, profiles activated

(***************************************************************************)
(* Profiles of the configuration, as their page adds, renames, activates   *)
(* and deletes them (ProfilesView), and what the profile manager of the    *)
(* server makes of it.  A deletion is put together from the configuration  *)
(* the page has read: the profile, and the overrides of each camera.       *)
(***************************************************************************)
Profiles == {"p", "q"}
ProfileCameras == {"c", "d"}
Titles == {"one", "two"}

VARIABLES
    profiles, overrides, profileActive,   \* the server: titles, <<camera, profile>>, the active profile
    config,                        \* profiles and overrides as read last
    shownActive,                   \* active_profile as read last
    dialog, jobs,
    profileUser, other, faults,
    told,                          \* history: the operation whose success was told last
    crossed                        \* history: which of the known losses happened

profileVars == <<profiles, overrides, profileActive, config, shownActive, dialog, jobs, profileUser, other, faults, told, crossed>>
server == <<profiles, overrides, profileActive>>

Ops == {"add", "rename", "activate", "delete"}
Exist(ps) == {p \in Profiles : ps[p] # Null}

ProfileTypeOK ==
    /\ \A p \in Profiles : profiles[p] \in Titles \cup {Null} /\ config.profiles[p] \in Titles \cup {Null}
    /\ overrides \subseteq ProfileCameras \X Profiles /\ config.overrides \subseteq ProfileCameras \X Profiles
    /\ {profileActive, shownActive} \subseteq Profiles \cup {Null}
    /\ \A j \in jobs : j.op \in Ops /\ j.steps # <<>>
    /\ crossed \subseteq {"others", "failed", "beside"}

ProfileInit ==
    /\ profiles = [p \in Profiles |-> IF p = "p" THEN "one" ELSE Null] /\ overrides = {<<"c", "p">>}
    /\ profileActive \in {Null, "p"} /\ config = [profiles |-> profiles, overrides |-> overrides] /\ shownActive = profileActive
    /\ dialog = Null /\ jobs = {} /\ profileUser = 0 /\ other = 0 /\ faults = 0 /\ told = Null /\ crossed = {}

(***************************************************************************)
(* The page                                                                *)
(***************************************************************************)
ProfileUser == profileUser + other + faults < MaxProfileUser /\ profileUser' = profileUser + 1 /\ UNCHANGED <<other, faults>>
Read == <<config, shownActive>>
Busy(op) == \E j \in jobs : j.op = op
Job(op, of, value, steps) == [op |-> op, of |-> of, value |-> value, drops |-> {}, steps |-> steps]
Begin(j) ==
    /\ jobs' = jobs \cup {j} /\ told' = Null
    /\ crossed' = IF jobs # {} THEN crossed \cup {"beside"} ELSE crossed
    /\ UNCHANGED <<server, Read, dialog>>

\* Dialogs are opened over the list; a dialog that waits may be closed by Escape.
Opens(kind, p) ==
    /\ ProfileUser /\ dialog = Null /\ (kind = "add") = (config.profiles[p] = Null)
    /\ dialog' = [kind |-> kind, of |-> p] /\ UNCHANGED <<server, Read, jobs, told, crossed>>
Escape == dialog # Null /\ dialog' = Null /\ UNCHANGED <<server, Read, jobs, profileUser, other, faults, told, crossed>>

After(first) == first \o <<"readConfig", "readProfiles">>
Submits(kind) == dialog # Null /\ dialog.kind = kind /\ ~Busy(kind) /\ ProfileUser
handleAddSubmit(title) == Submits("add") /\ Begin(Job("add", dialog.of, title, After(<<"set">>)))
handleRename(title) == Submits("rename") /\ Begin(Job("rename", dialog.of, title, After(<<"set">>)))
handleActivateProfile(p) ==
    /\ ProfileUser /\ dialog = Null /\ ~Busy("activate") /\ p # shownActive
    /\ IF p = Null THEN TRUE ELSE config.profiles[p] # Null
    /\ Begin(Job("activate", p, p, <<"activate", "readProfiles">>))

MutProfileOnly(p) == {}   \* mutant: the cameras keep their overrides

\* The overrides the page knows of go with the profile.
Dropped(p) == {o \in config.overrides : o[2] = p}

\* A profile shown as active is deactivated before it is deleted.
handleDeleteProfile ==
    /\ Submits("delete")
    /\ Begin([Job("delete", dialog.of, Null, (IF shownActive = dialog.of THEN <<"deactivate">> ELSE <<>>) \o After(<<"set">>))
              EXCEPT !.drops = Dropped(dialog.of)])

(***************************************************************************)
(* The server                                                              *)
(***************************************************************************)
MutStaysActive(ps) == profileActive   \* mutant: update_config re-applies whatever was active
\* update_config: a profile that was deleted is not active any more.
StillActive(ps) == IF profileActive = Null THEN Null ELSE IF ps[profileActive] = Null THEN Null ELSE profileActive

SetProfiles(ps, os) == profiles' = ps /\ overrides' = os /\ profileActive' = StillActive(ps)
\* activate_profile: a profile that is not defined is only logged, the request succeeds.
ProfileActivate(p) ==
    /\ profileActive' = IF p = Null THEN Null ELSE IF profiles[p] # Null THEN p ELSE profileActive
    /\ UNCHANGED <<profiles, overrides>>
\* What is not there cannot be deleted.
Refused(j) == Head(j.steps) = "set" /\ j.op = "delete" /\ (profiles[j.of] = Null \/ ~(j.drops \subseteq overrides))

Does(j) ==
    CASE Head(j.steps) = "set" ->
           /\ SetProfiles([profiles EXCEPT ![j.of] = j.value], overrides \ j.drops) /\ UNCHANGED Read
      [] Head(j.steps) = "activate" -> ProfileActivate(j.value) /\ UNCHANGED Read
      [] Head(j.steps) = "deactivate" -> ProfileActivate(Null) /\ UNCHANGED Read
      [] Head(j.steps) = "readConfig" ->
           /\ config' = [profiles |-> profiles, overrides |-> overrides] /\ UNCHANGED <<server, shownActive>>
      [] OTHER -> shownActive' = profileActive /\ UNCHANGED <<server, config>>

Step(j) ==
    /\ Len(j.steps) > 1 /\ ~Refused(j) /\ Does(j)
    /\ jobs' = (jobs \ {j}) \cup {[j EXCEPT !.steps = Tail(@)]}
    /\ UNCHANGED <<dialog, profileUser, other, faults, told, crossed>>

\* The end of an operation closes the dialog of its kind, whoever it is open for by then.
Closes(j) == dialog' = IF dialog # Null /\ dialog.kind = j.op THEN Null ELSE dialog

MutTellsOnly(j) == UNCHANGED <<server, Read>>   \* mutant: the profiles are not read again
LastRead(j) == Does(j)

Done(j) ==
    /\ Len(j.steps) = 1 /\ LastRead(j) /\ jobs' = jobs \ {j} /\ Closes(j)
    /\ told' = [op |-> j.op, of |-> j.of, value |-> j.value]
    /\ UNCHANGED <<profileUser, other, faults, crossed>>

\* Any request may fail; what was done before it stays done. Adding keeps its dialog.
Fails(j) ==
    /\ \/ Refused(j) /\ UNCHANGED faults
       \/ ~Refused(j) /\ faults < MaxFaults /\ profileUser + other + faults < MaxProfileUser /\ faults' = faults + 1
    /\ jobs' = jobs \ {j} /\ crossed' = crossed \cup {"failed"} /\ UNCHANGED <<server, Read, profileUser, other, told>>
    /\ IF j.op = "add" THEN UNCHANGED dialog ELSE Closes(j)

\* Another client gives a camera an override, deletes a profile, or activates one.
Other ==
    /\ other < MaxOther /\ profileUser + other + faults < MaxProfileUser /\ other' = other + 1 /\ crossed' = crossed \cup {"others"}
    /\ \E p \in Exist(profiles) :
         \/ <<"d", p>> \notin overrides /\ SetProfiles(profiles, overrides \cup {<<"d", p>>})
         \/ SetProfiles([profiles EXCEPT ![p] = Null], {o \in overrides : o[2] # p})
         \/ profileActive # p /\ ProfileActivate(p)
    /\ UNCHANGED <<Read, dialog, jobs, profileUser, faults, told>>

ProfileNext ==
    \/ \E k \in {"add", "rename", "delete"}, p \in Profiles : Opens(k, p)
    \/ Escape \/ handleDeleteProfile
    \/ \E t \in Titles : handleAddSubmit(t) \/ handleRename(t)
    \/ \E p \in Profiles \cup {Null} : handleActivateProfile(p)
    \/ \E j \in jobs : Step(j) \/ Done(j) \/ Fails(j)
    \/ Other

ProfileSpec == ProfileInit /\ [][ProfileNext]_profileVars

(***************************************************************************)
(* Properties                                                              *)
(***************************************************************************)
\* The profile that is active exists, whoever deleted or activated it in which order
\* (update_config, activate_profile).
ActiveExists == profileActive = Null \/ profileActive \in Exist(profiles)

\* "Camera profiles must reference names defined here": every override has its profile, but
\* for one another client made while the page deletes the profile (handleDeleteProfile).
OverridesHaveProfile == "others" \notin crossed => \A o \in overrides : profiles[o[2]] # Null

\* Once nothing is under way the page shows the server's profiles, overrides and active
\* profile, but for requests that failed and other clients.
ShownIsServers ==
    jobs = {} /\ crossed \cap {"failed", "others"} = {} =>
        config = [profiles |-> profiles, overrides |-> overrides] /\ shownActive = profileActive

\* What was told was done: but for operations beside each other, after a failure, and other clients.
ToldIsDone ==
    told # Null /\ crossed = {} =>
        IF told.op = "activate" THEN profileActive = told.of ELSE profiles[told.of] = told.value

(***************************************************************************)
(* What a camera overrides in one section of the configuration             *)
(* (use-config-override): the mark of the section, the fields listed under *)
(* it, and the summary over all cameras.  A JSON object is a function from *)
(* the paths of its nodes; inner nodes, and empty objects, have value Obj. *)
(***************************************************************************)
Order == <<"a", "b", "c">>          \* the cameras, as the configuration lists them
OverrideCameras == Range(Order)
Sections == {"detect", "motion", "objects", "lpr"}
Obj == "{}"
Values == {"d", "x"}                \* the default, and another
Nothing == [p \in {} |-> "d"]

\* The fields that may be written, and of "objects" those of two labels, of which a camera tracks one by default.
Fields(s) ==
    CASE s = "detect" -> {<<"fps">>, <<"width">>}
      [] s = "motion" -> {<<"threshold">>, <<"mask", "m">>}
      [] s = "lpr" -> {<<"min_area">>, <<"debug">>}
      [] s = "objects" -> {<<"track">>, <<"filters", "person", "min">>, <<"filters", "person", "mask", "m">>, <<"filters", "car", "min">>}
compareFields(s) == IF s = "lpr" THEN {<<"min_area">>} ELSE Null
hiddenFields(s) == IF s = "motion" THEN {<<"mask">>} ELSE IF s = "objects" THEN {<<"filters", "*", "mask">>} ELSE {}
AutoDerived(s) == IF s = "detect" THEN {<<"width">>} ELSE {}

VARIABLES
    section,
    global, cams,    \* what is written of the section: for all cameras, and by each
    profile,         \* what a profile of the first camera writes
    overrideActive,          \* whether it is active
    schema,          \* whether the client has read the schema
    overrideUser

overrideVars == <<section, global, cams, profile, overrideActive, schema, overrideUser>>

IsWriting(f) == DOMAIN f \subseteq Fields(section) /\ Range(f) \subseteq Values
OverrideTypeOK ==
    /\ section \in Sections /\ {overrideActive, schema} \subseteq BOOLEAN
    /\ IsWriting(global) /\ IsWriting(profile) /\ \A c \in OverrideCameras : IsWriting(cams[c])

OverrideInit ==
    /\ section \in Sections /\ global = Nothing /\ cams = [c \in OverrideCameras |-> Nothing] /\ profile = Nothing
    /\ overrideActive = FALSE /\ schema = FALSE /\ overrideUser = 0

(***************************************************************************)
(* The section as the server reports it                                    *)
(***************************************************************************)
Above(p) == {SubSeq(p, 1, n) : n \in 1..(Len(p) - 1)}
Under(p, q) == Len(p) <= Len(q) /\ \A i \in DOMAIN p : p[i] = q[i]
Tree(f) == [p \in DOMAIN f \cup UNION {Above(q) : q \in DOMAIN f} |-> IF p \in DOMAIN f THEN f[p] ELSE Obj]
Over(f, g) == [p \in DOMAIN f \cup DOMAIN g |-> IF p \in DOMAIN f THEN f[p] ELSE g[p]]
At(f, p, v) == IF p \in DOMAIN f THEN f[p] ELSE v
Labels(w, s) == {l \in {"person", "car"} : \E p \in DOMAIN w : Under(<<"filters", l>>, p)}
Tracked(w) == IF At(w, <<"track">>, "d") = "x" THEN {"person", "car"} ELSE {"person"}
Filter(w, l) == Over(w, [p \in {<<"filters", l, "min">>} |-> "d"])

\* A section with its defaults; filters are there for the labels given.
Filled(w, s, labels) ==
    Tree(CASE s = "detect" -> Over(w, [p \in {<<"fps">>} |-> "d"])
           [] s = "motion" -> Over(w, [p \in {<<"threshold">>} |-> "d"])
           [] s = "lpr" -> Over(w, [p \in Fields(s) |-> "d"])
           [] s = "objects" -> Over(w, [p \in {<<"track">>} \cup {<<"filters", l, "min">> : l \in labels} |-> "d"]))

\* Unset sections of the kind of "motion" are not reported.
GlobalValue == IF section = "motion" /\ global = Nothing THEN Null ELSE Filled(global, section, Labels(global, section))
\* A camera has its own settings over the global ones, a size found out of its stream, a filter for what it tracks, and empty masks.
CameraTree(w) ==
    LET labels == Labels(w, section) \cup Tracked(w)
        found == [p \in {<<"enabled_in_config">>} \cup AutoDerived(section) |-> "found"]
        masks == [p \in (IF section = "motion" THEN {<<"mask">>} ELSE IF section = "objects" THEN {<<"filters", l, "mask">> : l \in labels} ELSE {}) |-> Obj]
    IN Over(Filled(w, section, labels), Over(found, masks))
Base(c) == CameraTree(Over(cams[c], global))
Effective(c) == IF c = "a" /\ overrideActive THEN CameraTree(Over(profile, Over(cams[c], global))) ELSE Base(c)
base_config(c) == IF overrideActive THEN Base(c) ELSE Null
getBaseCameraSectionValue(c) == IF base_config(c) # Null THEN base_config(c) ELSE Effective(c)
SchemaDefaults == Filled(Nothing, section, {})

(***************************************************************************)
(* Comparing                                                               *)
(***************************************************************************)
normalizeConfigValue(v) == Restrict(v, {p \in DOMAIN v : \A i \in DOMAIN p : p[i] # "enabled_in_config"})
Leaves(v) == {p \in DOMAIN v : v[p] # Obj}
collapseEmpty(v) == Restrict(v, {p \in DOMAIN v : \E q \in Leaves(v) : Under(p, q)})
pathMatchesHiddenPattern(p, h) == Len(h) <= Len(p) /\ \A i \in DOMAIN h : h[i] \in {"*", p[i]}
IsHidden(p) == \E h \in hiddenFields(section) : pathMatchesHiddenPattern(p, h)
stripHiddenPaths(v) == Restrict(v, {p \in DOMAIN v : ~IsHidden(p)})
stripAutoDerivedMissingFromGlobal(g, v) ==
    Restrict(v, {p \in DOMAIN v : \A f \in AutoDerived(section) : Under(f, p) => f \in DOMAIN g})

getDefaultFilter(l) == IF schema THEN [p \in {<<"filters", l, "min">>} |-> "d"] ELSE Nothing
FiltersOf(v) == {p \in DOMAIN v : Len(p) = 2 /\ p[1] = "filters"}
withDefaultFilters(g, v) ==
    LET missing == {l \in {"person", "car"} : <<"filters", l>> \in FiltersOf(v) \ FiltersOf(g)}
    IN IF section # "objects" \/ missing = {} \/ ~schema THEN g
       ELSE Over(g, Tree(FoldSet(LAMBDA l, f : Over(getDefaultFilter(l), f), Nothing, missing)))

pickFields(v) ==
    IF compareFields(section) = Null THEN v
    ELSE Restrict(v, {p \in DOMAIN v : \E f \in compareFields(section) : Under(f, p) \/ Under(p, f)})
isPathAllowed(p) == compareFields(section) = Null \/ \E f \in compareFields(section) : Under(f, p)

\* Without a global value or a schema: of each field the value most cameras have, the first of those.
CameraValues == [i \in DOMAIN Order |-> normalizeConfigValue(getBaseCameraSectionValue(Order[i]))]
deriveSyntheticGlobalValue(values) ==
    LET paths == {p \in UNION {Leaves(values[i]) : i \in DOMAIN Order} : isPathAllowed(p)}
        V(i, p) == At(values[i], p, Null)
        count(i, p) == Cardinality({j \in DOMAIN Order : V(j, p) = V(i, p)})
        modal(p) == V(CHOOSE i \in DOMAIN Order : \A j \in DOMAIN Order :
                        count(j, p) < count(i, p) \/ (count(j, p) = count(i, p) /\ i <= j), p)
    IN Tree([p \in {q \in paths : modal(q) # Null} |-> modal(p)])
getEffectiveGlobalBaseline ==
    IF GlobalValue # Null THEN normalizeConfigValue(GlobalValue)
    ELSE IF schema THEN normalizeConfigValue(SchemaDefaults) ELSE deriveSyntheticGlobalValue(CameraValues)

(***************************************************************************)
(* The mark, the fields listed, and the summary                            *)
(***************************************************************************)
Unlike(g, v) == pickFields(withDefaultFilters(g, v)) # pickFields(v)
UnlikeBaseline(g, v) == Unlike(g, stripAutoDerivedMissingFromGlobal(g, v))
isOverridden(c) ==
    UnlikeBaseline(stripHiddenPaths(collapseEmpty(getEffectiveGlobalBaseline)),
                   stripHiddenPaths(collapseEmpty(normalizeConfigValue(getBaseCameraSectionValue(c)))))

\* The sections of the menu that get a dot.
useAllCameraOverrides(c) == {s \in {section} : isOverridden(c)}

SameAt(g, v, p) == \A q \in DOMAIN g \cup DOMAIN v : Under(p, q) => q \in DOMAIN g \cap DOMAIN v /\ g[q] = v[q]
InBoth(g, v, p) == p \in DOMAIN g \cap DOMAIN v /\ g[p] = Obj /\ v[p] = Obj
collectFieldDeltas(g, v) ==
    IF compareFields(section) # Null THEN {p \in compareFields(section) : ~SameAt(g, v, p)}
    ELSE {p \in DOMAIN g \cup DOMAIN v : /\ \A q \in Above(p) : InBoth(g, v, q)
                                         /\ ~InBoth(g, v, p) /\ ~SameAt(g, v, p)}

\* What the lists compare: the baseline "g" and of a camera its value "v" without what the size adds.
CollapsedBaseline == collapseEmpty(getEffectiveGlobalBaseline)
CollapsedCamera(g, c) ==
    stripAutoDerivedMissingFromGlobal(g, collapseEmpty(normalizeConfigValue(getBaseCameraSectionValue(c))))
DeltasOf(g, v) == collectFieldDeltas(withDefaultFilters(g, v), v)
CameraDeltas(g, c) == DeltasOf(g, CollapsedCamera(g, c))
useCameraSectionDeltas(c) == {p \in CameraDeltas(CollapsedBaseline, c) : ~IsHidden(p)}

useProfileSectionDeltas ==
    LET b == collapseEmpty(normalizeConfigValue(getBaseCameraSectionValue("a"))) IN
    {p \in DOMAIN profile : isPathAllowed(p) /\ ~IsHidden(p) /\ At(b, p, Null) # profile[p]}

isCrossCameraIgnoredPath(p) == \E i \in DOMAIN p : p[i] = "mask"
OfCamera(g, c) == {p \in CameraDeltas(g, c) : ~isCrossCameraIgnoredPath(p)}
OfProfile(c, listed, effective) ==
    {p \in DOMAIN profile : /\ c = "a" /\ p \notin listed /\ ~isCrossCameraIgnoredPath(p) /\ isPathAllowed(p)
                            /\ At(effective, p, Null) # profile[p]}
\* The badge of the global page: what the page hides is left out.
Badge(g, c, listed) ==
    [camera  |-> {p \in listed : ~IsHidden(p)},
     profile |-> {p \in OfProfile(c, listed, withDefaultFilters(g, CollapsedCamera(g, c))) : ~IsHidden(p)}]
BadgeOver(g, c) == Badge(g, c, OfCamera(g, c))
CameraOverridesBadge(c) == BadgeOver(CollapsedBaseline, c)

(***************************************************************************)
(* What happens                                                            *)
(***************************************************************************)
OverrideUser == overrideUser < MaxOverrideUser /\ overrideUser' = overrideUser + 1 /\ UNCHANGED section
Set(f, p, v) == Over([q \in {p} |-> v], f)
Unset(f, p) == Restrict(f, DOMAIN f \ {p})
Changes(f, p) == ({Set(f, p, v) : v \in Values} \cup {Unset(f, p)}) \ {f}

WriteGlobal(p) ==
    /\ OverrideUser /\ global' \in Changes(global, p)
    /\ UNCHANGED <<cams, profile, overrideActive, schema>>
WriteCamera(c, p) ==
    /\ OverrideUser /\ c # "c" /\ \E g \in Changes(cams[c], p) : cams' = [cams EXCEPT ![c] = g]
    /\ UNCHANGED <<global, profile, overrideActive, schema>>
WriteProfile(p) ==
    /\ OverrideUser /\ profile' \in Changes(profile, p)
    /\ UNCHANGED <<global, cams, overrideActive, schema>>
OverrideActivate == OverrideUser /\ overrideActive' = ~overrideActive /\ UNCHANGED <<global, cams, profile, schema>>
SchemaRead == ~schema /\ schema' = TRUE /\ UNCHANGED <<section, global, cams, profile, overrideActive, overrideUser>>

OverrideNext ==
    \/ OverrideActivate \/ SchemaRead
    \/ \E p \in Fields(section) : WriteGlobal(p) \/ WriteProfile(p) \/ \E c \in OverrideCameras : WriteCamera(c, p)

OverrideSpec == OverrideInit /\ [][OverrideNext]_overrideVars

(***************************************************************************)
(* Properties                                                              *)
(***************************************************************************)
Visible(p) == ~IsHidden(p) /\ isPathAllowed(p)
Inherited(p) == At(global, p, "d")
\* What a camera writes otherwise than it would inherit; a size it would find out itself has no value to inherit.
Differs(c) == {p \in DOMAIN cams[c] : Visible(p) /\ cams[c][p] # Inherited(p) /\ (p \in AutoDerived(section) => p \in DOMAIN global)}

\* A camera that writes nothing is never marked, once the schema was read, whatever the
\* server fills in for it and whatever profile is active (use-config-override.ts:64, :105).
InheritsUnmarked ==
    schema => \A c \in OverrideCameras : cams[c] = Nothing => ~isOverridden(c) /\ useCameraSectionDeltas(c) = {} /\ CameraOverridesBadge(c).camera = {}

\* A section is marked exactly if fields are listed under the mark (the two compare in different order).
MarkedIsListed == \A c \in OverrideCameras : section \in useAllCameraOverrides(c) <=> useCameraSectionDeltas(c) # {}

SameFields(differs, listed) ==
    /\ \A p \in differs : \E q \in listed : Under(q, p)
    /\ \A q \in listed : \E p \in differs : Under(q, p)

\* The fields listed are those in which the camera differs.
ListedDiffer ==
    schema => \A c \in OverrideCameras : SameFields(Differs(c), useCameraSectionDeltas(c))

\* The summary of the global page lists of a camera what the camera's own page lists.
SummaryAgrees == \A c \in OverrideCameras : CameraOverridesBadge(c).camera = useCameraSectionDeltas(c)

\* What only a profile sets otherwise is in the summary.
Surfaces(badge) ==
    \A p \in DOMAIN profile :
        Visible(p) /\ profile[p] # Inherited(p) => \E q \in badge.camera \cup badge.profile : Under(q, p)
ProfileSurfaces == schema => Surfaces(CameraOverridesBadge("a"))
=============================================================================
