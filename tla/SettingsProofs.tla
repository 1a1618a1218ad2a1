---------------------------- MODULE SettingsProofs ---------------------------
(***************************************************************************)
(* What the SettingsPages run checks of the drafts and of the cameras,     *)
(* proved.  What the user has typed into the settings is not lost, for any *)
(* number of edits, saves and changes by others; and a camera cloned,      *)
(* managed or added is what the user is told it is, for any zones, names   *)
(* and numbers of actions, other clients' writes and failures.             *)
(***************************************************************************)
EXTENDS MCSettingsPages, Integers, Sequences, SequenceTheorems, TLAPS

Key == Drafts!AllKeys
Configuration == [Key -> Drafts!Val]

DraftsTypes ==
    /\ keys \subseteq Key
    /\ draftsServer \in Configuration /\ draftsConfig \in Configuration /\ draftsRaw \in Drafts!Val
    /\ pendingDataBySection \in [Key -> Drafts!Draft \cup {Null}]
    /\ saves \in [Key -> Drafts!Save \cup {Null}]
    /\ all \in Drafts!SaveAll \cup {Null}
    /\ all # Null => \A k \in all.todo : all.drafts[k] \in Drafts!Val

NoDraft(k) == pendingDataBySection[k] = Null
\* The draft of a section is what its save sends, as long as the section was not edited meanwhile;
\* once sent it is delivered.
SaveIsOfDraft(k) ==
    saves[k] # Null /\ saves[k].kind = "save" /\ ~saves[k].edited =>
        \/ NoDraft(k)
        \/ IF saves[k].step = "refresh" THEN k \in delivered
           ELSE pendingDataBySection[k].val = saves[k].val
\* So it is with the drafts that Save All sends, those it has sent and those it has still to send.
SaveAllIsOfDraft(k) ==
    all # Null /\ k \notin all.edited =>
        \/ NoDraft(k)
        \/ /\ k \in all.todo => pendingDataBySection[k].val = all.drafts[k]
           /\ k \in all.cleared => k \in delivered
SavesAreOfDrafts == \A k \in Key : SaveIsOfDraft(k) /\ SaveAllIsOfDraft(k)

DraftsInv == DraftsTypes /\ SavesAreOfDrafts

(***************************************************************************)
(* Steps of one kind                                                       *)
(***************************************************************************)
\* What a section is saved with is a section again.
LEMMA MergeType ==
    ASSUME draftsServer \in Configuration, NEW k \in Key, NEW v \in Drafts!Val, NEW b \in Drafts!Val
    PROVE  /\ Drafts!Merge(k, v, b) \in Configuration
           /\ Drafts!Default \in Drafts!Val /\ [draftsServer EXCEPT ![k] = Drafts!Default] \in Configuration
<1>1. Drafts!Default \in Drafts!Val
  BY DEF Drafts!Default, Drafts!Val
<1>2. [draftsServer EXCEPT ![k] = Drafts!Default] \in Configuration
  BY <1>1 DEF Configuration
<1>. DEFINE m == [f \in Drafts!Fields |-> IF f \in Drafts!Sent(k, v, b) THEN v[f] ELSE draftsServer[k][f]]
<1>3. draftsServer[k] \in Drafts!Val
  BY DEF Configuration
<1>4. m \in Drafts!Val
  BY <1>3 DEF Drafts!Val
<1>5. Drafts!Merge(k, v, b) = [draftsServer EXCEPT ![k] = m]
  BY DEF Drafts!Merge
<1>. HIDE DEF m
<1>6. Drafts!Merge(k, v, b) \in Configuration
  BY <1>4, <1>5 DEF Configuration
<1>. QED  BY <1>1, <1>2, <1>6

LEMMA FormType ==
    ASSUME DraftsTypes, NEW k \in Key PROVE Drafts!FormData(draftsConfig, draftsRaw, k) \in Drafts!Val
  BY DEF DraftsTypes, Configuration, Drafts!FormData

\* The configuration changes, on the server or in the client's copies.
LEMMA ConfigStep ==
    ASSUME DraftsInv, UNCHANGED <<keys, pendingDataBySection, saves, all, delivered>>,
           draftsServer' \in Configuration, draftsConfig' \in Configuration, draftsRaw' \in Drafts!Val
    PROVE  DraftsInv'
<1>1. DraftsTypes'
  BY DEF DraftsInv, DraftsTypes
<1>2. SavesAreOfDrafts'
  BY DEF DraftsInv, SavesAreOfDrafts, SaveIsOfDraft, SaveAllIsOfDraft, NoDraft
<1>. QED  BY <1>1, <1>2 DEF DraftsInv

\* A section is edited: its saves are not of its draft any more.
LEMMA EditStep ==
    ASSUME DraftsInv, NEW k \in Key, NEW d \in Drafts!Draft \cup {Null}, Drafts!Edited(k),
           pendingDataBySection' = [pendingDataBySection EXCEPT ![k] = d],
           UNCHANGED <<keys, draftsServer, draftsConfig, draftsRaw>>
    PROVE  DraftsInv'
<1>1. DraftsTypes /\ SavesAreOfDrafts
  BY DEF DraftsInv
<1>2. /\ saves' = IF saves[k] = Null THEN saves ELSE [saves EXCEPT ![k].edited = TRUE]
      /\ all' = IF all = Null THEN Null ELSE [all EXCEPT !.edited = @ \cup {k}]
      /\ delivered' = delivered \ {k}
  BY DEF Drafts!Edited
<1>3. /\ saves' \in [Key -> Drafts!Save \cup {Null}]
      /\ \A x \in Key \ {k} : saves'[x] = saves[x]
      /\ saves'[k] # Null => saves'[k].edited
  <2>1. CASE saves[k] = Null
    BY <1>1, <1>2, <2>1 DEF DraftsTypes
  <2>2. CASE saves[k] # Null
    <3>1. saves[k] \in Drafts!Save
      BY <1>1, <2>2 DEF DraftsTypes
    <3>2. [saves[k] EXCEPT !.edited = TRUE] \in Drafts!Save /\ [saves[k] EXCEPT !.edited = TRUE].edited
      BY <3>1 DEF Drafts!Save
    <3>3. saves' = [saves EXCEPT ![k] = [saves[k] EXCEPT !.edited = TRUE]]
      BY <1>2, <2>2
    <3>. QED  BY <1>1, <3>2, <3>3 DEF DraftsTypes
  <2>. QED  BY <2>1, <2>2
<1>4. /\ all' \in Drafts!SaveAll \cup {Null} /\ (all' # Null => all # Null)
      /\ all' # Null => /\ all'.edited = all.edited \cup {k} /\ all'.todo = all.todo
                        /\ all'.cleared = all.cleared /\ all'.drafts = all.drafts
  <2>1. CASE all = Null
    BY <1>2, <2>1
  <2>2. CASE all # Null
    <3>1. all \in Drafts!SaveAll
      BY <1>1, <2>2 DEF DraftsTypes
    <3>2. all' = [all EXCEPT !.edited = all.edited \cup {k}]
      BY <1>2, <2>2
    <3>. QED  BY <2>2, <3>1, <3>2 DEF Drafts!SaveAll, Key
  <2>. QED  BY <2>1, <2>2
<1>5. DraftsTypes'
  BY <1>1, <1>3, <1>4 DEF DraftsTypes
<1>6. \A x \in Key \ {k} : pendingDataBySection'[x] = pendingDataBySection[x]
  BY <1>1 DEF DraftsTypes
<1>7. ASSUME NEW x \in Key PROVE SaveIsOfDraft(x)' /\ SaveAllIsOfDraft(x)'
  <2>1. CASE x = k
    BY <1>3, <1>4, <2>1 DEF SaveIsOfDraft, SaveAllIsOfDraft
  <2>2. CASE x # k
    <3>1. SaveIsOfDraft(x) /\ SaveAllIsOfDraft(x)
      BY <1>1 DEF SavesAreOfDrafts
    <3>2. saves'[x] = saves[x] /\ pendingDataBySection'[x] = pendingDataBySection[x]
          /\ (x \in delivered' <=> x \in delivered)
      BY <1>2, <1>3, <1>6, <2>2
    <3>3. SaveIsOfDraft(x)'
      BY <3>1, <3>2 DEF SaveIsOfDraft, NoDraft
    <3>4. SaveAllIsOfDraft(x)'
      BY <1>4, <2>2, <3>1, <3>2 DEF SaveAllIsOfDraft, NoDraft
    <3>. QED  BY <3>3, <3>4
  <2>. QED  BY <2>1, <2>2
<1>. QED  BY <1>5, <1>7 DEF DraftsInv, SavesAreOfDrafts

\* No draft is new or changed: drafts may go, and saves may come or go on.
LEMMA LessStep ==
    ASSUME SavesAreOfDrafts, DraftsTypes',
           \A x \in Key : /\ NoDraft(x)' \/ UNCHANGED pendingDataBySection[x]
                          /\ x \in delivered => x \in delivered' \/ NoDraft(x)'
                          /\ UNCHANGED saves[x] \/ SaveIsOfDraft(x)'
                          /\ UNCHANGED all \/ SaveAllIsOfDraft(x)'
    PROVE  DraftsInv'
<1>1. ASSUME NEW x \in Key PROVE SaveIsOfDraft(x)' /\ SaveAllIsOfDraft(x)'
  <2>1. CASE NoDraft(x)'
    BY <2>1 DEF SaveIsOfDraft, SaveAllIsOfDraft
  <2>2. CASE ~NoDraft(x)'
    <3>1. /\ UNCHANGED pendingDataBySection[x]
          /\ x \in delivered => x \in delivered'
          /\ SaveIsOfDraft(x) /\ SaveAllIsOfDraft(x)
      BY <2>2 DEF SavesAreOfDrafts
    <3>2. SaveIsOfDraft(x)'
      BY <3>1 DEF SaveIsOfDraft, NoDraft
    <3>3. SaveAllIsOfDraft(x)'
      BY <3>1 DEF SaveAllIsOfDraft, NoDraft
    <3>. QED  BY <3>2, <3>3
  <2>. QED  BY <2>1, <2>2
<1>. QED  BY <1>1 DEF DraftsInv, SavesAreOfDrafts

(***************************************************************************)
(* What the user does                                                      *)
(***************************************************************************)
LEMMA ShownStep ==
    ASSUME DraftsInv,
           \/ \E p \in Drafts!Menus \cup {"other"} : Drafts!setPageToggle(p)
           \/ \E c \in {"cam1", "cam2"} : Drafts!setSelectedCamera(c)
           \/ Drafts!handleSelectProfile
    PROVE  DraftsInv'
<1>1. DraftsTypes /\ SavesAreOfDrafts
  BY DEF DraftsInv
<1>2. CASE \E p \in Drafts!Menus \cup {"other"} : Drafts!setPageToggle(p)
  <2>1. /\ saves' = Drafts!Leave
        /\ UNCHANGED <<keys, draftsServer, draftsConfig, draftsRaw, pendingDataBySection, all, delivered>>
    BY <1>2 DEF Drafts!setPageToggle, Drafts!Settle
  <2>2. ASSUME NEW x \in Key
        PROVE  /\ saves'[x] \in Drafts!Save \cup {Null}
               /\ saves'[x] # Null => /\ saves[x] # Null /\ saves'[x].kind = saves[x].kind
                                      /\ saves'[x].val = saves[x].val /\ saves'[x].step = saves[x].step
                                      /\ saves'[x].edited = saves[x].edited
    <3>1. saves'[x] = IF saves[x] = Null THEN Null ELSE [saves[x] EXCEPT !.own = FALSE]
      BY <2>1 DEF Drafts!Leave, Key
    <3>2. CASE saves[x] = Null
      BY <3>1, <3>2
    <3>3. CASE saves[x] # Null
      <4>1. saves[x] \in Drafts!Save
        BY <1>1, <3>3 DEF DraftsTypes
      <4>. QED  BY <3>1, <3>3, <4>1 DEF Drafts!Save
    <3>. QED  BY <3>2, <3>3
  <2>3. DraftsTypes'
    <3>1. saves' = [x \in Key |-> saves'[x]]
      BY <2>1 DEF Drafts!Leave, Key
    <3>2. saves' \in [Key -> Drafts!Save \cup {Null}]
      BY <2>2, <3>1
    <3>. QED  BY <1>1, <2>1, <3>2 DEF DraftsTypes
  <2>4. ASSUME NEW x \in Key PROVE SaveIsOfDraft(x)'
    <3>1. SaveIsOfDraft(x)
      BY <1>1 DEF SavesAreOfDrafts
    <3>. QED  BY <2>1, <2>2, <3>1 DEF SaveIsOfDraft, NoDraft
  <2>. QED  BY <1>1, <2>1, <2>3, <2>4, LessStep
<1>3. CASE (\E c \in {"cam1", "cam2"} : Drafts!setSelectedCamera(c)) \/ Drafts!handleSelectProfile
  <2>1. UNCHANGED <<keys, draftsServer, draftsConfig, draftsRaw, pendingDataBySection, saves, all,
                    delivered>>
    BY <1>3 DEF Drafts!setSelectedCamera, Drafts!handleSelectProfile, Drafts!Settle
  <2>. QED  BY <1>1, <2>1, ConfigStep DEF DraftsTypes
<1>. QED  BY <1>2, <1>3

LEMMA ChangeStep ==
    ASSUME DraftsInv, NEW f \in Drafts!Fields, NEW bad \in BOOLEAN, Drafts!handleChange(f, bad)
    PROVE  DraftsInv'
<1>. DEFINE k == Drafts!Mounted
            was == Drafts!FormData(draftsConfig, draftsRaw, k)
            cur == IF pendingDataBySection[k] = Null THEN was ELSE pendingDataBySection[k].val
            new == [cur EXCEPT ![f] = 1 - @]
            d == IF new = was THEN Null ELSE [val |-> new, bad |-> bad]
<1>1. DraftsTypes
  BY DEF DraftsInv
<1>2. k \in Key
  BY <1>1 DEF Drafts!handleChange, DraftsTypes
<1>3. /\ Drafts!Edited(k)
      /\ pendingDataBySection' = [pendingDataBySection EXCEPT ![k] = d]
      /\ UNCHANGED <<keys, draftsServer, draftsConfig, draftsRaw>>
  BY DEF Drafts!handleChange, Drafts!Settle
<1>4. cur \in Drafts!Val
  <2>1. CASE pendingDataBySection[k] = Null
    BY <1>1, <1>2, <2>1, FormType
  <2>2. CASE pendingDataBySection[k] # Null
    BY <1>1, <1>2, <2>2 DEF DraftsTypes, Drafts!Draft
  <2>. QED  BY <2>1, <2>2
<1>5. ASSUME NEW v \in Drafts!Val PROVE [v EXCEPT ![f] = 1 - @] \in Drafts!Val
  BY DEF Drafts!Val
<1>6. new \in Drafts!Val
  BY <1>4, <1>5
<1>7. d \in Drafts!Draft \cup {Null}
  BY <1>6 DEF Drafts!Draft
<1>. HIDE DEF k, d
<1>. QED  BY <1>2, <1>3, <1>7, EditStep

LEMMA UndoStep ==
    ASSUME DraftsInv, Drafts!handleReset PROVE DraftsInv'
<1>. DEFINE k == Drafts!Mounted
<1>1. k \in Key
  BY DEF DraftsInv, Drafts!handleReset, DraftsTypes
<1>2. /\ Drafts!Edited(k)
      /\ pendingDataBySection' = [pendingDataBySection EXCEPT ![k] = Null]
      /\ UNCHANGED <<keys, draftsServer, draftsConfig, draftsRaw>>
  BY DEF Drafts!handleReset, Drafts!Settle
<1>. HIDE DEF k
<1>. QED  BY <1>1, <1>2, EditStep

LEMMA UndoAllStep ==
    ASSUME DraftsInv, Drafts!handleUndoAll PROVE DraftsInv'
<1>1. /\ pendingDataBySection' = [k \in Key |-> Null]
      /\ UNCHANGED <<keys, draftsServer, draftsConfig, draftsRaw, saves, all>>
  BY DEF Drafts!handleUndoAll, Drafts!Settle, Key
<1>2. DraftsTypes'
  BY <1>1 DEF DraftsInv, DraftsTypes
<1>3. \A x \in Key : NoDraft(x)'
  BY <1>1 DEF NoDraft
<1>. QED  BY <1>1, <1>2, <1>3, LessStep DEF DraftsInv

\* A save starts: of the draft as it is, or a reset.
LEMMA StartStep ==
    ASSUME DraftsInv, NEW k \in Key, NEW s \in Drafts!Save, Drafts!StartSave(k, s),
           s.step # "refresh", s.kind = "save" => pendingDataBySection[k].val = s.val
    PROVE  DraftsInv'
<1>1. DraftsTypes /\ SavesAreOfDrafts
  BY DEF DraftsInv
<1>2. /\ saves' = [saves EXCEPT ![k] = s]
      /\ UNCHANGED <<keys, draftsServer, draftsConfig, draftsRaw, pendingDataBySection, all, delivered>>
  BY DEF Drafts!StartSave
<1>3. DraftsTypes'
  BY <1>1, <1>2 DEF DraftsTypes
<1>4. ASSUME NEW x \in Key PROVE UNCHANGED saves[x] \/ SaveIsOfDraft(x)'
  <2>1. CASE x # k
    BY <1>1, <1>2, <2>1 DEF DraftsTypes
  <2>2. CASE x = k
    <3>1. saves'[x] = s
      BY <1>1, <1>2, <2>2 DEF DraftsTypes
    <3>. QED  BY <1>2, <2>2, <3>1 DEF SaveIsOfDraft
  <2>. QED  BY <2>1, <2>2
<1>. QED  BY <1>1, <1>2, <1>3, <1>4, LessStep

LEMMA SaveStarts ==
    ASSUME DraftsInv, Drafts!handleSave \/ Drafts!handleResetToGlobal PROVE DraftsInv'
<1>1. DraftsTypes
  BY DEF DraftsInv
<1>. DEFINE k == Drafts!Mounted
<1>2. k \in keys /\ k \in Key
  BY <1>1 DEF Drafts!handleSave, Drafts!handleResetToGlobal, Drafts!OnScreen, DraftsTypes
<1>3. CASE Drafts!handleSave
  <2>. DEFINE val == pendingDataBySection[k].val
              base == Drafts!FormData(draftsConfig, draftsRaw, k)
              step == IF Drafts!NeedsClear(k, val, base) THEN "clear" ELSE "put"
              s == [kind |-> "save", val |-> val, base |-> base, own |-> TRUE, edited |-> FALSE,
                    step |-> step]
  <2>1. Drafts!StartSave(k, s)
    BY <1>3 DEF Drafts!handleSave
  <2>2. pendingDataBySection[k] # Null
    BY <1>3 DEF Drafts!handleSave, Drafts!HasChanges
  <2>3. val \in Drafts!Val /\ base \in Drafts!Val
    BY <1>1, <1>2, <2>2, FormType DEF DraftsTypes, Drafts!Draft
  <2>4. step \in {"clear", "put"}
    OBVIOUS
  <2>. HIDE DEF k, val, base, step
  <2>5. s \in Drafts!Save
    BY <2>3, <2>4 DEF Drafts!Save
  <2>6. s.step # "refresh" /\ s.val = pendingDataBySection[k].val
    BY <2>4 DEF val
  <2>. HIDE DEF s
  <2>. QED  BY <1>2, <2>1, <2>5, <2>6, StartStep
<1>4. CASE Drafts!handleResetToGlobal
  <2>. DEFINE s == [kind |-> "reset", val |-> Drafts!Default, base |-> draftsConfig[k], own |-> FALSE,
                    edited |-> FALSE, step |-> "put"]
  <2>1. Drafts!StartSave(k, s)
    BY <1>4 DEF Drafts!handleResetToGlobal
  <2>2. Drafts!Default \in Drafts!Val /\ draftsConfig[k] \in Drafts!Val
    BY <1>1, <1>2 DEF DraftsTypes, Configuration, Drafts!Default, Drafts!Val
  <2>. HIDE DEF k
  <2>3. s \in Drafts!Save /\ s.step # "refresh" /\ s.kind # "save"
    BY <2>2 DEF Drafts!Save
  <2>. HIDE DEF s
  <2>. QED  BY <1>2, <2>1, <2>3, StartStep
<1>. QED  BY <1>3, <1>4

LEMMA SaveAllStarts ==
    ASSUME DraftsInv, Drafts!handleSaveAll PROVE DraftsInv'
<1>1. DraftsTypes /\ SavesAreOfDrafts
  BY DEF DraftsInv
<1>. DEFINE P == Drafts!Pending
            drafts == [k \in Key |-> IF k \in P THEN pendingDataBySection[k].val ELSE Null]
            new == [drafts |-> drafts, base |-> draftsConfig, todo |-> P, cleared |-> {},
                    saved |-> {}, edited |-> {}]
<1>2. /\ all' = new
      /\ UNCHANGED <<keys, draftsServer, draftsConfig, draftsRaw, pendingDataBySection, saves, delivered>>
  BY DEF Drafts!handleSaveAll, Key
<1>3. P \subseteq Key /\ \A k \in P : pendingDataBySection[k] \in Drafts!Draft
  BY <1>1 DEF DraftsTypes, Drafts!Pending
<1>4. \A k \in P : drafts[k] = pendingDataBySection[k].val /\ drafts[k] \in Drafts!Val
  BY <1>3 DEF Drafts!Draft
<1>5. drafts \in [Key -> Drafts!Val \cup {Null}]
  BY <1>3 DEF Drafts!Draft
<1>6. draftsConfig \in [Key -> Drafts!Val]
  BY <1>1 DEF DraftsTypes, Configuration
<1>. HIDE DEF drafts, P
<1>7. new \in Drafts!SaveAll
  BY <1>3, <1>5, <1>6 DEF Drafts!SaveAll, Key
<1>8. DraftsTypes'
  BY <1>1, <1>2, <1>4, <1>7 DEF DraftsTypes
<1>9. \A x \in Key : SaveAllIsOfDraft(x)'
  BY <1>2, <1>4 DEF SaveAllIsOfDraft
<1>. QED  BY <1>1, <1>2, <1>8, <1>9, LessStep

(***************************************************************************)
(* What the server answers                                                 *)
(***************************************************************************)
\* A running save goes to its next step, or ends.
LEMMA GoesOn ==
    ASSUME DraftsTypes, NEW k \in Key, saves[k] # Null,
           NEW step \in {"clear", "put", "restore", "refresh"},
           saves' = [saves EXCEPT ![k].step = step] \/ saves' = [saves EXCEPT ![k] = Null]
    PROVE  /\ saves[k] \in Drafts!Save
           /\ saves' \in [Key -> Drafts!Save \cup {Null}]
           /\ \A x \in Key \ {k} : UNCHANGED saves[x]
           /\ \/ saves'[k] = Null
              \/ /\ saves'[k].kind = saves[k].kind /\ saves'[k].val = saves[k].val
                 /\ saves'[k].edited = saves[k].edited /\ saves'[k].step = step
<1>1. saves[k] \in Drafts!Save
  BY DEF DraftsTypes
<1>2. CASE saves' = [saves EXCEPT ![k].step = step]
  <2>. DEFINE s == [saves[k] EXCEPT !.step = step]
  <2>1. s \in Drafts!Save /\ s.kind = saves[k].kind /\ s.val = saves[k].val
        /\ s.edited = saves[k].edited /\ s.step = step
    BY <1>1 DEF Drafts!Save
  <2>2. saves' = [saves EXCEPT ![k] = s]
    BY <1>2
  <2>. HIDE DEF s
  <2>. QED  BY <1>1, <2>1, <2>2 DEF DraftsTypes
<1>3. CASE saves' = [saves EXCEPT ![k] = Null]
  BY <1>1, <1>3 DEF DraftsTypes
<1>. QED  BY <1>2, <1>3

LEMMA PreClearStep ==
    ASSUME DraftsInv, NEW k \in Key, Drafts!PreClear(k) PROVE DraftsInv'
<1>1. DraftsTypes /\ SavesAreOfDrafts
  BY DEF DraftsInv
<1>2. /\ saves[k] # Null /\ saves[k].step = "clear"
      /\ saves' = [saves EXCEPT ![k].step = "put"]
      /\ draftsServer' \in {draftsServer, [draftsServer EXCEPT ![k] = Drafts!Default]}
      /\ UNCHANGED <<keys, draftsConfig, draftsRaw, pendingDataBySection, all, delivered>>
  BY DEF Drafts!PreClear, Drafts!SaveStep, Drafts!Unseen
<1>3. /\ saves' \in [Key -> Drafts!Save \cup {Null}]
      /\ \A x \in Key \ {k} : UNCHANGED saves[x]
      /\ \/ saves'[k] = Null
         \/ /\ saves'[k].kind = saves[k].kind /\ saves'[k].val = saves[k].val
            /\ saves'[k].edited = saves[k].edited /\ saves'[k].step = "put"
  BY <1>1, <1>2, GoesOn
<1>4. draftsServer' \in Configuration
  BY <1>1, <1>2 DEF DraftsTypes, Configuration, Drafts!Default, Drafts!Val
<1>5. DraftsTypes'
  BY <1>1, <1>2, <1>3, <1>4 DEF DraftsTypes
<1>6. SaveIsOfDraft(k)'
  <2>1. SaveIsOfDraft(k)
    BY <1>1 DEF SavesAreOfDrafts
  <2>. QED  BY <1>2, <1>3, <2>1 DEF SaveIsOfDraft, NoDraft
<1>. QED  BY <1>1, <1>2, <1>3, <1>5, <1>6, LessStep

LEMMA PutStep ==
    ASSUME DraftsInv, NEW k \in Key, Drafts!PutSection(k) PROVE DraftsInv'
<1>1. DraftsTypes /\ SavesAreOfDrafts
  BY DEF DraftsInv
<1>. DEFINE s == saves[k]
            new == IF s.kind = "reset" THEN [draftsServer EXCEPT ![k] = Drafts!Default]
                   ELSE Drafts!Merge(k, s.val, s.base)
<1>2. /\ s # Null /\ s.step = "put"
      /\ UNCHANGED <<keys, draftsConfig, draftsRaw, pendingDataBySection, all>>
      /\ draftsServer' \in {draftsServer, new}
  BY DEF Drafts!PutSection, Drafts!Unseen
<1>3. s \in Drafts!Save /\ s.val \in Drafts!Val /\ s.base \in Drafts!Val
  BY <1>1, <1>2 DEF DraftsTypes, Drafts!Save
<1>4. draftsServer' \in Configuration
  BY <1>1, <1>2, <1>3, MergeType DEF DraftsTypes
<1>5. SaveIsOfDraft(k)
  BY <1>1 DEF SavesAreOfDrafts
<1>6. CASE /\ saves' = [saves EXCEPT ![k].step = "refresh"]
           /\ delivered' = IF Drafts!Accepted(k, s.val) THEN delivered \cup {k} ELSE delivered
  <2>1. /\ saves' \in [Key -> Drafts!Save \cup {Null}]
        /\ \A x \in Key \ {k} : UNCHANGED saves[x]
        /\ \/ saves'[k] = Null
           \/ /\ saves'[k].kind = s.kind /\ saves'[k].val = s.val
              /\ saves'[k].edited = s.edited /\ saves'[k].step = "refresh"
    BY <1>1, <1>2, <1>6, GoesOn
  <2>2. DraftsTypes'
    BY <1>1, <1>2, <1>4, <2>1 DEF DraftsTypes
  <2>3. SaveIsOfDraft(k)'
    BY <1>2, <1>5, <1>6, <2>1 DEF SaveIsOfDraft, NoDraft, Drafts!Accepted
  <2>. QED  BY <1>1, <1>2, <1>6, <2>1, <2>2, <2>3, LessStep
<1>7. CASE /\ saves' = [saves EXCEPT ![k].step = "restore"] \/ saves' = [saves EXCEPT ![k] = Null]
           /\ delivered' = delivered
  <2>1. /\ saves' \in [Key -> Drafts!Save \cup {Null}]
        /\ \A x \in Key \ {k} : UNCHANGED saves[x]
        /\ \/ saves'[k] = Null
           \/ /\ saves'[k].kind = s.kind /\ saves'[k].val = s.val
              /\ saves'[k].edited = s.edited /\ saves'[k].step = "restore"
    BY <1>1, <1>2, <1>7, GoesOn
  <2>2. DraftsTypes'
    BY <1>1, <1>2, <1>4, <2>1 DEF DraftsTypes
  <2>3. SaveIsOfDraft(k)'
    BY <1>2, <1>5, <1>7, <2>1 DEF SaveIsOfDraft, NoDraft
  <2>. QED  BY <1>1, <1>2, <1>7, <2>1, <2>2, <2>3, LessStep
<1>8. \/ /\ saves' = [saves EXCEPT ![k].step = "refresh"]
         /\ delivered' = IF Drafts!Accepted(k, s.val) THEN delivered \cup {k} ELSE delivered
      \/ /\ saves' = [saves EXCEPT ![k].step = "restore"] \/ saves' = [saves EXCEPT ![k] = Null]
         /\ delivered' = delivered
  BY DEF Drafts!PutSection, Drafts!SaveStep
<1>. QED  BY <1>6, <1>7, <1>8

\* A save ends; its draft goes or stays.
LEMMA EndStep ==
    ASSUME DraftsInv, NEW k \in Key, saves[k] # Null, saves' = [saves EXCEPT ![k] = Null],
           draftsServer' \in Configuration, draftsConfig' \in Configuration, draftsRaw' \in Drafts!Val,
           UNCHANGED <<keys, all, delivered>>,
           \/ UNCHANGED pendingDataBySection
           \/ pendingDataBySection' = [pendingDataBySection EXCEPT ![k] = Null]
    PROVE  DraftsInv'
<1>1. DraftsTypes /\ SavesAreOfDrafts
  BY DEF DraftsInv
<1>2. DraftsTypes'
  BY <1>1 DEF DraftsTypes
<1>3. ASSUME NEW x \in Key
      PROVE  /\ NoDraft(x)' \/ UNCHANGED pendingDataBySection[x]
             /\ UNCHANGED saves[x] \/ SaveIsOfDraft(x)'
  <2>1. saves'[x] = saves[x] \/ saves'[x] = Null
    BY <1>1 DEF DraftsTypes
  <2>2. pendingDataBySection'[x] = pendingDataBySection[x] \/ pendingDataBySection'[x] = Null
    BY <1>1 DEF DraftsTypes
  <2>. QED  BY <2>1, <2>2 DEF SaveIsOfDraft, NoDraft
<1>. QED  BY <1>1, <1>2, <1>3, LessStep

LEMMA SaveEnds ==
    ASSUME DraftsInv, NEW k \in Key, Drafts!RestoreDetectors(k) \/ Drafts!FinishSave(k)
    PROVE  DraftsInv'
<1>1. DraftsTypes /\ draftsServer \in Configuration
  BY DEF DraftsInv, DraftsTypes
<1>2. CASE Drafts!RestoreDetectors(k)
  <2>1. /\ saves[k] # Null /\ saves' = [saves EXCEPT ![k] = Null]
        /\ draftsServer' \in {draftsServer, Drafts!Merge(k, saves[k].base, saves[k].base)}
        /\ UNCHANGED <<keys, all, delivered, pendingDataBySection, draftsRaw>>
        /\ draftsConfig' = draftsServer'
    BY <1>2 DEF Drafts!RestoreDetectors, Drafts!Settle
  <2>2. saves[k].base \in Drafts!Val
    BY <1>1, <2>1 DEF DraftsTypes, Drafts!Save
  <2>3. draftsServer' \in Configuration /\ draftsRaw' \in Drafts!Val
    BY <1>1, <2>1, <2>2, MergeType DEF DraftsTypes
  <2>. QED  BY <2>1, <2>3, EndStep
<1>3. CASE Drafts!FinishSave(k)
  <2>1. /\ saves[k] # Null /\ saves' = [saves EXCEPT ![k] = Null]
        /\ pendingDataBySection' = [pendingDataBySection EXCEPT ![k] = Null]
        /\ draftsConfig' = draftsServer /\ draftsRaw' \in {draftsServer[k], draftsRaw}
        /\ UNCHANGED <<keys, all, delivered, draftsServer>>
    BY <1>3 DEF Drafts!FinishSave, Drafts!Settle
  <2>2. draftsRaw' \in Drafts!Val
    BY <1>1, <2>1 DEF DraftsTypes, Configuration
  <2>. QED  BY <1>1, <2>1, <2>2, EndStep
<1>. QED  BY <1>2, <1>3

\* Save All has sent a section, or failed to.
LEMMA SaveAllGoesOn ==
    ASSUME DraftsInv, NEW k \in Key, Drafts!SaveAllPut(k) PROVE DraftsInv'
<1>1. DraftsTypes /\ SavesAreOfDrafts
  BY DEF DraftsInv
<1>. DEFINE val == all.drafts[k]
            base == all.base[k]
            new == Drafts!Merge(k, val, base)
            before == IF Drafts!NeedsClear(k, val, base)
                      THEN {draftsServer, [draftsServer EXCEPT ![k] = Drafts!Default]} ELSE {draftsServer}
<1>2. /\ all # Null /\ k \in all.todo
      /\ UNCHANGED <<keys, draftsConfig, draftsRaw, pendingDataBySection, saves>>
      /\ draftsServer' \in before \cup {new}
  BY DEF Drafts!SaveAllPut, Drafts!Unseen
<1>3. all \in Drafts!SaveAll /\ val \in Drafts!Val /\ base \in Drafts!Val
  BY <1>1, <1>2 DEF DraftsTypes, Drafts!SaveAll, Key
<1>4. draftsServer' \in Configuration
  BY <1>1, <1>2, <1>3, MergeType DEF DraftsTypes
<1>5. /\ all' \in Drafts!SaveAll /\ all'.drafts = all.drafts /\ all'.edited = all.edited
      /\ all'.todo = all.todo \ {k}
      /\ \/ all'.cleared = all.cleared /\ delivered' = delivered
         \/ /\ all'.cleared = all.cleared \cup {k}
            /\ delivered' = IF Drafts!Accepted(k, val) THEN delivered \cup {k} ELSE delivered
  <2>. DEFINE next == [all EXCEPT !.todo = all.todo \ {k}]
  <2>1. next \in Drafts!SaveAll /\ next.drafts = all.drafts /\ next.edited = all.edited
        /\ next.todo = all.todo \ {k} /\ next.cleared = all.cleared /\ next.saved = all.saved
    BY <1>3 DEF Drafts!SaveAll
  <2>2. \/ /\ all' = [next EXCEPT !.cleared = next.cleared \cup {k}, !.saved = next.saved \cup {k}]
           /\ delivered' = IF Drafts!Accepted(k, val) THEN delivered \cup {k} ELSE delivered
        \/ /\ all' = [next EXCEPT !.cleared = next.cleared \cup {k}]
           /\ delivered' = IF Drafts!Accepted(k, val) THEN delivered \cup {k} ELSE delivered
        \/ all' = next /\ delivered' = delivered
    BY DEF Drafts!SaveAllPut
  <2>. HIDE DEF next
  <2>3. [next EXCEPT !.cleared = next.cleared \cup {k}, !.saved = next.saved \cup {k}] \in Drafts!SaveAll
        /\ [next EXCEPT !.cleared = next.cleared \cup {k}] \in Drafts!SaveAll
    BY <2>1 DEF Drafts!SaveAll, Key
  <2>4. all' \in Drafts!SaveAll
    BY <2>1, <2>2, <2>3
  <2>5. all'.drafts = next.drafts /\ all'.edited = next.edited /\ all'.todo = next.todo
        /\ \/ all'.cleared = next.cleared /\ delivered' = delivered
           \/ /\ all'.cleared = next.cleared \cup {k}
              /\ delivered' = IF Drafts!Accepted(k, val) THEN delivered \cup {k} ELSE delivered
    BY <2>1, <2>2 DEF Drafts!SaveAll
  <2>. QED  BY <2>1, <2>4, <2>5
<1>6. DraftsTypes'
  BY <1>1, <1>2, <1>4, <1>5 DEF DraftsTypes
<1>7. ASSUME NEW x \in Key PROVE SaveAllIsOfDraft(x)'
  <2>1. SaveAllIsOfDraft(x)
    BY <1>1 DEF SavesAreOfDrafts
  <2>2. CASE x # k
    BY <1>2, <1>5, <2>1, <2>2 DEF SaveAllIsOfDraft, NoDraft
  <2>3. CASE x = k
    BY <1>2, <1>5, <2>1, <2>3 DEF SaveAllIsOfDraft, NoDraft, Drafts!Accepted
  <2>. QED  BY <2>2, <2>3
<1>. QED  BY <1>1, <1>2, <1>5, <1>6, <1>7, LessStep

LEMMA SaveAllEnds ==
    ASSUME DraftsInv, Drafts!SaveAllEnd PROVE DraftsInv'
<1>1. DraftsTypes /\ SavesAreOfDrafts
  BY DEF DraftsInv
<1>2. /\ all' = Null
      /\ pendingDataBySection' =
            [k \in Key |-> IF k \in all.cleared THEN Null ELSE pendingDataBySection[k]]
      /\ draftsConfig' = draftsServer
      /\ UNCHANGED <<keys, draftsServer, draftsRaw, saves, delivered>>
  BY DEF Drafts!SaveAllEnd, Drafts!Settle, Key
<1>3. DraftsTypes'
  BY <1>1, <1>2 DEF DraftsTypes
<1>4. \A x \in Key : /\ NoDraft(x)' \/ UNCHANGED pendingDataBySection[x]
                     /\ SaveAllIsOfDraft(x)'
  BY <1>2 DEF NoDraft, SaveAllIsOfDraft
<1>. QED  BY <1>1, <1>2, <1>3, <1>4, LessStep

LEMMA ServerStep ==
    ASSUME DraftsInv,
           \/ Drafts!Revalidate \/ Drafts!RevalidateRaw
           \/ \E k \in Key : Drafts!OtherChange(k)
    PROVE  DraftsInv'
<1>1. DraftsTypes /\ draftsServer \in Configuration
  BY DEF DraftsInv, DraftsTypes
<1>2. CASE Drafts!Revalidate
  BY <1>1, <1>2, ConfigStep DEF Drafts!Revalidate, Drafts!Settle, DraftsTypes
<1>3. CASE Drafts!RevalidateRaw
  <2>1. draftsServer["go2rtc_streams"] \in Drafts!Val
    BY <1>1 DEF Configuration, Key, Drafts!AllKeys
  <2>. QED  BY <1>1, <1>3, <2>1, ConfigStep DEF Drafts!RevalidateRaw, Drafts!Settle, DraftsTypes
<1>4. ASSUME NEW k \in Key, Drafts!OtherChange(k) PROVE DraftsInv'
  <2>. DEFINE v == [draftsServer[k] EXCEPT !.b = 1 - @]
  <2>1. v \in Drafts!Val
    <3>1. draftsServer[k] \in [Drafts!Fields -> 0..1]
      BY <1>1 DEF Configuration, Drafts!Val
    <3>2. draftsServer[k]["b"] \in 0..1
      BY <3>1 DEF Drafts!Fields
    <3>. QED  BY <3>1, <3>2 DEF Drafts!Val
  <2>2. draftsServer' = [draftsServer EXCEPT ![k] = v]
    BY <1>4 DEF Drafts!OtherChange
  <2>. HIDE DEF v
  <2>3. draftsServer' \in Configuration
    BY <1>1, <2>1, <2>2 DEF Configuration
  <2>. QED  BY <1>1, <1>4, <2>3, ConfigStep DEF Drafts!OtherChange, DraftsTypes
<1>. QED  BY <1>2, <1>3, <1>4

(***************************************************************************)
(* The steps of the run                                                    *)
(***************************************************************************)
DraftsInForce == shown = "drafts" => DraftsInv

LEMMA DraftsNext ==
    ASSUME DraftsInv, Drafts!Next PROVE DraftsInv'
<1>1. CASE Drafts!UserStep
  BY <1>1, ShownStep, ChangeStep, UndoStep, UndoAllStep, SaveStarts, SaveAllStarts DEF Drafts!UserStep
<1>2. ASSUME NEW k \in Key, Drafts!AnswerStep(k) PROVE DraftsInv'
  BY <1>2, PreClearStep, PutStep, SaveEnds, SaveAllGoesOn DEF Drafts!AnswerStep
<1>. QED  BY <1>1, <1>2, SaveAllEnds, ServerStep DEF Drafts!Next, Key

\* Only the end of a save takes a draft away that the user has not discarded.
LEMMA OnlyEndsDrop ==
    ASSUME DraftsInv, Drafts!Next, ~Drafts!Discards,
           ~Drafts!SaveAllEnd, ~\E k \in Key : Drafts!FinishSave(k)
    PROVE  UNCHANGED pendingDataBySection
<1>1. CASE Drafts!UserStep
  BY <1>1 DEF Drafts!UserStep, Drafts!Discards, Drafts!setPageToggle, Drafts!setSelectedCamera,
      Drafts!handleSelectProfile, Drafts!handleSave, Drafts!handleResetToGlobal, Drafts!StartSave,
      Drafts!handleSaveAll, Drafts!Settle
<1>2. ASSUME NEW k \in Key, Drafts!AnswerStep(k) PROVE UNCHANGED pendingDataBySection
  BY <1>2 DEF Drafts!AnswerStep, Drafts!PreClear, Drafts!PutSection, Drafts!RestoreDetectors,
      Drafts!SaveAllPut, Drafts!Unseen, Drafts!Settle
<1>3. CASE \E k \in Key : Drafts!OtherChange(k)
  BY <1>3 DEF Drafts!OtherChange
<1>4. CASE Drafts!Revalidate \/ Drafts!RevalidateRaw
  BY <1>4 DEF Drafts!Revalidate, Drafts!RevalidateRaw, Drafts!Settle
<1>. QED  BY <1>1, <1>2, <1>3, <1>4 DEF Drafts!Next, Key

LEMMA DropsAreDue ==
    ASSUME DraftsInv, Drafts!Next PROVE Drafts!DraftsStep
<1>1. DraftsTypes /\ SavesAreOfDrafts
  BY DEF DraftsInv
<1>. SUFFICES ASSUME NEW k \in Key, Drafts!Dropped(k), ~Drafts!Discards
              PROVE  k \in delivered \/ Drafts!EditedMeanwhile(k)
  BY DEF Drafts!DraftsStep, Key
<1>2. pendingDataBySection[k] # Null /\ pendingDataBySection'[k] = Null
  BY DEF Drafts!Dropped
<1>3. SaveIsOfDraft(k) /\ SaveAllIsOfDraft(k) /\ ~NoDraft(k)
  BY <1>1, <1>2 DEF SavesAreOfDrafts, NoDraft
<1>4. ASSUME NEW j \in Key, Drafts!FinishSave(j) PROVE k \in delivered \/ Drafts!EditedMeanwhile(k)
  <2>1. /\ saves[j] # Null /\ saves[j].step = "refresh"
        /\ pendingDataBySection' = [pendingDataBySection EXCEPT ![j] = Null]
    BY <1>4 DEF Drafts!FinishSave, Drafts!Settle
  <2>2. k = j
    BY <1>1, <1>2, <2>1 DEF DraftsTypes
  <2>3. saves[k].kind \in {"save", "reset"}
    BY <1>1, <2>1, <2>2 DEF DraftsTypes, Drafts!Save
  <2>. QED  BY <1>3, <2>1, <2>2, <2>3 DEF SaveIsOfDraft, Drafts!EditedMeanwhile
<1>5. CASE Drafts!SaveAllEnd
  <2>1. /\ all # Null
        /\ pendingDataBySection' =
              [x \in Key |-> IF x \in all.cleared THEN Null ELSE pendingDataBySection[x]]
    BY <1>5 DEF Drafts!SaveAllEnd, Drafts!Settle, Key
  <2>2. k \in all.cleared
    BY <1>2, <2>1
  <2>. QED  BY <1>3, <2>1, <2>2 DEF SaveAllIsOfDraft, Drafts!EditedMeanwhile
<1>. QED  BY <1>2, <1>4, <1>5, OnlyEndsDrop

LEMMA DraftsStart ==
    ASSUME Init PROVE DraftsInForce
<1>. SUFFICES ASSUME shown = "drafts" PROVE DraftsInv
  BY DEF DraftsInForce
<1>1. Drafts!Init
  BY DEF Init
<1>. DEFINE start == [a |-> 1, b |-> 0]
<1>2. start \in Drafts!Val
  BY DEF Drafts!Val, Drafts!Fields
<1>3. /\ draftsServer = [k \in Key |-> start] /\ draftsConfig = draftsServer
      /\ draftsRaw = draftsServer["go2rtc_streams"] /\ keys \subseteq Key
      /\ pendingDataBySection = [k \in Key |-> Null] /\ saves = [k \in Key |-> Null] /\ all = Null
  BY <1>1 DEF Drafts!Init, Key, Drafts!AllKeys
<1>4. "go2rtc_streams" \in Key
  BY DEF Key, Drafts!AllKeys
<1>. HIDE DEF start
<1>5. draftsServer \in Configuration /\ draftsRaw \in Drafts!Val
  BY <1>2, <1>3, <1>4 DEF Configuration
<1>6. DraftsTypes
  BY <1>3, <1>5 DEF DraftsTypes
<1>7. SavesAreOfDrafts
  BY <1>3 DEF SavesAreOfDrafts, SaveIsOfDraft, SaveAllIsOfDraft
<1>. QED  BY <1>6, <1>7 DEF DraftsInv

LEMMA DraftsFrame ==
    ASSUME DraftsInv, UNCHANGED draftsVars PROVE DraftsInv'
  BY DEF DraftsInv, DraftsTypes, SavesAreOfDrafts, SaveIsOfDraft, SaveAllIsOfDraft, NoDraft, draftsVars

\* A step of the settings page is one of its module; every other step leaves its variables alone.
LEMMA PageStep ==
    ASSUME [Next]_vars PROVE UNCHANGED shown /\ (shown = "drafts" => Drafts!Next \/ UNCHANGED draftsVars)
  BY DEF Next, vars

\* What the user has typed into a settings page goes only when the user discards it, when the server
\* has taken it as it stands, or when the section was edited, or reset, while a save of it was running
\* (Settings.tsx handleSaveAll, handleSectionSave; BaseSection handleSave, handleResetToGlobal).
THEOREM DraftsAreKept == Spec => DraftsSurvive
<1>1. Init => DraftsInForce
  BY DraftsStart
<1>2. DraftsInForce /\ [Next]_vars => DraftsInForce'
  BY PageStep, DraftsNext, DraftsFrame DEF DraftsInForce
<1>3. DraftsInForce /\ [Next]_vars => [shown = "drafts" => Drafts!DraftsStep]_draftsVars
  BY PageStep, DropsAreDue DEF DraftsInForce
<1>. QED  BY <1>1, <1>2, <1>3, PTL DEF Spec, DraftsSurvive

(***************************************************************************)
(* Cloning a camera                                                        *)
(***************************************************************************)
Config == Cameras!CameraConfigs
Configs == [Cameras!CloneCameras -> Config \cup {Null}]
Form == [source : {Null, "a", "b"}, new : BOOLEAN, targets : SUBSET {"a", "b"}]

Exist(m) == m["a"] # Null /\ m["b"] # Null

\* What is written of each target: a new camera in one piece, of an existing one what is selected;
\* nothing more once it failed.
JobIsOwn(j) ==
    /\ DOMAIN j.writes = j.targets
    /\ IF j.new THEN j.targets = {"n"} /\ j.writes["n"] \subseteq {"camera"}
       ELSE j.targets \subseteq {"a", "b"} /\ \A c \in j.targets : j.writes[c] \subseteq j.selected
    /\ \A c \in j.failed : j.writes[c] = {}
    /\ j.refused \subseteq j.failed /\ j.failed \subseteq j.targets

\* What was written is the source's; what is to be written of the zones is what the client knew
\* of them.
Copied(j, m) ==
    \A c \in j.targets \ j.failed :
        IF j.new THEN j.writes[c] = {} => m[c] # Null /\ \A s \in j.selected : m[c][s] = j.src[s]
        ELSE /\ \A s \in j.selected \ j.writes[c] : m[c][s] = j.src[s]
             /\ "zones" \in j.writes[c] => m[c].zones = j.dst[c].zones
Refused(j, m) ==
    \A c \in j.refused :
        IF "zones" \in j.selected /\ ~j.new THEN ~(m[c].review \subseteq j.src.zones) ELSE "review" \in j.selected

CloneInv ==
    /\ cloneCfg \in Configs /\ cloneConfig \in Configs /\ Exist(cloneCfg) /\ Exist(cloneConfig)
    /\ form \in Form /\ selectedCategories \subseteq Cameras!Sections
    /\ job \in Cameras!Job \cup {Null} /\ (job # Null => JobIsOwn(job))
    /\ cloneOther \in Nat
    /\ cloneOther = 0 => IF job = Null THEN cloneConfig = cloneCfg ELSE Copied(job, cloneCfg) /\ Refused(job, cloneCfg)
    /\ due => marked \/ partly \/ (job # Null /\ Cameras!anyNeedsRestart)

\* The sections of a camera are fields of its configuration.
LEMMA SectionsAre ==
    ASSUME NEW m \in Config
    PROVE  /\ m.type \in {"generic", "lpr"} /\ m.zones \in SUBSET Zones /\ m.review \in SUBSET Zones /\ m.review \subseteq m.zones
           /\ m = [type |-> m.type, zones |-> m.zones, review |-> m.review]
  BY DEF Config, Cameras!CameraConfigs

LEMMA IsConfig ==
    ASSUME NEW t \in {"generic", "lpr"}, NEW z \in SUBSET Zones, NEW r \in SUBSET Zones
    PROVE  LET m == [type |-> t, zones |-> z, review |-> r] IN
           /\ m \in Config <=> r \subseteq z
           /\ m["type"] = t /\ m["zones"] = z /\ m["review"] = r
  BY DEF Config, Cameras!CameraConfigs

LEMMA NoConfigIsNull == Null \notin Config
  BY CamerasAssumption DEF Config

\* A job and what a write changes in it.
LEMMA JobWrite ==
    ASSUME NEW j \in Cameras!Job, NEW c \in DOMAIN j.writes, NEW w \in SUBSET (Cameras!Sections \cup {"camera"}),
           NEW k, k = [j EXCEPT !.writes[c] = w]
    PROVE  /\ k \in Cameras!Job /\ k # Null
           /\ k.targets = j.targets /\ k.src = j.src /\ k.dst = j.dst /\ k.new = j.new /\ k.selected = j.selected
           /\ k.failed = j.failed /\ k.refused = j.refused
           /\ DOMAIN k.writes = DOMAIN j.writes /\ k.writes[c] = w
           /\ \A d \in DOMAIN j.writes : d # c => k.writes[d] = j.writes[d]
<1>. DEFINE rest == [j.writes EXCEPT ![c] = w]
<1>1. k = [targets |-> j.targets, writes |-> rest, src |-> j.src, dst |-> j.dst, new |-> j.new,
           selected |-> j.selected, failed |-> j.failed, refused |-> j.refused]
  BY DEF Cameras!Job, Config, Configs
<1>2. rest \in Cameras!Writes /\ DOMAIN rest = DOMAIN j.writes /\ rest[c] = w /\ \A d \in DOMAIN j.writes : d # c => rest[d] = j.writes[d]
  <2>1. PICK S \in SUBSET Cameras!CloneCameras : j.writes \in [S -> SUBSET (Cameras!Sections \cup {"camera"})]
    BY DEF Cameras!Job, Config, Configs, Cameras!Writes
  <2>2. rest \in [S -> SUBSET (Cameras!Sections \cup {"camera"})]
    BY <2>1
  <2>. QED  BY <2>1, <2>2 DEF Cameras!Writes
<1>. HIDE DEF rest
<1>3. k \in Cameras!Job
  BY <1>1, <1>2 DEF Cameras!Job, Config, Configs
<1>. QED  BY <1>1, <1>2, <1>3, CamerasAssumption

\* Nothing more is written of a camera.
LEMMA WritesEnd ==
    ASSUME NEW j \in Cameras!Job, NEW c \in DOMAIN j.writes
    PROVE  LET rest == [j.writes EXCEPT ![c] = {}] IN
           rest \in Cameras!Writes /\ DOMAIN rest = DOMAIN j.writes /\ rest[c] = {} /\ \A d \in DOMAIN j.writes : d # c => rest[d] = j.writes[d]
<1>. DEFINE rest == [j.writes EXCEPT ![c] = {}]
<1>1. PICK S \in SUBSET Cameras!CloneCameras : j.writes \in [S -> SUBSET (Cameras!Sections \cup {"camera"})]
  BY DEF Cameras!Job, Cameras!Writes
<1>2. rest \in [S -> SUBSET (Cameras!Sections \cup {"camera"})]
  BY <1>1
<1>. QED  BY <1>1, <1>2 DEF Cameras!Writes

\* The section that is written next: the zones before what requires them.
LEMMA SectionIs ==
    ASSUME job \in Cameras!Job, JobIsOwn(job), NEW c \in job.targets, job.writes[c] # {}
    PROVE  /\ Cameras!Section(c) \in job.writes[c] /\ c \notin job.failed
           /\ job.new => c = "n" /\ Cameras!Section(c) = "camera" /\ job.writes[c] = {"camera"}
           /\ ~job.new => /\ c \in {"a", "b"} /\ job.writes[c] \subseteq job.selected /\ job.selected \subseteq Cameras!Sections
                          /\ Cameras!Section(c) \in Cameras!Sections
                          /\ Cameras!Section(c) = "review" => "zones" \notin job.writes[c]
<1>1. job.selected \subseteq Cameras!Sections
  BY DEF Cameras!Job
<1>2. /\ Cameras!Section(c) \in job.writes[c]
      /\ Cameras!Section(c) = "review" => "zones" \notin job.writes[c]
  <2>1. job.writes[c] \subseteq {"camera", "type", "zones", "review"}
    BY <1>1 DEF JobIsOwn, Cameras!Sections
  <2>2. CASE job.writes[c] \cap {"camera", "type"} # {}
    BY <2>2 DEF Cameras!Section
  <2>3. CASE job.writes[c] \cap {"camera", "type"} = {}
    BY <2>1, <2>3 DEF Cameras!Section
  <2>. QED  BY <2>2, <2>3
<1>3. c \notin job.failed
  BY DEF JobIsOwn
<1>4. job.new => c = "n" /\ Cameras!Section(c) = "camera" /\ job.writes[c] = {"camera"}
  BY <1>2 DEF JobIsOwn
<1>5. ~job.new => c \in {"a", "b"} /\ job.writes[c] \subseteq job.selected
  BY DEF JobIsOwn
<1>. QED  BY <1>1, <1>2, <1>3, <1>4, <1>5

\* What a camera is after a write.
LEMMA WrittenIs ==
    ASSUME job \in Cameras!Job, NEW c, cloneCfg[c] \in Config
    PROVE  /\ Cameras!Written(c, "type") = [type |-> job.src.type, zones |-> cloneCfg[c].zones, review |-> cloneCfg[c].review]
           /\ Cameras!Written(c, "zones") =
                  [type |-> cloneCfg[c].type, review |-> cloneCfg[c].review,
                   zones |-> (cloneCfg[c].zones \cup (job.src.zones \ job.dst[c].zones)) \ (job.dst[c].zones \ job.src.zones)]
           /\ Cameras!Written(c, "review") = [type |-> cloneCfg[c].type, zones |-> cloneCfg[c].zones, review |-> job.src.review]
<1>. DEFINE m == cloneCfg[c]
<1>1. m = [type |-> m.type, zones |-> m.zones, review |-> m.review]
  BY SectionsAre
<1>. HIDE DEF m
<1>2. [m EXCEPT !.type = job.src.type] = [type |-> job.src.type, zones |-> m.zones, review |-> m.review]
  BY <1>1
<1>3. [m EXCEPT !.review = job.src.review] = [type |-> m.type, zones |-> m.zones, review |-> job.src.review]
  BY <1>1
<1>4. \A z : [m EXCEPT !.zones = z] = [type |-> m.type, zones |-> z, review |-> m.review]
  BY <1>1
<1>. QED  BY <1>2, <1>3, <1>4 DEF Cameras!Written, m

\* A submission under way.
LEMMA JobIs ==
    ASSUME CloneInv, job # Null
    PROVE  /\ job \in Cameras!Job /\ JobIsOwn(job) /\ job.targets \subseteq Cameras!CloneCameras
           /\ job.src \in Config /\ job.dst \in Configs /\ job.new \in BOOLEAN
           /\ \A c \in job.targets : job.writes[c] \in SUBSET (Cameras!Sections \cup {"camera"})
<1>1. job \in Cameras!Job /\ JobIsOwn(job)
  BY DEF CloneInv
<1>2. PICK S \in SUBSET Cameras!CloneCameras : job.writes \in [S -> SUBSET (Cameras!Sections \cup {"camera"})]
  BY <1>1 DEF Cameras!Job, Cameras!Writes
<1>3. DOMAIN job.writes = job.targets
  BY <1>1 DEF JobIsOwn
<1>. QED  BY <1>1, <1>2, <1>3 DEF Cameras!Job, Config, Configs

\* A camera that exists has a configuration.
LEMMA TargetHasConfig ==
    ASSUME CloneInv, job # Null, ~job.new, NEW c \in job.targets
    PROVE  cloneCfg[c] \in Config /\ c \in Cameras!CloneCameras
<1>1. c \in {"a", "b"}
  BY JobIs DEF JobIsOwn
<1>. QED  BY <1>1 DEF CloneInv, Exist, Configs, Cameras!CloneCameras

\* What a camera is after its next section is written, while no other client writes.
LEMMA NextWritten ==
    ASSUME CloneInv, job # Null, NEW c \in job.targets, job.writes[c] # {}, ~job.new
    PROVE  LET s == Cameras!Section(c)
               m == Cameras!Written(c, s)
           IN  /\ s = "type" => m \in Config /\ m.type = job.src.type /\ m.zones = cloneCfg[c].zones /\ m.review = cloneCfg[c].review
               /\ s = "zones" => m.type = cloneCfg[c].type /\ m.review = cloneCfg[c].review
               /\ s = "zones" /\ cloneOther = 0 /\ c \notin job.failed =>
                      m.zones = job.src.zones /\ (m \in Config <=> cloneCfg[c].review \subseteq job.src.zones)
               /\ s = "review" => m.type = cloneCfg[c].type /\ m.zones = cloneCfg[c].zones /\ m.review = job.src.review
               /\ s = "review" => (m \in Config <=> job.src.review \subseteq cloneCfg[c].zones)
<1>. DEFINE s == Cameras!Section(c)
            m == Cameras!Written(c, s)
            old == cloneCfg[c]
<1>1. old \in Config /\ job.src \in Config /\ job.dst[c] \in Config \cup {Null} /\ job \in Cameras!Job
  BY JobIs, TargetHasConfig DEF Configs
<1>2. /\ old.type \in {"generic", "lpr"} /\ old.zones \in SUBSET Zones /\ old.review \in SUBSET Zones /\ old.review \subseteq old.zones
      /\ job.src.type \in {"generic", "lpr"} /\ job.src.zones \in SUBSET Zones /\ job.src.review \in SUBSET Zones
  BY <1>1, SectionsAre
<1>3. CASE s = "type"
  <2>1. m = [type |-> job.src.type, zones |-> old.zones, review |-> old.review]
    BY <1>1, <1>3, WrittenIs
  <2>2. m \in Config
    BY <1>2, <2>1, IsConfig
  <2>. HIDE DEF m, s
  <2>. QED  BY <1>3, <2>1, <2>2 DEF m, s
<1>4. CASE s = "zones"
  <2>. DEFINE z == (old.zones \cup (job.src.zones \ job.dst[c].zones)) \ (job.dst[c].zones \ job.src.zones)
  <2>1. m = [type |-> old.type, review |-> old.review, zones |-> z]
    BY <1>1, <1>4, WrittenIs
  <2>2. ASSUME cloneOther = 0, c \notin job.failed PROVE z = job.src.zones
    <3>1. old.zones = job.dst[c].zones
      BY <1>4, <2>2, SectionIs, JobIs DEF CloneInv, Copied
    <3>. QED  BY <3>1
  <2>3. ASSUME cloneOther = 0, c \notin job.failed PROVE m \in Config <=> old.review \subseteq job.src.zones
    BY <1>2, <2>1, <2>2, <2>3, IsConfig
  <2>4. /\ m.type = old.type /\ m.review = old.review
        /\ cloneOther = 0 /\ c \notin job.failed => m.zones = job.src.zones
    <3>. HIDE DEF z, m, s
    <3>. QED  BY <2>1, <2>2
  <2>. HIDE DEF m, s, z, old
  <2>. QED  BY <1>4, <2>3, <2>4 DEF m, s, old
<1>5. CASE s = "review"
  <2>1. m = [type |-> old.type, zones |-> old.zones, review |-> job.src.review]
    BY <1>1, <1>5, WrittenIs
  <2>2. m \in Config <=> job.src.review \subseteq old.zones
    BY <1>2, <2>1, IsConfig
  <2>. HIDE DEF m, s
  <2>. QED  BY <1>5, <2>1, <2>2 DEF m, s
<1>6. CASE s \notin {"type", "zones", "review"}
  <2>. HIDE DEF m, s
  <2>. QED  BY <1>6 DEF m, s
<1>. QED  BY <1>3, <1>4, <1>5, <1>6

\* A new camera is written in one piece.
LEMMA NewWritten ==
    ASSUME CloneInv, job # Null, NEW c \in job.targets, job.writes[c] # {}, job.new
    PROVE  LET m == Cameras!Written(c, Cameras!Section(c)) IN
           /\ c = "n" /\ job.targets = {"n"} /\ Cameras!Section(c) = "camera" /\ job.writes[c] = {"camera"}
           /\ \A s \in job.selected : m[s] = job.src[s]
           /\ m \in Config \/ "review" \in job.selected
<1>. DEFINE m == Cameras!Written(c, Cameras!Section(c))
            type == IF "type" \in job.selected THEN job.src.type ELSE "generic"
            zones == IF "zones" \in job.selected THEN job.src.zones ELSE {}
            review == IF "review" \in job.selected THEN job.src.review ELSE {}
<1>1. c = "n" /\ job.targets = {"n"} /\ Cameras!Section(c) = "camera" /\ job.writes[c] = {"camera"}
  BY SectionIs, JobIs DEF JobIsOwn
<1>2. job.src \in Config /\ job.selected \subseteq {"type", "zones", "review"}
  BY JobIs DEF Cameras!Job, Cameras!Sections
<1>3. /\ type \in {"generic", "lpr"} /\ zones \in SUBSET Zones /\ review \in SUBSET Zones
      /\ job.src = [type |-> job.src.type, zones |-> job.src.zones, review |-> job.src.review]
  BY <1>2, SectionsAre
<1>4. m = [type |-> type, zones |-> zones, review |-> review]
  BY <1>1 DEF Cameras!Written, Cameras!bundleNewCameraPayload
<1>5. \A s \in job.selected : m[s] = job.src[s]
  BY <1>2, <1>3, <1>4
<1>6. m \in Config \/ "review" \in job.selected
  BY <1>3, <1>4, IsConfig
<1>. QED  BY <1>1, <1>5, <1>6

LEMMA PutTakenKeeps == ASSUME CloneInv, NEW c \in job.targets, Cameras!PutTaken(c) PROVE CloneInv'
<1>. DEFINE s == Cameras!Section(c)
            m == Cameras!Written(c, s)
            w == job.writes[c] \ {s}
<1>1. /\ job # Null /\ job.writes[c] # {} /\ m \in Config
      /\ cloneCfg' = [cloneCfg EXCEPT ![c] = m] /\ job' = [job EXCEPT !.writes[c] = w]
      /\ due' = (due \/ Cameras!NeedsRestart(s))
      /\ UNCHANGED <<cloneConfig, form, selectedCategories, marked, partly, cloneOther>>
  BY DEF Cameras!PutTaken, Config
<1>2. /\ job \in Cameras!Job /\ JobIsOwn(job) /\ c \in Cameras!CloneCameras /\ c \in DOMAIN job.writes
      /\ w \in SUBSET (Cameras!Sections \cup {"camera"})
  BY <1>1, JobIs DEF JobIsOwn
<1>3. /\ job' \in Cameras!Job /\ job' # Null /\ job'.targets = job.targets /\ job'.src = job.src /\ job'.dst = job.dst
      /\ job'.new = job.new /\ job'.selected = job.selected /\ job'.failed = job.failed /\ job'.refused = job.refused
      /\ DOMAIN job'.writes = DOMAIN job.writes /\ job'.writes[c] = w
      /\ \A d \in DOMAIN job.writes : d # c => job'.writes[d] = job.writes[d]
  <2>. HIDE DEF w
  <2>. QED  BY <1>1, <1>2, JobWrite
<1>4. /\ s \in job.writes[c] /\ c \notin job.failed
      /\ ~job.new => /\ c \in {"a", "b"} /\ job.writes[c] \subseteq job.selected /\ s \in {"type", "zones", "review"}
                     /\ s = "review" => "zones" \notin job.writes[c]
  BY <1>1, <1>2, SectionIs DEF Cameras!Sections
<1>5. cloneCfg' \in Configs /\ Exist(cloneCfg') /\ \A d \in Cameras!CloneCameras : cloneCfg'[d] = IF d = c THEN m ELSE cloneCfg[d]
  <2>1. m # Null
    BY <1>1, NoConfigIsNull
  <2>. HIDE DEF m
  <2>. QED  BY <1>1, <1>2, <2>1 DEF CloneInv, Configs, Exist, Cameras!CloneCameras
<1>6. JobIsOwn(job')
  BY <1>2, <1>3 DEF JobIsOwn
<1>7. ASSUME cloneOther = 0 PROVE Copied(job', cloneCfg')
  <2>1. Copied(job, cloneCfg)
    BY <1>1, <1>7 DEF CloneInv
  <2>2. CASE job.new
    BY <1>1, <1>2, <1>3, <1>5, <2>2, NewWritten, NoConfigIsNull DEF Copied
  <2>3. CASE ~job.new
    <3>1. ASSUME NEW d \in job.targets, d # c, d \notin job.failed
          PROVE  /\ \A t \in job.selected \ job'.writes[d] : cloneCfg'[d][t] = job.src[t]
                 /\ "zones" \in job'.writes[d] => cloneCfg'[d].zones = job.dst[d].zones
      BY <1>2, <1>3, <1>5, <2>1, <2>3, <3>1, JobIs, <1>1 DEF Copied, JobIsOwn
    <3>2. /\ \A t \in job.selected \ job.writes[c] : cloneCfg[c][t] = job.src[t]
          /\ "zones" \in job.writes[c] => cloneCfg[c].zones = job.dst[c].zones
      BY <1>4, <2>1, <2>3 DEF Copied
    <3>3. /\ s = "type" => m.type = job.src.type /\ m.zones = cloneCfg[c].zones /\ m.review = cloneCfg[c].review
          /\ s = "zones" => m.type = cloneCfg[c].type /\ m.review = cloneCfg[c].review /\ m.zones = job.src.zones
          /\ s = "review" => m.type = cloneCfg[c].type /\ m.zones = cloneCfg[c].zones /\ m.review = job.src.review
      BY <1>1, <1>4, <1>7, <2>3, NextWritten
    <3>4. /\ m = [type |-> m.type, zones |-> m.zones, review |-> m.review]
          /\ cloneCfg[c] = [type |-> cloneCfg[c].type, zones |-> cloneCfg[c].zones, review |-> cloneCfg[c].review]
          /\ job.src = [type |-> job.src.type, zones |-> job.src.zones, review |-> job.src.review]
      BY <1>1, <2>3, TargetHasConfig, JobIs, SectionsAre
    <3>. HIDE DEF m, s
    <3>5. ASSUME NEW t \in {"type", "zones", "review"}, t = s \/ (t \in job.selected /\ t \notin job.writes[c])
          PROVE  m[t] = job.src[t]
      <4>1. t # s => cloneCfg[c][t] = job.src[t]
        BY <3>2, <3>5
      <4>2. CASE s = "type"
        BY <3>3, <3>4, <4>1, <4>2
      <4>3. CASE s = "zones"
        BY <3>3, <3>4, <4>1, <4>3
      <4>4. CASE s = "review"
        BY <3>3, <3>4, <4>1, <4>4
      <4>. QED  BY <1>4, <2>3, <4>2, <4>3, <4>4
    <3>6. /\ \A t \in job.selected \ w : m[t] = job.src[t]
          /\ "zones" \in w => m.zones = job.dst[c].zones
      BY <1>2, <1>4, <2>3, <3>2, <3>3, <3>5 DEF Cameras!Job, Cameras!Sections
    <3>. QED  BY <1>2, <1>3, <1>5, <2>3, <3>1, <3>6 DEF Copied
  <2>. QED  BY <2>2, <2>3
<1>8. ASSUME cloneOther = 0 PROVE Refused(job', cloneCfg')
  <2>1. Refused(job, cloneCfg) /\ \A d \in job.refused : d # c /\ d \in Cameras!CloneCameras
    BY <1>1, <1>2, <1>4, <1>8, JobIs DEF CloneInv, JobIsOwn
  <2>. HIDE DEF m, s
  <2>. QED  BY <1>3, <1>5, <2>1 DEF Refused
<1>9. due' => marked' \/ partly' \/ (job' # Null /\ Cameras!anyNeedsRestart')
  <2>1. CASE due
    BY <1>1, <1>3, <2>1 DEF CloneInv, Cameras!anyNeedsRestart
  <2>2. CASE job.new \/ s = "type"
    BY <1>1, <1>3, <1>4, <2>2 DEF Cameras!anyNeedsRestart
  <2>3. CASE ~due /\ ~job.new /\ s # "type"
    BY <1>1, <1>4, <2>3 DEF Cameras!NeedsRestart
  <2>. QED  BY <2>1, <2>2, <2>3
<1>. HIDE DEF m, s, w
<1>. QED  BY <1>1, <1>3, <1>5, <1>6, <1>7, <1>8, <1>9 DEF CloneInv

LEMMA PutFailsKeeps == ASSUME CloneInv, NEW c \in job.targets, Cameras!PutFails(c) PROVE CloneInv'
<1>. DEFINE s == Cameras!Section(c)
            m == Cameras!Written(c, s)
<1>1. /\ job # Null /\ job.writes[c] # {}
      /\ \/ m \notin Config /\ job' = [job EXCEPT !.writes[c] = {}, !.failed = @ \cup {c}, !.refused = @ \cup {c}]
         \/ job' = [job EXCEPT !.writes[c] = {}, !.failed = @ \cup {c}]
      /\ UNCHANGED <<cloneCfg, cloneConfig, form, selectedCategories, marked, due, partly, cloneOther>>
  BY DEF Cameras!PutFails, Config
<1>2. job \in Cameras!Job /\ JobIsOwn(job) /\ c \in Cameras!CloneCameras /\ c \in DOMAIN job.writes
  BY <1>1, JobIs DEF JobIsOwn
<1>3. /\ job' \in Cameras!Job /\ job' # Null /\ job'.targets = job.targets /\ job'.src = job.src /\ job'.dst = job.dst
      /\ job'.new = job.new /\ job'.selected = job.selected /\ job'.failed = job.failed \cup {c}
      /\ job'.refused = job.refused \/ (job'.refused = job.refused \cup {c} /\ m \notin Config)
      /\ DOMAIN job'.writes = DOMAIN job.writes /\ job'.writes[c] = {}
      /\ \A d \in DOMAIN job.writes : d # c => job'.writes[d] = job.writes[d]
  <2>. DEFINE rest == [job.writes EXCEPT ![c] = {}]
              made(r) == [targets |-> job.targets, writes |-> rest, src |-> job.src, dst |-> job.dst, new |-> job.new,
                          selected |-> job.selected, failed |-> job.failed \cup {c}, refused |-> r]
  <2>. HIDE DEF m
  <2>1. PICK r \in SUBSET Cameras!CloneCameras :
            job' = made(r) /\ (r = job.refused \/ (r = job.refused \cup {c} /\ m \notin Config))
    <3>1. {job.refused, job.refused \cup {c}} \subseteq SUBSET Cameras!CloneCameras
      BY <1>2 DEF Cameras!Job
    <3>2. CASE job' = [job EXCEPT !.writes[c] = {}, !.failed = @ \cup {c}]
      <4>1. job' = made(job.refused)
        BY <1>2, <3>2 DEF Cameras!Job
      <4>. QED  BY <3>1, <4>1
    <3>3. CASE m \notin Config /\ job' = [job EXCEPT !.writes[c] = {}, !.failed = @ \cup {c}, !.refused = @ \cup {c}]
      <4>1. job' = made(job.refused \cup {c})
        BY <1>2, <3>3 DEF Cameras!Job
      <4>. QED  BY <3>1, <3>3, <4>1
    <3>. QED  BY <1>1, <3>2, <3>3
  <2>2. rest \in Cameras!Writes /\ DOMAIN rest = DOMAIN job.writes /\ rest[c] = {} /\ \A d \in DOMAIN job.writes : d # c => rest[d] = job.writes[d]
    BY <1>2, WritesEnd
  <2>. HIDE DEF rest
  <2>3. job' \in Cameras!Job
    BY <1>2, <2>1, <2>2 DEF Cameras!Job
  <2>. QED  BY <2>1, <2>2, <2>3, CamerasAssumption
<1>4. JobIsOwn(job')
  BY <1>2, <1>3 DEF JobIsOwn
<1>5. ASSUME cloneOther = 0 PROVE Copied(job', cloneCfg')
  BY <1>1, <1>2, <1>3, <1>5 DEF CloneInv, Copied, JobIsOwn
<1>6. ASSUME cloneOther = 0 PROVE Refused(job', cloneCfg')
  <2>1. Refused(job, cloneCfg) /\ Copied(job, cloneCfg)
    BY <1>1, <1>6 DEF CloneInv
  <2>2. ASSUME m \notin Config
        PROVE  IF "zones" \in job.selected /\ ~job.new THEN ~(cloneCfg[c].review \subseteq job.src.zones)
               ELSE "review" \in job.selected
    <3>1. CASE job.new
      BY <1>1, <2>2, <3>1, NewWritten
    <3>2. CASE ~job.new
      <4>1. /\ s \in {"type", "zones", "review"} /\ s \in job.writes[c] /\ job.writes[c] \subseteq job.selected /\ c \notin job.failed
            /\ s = "review" => "zones" \notin job.writes[c]
        BY <1>1, <1>2, <3>2, SectionIs DEF Cameras!Sections
      <4>2. /\ s # "type"
            /\ s = "zones" => ~(cloneCfg[c].review \subseteq job.src.zones)
            /\ s = "review" => ~(job.src.review \subseteq cloneCfg[c].zones)
        <5>. HIDE DEF m, s
        <5>1. /\ s = "type" => m \in Config
              /\ s = "zones" => (m \in Config <=> cloneCfg[c].review \subseteq job.src.zones)
              /\ s = "review" => (m \in Config <=> job.src.review \subseteq cloneCfg[c].zones)
          BY <1>1, <1>6, <3>2, <4>1, NextWritten DEF m, s
        <5>. QED  BY <2>2, <5>1
      <4>3. CASE s = "zones"
        BY <4>1, <4>2, <4>3, <3>2
      <4>4. CASE s = "review"
        <5>1. "zones" \in job.selected => cloneCfg[c].zones = job.src.zones
          BY <2>1, <3>2, <4>1, <4>4 DEF Copied
        <5>2. job.src.review \subseteq job.src.zones
          BY <1>1, JobIs, SectionsAre
        <5>. QED  BY <3>2, <4>1, <4>2, <4>4, <5>1, <5>2
      <4>. QED  BY <4>1, <4>2, <4>3, <4>4
    <3>. QED  BY <3>1, <3>2
  <2>. HIDE DEF m, s
  <2>. QED  BY <1>1, <1>3, <2>1, <2>2 DEF Refused
<1>. HIDE DEF m, s
<1>7. due' => marked' \/ partly' \/ (job' # Null /\ Cameras!anyNeedsRestart')
  BY <1>1, <1>3 DEF CloneInv, Cameras!anyNeedsRestart
<1>. QED  BY <1>1, <1>3, <1>4, <1>5, <1>6, <1>7 DEF CloneInv

LEMMA SubmitKeeps == ASSUME CloneInv, Cameras!cloneOnSubmit PROVE CloneInv'
<1>. DEFINE w == Cameras!targetPayloads
            made == [targets |-> DOMAIN w, writes |-> w, src |-> Cameras!Source, dst |-> cloneConfig,
                     new |-> form.new, selected |-> selectedCategories, failed |-> {}, refused |-> {}]
<1>1. /\ job = Null /\ job' = made /\ form.source # Null
      /\ form.new => cloneConfig["n"] = Null
      /\ UNCHANGED <<cloneCfg, cloneConfig, form, selectedCategories, marked, due, partly, cloneOther>>
  BY DEF Cameras!cloneOnSubmit, Cameras!Editable
<1>2. /\ form.source \in {"a", "b"} /\ form.new \in BOOLEAN /\ form.targets \subseteq {"a", "b"}
      /\ selectedCategories \subseteq Cameras!Sections /\ cloneConfig \in Configs /\ Exist(cloneConfig)
  BY <1>1 DEF CloneInv, Form
<1>3. Cameras!Source \in Config
  BY <1>2 DEF Cameras!Source, Configs, Exist, Cameras!CloneCameras
<1>4. /\ form.new => w = [c \in {"n"} |-> {"camera"}]
      /\ ~form.new => w = [c \in form.targets |-> Cameras!buildClonedCameraPayloads(Cameras!Source, cloneConfig[c])]
  BY DEF Cameras!targetPayloads
<1>5. /\ w \in Cameras!Writes /\ DOMAIN w \subseteq Cameras!CloneCameras
      /\ form.new => DOMAIN w = {"n"} /\ w["n"] = {"camera"}
      /\ ~form.new => /\ DOMAIN w = form.targets
                      /\ \A c \in form.targets : w[c] = selectedCategories \ {s \in {"zones", "review"} : Cameras!Source[s] = cloneConfig[c][s]}
  <2>1. CASE form.new
    <3>1. w \in [{"n"} -> SUBSET (Cameras!Sections \cup {"camera"})] /\ {"n"} \in SUBSET Cameras!CloneCameras
      BY <1>4, <2>1 DEF Cameras!CloneCameras
    <3>. QED  BY <1>4, <2>1, <3>1 DEF Cameras!Writes
  <2>2. CASE ~form.new
    <3>1. \A c \in form.targets : Cameras!buildClonedCameraPayloads(Cameras!Source, cloneConfig[c])
              = selectedCategories \ {s \in {"zones", "review"} : Cameras!Source[s] = cloneConfig[c][s]}
      BY DEF Cameras!buildClonedCameraPayloads
    <3>2. w \in [form.targets -> SUBSET (Cameras!Sections \cup {"camera"})] /\ form.targets \in SUBSET Cameras!CloneCameras
      BY <1>2, <1>4, <2>2, <3>1 DEF Cameras!CloneCameras
    <3>. QED  BY <1>4, <2>2, <3>1, <3>2 DEF Cameras!Writes
  <2>. QED  BY <1>2, <2>1, <2>2
<1>. HIDE DEF w
<1>6. /\ job'.targets = DOMAIN w /\ job'.writes = w /\ job'.src = Cameras!Source /\ job'.dst = cloneConfig
      /\ job'.new = form.new /\ job'.selected = selectedCategories /\ job'.failed = {} /\ job'.refused = {}
  BY <1>1
<1>7. job' \in Cameras!Job /\ job' # Null
  BY <1>1, <1>2, <1>3, <1>5, CamerasAssumption DEF Cameras!Job, Config, Configs
<1>8. JobIsOwn(job')
  BY <1>2, <1>5, <1>6 DEF JobIsOwn
<1>9. ASSUME cloneOther = 0 PROVE Copied(job', cloneCfg) /\ Refused(job', cloneCfg)
  <2>1. cloneConfig = cloneCfg
    BY <1>1, <1>9 DEF CloneInv
  <2>2. CASE form.new
    BY <1>5, <1>6, <2>2 DEF Copied, Refused
  <2>3. CASE ~form.new
    <3>1. ASSUME NEW c \in form.targets, NEW s \in selectedCategories, s \notin w[c] PROVE cloneCfg[c][s] = job'.src[s]
      BY <1>5, <1>6, <2>1, <2>3, <3>1
    <3>. QED  BY <1>5, <1>6, <2>1, <2>3, <3>1 DEF Copied, Refused
  <2>. QED  BY <1>2, <2>2, <2>3
<1>. QED  BY <1>1, <1>7, <1>8, <1>9 DEF CloneInv

LEMMA SubmitEndsKeeps == ASSUME CloneInv, Cameras!SubmitEnds PROVE CloneInv'
<1>1. /\ job # Null /\ job' = Null /\ cloneConfig' = cloneCfg
      /\ UNCHANGED <<cloneCfg, form, selectedCategories, due, cloneOther>>
      /\ IF job.failed # {} THEN partly' = (partly \/ Cameras!anyNeedsRestart) /\ UNCHANGED marked
         ELSE marked' = (marked \/ Cameras!anyNeedsRestart) /\ UNCHANGED partly
  BY DEF Cameras!SubmitEnds, Cameras!CloneEnded
<1>2. due' => marked' \/ partly'
  BY <1>1 DEF CloneInv
<1>. QED  BY <1>1, <1>2 DEF CloneInv

LEMMA OtherClientKeeps == ASSUME CloneInv, NEW c \in Cameras!CloneCameras, Cameras!CloneOtherClient(c) PROVE CloneInv'
<1>1. PICK s \in Config : cloneCfg' = [cloneCfg EXCEPT ![c] = s]
  BY DEF Cameras!CloneOtherClient, Config
<1>2. /\ cloneOther' = cloneOther + 1 /\ cloneOther \in Nat
      /\ UNCHANGED <<cloneConfig, form, selectedCategories, job, marked, due, partly>>
  BY DEF Cameras!CloneOtherClient, CloneInv
<1>3. cloneCfg' \in Configs /\ Exist(cloneCfg')
  BY <1>1, NoConfigIsNull DEF CloneInv, Configs, Exist
<1>4. cloneOther' \in Nat /\ cloneOther' # 0
  BY <1>2
<1>5. Cameras!anyNeedsRestart' = Cameras!anyNeedsRestart
  BY <1>2 DEF Cameras!anyNeedsRestart
<1>. QED  BY <1>2, <1>3, <1>4, <1>5 DEF CloneInv

\* An edit of the form, when no submission runs; or nothing that counts.
LEMMA FormEdited ==
    ASSUME CloneInv, UNCHANGED <<cloneCfg, cloneConfig, job, marked, due, partly, cloneOther>>,
           form' \in Form, selectedCategories' \subseteq Cameras!Sections
    PROVE  CloneInv'
<1>1. Cameras!anyNeedsRestart' = Cameras!anyNeedsRestart
  BY DEF Cameras!anyNeedsRestart
<1>. QED  BY <1>1 DEF CloneInv

LEMMA CloneNextKeeps == ASSUME CloneInv, Cameras!CloneNext PROVE CloneInv'
<1>. USE DEF Cameras!CloneServer
<1>1. form \in Form /\ selectedCategories \subseteq Cameras!Sections
  BY DEF CloneInv
<1>2. CASE Cameras!CloneOpen
  <2>1. form' = Cameras!NoForm /\ selectedCategories' = {"zones", "review"}
    BY <1>2 DEF Cameras!CloneOpen, Cameras!getCategoryDefaults
  <2>2. form' \in Form /\ selectedCategories' \subseteq Cameras!Sections
    BY <2>1 DEF Cameras!NoForm, Form, Cameras!Sections
  <2>. QED  BY <1>2, <2>2, FormEdited DEF Cameras!CloneOpen
<1>3. CASE \E c \in {"a", "b"} : Cameras!ChooseSource(c)
  <2>1. PICK c \in {"a", "b"} : Cameras!ChooseSource(c)
    BY <1>3
  <2>2. form' = [form EXCEPT !.source = c, !.targets = @ \ {c}]
    BY <2>1 DEF Cameras!ChooseSource
  <2>3. form' \in Form
    BY <1>1, <2>2 DEF Form
  <2>. QED  BY <1>1, <2>1, <2>3, FormEdited DEF Cameras!ChooseSource
<1>4. CASE \E new \in BOOLEAN, targets \in SUBSET {"a", "b"} : Cameras!ChooseTargets(new, targets)
  <2>1. PICK new \in BOOLEAN, targets \in SUBSET {"a", "b"} : Cameras!ChooseTargets(new, targets)
    BY <1>4
  <2>2. form' \in Form /\ selectedCategories' \subseteq Cameras!Sections
    <3>1. form' = [form EXCEPT !.new = new, !.targets = targets]
      BY <2>1 DEF Cameras!ChooseTargets
    <3>2. form' \in Form
      BY <1>1, <3>1 DEF Form
    <3>3. selectedCategories' \subseteq Cameras!Sections
      BY <1>1, <2>1 DEF Cameras!ChooseTargets, Cameras!getCategoryDefaults, Cameras!Sections
    <3>. QED  BY <3>2, <3>3
  <2>. QED  BY <2>1, <2>2, FormEdited DEF Cameras!ChooseTargets
<1>5. CASE Cameras!selectAllCategories \/ \E s \in Cameras!Sections : Cameras!toggleCategory(s)
  BY <1>1, <1>5, FormEdited DEF Cameras!selectAllCategories, Cameras!toggleCategory
<1>6. CASE Cameras!CloneRevalidate
  <2>1. cloneConfig' = cloneCfg /\ UNCHANGED <<cloneCfg, form, selectedCategories, job, marked, due, partly, cloneOther>>
    BY <1>6 DEF Cameras!CloneRevalidate
  <2>2. Cameras!anyNeedsRestart' = Cameras!anyNeedsRestart
    BY <2>1 DEF Cameras!anyNeedsRestart
  <2>. QED  BY <2>1, <2>2 DEF CloneInv
<1>7. CASE job # Null /\ \E c \in job.targets : Cameras!PutTaken(c) \/ Cameras!PutFails(c)
  BY <1>7, PutTakenKeeps, PutFailsKeeps
<1>8. CASE Cameras!Close
  BY <1>1, <1>8, FormEdited DEF Cameras!Close
<1>9. CASE Cameras!cloneOnSubmit \/ Cameras!SubmitEnds \/ \E c \in Cameras!CloneCameras : Cameras!CloneOtherClient(c)
  BY <1>9, SubmitKeeps, SubmitEndsKeeps, OtherClientKeeps
<1>. QED  BY <1>2, <1>3, <1>4, <1>5, <1>6, <1>7, <1>9, <1>8 DEF Cameras!CloneNext

LEMMA CloneHidden == ASSUME CloneInv, UNCHANGED cloneVars PROVE CloneInv'
  BY FormEdited DEF cloneVars, CloneInv

LEMMA CloneInvInit == ASSUME Init, shown = "clone" PROVE CloneInv
<1>1. Cameras!CloneInit
  BY DEF Init
<1>2. PICK a \in Config, b \in Config :
        cloneCfg = [c \in Cameras!CloneCameras |-> CASE c = "a" -> a [] c = "b" -> b [] OTHER -> Null]
  BY <1>1 DEF Cameras!CloneInit, Config
<1>3. cloneCfg \in Configs /\ Exist(cloneCfg)
  BY <1>2, NoConfigIsNull DEF Configs, Exist, Cameras!CloneCameras
<1>4. /\ cloneConfig = cloneCfg /\ form = Cameras!NoForm /\ selectedCategories = {} /\ job = Null /\ due = FALSE /\ cloneOther = 0
  BY <1>1 DEF Cameras!CloneInit
<1>. QED  BY <1>3, <1>4 DEF CloneInv, Cameras!NoForm, Form

\* What the dialog says of a copy is so.
LEMMA CopyIsOwn == ASSUME CloneInv PROVE Cameras!SuccessIsCopy /\ Cameras!RefusedForAReason /\ Cameras!RestartIsMarked
<1>1. ASSUME Cameras!CloneEnded, cloneOther = 0, NEW c \in job.targets \ job.failed
      PROVE  cloneCfg[c] # Null /\ \A s \in job.selected : cloneCfg[c][s] = job.src[s]
  <2>1. job # Null /\ job.writes[c] = {}
    BY <1>1 DEF Cameras!CloneEnded
  <2>2. Copied(job, cloneCfg)
    BY <1>1, <2>1 DEF CloneInv
  <2>3. ~job.new => cloneCfg[c] # Null
    BY <2>1, TargetHasConfig, NoConfigIsNull
  <2>. QED  BY <2>1, <2>2, <2>3 DEF Copied
<1>2. Cameras!RefusedForAReason
  BY DEF CloneInv, Refused, Cameras!RefusedForAReason
<1>3. Cameras!RestartIsMarked
  BY DEF CloneInv, Cameras!RestartIsMarked
<1>. QED  BY <1>1, <1>2, <1>3 DEF Cameras!SuccessIsCopy

(***************************************************************************)
(* The camera list                                                         *)
(***************************************************************************)
\* The details that are sent are those that the user typed.
Typed == [kind : {"details"}, stage : Cameras!Stages, fields : UNION {[fs -> {"mine"}] : fs \in SUBSET Cameras!Fields}]
CameraWrite == Cameras!OrderWrite \cup Cameras!StatusWrite \cup Cameras!TypeWrite \cup Typed

\* What a write is about: the types of two cameras are two things.
About(r) == IF r.kind = "type" THEN r.camera ELSE r.kind
OnlyOne(of) ==
    \A j, k \in DOMAIN camerasRequests : About(camerasRequests[j]) = of /\ About(camerasRequests[k]) = of => j = k

ManageTypes ==
    /\ camerasServer \in Cameras!File /\ camerasConfig \in Cameras!File /\ camerasRequests \in Seq(CameraWrite)
    /\ orderedCameras \in Cameras!Orders /\ dragging \in BOOLEAN
    /\ editor \in [open : BOOLEAN, details : [Cameras!Fields -> Cameras!Texts]]

\* What a write of the order says of the file and of the rows.
OrderIs(r) ==
    /\ r.stage = "taken" => camerasServer.order = r.order
    /\ camerasConfig.order = r.order => orderedCameras = camerasConfig.order \/ dragging
OrderInv ==
    "order" \in camerasCrossed \/
    /\ OnlyOne("order")
    /\ \A j \in DOMAIN camerasRequests : camerasRequests[j].kind = "order" => OrderIs(camerasRequests[j])
    /\ orderedCameras # camerasConfig.order => dragging \/ Cameras!Pending("order")

\* A camera that is being disabled, or is, has been told to be off, and nothing after that.
Disabling == (\E j \in DOMAIN camerasRequests : camerasRequests[j].kind = "status" /\ ~camerasRequests[j].enabled) \/ ~camerasServer.enabled
ToldOff == IF camerasWire = <<>> THEN ~enabled ELSE ~camerasWire[Len(camerasWire)]
StatusInv ==
    /\ camerasWire \in Seq(BOOLEAN) /\ enabled \in BOOLEAN
    /\ OnlyOne("status")
    /\ \A j \in DOMAIN camerasRequests :
          camerasRequests[j].kind = "status" /\ camerasRequests[j].stage = "taken" => camerasServer.enabled = camerasRequests[j].enabled
    /\ camerasConfig.enabled # camerasServer.enabled =>
          \E j \in DOMAIN camerasRequests : camerasRequests[j].kind = "status" /\ camerasRequests[j].stage = "taken"
    /\ "on" \in camerasCrossed \/ (Disabling => ToldOff)

\* A type that was saved is the one in the file, unless another is.
TypeTaken(c) == \E j \in DOMAIN camerasRequests : About(camerasRequests[j]) = c /\ camerasRequests[j].stage = "taken"
TypeIs(c) ==
    /\ OnlyOne(c)
    /\ \A j \in DOMAIN camerasRequests : About(camerasRequests[j]) = c /\ camerasRequests[j].stage = "taken"
          => camerasServer.type[c] = camerasRequests[j].type
    /\ TypeTaken(c) \/ localOverrides[c] \in {Null, camerasServer.type[c]}
TypeInv ==
    /\ localOverrides \in [Cameras!ManageCameras -> Cameras!Types \cup {Null}]
    /\ "type" \in camerasCrossed \/ \A c \in Cameras!ManageCameras : TypeIs(c)

\* An open editor shows the client's copy, and what the user typed.
EditorInv == editor.open => \A f \in Cameras!Fields : editor.details[f] \in {camerasConfig.details[f], "mine"}

ManageInv == ManageTypes /\ OrderInv /\ StatusInv /\ TypeInv /\ EditorInv

\* A sequence without its i-th element.
LEMMA WithoutOne ==
    ASSUME NEW S, NEW q \in Seq(S), NEW i \in DOMAIN q
    PROVE  LET r == SubSeq(q, 1, i - 1) \o SubSeq(q, i + 1, Len(q)) IN
           /\ r \in Seq(S) /\ Len(q) \in Nat /\ DOMAIN q = 1..Len(q) /\ DOMAIN r = 1..(Len(q) - 1)
           /\ \A j \in 1..(Len(q) - 1) : r[j] = IF j < i THEN q[j] ELSE q[j + 1]
<1>. DEFINE a == SubSeq(q, 1, i - 1)
            b == SubSeq(q, i + 1, Len(q))
            r == a \o b
<1>1. i \in 1..Len(q) /\ Len(q) \in Nat /\ DOMAIN q = 1..Len(q)
  OBVIOUS
<1>2. a \in Seq(S) /\ Len(a) = i - 1 /\ \A j \in 1..(i - 1) : a[j] = q[j]
  BY <1>1, SubSeqProperties
<1>3. b \in Seq(S) /\ Len(b) = Len(q) - i /\ \A j \in 1..(Len(q) - i) : b[j] = q[i + j]
  BY <1>1, SubSeqProperties
<1>4. /\ r \in Seq(S) /\ Len(r) = Len(a) + Len(b)
      /\ \A j \in 1..(Len(a) + Len(b)) : r[j] = IF j <= Len(a) THEN a[j] ELSE b[j - Len(a)]
  <2>1. \A x, y \in Seq(S) : x \o y \in Seq(S) /\ Len(x \o y) = Len(x) + Len(y)
    BY ConcatProperties
  <2>2. \A x, y \in Seq(S) : \A j \in 1..(Len(x) + Len(y)) :
            (x \o y)[j] = IF j <= Len(x) THEN x[j] ELSE y[j - Len(x)]
    BY ConcatProperties
  <2>. QED  BY <1>2, <1>3, <2>1, <2>2
<1>. HIDE DEF a, b, r
<1>5. Len(r) = Len(q) - 1 /\ \A j \in 1..(Len(q) - 1) : r[j] = IF j < i THEN q[j] ELSE q[j + 1]
  <2>. SUFFICES ASSUME NEW j \in 1..(Len(q) - 1) PROVE r[j] = IF j < i THEN q[j] ELSE q[j + 1]
    BY <1>1, <1>2, <1>3, <1>4
  <2>1. CASE j < i
    <3>1. r[j] = a[j]
      BY <1>1, <1>2, <1>3, <1>4, <2>1
    <3>. QED  BY <1>1, <1>2, <2>1, <3>1
  <2>2. CASE ~(j < i)
    <3>1. r[j] = b[j - (i - 1)]
      BY <1>1, <1>2, <1>3, <1>4, <2>2
    <3>2. j - (i - 1) \in 1..(Len(q) - i) /\ i + (j - (i - 1)) = j + 1
      BY <1>1, <2>2
    <3>3. b[j - (i - 1)] = q[i + (j - (i - 1))]
      BY <1>3, <3>2
    <3>. QED  BY <2>2, <3>1, <3>2, <3>3
  <2>. QED  BY <2>1, <2>2
<1>6. DOMAIN r = 1..(Len(q) - 1)
  BY <1>4, <1>5
<1>. QED  BY <1>1, <1>4, <1>5, <1>6 DEF r, a, b

\* One element less: what is left was there, at its place or at the next one.
LEMMA LeftIsOld ==
    ASSUME NEW S, NEW q \in Seq(S), NEW i \in DOMAIN q, NEW r, r = Cameras!RemoveAt(q, i)
    PROVE  /\ r \in Seq(S)
           /\ \A j \in DOMAIN r : \E k \in DOMAIN q \ {i} : r[j] = q[k] /\ ((k = j /\ j < i) \/ (k = j + 1 /\ j >= i))
           /\ \A k \in DOMAIN q \ {i} : \E j \in DOMAIN r : r[j] = q[k]
<1>1. i \in 1..Len(q) /\ Len(q) \in Nat /\ DOMAIN q = 1..Len(q)
  OBVIOUS
<1>2. /\ r \in Seq(S) /\ DOMAIN r = 1..(Len(q) - 1)
      /\ \A j \in 1..(Len(q) - 1) : r[j] = IF j < i THEN q[j] ELSE q[j + 1]
  <2>. DEFINE w == SubSeq(q, 1, i - 1) \o SubSeq(q, i + 1, Len(q))
  <2>1. /\ w \in Seq(S) /\ DOMAIN w = 1..(Len(q) - 1)
        /\ \A j \in 1..(Len(q) - 1) : w[j] = IF j < i THEN q[j] ELSE q[j + 1]
    BY WithoutOne
  <2>2. r = w
    BY DEF Cameras!RemoveAt
  <2>. HIDE DEF w
  <2>. QED  BY <2>1, <2>2
<1>3. ASSUME NEW j \in DOMAIN r
      PROVE  \E k \in DOMAIN q \ {i} : r[j] = q[k] /\ ((k = j /\ j < i) \/ (k = j + 1 /\ j >= i))
  <2>1. CASE j < i
    BY <1>1, <1>2, <1>3, <2>1
  <2>2. CASE ~(j < i)
    <3>1. j + 1 \in DOMAIN q \ {i} /\ r[j] = q[j + 1] /\ j >= i
      BY <1>1, <1>2, <1>3, <2>2
    <3>. QED  BY <3>1
  <2>. QED  BY <2>1, <2>2
<1>4. ASSUME NEW k \in DOMAIN q \ {i} PROVE \E j \in DOMAIN r : r[j] = q[k]
  <2>1. CASE k < i
    BY <1>1, <1>2, <1>4, <2>1
  <2>2. CASE k > i
    <3>1. k - 1 \in 1..(Len(q) - 1) /\ ~(k - 1 < i) /\ (k - 1) + 1 = k
      BY <1>1, <1>4, <2>2
    <3>. QED  BY <1>2, <3>1
  <2>. QED  BY <1>1, <1>4, <2>1, <2>2
<1>. QED  BY <1>2, <1>3, <1>4

LEMMA WriteIs ==
    ASSUME NEW r \in CameraWrite
    PROVE  /\ r.kind = "order" => r \in Cameras!OrderWrite
           /\ r.kind = "status" => r \in Cameras!StatusWrite
           /\ r.kind = "type" => r \in Cameras!TypeWrite
           /\ r.kind = "details" => r \in Typed
           /\ r.kind \in {"order", "status", "type", "details"} /\ r.stage \in Cameras!Stages
           /\ About(r) \in {"order", "status", "details", "a", "b"}
           /\ IF r.kind = "type" THEN About(r) \in {"a", "b"} ELSE About(r) = r.kind
  BY DEF CameraWrite, Cameras!OrderWrite, Cameras!StatusWrite, Cameras!TypeWrite, Typed, About, Cameras!ManageCameras

\* A write is taken or fails: it stays what it is.
LEMMA StagedIs ==
    ASSUME NEW r \in CameraWrite, NEW s \in Cameras!Stages
    PROVE  LET t == [r EXCEPT !.stage = s] IN
           /\ t \in CameraWrite /\ t.stage = s /\ t.kind = r.kind /\ About(t) = About(r)
           /\ r.kind = "order" => t.order = r.order
           /\ r.kind = "status" => t.enabled = r.enabled
           /\ r.kind = "type" => t.type = r.type
<1>. USE DEF CameraWrite, About
<1>1. CASE r \in Cameras!OrderWrite
  BY <1>1 DEF Cameras!OrderWrite
<1>2. CASE r \in Cameras!StatusWrite
  BY <1>2 DEF Cameras!StatusWrite
<1>3. CASE r \in Cameras!TypeWrite
  BY <1>3 DEF Cameras!TypeWrite
<1>4. CASE r \in Typed
  BY <1>4 DEF Typed
<1>. QED  BY <1>1, <1>2, <1>3, <1>4

\* What a request that is asked leaves of the others, and what one that is served or ends does.
LEMMA WriteAsked ==
    ASSUME camerasRequests \in Seq(CameraWrite), NEW r \in CameraWrite, Cameras!Asked(r)
    PROVE  /\ camerasRequests' \in Seq(CameraWrite)
           /\ \A j \in DOMAIN camerasRequests' : camerasRequests'[j] = r \/ (j \in DOMAIN camerasRequests /\ camerasRequests'[j] = camerasRequests[j])
           /\ \A j \in DOMAIN camerasRequests : j \in DOMAIN camerasRequests' /\ camerasRequests'[j] = camerasRequests[j]
           /\ \E j \in DOMAIN camerasRequests' : camerasRequests'[j] = r
           /\ \A of : OnlyOne(of) /\ (About(r) = of => \A j \in DOMAIN camerasRequests : About(camerasRequests[j]) # of) => OnlyOne(of)'
<1>. DEFINE n == Len(camerasRequests)
<1>1. /\ camerasRequests' \in Seq(CameraWrite) /\ n \in Nat /\ DOMAIN camerasRequests = 1..n /\ DOMAIN camerasRequests' = 1..(n + 1)
      /\ camerasRequests'[n + 1] = r /\ \A j \in 1..n : camerasRequests'[j] = camerasRequests[j]
  BY DEF Cameras!Asked
<1>. HIDE DEF n
<1>2. \A j \in 1..(n + 1) : j = n + 1 \/ j \in 1..n
  BY <1>1
<1>3. ASSUME NEW of, OnlyOne(of), About(r) = of => \A j \in DOMAIN camerasRequests : About(camerasRequests[j]) # of,
             NEW j \in 1..(n + 1), NEW k \in 1..(n + 1), About(camerasRequests'[j]) = of, About(camerasRequests'[k]) = of
      PROVE  j = k
  BY <1>1, <1>2, <1>3 DEF OnlyOne
<1>4. ASSUME NEW of, OnlyOne(of), About(r) = of => \A j \in DOMAIN camerasRequests : About(camerasRequests[j]) # of
      PROVE  OnlyOne(of)'
  BY <1>1, <1>3, <1>4 DEF OnlyOne, About
<1>5. \A j \in DOMAIN camerasRequests' : camerasRequests'[j] = r \/ (j \in DOMAIN camerasRequests /\ camerasRequests'[j] = camerasRequests[j])
  BY <1>1, <1>2
<1>6. \A j \in DOMAIN camerasRequests : j \in DOMAIN camerasRequests' /\ camerasRequests'[j] = camerasRequests[j]
  BY <1>1
<1>7. n + 1 \in DOMAIN camerasRequests'
  BY <1>1
<1>. QED  BY <1>1, <1>4, <1>5, <1>6, <1>7

LEMMA WriteStaged ==
    ASSUME camerasRequests \in Seq(CameraWrite), NEW i \in DOMAIN camerasRequests, NEW s \in Cameras!Stages,
           camerasRequests' = [camerasRequests EXCEPT ![i].stage = s]
    PROVE  /\ camerasRequests' \in Seq(CameraWrite) /\ DOMAIN camerasRequests' = DOMAIN camerasRequests
           /\ camerasRequests'[i] = [camerasRequests[i] EXCEPT !.stage = s] /\ camerasRequests'[i].stage = s
           /\ \A j \in DOMAIN camerasRequests : j # i => camerasRequests'[j] = camerasRequests[j]
           /\ \A j \in DOMAIN camerasRequests :
                 /\ camerasRequests'[j].kind = camerasRequests[j].kind /\ About(camerasRequests'[j]) = About(camerasRequests[j])
                 /\ camerasRequests[j].kind = "order" => camerasRequests'[j].order = camerasRequests[j].order
                 /\ camerasRequests[j].kind = "status" => camerasRequests'[j].enabled = camerasRequests[j].enabled
                 /\ camerasRequests[j].kind = "type" => camerasRequests'[j].type = camerasRequests[j].type
           /\ \A of : OnlyOne(of) => OnlyOne(of)'
<1>. DEFINE r == camerasRequests[i]
            t == [r EXCEPT !.stage = s]
<1>1. r \in CameraWrite
  OBVIOUS
<1>2. /\ t \in CameraWrite /\ t.stage = s /\ t.kind = r.kind /\ About(t) = About(r)
      /\ r.kind = "order" => t.order = r.order
      /\ r.kind = "status" => t.enabled = r.enabled
      /\ r.kind = "type" => t.type = r.type
  BY <1>1, StagedIs
<1>3. camerasRequests' = [camerasRequests EXCEPT ![i] = t]
  OBVIOUS
<1>. HIDE DEF t
<1>4. /\ camerasRequests' \in Seq(CameraWrite) /\ DOMAIN camerasRequests' = DOMAIN camerasRequests
      /\ camerasRequests'[i] = t /\ \A j \in DOMAIN camerasRequests : j # i => camerasRequests'[j] = camerasRequests[j]
  BY <1>2, <1>3
<1>5. \A j \in DOMAIN camerasRequests :
        /\ camerasRequests'[j].kind = camerasRequests[j].kind /\ About(camerasRequests'[j]) = About(camerasRequests[j])
        /\ camerasRequests[j].kind = "order" => camerasRequests'[j].order = camerasRequests[j].order
        /\ camerasRequests[j].kind = "status" => camerasRequests'[j].enabled = camerasRequests[j].enabled
        /\ camerasRequests[j].kind = "type" => camerasRequests'[j].type = camerasRequests[j].type
  BY <1>2, <1>4
<1>6. ASSUME NEW of, OnlyOne(of) PROVE OnlyOne(of)'
  <2>1. \A j \in DOMAIN camerasRequests : About(camerasRequests'[j]) = About(camerasRequests[j])
    BY <1>5
  <2>2. ASSUME NEW j \in DOMAIN camerasRequests, NEW k \in DOMAIN camerasRequests,
               About(camerasRequests'[j]) = of, About(camerasRequests'[k]) = of
        PROVE  j = k
    BY <1>6, <2>1, <2>2 DEF OnlyOne
  <2>. QED  BY <1>4, <2>2 DEF OnlyOne, About
<1>. QED  BY <1>2, <1>4, <1>5, <1>6 DEF t

LEMMA WriteEnds ==
    ASSUME camerasRequests \in Seq(CameraWrite), NEW i \in DOMAIN camerasRequests, Cameras!ManageEnded(i)
    PROVE  /\ camerasRequests' \in Seq(CameraWrite)
           /\ \A j \in DOMAIN camerasRequests' : \E k \in DOMAIN camerasRequests \ {i} : camerasRequests'[j] = camerasRequests[k]
           /\ \A k \in DOMAIN camerasRequests \ {i} : \E j \in DOMAIN camerasRequests' : camerasRequests'[j] = camerasRequests[k]
           /\ \A of : OnlyOne(of) => OnlyOne(of)' /\ (About(camerasRequests[i]) = of => \A j \in DOMAIN camerasRequests' : About(camerasRequests'[j]) # of)
<1>. DEFINE q == camerasRequests
            r == camerasRequests'
<1>1. /\ r \in Seq(CameraWrite)
      /\ \A j \in DOMAIN r : \E k \in DOMAIN q \ {i} : r[j] = q[k] /\ ((k = j /\ j < i) \/ (k = j + 1 /\ j >= i))
      /\ \A k \in DOMAIN q \ {i} : \E j \in DOMAIN r : r[j] = q[k]
  BY LeftIsOld DEF Cameras!ManageEnded
<1>2. DOMAIN q \subseteq Nat /\ DOMAIN r \subseteq Nat
  BY <1>1
<1>3. ASSUME NEW of, OnlyOne(of), NEW j \in DOMAIN r, NEW k \in DOMAIN r, About(r[j]) = of, About(r[k]) = of
      PROVE  j = k /\ About(q[i]) # of
  <2>1. PICK x \in DOMAIN q \ {i} : r[j] = q[x] /\ ((x = j /\ j < i) \/ (x = j + 1 /\ j >= i))
    BY <1>1
  <2>2. PICK y \in DOMAIN q \ {i} : r[k] = q[y] /\ ((y = k /\ k < i) \/ (y = k + 1 /\ k >= i))
    BY <1>1
  <2>3. x = y /\ About(q[i]) # of
    BY <1>3, <2>1, <2>2 DEF OnlyOne
  <2>. QED  BY <1>2, <2>1, <2>2, <2>3
<1>4. ASSUME NEW of, OnlyOne(of) PROVE OnlyOne(of)' /\ (About(q[i]) = of => \A j \in DOMAIN r : About(r[j]) # of)
  BY <1>3, <1>4 DEF OnlyOne, About
<1>5. \A j \in DOMAIN r : \E k \in DOMAIN q \ {i} : r[j] = q[k]
  BY <1>1
<1>. QED  BY <1>1, <1>4, <1>5

\* The writes about one thing are the same after a step as before.
Kept(of) ==
    /\ OnlyOne(of) => OnlyOne(of)'
    /\ \A j \in DOMAIN camerasRequests' : About(camerasRequests'[j]) = of => \E k \in DOMAIN camerasRequests : camerasRequests'[j] = camerasRequests[k]
    /\ \A k \in DOMAIN camerasRequests : About(camerasRequests[k]) = of => \E j \in DOMAIN camerasRequests' : camerasRequests'[j] = camerasRequests[k]

LEMMA AskedKept ==
    ASSUME camerasRequests \in Seq(CameraWrite), NEW r, Cameras!Asked(r), NEW of, About(r) # of
    PROVE  Kept(of)
<1>. DEFINE n == Len(camerasRequests)
<1>1. /\ n \in Nat /\ DOMAIN camerasRequests = 1..n /\ DOMAIN camerasRequests' = 1..(n + 1)
      /\ camerasRequests'[n + 1] = r /\ \A j \in 1..n : camerasRequests'[j] = camerasRequests[j]
  BY DEF Cameras!Asked
<1>. HIDE DEF n
<1>2. \A j \in 1..(n + 1) : j = n + 1 \/ j \in 1..n
  BY <1>1
<1>3. OnlyOne(of) => OnlyOne(of)'
  BY <1>1, <1>2 DEF OnlyOne, About
<1>4. ASSUME NEW k \in 1..n, About(camerasRequests[k]) = of PROVE \E j \in 1..(n + 1) : camerasRequests'[j] = camerasRequests[k]
  BY <1>1
<1>. QED  BY <1>1, <1>2, <1>3, <1>4 DEF Kept

LEMMA StagedKept ==
    ASSUME camerasRequests \in Seq(CameraWrite), NEW i \in DOMAIN camerasRequests, NEW s \in Cameras!Stages,
           camerasRequests' = [camerasRequests EXCEPT ![i].stage = s], NEW of, About(camerasRequests[i]) # of
    PROVE  Kept(of)
<1>1. /\ DOMAIN camerasRequests' = DOMAIN camerasRequests
      /\ \A j \in DOMAIN camerasRequests : j # i => camerasRequests'[j] = camerasRequests[j]
      /\ About(camerasRequests'[i]) = About(camerasRequests[i])
      /\ OnlyOne(of) => OnlyOne(of)'
  BY WriteStaged
<1>. QED  BY <1>1 DEF Kept

LEMMA EndedKept ==
    ASSUME camerasRequests \in Seq(CameraWrite), NEW i \in DOMAIN camerasRequests, Cameras!ManageEnded(i),
           NEW of, About(camerasRequests[i]) # of
    PROVE  Kept(of)
<1>1. /\ \A j \in DOMAIN camerasRequests' : \E k \in DOMAIN camerasRequests \ {i} : camerasRequests'[j] = camerasRequests[k]
      /\ \A k \in DOMAIN camerasRequests \ {i} : \E j \in DOMAIN camerasRequests' : camerasRequests'[j] = camerasRequests[k]
      /\ OnlyOne(of) => OnlyOne(of)'
  BY WriteEnds
<1>. QED  BY <1>1 DEF Kept

LEMMA SameKept == ASSUME UNCHANGED camerasRequests, NEW of PROVE Kept(of)
  BY DEF Kept, OnlyOne, About

\* What the server writes.
LEMMA FileWritten ==
    ASSUME camerasServer \in Cameras!File, NEW r \in CameraWrite
    PROVE  /\ Cameras!Applied(r) \in Cameras!File
           /\ Cameras!Applied(r).order = IF r.kind = "order" THEN r.order ELSE camerasServer.order
           /\ Cameras!Applied(r).enabled = IF r.kind = "status" THEN r.enabled ELSE camerasServer.enabled
           /\ r.kind # "type" => Cameras!Applied(r).type = camerasServer.type
           /\ r.kind = "type" => Cameras!Applied(r).type = [camerasServer.type EXCEPT ![r.camera] = r.type]
<1>. USE DEF Cameras!File
<1>1. CASE r.kind = "order"
  BY <1>1, WriteIs DEF Cameras!Applied, Cameras!OrderWrite
<1>2. CASE r.kind = "status"
  BY <1>2, WriteIs DEF Cameras!Applied, Cameras!StatusWrite
<1>3. CASE r.kind = "type"
  <2>1. r.camera \in Cameras!ManageCameras /\ r.type \in Cameras!Types
    BY <1>3, WriteIs DEF Cameras!TypeWrite
  <2>2. Cameras!Applied(r) = [camerasServer EXCEPT !.type = [camerasServer.type EXCEPT ![r.camera] = r.type]]
    BY <1>3 DEF Cameras!Applied
  <2>. DEFINE t == [camerasServer.type EXCEPT ![r.camera] = r.type]
  <2>3. t \in [Cameras!ManageCameras -> Cameras!Types]
    BY <2>1
  <2>. HIDE DEF t
  <2>. QED  BY <1>3, <2>2, <2>3 DEF t
<1>4. CASE r.kind = "details"
  <2>. DEFINE d == [f \in Cameras!Fields |-> IF f \in DOMAIN r.fields THEN r.fields[f] ELSE camerasServer.details[f]]
  <2>1. \A f \in DOMAIN r.fields : r.fields[f] = "mine"
    BY <1>4, WriteIs DEF Typed
  <2>2. d \in [Cameras!Fields -> Cameras!Texts]
    BY <2>1 DEF Cameras!Texts
  <2>3. Cameras!Applied(r) = [camerasServer EXCEPT !.details = d]
    BY <1>4 DEF Cameras!Applied
  <2>. HIDE DEF d
  <2>. QED  BY <1>4, <2>2, <2>3
<1>. QED  BY <1>1, <1>2, <1>3, <1>4, WriteIs

\* A configuration that is read brings the rows in its order.
Reads ==
    /\ camerasConfig' = camerasServer
    /\ orderedCameras' = IF camerasConfig'.order # camerasConfig.order THEN camerasConfig'.order ELSE orderedCameras

(***************************************************************************)
(* The rows                                                                *)
(***************************************************************************)
LEMMA OrderWrites ==
    ASSUME ManageTypes
    PROVE  /\ \A j \in DOMAIN camerasRequests : camerasRequests[j].kind = "order" <=> About(camerasRequests[j]) = "order"
           /\ Cameras!Pending("order") <=> \E j \in DOMAIN camerasRequests : About(camerasRequests[j]) = "order"
<1>1. ASSUME NEW j \in DOMAIN camerasRequests PROVE camerasRequests[j].kind = "order" <=> About(camerasRequests[j]) = "order"
  <2>1. camerasRequests[j] \in CameraWrite
    BY DEF ManageTypes
  <2>. QED  BY <2>1, WriteIs
<1>. QED  BY <1>1 DEF Cameras!Pending

\* A step that leaves the writes of the order alone.
LEMMA OrderKept ==
    ASSUME ManageTypes, ManageTypes', OrderInv, Kept("order"), camerasCrossed \subseteq camerasCrossed',
           camerasServer'.order = camerasServer.order,
           \/ camerasConfig'.order = camerasConfig.order /\ (dragging' \/ UNCHANGED <<orderedCameras, dragging>>)
           \/ Reads /\ UNCHANGED dragging
    PROVE  OrderInv'
<1>. SUFFICES ASSUME "order" \notin camerasCrossed PROVE OrderInv'
  BY DEF OrderInv
<1>1. ASSUME NEW j \in DOMAIN camerasRequests'
      PROVE  camerasRequests'[j].kind = "order" <=> About(camerasRequests'[j]) = "order"
  <2>1. camerasRequests'[j] \in CameraWrite
    BY DEF ManageTypes
  <2>. QED  BY <2>1, WriteIs
<1>2. OnlyOne("order")' /\ (Cameras!Pending("order") => Cameras!Pending("order")')
  <2>1. ASSUME NEW k \in DOMAIN camerasRequests, camerasRequests[k].kind = "order" PROVE Cameras!Pending("order")'
    BY <1>1, <2>1, OrderWrites DEF Kept, Cameras!Pending
  <2>. QED  BY <2>1 DEF Kept, OrderInv, Cameras!Pending
<1>3. ASSUME NEW j \in DOMAIN camerasRequests', camerasRequests'[j].kind = "order" PROVE OrderIs(camerasRequests[j])'
  <2>1. PICK k \in DOMAIN camerasRequests : camerasRequests'[j] = camerasRequests[k]
    BY <1>3, <1>1 DEF Kept
  <2>2. OrderIs(camerasRequests[k])
    BY <1>3, <2>1 DEF OrderInv
  <2>. QED  BY <2>1, <2>2 DEF OrderIs, Reads
<1>4. (orderedCameras # camerasConfig.order)' => dragging' \/ Cameras!Pending("order")'
  BY <1>2 DEF OrderInv, Reads
<1>. QED  BY <1>2, <1>3, <1>4 DEF OrderInv

(***************************************************************************)
(* The types of the camera list                                            *)
(***************************************************************************)
LEMMA ServerIsFile == ASSUME camerasServer \in Cameras!File, Cameras!ManageOtherClient PROVE camerasServer' \in Cameras!File
<1>1. CASE camerasServer' = [camerasServer EXCEPT !.details["name"] = "theirs"]
  <2>. DEFINE d == [camerasServer.details EXCEPT !["name"] = "theirs"]
  <2>1. d \in [Cameras!Fields -> Cameras!Texts] /\ camerasServer' = [camerasServer EXCEPT !.details = d]
    BY <1>1 DEF Cameras!File, Cameras!Texts
  <2>. HIDE DEF d
  <2>. QED  BY <2>1 DEF Cameras!File
<1>2. CASE \E o \in Cameras!Orders : camerasServer' = [camerasServer EXCEPT !.order = o]
  BY <1>2 DEF Cameras!File
<1>3. CASE camerasServer' = [camerasServer EXCEPT !.type["a"] = "lpr"]
  <2>. DEFINE d == [camerasServer.type EXCEPT !["a"] = "lpr"]
  <2>1. d \in [Cameras!ManageCameras -> Cameras!Types] /\ camerasServer' = [camerasServer EXCEPT !.type = d]
    BY <1>3 DEF Cameras!File, Cameras!Types
  <2>. HIDE DEF d
  <2>. QED  BY <2>1 DEF Cameras!File
<1>4. CASE UNCHANGED camerasServer
  BY <1>4
<1>. QED  BY <1>1, <1>2, <1>3, <1>4 DEF Cameras!ManageOtherClient

\* A configuration that arrives.
LEMMA ArrivesTypes ==
    ASSUME ManageTypes, Reads, UNCHANGED <<camerasServer, dragging>>, camerasRequests' \in Seq(CameraWrite),
           \/ UNCHANGED editor
           \/ editor' = [editor EXCEPT !.details = camerasConfig'.details]
           \/ editor' = [editor EXCEPT !.open = FALSE]
    PROVE  ManageTypes'
<1>1. camerasServer \in Cameras!File /\ camerasConfig' = camerasServer /\ orderedCameras' \in Cameras!Orders
  BY DEF ManageTypes, Reads, Cameras!File
<1>2. editor' \in [open : BOOLEAN, details : [Cameras!Fields -> Cameras!Texts]]
  <2>1. camerasConfig'.details \in [Cameras!Fields -> Cameras!Texts]
    BY <1>1 DEF Cameras!File
  <2>. QED  BY <2>1 DEF ManageTypes
<1>. QED  BY <1>1, <1>2 DEF ManageTypes

LEMMA ManageTypesNext == ASSUME ManageTypes, EditorInv, Cameras!ManageNext PROVE ManageTypes'
<1>. USE DEF ManageTypes
<1>1. /\ camerasConfig.order \in Cameras!Orders /\ camerasConfig.details \in [Cameras!Fields -> Cameras!Texts]
      /\ \A i \in DOMAIN camerasRequests : camerasRequests[i] \in CameraWrite
  BY DEF Cameras!File
<1>2. ASSUME NEW r \in CameraWrite, Cameras!Asked(r) PROVE camerasRequests' \in Seq(CameraWrite)
  BY <1>2, WriteAsked
<1>3. CASE Cameras!Drag \/ Cameras!Dispatch
  BY <1>3 DEF Cameras!Drag, Cameras!Dispatch
<1>4. CASE Cameras!handleReorderDragEnd
  <2>. DEFINE r == [kind |-> "order", stage |-> "asked", order |-> orderedCameras, enabledCameras |-> camerasConfig.order]
  <2>1. r \in CameraWrite
    BY <1>1 DEF CameraWrite, Cameras!OrderWrite, Cameras!Stages
  <2>2. UNCHANGED camerasRequests \/ Cameras!Asked(r)
    BY <1>4 DEF Cameras!handleReorderDragEnd
  <2>. HIDE DEF r
  <2>. QED  BY <1>2, <1>4, <2>1, <2>2 DEF Cameras!handleReorderDragEnd
<1>5. CASE Cameras!EnableAgain \/ \E s \in {"on", "off", "disabled"} : Cameras!handleChange(s)
  <2>. DEFINE r(on) == [kind |-> "status", stage |-> "asked", enabled |-> on]
  <2>1. \A on \in BOOLEAN : r(on) \in CameraWrite
    BY DEF CameraWrite, Cameras!StatusWrite, Cameras!Stages
  <2>2. UNCHANGED camerasRequests \/ \E on \in BOOLEAN : Cameras!Asked(r(on))
    BY <1>5 DEF Cameras!EnableAgain, Cameras!handleChange
  <2>. HIDE DEF r
  <2>3. camerasRequests' \in Seq(CameraWrite)
    BY <1>2, <2>1, <2>2
  <2>. QED  BY <1>5, <2>3 DEF Cameras!EnableAgain, Cameras!handleChange
<1>6. CASE \E c \in Cameras!ManageCameras, t \in Cameras!Types : Cameras!handleTypeChange(c, t)
  <2>1. PICK c \in Cameras!ManageCameras, t \in Cameras!Types : Cameras!handleTypeChange(c, t)
    BY <1>6
  <2>. DEFINE r == [kind |-> "type", stage |-> "asked", camera |-> c, type |-> t]
  <2>2. r \in CameraWrite
    BY DEF CameraWrite, Cameras!TypeWrite, Cameras!Stages
  <2>3. Cameras!Asked(r)
    BY <2>1 DEF Cameras!handleTypeChange
  <2>. HIDE DEF r
  <2>. QED  BY <1>2, <2>1, <2>2, <2>3 DEF Cameras!handleTypeChange
<1>7. CASE Cameras!OpenEditor \/ Cameras!CloseEditor \/ \E f \in Cameras!Fields : Cameras!Type(f)
  <2>1. editor' \in [open : BOOLEAN, details : [Cameras!Fields -> Cameras!Texts]]
    <3>1. CASE Cameras!OpenEditor \/ Cameras!CloseEditor
      <4>1. \/ editor' = [open |-> TRUE, details |-> camerasConfig.details]
            \/ editor' = [editor EXCEPT !.open = FALSE]
        BY <3>1 DEF Cameras!OpenEditor, Cameras!CloseEditor
      <4>2. camerasConfig.details \in [Cameras!Fields -> Cameras!Texts] /\ editor \in [open : BOOLEAN, details : [Cameras!Fields -> Cameras!Texts]]
        BY <1>1
      <4>. HIDE DEF ManageTypes
      <4>3. CASE editor' = [open |-> TRUE, details |-> camerasConfig.details]
        BY <4>2, <4>3
      <4>4. CASE editor' = [editor EXCEPT !.open = FALSE]
        BY <4>2, <4>4
      <4>. QED  BY <4>1, <4>3, <4>4
    <3>2. CASE \E f \in Cameras!Fields : Cameras!Type(f)
      <4>1. PICK f \in Cameras!Fields : editor' = [editor EXCEPT !.details[f] = "mine"]
        BY <3>2 DEF Cameras!Type
      <4>. DEFINE d == [editor.details EXCEPT ![f] = "mine"]
      <4>2. d \in [Cameras!Fields -> Cameras!Texts] /\ editor' = [editor EXCEPT !.details = d]
        BY <4>1 DEF Cameras!Texts
      <4>. HIDE DEF d
      <4>. QED  BY <4>2
    <3>. QED  BY <1>7, <3>1, <3>2
  <2>. QED  BY <1>7, <2>1 DEF Cameras!OpenEditor, Cameras!CloseEditor, Cameras!Type
<1>8. CASE Cameras!manageOnSubmit
  <2>. DEFINE fs == [f \in Cameras!Changed |-> editor.details[f]]
              r == [kind |-> "details", stage |-> "asked", fields |-> fs]
  <2>1. Cameras!Changed \in SUBSET Cameras!Fields /\ \A f \in Cameras!Changed : editor.details[f] = "mine"
    BY <1>8 DEF Cameras!manageOnSubmit, Cameras!Changed, EditorInv
  <2>2. fs \in UNION {[F -> {"mine"}] : F \in SUBSET Cameras!Fields}
    <3>1. fs \in [Cameras!Changed -> {"mine"}]
      BY <2>1
    <3>. QED  BY <2>1, <3>1
  <2>3. \/ UNCHANGED camerasRequests /\ editor' = [editor EXCEPT !.open = FALSE]
        \/ Cameras!Asked(r) /\ UNCHANGED editor
    BY <1>8 DEF Cameras!manageOnSubmit
  <2>. HIDE DEF fs
  <2>4. r \in CameraWrite
    BY <2>2 DEF CameraWrite, Typed, Cameras!Stages
  <2>. HIDE DEF r
  <2>5. camerasRequests' \in Seq(CameraWrite) /\ editor' \in [open : BOOLEAN, details : [Cameras!Fields -> Cameras!Texts]]
    BY <1>2, <2>3, <2>4
  <2>. QED  BY <1>8, <2>5 DEF Cameras!manageOnSubmit
<1>9. CASE \E i \in DOMAIN camerasRequests : Cameras!Serve(i)
  <2>1. PICK i \in DOMAIN camerasRequests : Cameras!Serve(i)
    BY <1>9
  <2>2. PICK s \in Cameras!Stages : camerasRequests' = [camerasRequests EXCEPT ![i].stage = s]
    BY <2>1 DEF Cameras!Serve, Cameras!Stages
  <2>3. camerasRequests' \in Seq(CameraWrite)
    BY <2>2, WriteStaged
  <2>4. camerasServer' \in Cameras!File
    <3>1. camerasServer' = Cameras!Applied(camerasRequests[i]) \/ UNCHANGED camerasServer
      BY <2>1 DEF Cameras!Serve
    <3>2. camerasRequests[i] \in CameraWrite /\ camerasServer \in Cameras!File
      BY <1>1
    <3>3. Cameras!Applied(camerasRequests[i]) \in Cameras!File
      BY <3>2, FileWritten
    <3>. QED  BY <3>1, <3>2, <3>3
  <2>. QED  BY <2>1, <2>3, <2>4 DEF Cameras!Serve
<1>10. CASE \E i \in DOMAIN camerasRequests : Cameras!Succeeded(i)
  <2>1. PICK i \in DOMAIN camerasRequests : Cameras!Succeeded(i)
    BY <1>10
  <2>2. camerasRequests' \in Seq(CameraWrite)
    BY <2>1, WriteEnds DEF Cameras!Succeeded
  <2>. QED  BY <2>1, <2>2, ArrivesTypes DEF Cameras!Succeeded, Cameras!Arrives, Reads
<1>11. CASE \E i \in DOMAIN camerasRequests : Cameras!Failed(i)
  <2>1. PICK i \in DOMAIN camerasRequests : Cameras!Failed(i)
    BY <1>11
  <2>2. camerasRequests' \in Seq(CameraWrite)
    BY <2>1, WriteEnds DEF Cameras!Failed
  <2>3. orderedCameras' \in Cameras!Orders
    BY <1>1, <2>1, WriteIs DEF Cameras!Failed, Cameras!OrderWrite
  <2>. QED  BY <2>1, <2>2, <2>3 DEF Cameras!Failed
<1>12. CASE Cameras!ManageRevalidate
  BY <1>12, ArrivesTypes DEF Cameras!ManageRevalidate, Cameras!Arrives, Reads
<1>13. CASE Cameras!ManageOtherClient
  BY <1>13, ServerIsFile DEF Cameras!ManageOtherClient
<1>. QED  BY <1>3, <1>4, <1>5, <1>6, <1>7, <1>8, <1>9, <1>10, <1>11, <1>12, <1>13 DEF Cameras!ManageNext

LEMMA DragEndKeeps == ASSUME ManageTypes, ManageTypes', OrderInv, Cameras!handleReorderDragEnd PROVE OrderInv'
<1>. DEFINE r == [kind |-> "order", stage |-> "asked", order |-> orderedCameras, enabledCameras |-> camerasConfig.order]
<1>1. /\ dragging /\ ~dragging' /\ UNCHANGED <<camerasServer, camerasConfig, orderedCameras>>
      /\ camerasCrossed' = IF orderedCameras # camerasConfig.order /\ Cameras!Pending("order") THEN camerasCrossed \cup {"order"}
                           ELSE camerasCrossed
      /\ IF orderedCameras = camerasConfig.order THEN UNCHANGED camerasRequests ELSE Cameras!Asked(r)
  BY DEF Cameras!handleReorderDragEnd
<1>. SUFFICES ASSUME "order" \notin camerasCrossed' PROVE OrderInv'
  BY DEF OrderInv
<1>2. CASE orderedCameras = camerasConfig.order
  BY <1>1, <1>2 DEF OrderInv, OnlyOne, About, OrderIs, Cameras!Pending
<1>3. CASE orderedCameras # camerasConfig.order
  <2>1. ~Cameras!Pending("order") /\ "order" \notin camerasCrossed
    BY <1>1, <1>3
  <2>2. r \in CameraWrite /\ About(r) = "order" /\ r.kind = "order" /\ r.stage = "asked" /\ r.order = orderedCameras
    BY DEF CameraWrite, Cameras!OrderWrite, Cameras!Stages, About, ManageTypes, Cameras!File
  <2>. HIDE DEF r
  <2>3. camerasRequests \in Seq(CameraWrite) /\ Cameras!Asked(r)
    BY <1>1, <1>3 DEF ManageTypes
  <2>4. \A j \in DOMAIN camerasRequests : About(camerasRequests[j]) # "order"
    BY <2>1, OrderWrites
  <2>5. OnlyOne("order")'
    BY <2>1, <2>2, <2>3, <2>4, WriteAsked DEF OrderInv
  <2>6. ASSUME NEW j \in DOMAIN camerasRequests', camerasRequests'[j].kind = "order" PROVE OrderIs(camerasRequests[j])'
    <3>1. camerasRequests'[j] = r
      BY <2>1, <2>2, <2>3, <2>6, WriteAsked DEF Cameras!Pending
    <3>. QED  BY <1>1, <1>3, <2>2, <3>1 DEF OrderIs
  <2>7. Cameras!Pending("order")'
    BY <2>2, <2>3, WriteAsked DEF Cameras!Pending
  <2>. QED  BY <2>5, <2>6, <2>7 DEF OrderInv
<1>. QED  BY <1>2, <1>3

LEMMA OrderServed ==
    ASSUME ManageTypes, ManageTypes', OrderInv, NEW i \in DOMAIN camerasRequests, Cameras!Serve(i) PROVE OrderInv'
<1>1. PICK s \in Cameras!Stages :
        /\ camerasRequests' = [camerasRequests EXCEPT ![i].stage = s]
        /\ IF s = "taken" THEN camerasServer' = Cameras!Applied(camerasRequests[i]) ELSE UNCHANGED camerasServer
  BY DEF Cameras!Serve, Cameras!Stages
<1>2. camerasRequests[i] \in CameraWrite /\ camerasRequests \in Seq(CameraWrite) /\ camerasServer \in Cameras!File
  BY DEF ManageTypes
<1>3. UNCHANGED <<camerasConfig, orderedCameras, dragging, camerasCrossed>>
  BY DEF Cameras!Serve
<1>4. camerasServer'.order = IF s = "taken" /\ camerasRequests[i].kind = "order" THEN camerasRequests[i].order ELSE camerasServer.order
  <2>1. Cameras!Applied(camerasRequests[i]).order = IF camerasRequests[i].kind = "order" THEN camerasRequests[i].order ELSE camerasServer.order
    BY <1>2, FileWritten
  <2>. QED  BY <1>1, <2>1
<1>5. CASE camerasRequests[i].kind # "order"
  <2>1. Kept("order")
    BY <1>1, <1>2, <1>5, StagedKept, OrderWrites
  <2>. QED  BY <1>3, <1>4, <1>5, <2>1, OrderKept
<1>6. CASE camerasRequests[i].kind = "order"
  <2>. SUFFICES ASSUME "order" \notin camerasCrossed PROVE OrderInv'
    BY <1>3 DEF OrderInv
  <2>1. /\ DOMAIN camerasRequests' = DOMAIN camerasRequests /\ OnlyOne("order")'
        /\ camerasRequests'[i].stage = s /\ camerasRequests'[i].kind = "order" /\ camerasRequests'[i].order = camerasRequests[i].order
        /\ \A j \in DOMAIN camerasRequests : j # i => camerasRequests'[j] = camerasRequests[j]
    BY <1>1, <1>2, <1>6, WriteStaged DEF OrderInv
  <2>2. ASSUME NEW j \in DOMAIN camerasRequests', camerasRequests'[j].kind = "order" PROVE j = i
    BY <1>6, <2>1, <2>2, OrderWrites DEF OrderInv, OnlyOne
  <2>3. OrderIs(camerasRequests[i])
    BY <1>6 DEF OrderInv
  <2>4. OrderIs(camerasRequests[i])'
    BY <1>3, <1>4, <1>6, <2>1, <2>3 DEF OrderIs
  <2>5. Cameras!Pending("order")'
    BY <2>1 DEF Cameras!Pending
  <2>. QED  BY <1>3, <2>1, <2>2, <2>4, <2>5 DEF OrderInv
<1>. QED  BY <1>5, <1>6

LEMMA OrderEnds ==
    ASSUME ManageTypes, ManageTypes', OrderInv, NEW i \in DOMAIN camerasRequests, Cameras!Succeeded(i) \/ Cameras!Failed(i)
    PROVE  OrderInv'
<1>1. Cameras!ManageEnded(i) /\ UNCHANGED <<camerasServer, dragging>> /\ camerasRequests \in Seq(CameraWrite)
  BY DEF Cameras!Succeeded, Cameras!Failed, ManageTypes
<1>2. /\ Cameras!Succeeded(i) => Reads /\ camerasRequests[i].stage = "taken" /\ UNCHANGED camerasCrossed
      /\ Cameras!Failed(i) => /\ UNCHANGED camerasConfig
                              /\ IF camerasRequests[i].kind = "order"
                                 THEN /\ orderedCameras' = camerasRequests[i].enabledCameras
                                      /\ camerasCrossed' = IF camerasRequests[i].enabledCameras # camerasConfig.order
                                                           THEN camerasCrossed \cup {"order"} ELSE camerasCrossed
                                 ELSE UNCHANGED <<orderedCameras, camerasCrossed>>
  BY DEF Cameras!Succeeded, Cameras!Failed, Cameras!Arrives, Reads
<1>3. CASE camerasRequests[i].kind # "order"
  <2>1. Kept("order")
    BY <1>1, <1>3, EndedKept, OrderWrites
  <2>. QED  BY <1>1, <1>2, <1>3, <2>1, OrderKept
<1>4. CASE camerasRequests[i].kind = "order"
  <2>. SUFFICES ASSUME "order" \notin camerasCrossed, "order" \notin camerasCrossed' PROVE OrderInv'
    BY <1>2 DEF OrderInv
  <2>1. OnlyOne("order")' /\ \A j \in DOMAIN camerasRequests' : About(camerasRequests'[j]) # "order"
    BY <1>1, <1>4, WriteEnds, OrderWrites DEF OrderInv
  <2>2. \A j \in DOMAIN camerasRequests' : camerasRequests'[j].kind # "order"
    BY <2>1 DEF About
  <2>3. orderedCameras' = camerasConfig'.order \/ dragging'
    <3>1. OrderIs(camerasRequests[i])
      BY <1>4 DEF OrderInv
    <3>. QED  BY <1>1, <1>2, <1>4, <3>1 DEF OrderIs, Reads
  <2>. QED  BY <2>1, <2>2, <2>3 DEF OrderInv
<1>. QED  BY <1>3, <1>4

LEMMA OrderNext == ASSUME ManageTypes, ManageTypes', OrderInv, Cameras!ManageNext PROVE OrderInv'
<1>. DEFINE written(on) == [kind |-> "status", stage |-> "asked", enabled |-> on]
<1>1. CASE Cameras!Drag \/ Cameras!Dispatch \/ Cameras!OpenEditor \/ Cameras!CloseEditor \/ \E f \in Cameras!Fields : Cameras!Type(f)
  BY <1>1, SameKept, OrderKept
     DEF Cameras!Drag, Cameras!Dispatch, Cameras!OpenEditor, Cameras!CloseEditor, Cameras!Type
<1>2. ASSUME NEW r, r.kind # "order", About(r) # "order", Cameras!Asked(r),
             UNCHANGED <<camerasServer, camerasConfig, orderedCameras, dragging>>, camerasCrossed \subseteq camerasCrossed'
      PROVE  OrderInv'
  <2>1. Kept("order")
    BY <1>2, AskedKept DEF ManageTypes
  <2>. QED  BY <1>2, <2>1, OrderKept
<1>3. CASE Cameras!EnableAgain \/ \E s \in {"on", "off", "disabled"} : Cameras!handleChange(s)
  <2>1. \A on \in BOOLEAN : written(on).kind = "status" /\ About(written(on)) = "status"
    BY DEF About
  <2>2. /\ UNCHANGED <<camerasServer, camerasConfig, orderedCameras, dragging, camerasCrossed>>
        /\ UNCHANGED camerasRequests \/ \E on \in BOOLEAN : Cameras!Asked(written(on))
    BY <1>3 DEF Cameras!EnableAgain, Cameras!handleChange
  <2>. HIDE DEF written
  <2>. QED  BY <1>2, <2>1, <2>2, SameKept, OrderKept
<1>4. CASE \E c \in Cameras!ManageCameras, t \in Cameras!Types : Cameras!handleTypeChange(c, t)
  <2>1. PICK c \in Cameras!ManageCameras, t \in Cameras!Types : Cameras!handleTypeChange(c, t)
    BY <1>4
  <2>. DEFINE r == [kind |-> "type", stage |-> "asked", camera |-> c, type |-> t]
  <2>2. r.kind = "type" /\ About(r) = c /\ c \in {"a", "b"}
    BY DEF About, Cameras!ManageCameras
  <2>3. Cameras!Asked(r) /\ UNCHANGED <<camerasServer, camerasConfig, orderedCameras, dragging>> /\ camerasCrossed \subseteq camerasCrossed'
    BY <2>1 DEF Cameras!handleTypeChange
  <2>. HIDE DEF r
  <2>. QED  BY <1>2, <2>2, <2>3
<1>5. CASE Cameras!manageOnSubmit
  <2>. DEFINE r == [kind |-> "details", stage |-> "asked", fields |-> [f \in Cameras!Changed |-> editor.details[f]]]
  <2>1. r.kind = "details" /\ About(r) = "details"
    BY DEF About
  <2>2. /\ UNCHANGED <<camerasServer, camerasConfig, orderedCameras, dragging, camerasCrossed>>
        /\ UNCHANGED camerasRequests \/ Cameras!Asked(r)
    BY <1>5 DEF Cameras!manageOnSubmit
  <2>. HIDE DEF r
  <2>. QED  BY <1>2, <2>1, <2>2, SameKept, OrderKept
<1>6. CASE Cameras!handleReorderDragEnd
  BY <1>6, DragEndKeeps
<1>7. CASE \E i \in DOMAIN camerasRequests : Cameras!Serve(i) \/ Cameras!Succeeded(i) \/ Cameras!Failed(i)
  BY <1>7, OrderServed, OrderEnds
<1>8. CASE Cameras!ManageRevalidate
  BY <1>8, SameKept, OrderKept DEF Cameras!ManageRevalidate, Cameras!Arrives, Reads
<1>9. CASE Cameras!ManageOtherClient
  <2>1. UNCHANGED <<camerasConfig, orderedCameras, dragging, camerasRequests>> /\ camerasCrossed \subseteq camerasCrossed'
    BY <1>9 DEF Cameras!ManageOtherClient
  <2>2. CASE camerasServer'.order = camerasServer.order
    BY <2>1, <2>2, SameKept, OrderKept
  <2>3. CASE camerasServer'.order # camerasServer.order
    <3>1. camerasCrossed' = IF Cameras!Pending("order") THEN camerasCrossed \cup {"order"} ELSE camerasCrossed
      BY <1>9, <2>3 DEF Cameras!ManageOtherClient, ManageTypes, Cameras!File
    <3>. QED  BY <2>1, <3>1 DEF OrderInv, OnlyOne, About, OrderIs, Cameras!Pending
  <2>. QED  BY <2>2, <2>3
<1>. QED  BY <1>1, <1>3, <1>4, <1>5, <1>6, <1>7, <1>8, <1>9 DEF Cameras!ManageNext

(***************************************************************************)
(* The state of a camera                                                   *)
(***************************************************************************)
LEMMA StatusWrites ==
    ASSUME ManageTypes, NEW j \in DOMAIN camerasRequests
    PROVE  camerasRequests[j].kind = "status" <=> About(camerasRequests[j]) = "status"
<1>1. camerasRequests[j] \in CameraWrite
  BY DEF ManageTypes
<1>. QED  BY <1>1, WriteIs

\* A step that leaves the writes of the state alone.
LEMMA StatusKept ==
    ASSUME ManageTypes, ManageTypes', StatusInv, Kept("status"), camerasCrossed \subseteq camerasCrossed',
           camerasServer'.enabled = camerasServer.enabled, camerasConfig'.enabled \in {camerasConfig.enabled, camerasServer.enabled},
           UNCHANGED <<camerasWire, enabled>>
    PROVE  StatusInv'
<1>1. ASSUME NEW j \in DOMAIN camerasRequests' PROVE camerasRequests'[j].kind = "status" <=> About(camerasRequests'[j]) = "status"
  <2>1. camerasRequests'[j] \in CameraWrite
    BY DEF ManageTypes
  <2>. QED  BY <2>1, WriteIs
<1>2. ASSUME NEW j \in DOMAIN camerasRequests', camerasRequests'[j].kind = "status"
      PROVE  \E k \in DOMAIN camerasRequests : camerasRequests'[j] = camerasRequests[k]
  BY <1>1, <1>2 DEF Kept
<1>3. ASSUME NEW k \in DOMAIN camerasRequests, camerasRequests[k].kind = "status"
      PROVE  \E j \in DOMAIN camerasRequests' : camerasRequests'[j] = camerasRequests[k]
  BY <1>3, StatusWrites DEF Kept
<1>4. OnlyOne("status")'
  BY DEF Kept, StatusInv
<1>5. ASSUME NEW j \in DOMAIN camerasRequests', camerasRequests'[j].kind = "status", camerasRequests'[j].stage = "taken"
      PROVE  camerasServer'.enabled = camerasRequests'[j].enabled
  BY <1>2, <1>5 DEF StatusInv
<1>6. ASSUME camerasConfig'.enabled # camerasServer'.enabled
      PROVE  \E j \in DOMAIN camerasRequests' : camerasRequests'[j].kind = "status" /\ camerasRequests'[j].stage = "taken"
  <2>1. PICK k \in DOMAIN camerasRequests : camerasRequests[k].kind = "status" /\ camerasRequests[k].stage = "taken"
    BY <1>6 DEF StatusInv
  <2>. QED  BY <1>3, <2>1
<1>7. Disabling' => Disabling
  BY <1>2 DEF Disabling
<1>8. ToldOff' = ToldOff
  BY DEF ToldOff
<1>. QED  BY <1>4, <1>5, <1>6, <1>7, <1>8 DEF StatusInv

\* Without a write of it under way the client's copy of the state is the server's.
LEMMA StatusIsKnown == ASSUME ManageTypes, StatusInv, ~Cameras!Pending("status") PROVE camerasConfig.enabled = camerasServer.enabled
  BY DEF StatusInv, Cameras!Pending

\* The last element of a queue.
LEMMA LastAppended ==
    ASSUME NEW S, NEW q \in Seq(S), NEW e \in S
    PROVE  Append(q, e) \in Seq(S) /\ Append(q, e) # <<>> /\ Append(q, e)[Len(Append(q, e))] = e
  OBVIOUS

LEMMA LastOfTail ==
    ASSUME NEW S, NEW q \in Seq(S), q # <<>>
    PROVE  /\ Tail(q) \in Seq(S) /\ Head(q) \in S
           /\ Tail(q) = <<>> => Head(q) = q[Len(q)]
           /\ Tail(q) # <<>> => Tail(q)[Len(Tail(q))] = q[Len(q)]
<1>1. Len(q) \in Nat /\ Len(q) >= 1 /\ Head(q) = q[1] /\ q[1] \in S
  OBVIOUS
<1>. DEFINE t == Tail(q)
<1>2. t \in Seq(S) /\ Len(t) = Len(q) - 1 /\ \A j \in 1..Len(t) : t[j] = q[j + 1]
  BY HeadTailProperties
<1>. HIDE DEF t
<1>3. t = <<>> => Len(q) = 1
  BY <1>1, <1>2
<1>4. ASSUME t # <<>> PROVE t[Len(t)] = q[Len(q)]
  <2>1. Len(t) \in Nat /\ Len(t) # 0
    BY <1>2, <1>4
  <2>2. Len(t) \in 1..Len(t) /\ Len(t) + 1 = Len(q)
    BY <1>1, <1>2, <2>1
  <2>3. t[Len(t)] = q[Len(t) + 1]
    BY <1>2, <2>2
  <2>. QED  BY <2>2, <2>3
<1>. QED  BY <1>1, <1>2, <1>3, <1>4 DEF t

LEMMA ChangeKeeps ==
    ASSUME ManageTypes, ManageTypes', StatusInv, NEW s \in {"on", "off", "disabled"}, Cameras!handleChange(s) PROVE StatusInv'
<1>. DEFINE r == [kind |-> "status", stage |-> "asked", enabled |-> FALSE]
<1>1. /\ camerasConfig.enabled /\ ~Cameras!Pending("status") /\ camerasConfig.enabled = camerasServer.enabled
      /\ UNCHANGED <<camerasServer, camerasConfig, enabled, camerasCrossed>>
      /\ IF s = "disabled" THEN Cameras!Asked(r) ELSE UNCHANGED camerasRequests
      /\ IF s = "on" THEN camerasWire' = Append(camerasWire, TRUE) ELSE camerasWire' = Append(camerasWire, FALSE)
  BY StatusIsKnown DEF Cameras!handleChange
<1>2. /\ \A j \in DOMAIN camerasRequests : camerasRequests[j].kind # "status" /\ About(camerasRequests[j]) # "status"
      /\ camerasWire \in Seq(BOOLEAN) /\ OnlyOne("status")
  BY <1>1, StatusWrites DEF Cameras!Pending, StatusInv
<1>3. r \in CameraWrite /\ r.kind = "status" /\ r.stage = "asked" /\ About(r) = "status"
  BY DEF CameraWrite, Cameras!StatusWrite, Cameras!Stages, About
<1>. HIDE DEF r
<1>4. /\ OnlyOne("status")'
      /\ \A j \in DOMAIN camerasRequests' : camerasRequests'[j].kind = "status" => camerasRequests'[j].stage = "asked"
      /\ s # "disabled" => \A j \in DOMAIN camerasRequests' : camerasRequests'[j].kind # "status"
  <2>1. CASE s = "disabled"
    BY <1>1, <1>2, <1>3, <2>1, WriteAsked DEF ManageTypes
  <2>2. CASE s # "disabled"
    BY <1>1, <1>2, <2>2 DEF OnlyOne, About
  <2>. QED  BY <2>1, <2>2
<1>5. Disabling' => ToldOff'
  <2>1. CASE s = "on"
    BY <1>1, <1>4, <2>1 DEF Disabling
  <2>2. CASE s # "on"
    <3>1. camerasWire' = Append(camerasWire, FALSE)
      BY <1>1, <2>2
    <3>2. FALSE \in BOOLEAN /\ camerasWire \in Seq(BOOLEAN)
      BY <1>2
    <3>3. camerasWire' # <<>> /\ camerasWire'[Len(camerasWire')] = FALSE
      BY <3>1, <3>2, LastAppended, Zenon
    <3>. QED  BY <3>3, Zenon DEF ToldOff
  <2>. QED  BY <2>1, <2>2
<1>6. camerasWire' \in Seq(BOOLEAN)
  <2>1. TRUE \in BOOLEAN /\ FALSE \in BOOLEAN /\ camerasWire \in Seq(BOOLEAN)
    BY <1>2
  <2>. QED  BY <1>1, <2>1, LastAppended, Zenon
<1>. QED  BY <1>1, <1>4, <1>5, <1>6 DEF StatusInv

LEMMA EnableKeeps == ASSUME ManageTypes, ManageTypes', StatusInv, Cameras!EnableAgain PROVE StatusInv'
<1>. DEFINE r == [kind |-> "status", stage |-> "asked", enabled |-> TRUE]
<1>1. /\ ~Cameras!Pending("status") /\ ~camerasServer.enabled /\ camerasConfig.enabled = camerasServer.enabled
      /\ UNCHANGED <<camerasServer, camerasConfig, enabled, camerasCrossed, camerasWire>> /\ Cameras!Asked(r)
  BY StatusIsKnown DEF Cameras!EnableAgain
<1>2. /\ \A j \in DOMAIN camerasRequests : camerasRequests[j].kind # "status" /\ About(camerasRequests[j]) # "status"
      /\ OnlyOne("status")
  BY <1>1, StatusWrites DEF Cameras!Pending, StatusInv
<1>3. r \in CameraWrite /\ r.kind = "status" /\ r.stage = "asked" /\ About(r) = "status"
  BY DEF CameraWrite, Cameras!StatusWrite, Cameras!Stages, About
<1>. HIDE DEF r
<1>4. /\ OnlyOne("status")'
      /\ \A j \in DOMAIN camerasRequests' : camerasRequests'[j].kind = "status" => camerasRequests'[j].stage = "asked"
  BY <1>1, <1>2, <1>3, WriteAsked DEF ManageTypes
<1>5. Disabling /\ ToldOff' = ToldOff
  BY <1>1 DEF Disabling, ToldOff
<1>. QED  BY <1>1, <1>4, <1>5 DEF StatusInv

LEMMA DispatchKeeps == ASSUME ManageTypes, ManageTypes', StatusInv, Cameras!Dispatch PROVE StatusInv'
<1>1. /\ camerasWire # <<>> /\ camerasWire' = Tail(camerasWire) /\ camerasWire \in Seq(BOOLEAN)
      /\ enabled' = (Head(camerasWire) /\ (camerasServer.enabled \/ enabled)) /\ enabled \in BOOLEAN
      /\ UNCHANGED <<camerasServer, camerasConfig, camerasRequests, camerasCrossed>>
  BY DEF Cameras!Dispatch, StatusInv
<1>2. /\ camerasWire' \in Seq(BOOLEAN) /\ Head(camerasWire) \in BOOLEAN
      /\ camerasWire' = <<>> => Head(camerasWire) = camerasWire[Len(camerasWire)]
      /\ camerasWire' # <<>> => camerasWire'[Len(camerasWire')] = camerasWire[Len(camerasWire)]
  <2>. HIDE DEF ToldOff, StatusInv
  <2>. QED  BY <1>1, LastOfTail, Zenon
<1>3. ASSUME ToldOff PROVE ToldOff'
  <2>1. ~camerasWire[Len(camerasWire)]
    BY <1>1, <1>3, Zenon DEF ToldOff
  <2>2. CASE camerasWire' = <<>>
    <3>1. ~Head(camerasWire)
      BY <1>2, <2>1, <2>2, Zenon
    <3>2. ~enabled'
      BY <1>1, <3>1, Zenon
    <3>. QED  BY <2>2, <3>2, Zenon DEF ToldOff
  <2>3. CASE camerasWire' # <<>>
    <3>1. ~camerasWire'[Len(camerasWire')]
      BY <1>2, <2>1, <2>3, Zenon
    <3>. QED  BY <2>3, <3>1, Zenon DEF ToldOff
  <2>. QED  BY <2>2, <2>3
<1>5. enabled' \in BOOLEAN
  <2>1. camerasServer.enabled \in BOOLEAN
    BY DEF ManageTypes, Cameras!File
  <2>. QED  BY <1>1, Zenon
<1>4. Disabling' = Disabling /\ (OnlyOne("status") => OnlyOne("status")')
  BY <1>1 DEF Disabling, OnlyOne, About
<1>. QED  BY <1>1, <1>2, <1>3, <1>4, <1>5 DEF StatusInv

LEMMA StatusServed ==
    ASSUME ManageTypes, ManageTypes', StatusInv, NEW i \in DOMAIN camerasRequests, Cameras!Serve(i) PROVE StatusInv'
<1>1. PICK s \in {"taken", "failed"} :
        /\ camerasRequests' = [camerasRequests EXCEPT ![i].stage = s]
        /\ IF s = "taken" THEN camerasServer' = Cameras!Applied(camerasRequests[i]) ELSE UNCHANGED camerasServer
  BY DEF Cameras!Serve
<1>2. camerasRequests[i] \in CameraWrite /\ camerasRequests \in Seq(CameraWrite) /\ camerasServer \in Cameras!File /\ s \in Cameras!Stages
  BY DEF ManageTypes, Cameras!Stages
<1>3. UNCHANGED <<camerasConfig, camerasWire, enabled, camerasCrossed>> /\ camerasRequests[i].stage = "asked"
  BY DEF Cameras!Serve
<1>4. camerasServer'.enabled = IF s = "taken" /\ camerasRequests[i].kind = "status" THEN camerasRequests[i].enabled ELSE camerasServer.enabled
  <2>1. Cameras!Applied(camerasRequests[i]).enabled = IF camerasRequests[i].kind = "status" THEN camerasRequests[i].enabled ELSE camerasServer.enabled
    BY <1>2, FileWritten
  <2>. QED  BY <1>1, <2>1
<1>5. CASE camerasRequests[i].kind # "status"
  <2>1. Kept("status")
    BY <1>1, <1>2, <1>5, StagedKept, StatusWrites
  <2>. QED  BY <1>3, <1>4, <1>5, <2>1, StatusKept
<1>6. CASE camerasRequests[i].kind = "status"
  <2>1. /\ DOMAIN camerasRequests' = DOMAIN camerasRequests /\ OnlyOne("status")'
        /\ camerasRequests'[i].stage = s /\ camerasRequests'[i].kind = "status" /\ camerasRequests'[i].enabled = camerasRequests[i].enabled
        /\ \A j \in DOMAIN camerasRequests : j # i => camerasRequests'[j] = camerasRequests[j]
    BY <1>1, <1>2, <1>6, WriteStaged DEF StatusInv
  <2>2. \A j \in DOMAIN camerasRequests : camerasRequests[j].kind = "status" => j = i
    BY <1>6, StatusWrites DEF StatusInv, OnlyOne
  <2>3. \A j \in DOMAIN camerasRequests' : camerasRequests'[j].kind = "status" => j = i
    BY <2>1, <2>2
  <2>4. camerasConfig.enabled = camerasServer.enabled
    BY <1>3, <2>2 DEF StatusInv
  <2>5. camerasConfig'.enabled # camerasServer'.enabled => s = "taken"
    BY <1>3, <1>4, <2>4
  <2>6. Disabling' => Disabling
    BY <1>4, <1>6, <2>1, <2>3 DEF Disabling
  <2>7. ToldOff' = ToldOff
    BY <1>3 DEF ToldOff
  <2>8. \A j \in DOMAIN camerasRequests' : camerasRequests'[j].kind = "status" /\ camerasRequests'[j].stage = "taken"
            => camerasServer'.enabled = camerasRequests'[j].enabled
    BY <1>4, <1>6, <2>1, <2>3
  <2>. QED  BY <1>3, <2>1, <2>5, <2>6, <2>7, <2>8 DEF StatusInv
<1>. QED  BY <1>5, <1>6

LEMMA StatusEnds ==
    ASSUME ManageTypes, ManageTypes', StatusInv, NEW i \in DOMAIN camerasRequests, Cameras!Succeeded(i) \/ Cameras!Failed(i)
    PROVE  StatusInv'
<1>1. /\ Cameras!ManageEnded(i) /\ UNCHANGED <<camerasServer, camerasWire, enabled>> /\ camerasRequests \in Seq(CameraWrite)
      /\ camerasCrossed \subseteq camerasCrossed'
      /\ \/ camerasConfig' = camerasServer
         \/ UNCHANGED camerasConfig /\ camerasRequests[i].stage = "failed"
  BY DEF Cameras!Succeeded, Cameras!Failed, Cameras!Arrives, ManageTypes
<1>2. CASE camerasRequests[i].kind # "status"
  <2>1. Kept("status")
    BY <1>1, <1>2, EndedKept, StatusWrites
  <2>. QED  BY <1>1, <2>1, StatusKept
<1>3. CASE camerasRequests[i].kind = "status"
  <2>1. OnlyOne("status")' /\ \A j \in DOMAIN camerasRequests' : About(camerasRequests'[j]) # "status"
    BY <1>1, <1>3, WriteEnds, StatusWrites DEF StatusInv
  <2>2. \A j \in DOMAIN camerasRequests' : camerasRequests'[j].kind # "status"
    BY <2>1 DEF About
  <2>3. \A j \in DOMAIN camerasRequests : camerasRequests[j].kind = "status" => j = i
    BY <1>3, StatusWrites DEF StatusInv, OnlyOne
  <2>4. camerasConfig'.enabled = camerasServer'.enabled
    BY <1>1, <2>3 DEF StatusInv
  <2>5. Disabling' => Disabling
    BY <1>1, <2>2 DEF Disabling
  <2>6. ToldOff' = ToldOff
    BY <1>1 DEF ToldOff
  <2>. QED  BY <1>1, <2>1, <2>2, <2>4, <2>5, <2>6 DEF StatusInv
<1>. QED  BY <1>2, <1>3

LEMMA StatusNext == ASSUME ManageTypes, ManageTypes', StatusInv, Cameras!ManageNext PROVE StatusInv'
<1>1. CASE Cameras!Drag \/ Cameras!OpenEditor \/ Cameras!CloseEditor \/ \E f \in Cameras!Fields : Cameras!Type(f)
  BY <1>1, SameKept, StatusKept
     DEF Cameras!Drag, Cameras!OpenEditor, Cameras!CloseEditor, Cameras!Type
<1>2. ASSUME NEW r, About(r) # "status", Cameras!Asked(r) \/ UNCHANGED camerasRequests, camerasCrossed \subseteq camerasCrossed',
             UNCHANGED <<camerasServer, camerasConfig, camerasWire, enabled>>
      PROVE  StatusInv'
  <2>1. Kept("status")
    BY <1>2, AskedKept, SameKept DEF ManageTypes
  <2>. QED  BY <1>2, <2>1, StatusKept
<1>3. CASE Cameras!handleReorderDragEnd
  <2>. DEFINE r == [kind |-> "order", stage |-> "asked", order |-> orderedCameras, enabledCameras |-> camerasConfig.order]
  <2>1. About(r) = "order"
    BY DEF About
  <2>2. Cameras!Asked(r) \/ UNCHANGED camerasRequests
    BY <1>3 DEF Cameras!handleReorderDragEnd
  <2>. HIDE DEF r
  <2>. QED  BY <1>2, <1>3, <2>1, <2>2 DEF Cameras!handleReorderDragEnd
<1>4. CASE \E c \in Cameras!ManageCameras, t \in Cameras!Types : Cameras!handleTypeChange(c, t)
  <2>1. PICK c \in Cameras!ManageCameras, t \in Cameras!Types : Cameras!handleTypeChange(c, t)
    BY <1>4
  <2>. DEFINE r == [kind |-> "type", stage |-> "asked", camera |-> c, type |-> t]
  <2>2. About(r) = c /\ c \in {"a", "b"}
    BY DEF About, Cameras!ManageCameras
  <2>3. Cameras!Asked(r)
    BY <2>1 DEF Cameras!handleTypeChange
  <2>. HIDE DEF r
  <2>. QED  BY <1>2, <2>1, <2>2, <2>3 DEF Cameras!handleTypeChange
<1>5. CASE Cameras!manageOnSubmit
  <2>. DEFINE r == [kind |-> "details", stage |-> "asked", fields |-> [f \in Cameras!Changed |-> editor.details[f]]]
  <2>1. About(r) = "details"
    BY DEF About
  <2>2. Cameras!Asked(r) \/ UNCHANGED camerasRequests
    BY <1>5 DEF Cameras!manageOnSubmit
  <2>. HIDE DEF r
  <2>. QED  BY <1>2, <1>5, <2>1, <2>2 DEF Cameras!manageOnSubmit
<1>6. CASE Cameras!EnableAgain \/ Cameras!Dispatch \/ \E s \in {"on", "off", "disabled"} : Cameras!handleChange(s)
  BY <1>6, EnableKeeps, DispatchKeeps, ChangeKeeps
<1>7. CASE \E i \in DOMAIN camerasRequests : Cameras!Serve(i) \/ Cameras!Succeeded(i) \/ Cameras!Failed(i)
  BY <1>7, StatusServed, StatusEnds
<1>8. CASE Cameras!ManageRevalidate
  BY <1>8, SameKept, StatusKept DEF Cameras!ManageRevalidate, Cameras!Arrives
<1>9. CASE Cameras!ManageOtherClient
  <2>1. UNCHANGED <<camerasConfig, camerasRequests, camerasWire>> /\ camerasCrossed \subseteq camerasCrossed' /\ Kept("status")
    BY <1>9, SameKept DEF Cameras!ManageOtherClient
  <2>2. camerasServer'.enabled = camerasServer.enabled
    BY <1>9 DEF Cameras!ManageOtherClient, ManageTypes, Cameras!File
  <2>3. CASE UNCHANGED enabled
    BY <2>1, <2>2, <2>3, StatusKept
  <2>4. CASE ~(UNCHANGED enabled)
    <3>1. "on" \in camerasCrossed' /\ enabled' \in BOOLEAN
      BY <1>9, <2>4 DEF Cameras!ManageOtherClient
    <3>2. OnlyOne("status")'
      BY <2>1 DEF Kept, StatusInv
    <3>. QED  BY <2>1, <2>2, <3>1, <3>2 DEF StatusInv
  <2>. QED  BY <2>3, <2>4
<1>. QED  BY <1>1, <1>3, <1>4, <1>5, <1>6, <1>7, <1>8, <1>9 DEF Cameras!ManageNext

(***************************************************************************)
(* The type of a camera                                                    *)
(***************************************************************************)
LEMMA TypeWrites ==
    ASSUME ManageTypes, NEW j \in DOMAIN camerasRequests
    PROVE  /\ camerasRequests[j] \in CameraWrite
           /\ camerasRequests[j].kind = "type" => /\ camerasRequests[j].camera = About(camerasRequests[j])
                                                  /\ About(camerasRequests[j]) \in {"a", "b"} /\ camerasRequests[j].type \in Cameras!Types
           /\ camerasRequests[j].kind # "type" => About(camerasRequests[j]) \notin {"a", "b"}
<1>1. camerasRequests[j] \in CameraWrite
  BY DEF ManageTypes
<1>2. camerasRequests[j].kind = "type" => /\ camerasRequests[j].camera = About(camerasRequests[j])
                                          /\ About(camerasRequests[j]) \in {"a", "b"} /\ camerasRequests[j].type \in Cameras!Types
  BY <1>1, WriteIs DEF About, Cameras!TypeWrite
<1>3. camerasRequests[j].kind # "type" => About(camerasRequests[j]) \notin {"a", "b"}
  BY <1>1, WriteIs
<1>. QED  BY <1>1, <1>2, <1>3

\* A step that leaves the writes of the type of a camera alone.
LEMMA TypeKept ==
    ASSUME NEW c, TypeIs(c), Kept(c), camerasServer'.type[c] = camerasServer.type[c], localOverrides'[c] = localOverrides[c]
    PROVE  TypeIs(c)'
<1>1. OnlyOne(c)'
  BY DEF TypeIs, Kept
<1>2. ASSUME NEW j \in DOMAIN camerasRequests', About(camerasRequests'[j]) = c, camerasRequests'[j].stage = "taken"
      PROVE  camerasServer'.type[c] = camerasRequests'[j].type
  <2>1. PICK k \in DOMAIN camerasRequests : camerasRequests'[j] = camerasRequests[k]
    BY <1>2 DEF Kept
  <2>. QED  BY <1>2, <2>1 DEF TypeIs
<1>3. TypeTaken(c) => TypeTaken(c)'
  <2>1. ASSUME NEW k \in DOMAIN camerasRequests, About(camerasRequests[k]) = c, camerasRequests[k].stage = "taken" PROVE TypeTaken(c)'
    BY <2>1 DEF Kept, TypeTaken, About
  <2>. QED  BY <2>1 DEF TypeTaken
<1>. QED  BY <1>1, <1>2, <1>3 DEF TypeIs, About

\* A write that is about something else, and none.
LEMMA TypesKept ==
    ASSUME ManageTypes, TypeInv, \A c \in {"a", "b"} : Kept(c), camerasCrossed \subseteq camerasCrossed',
           camerasServer'.type = camerasServer.type \/ "type" \in camerasCrossed', UNCHANGED localOverrides
    PROVE  TypeInv'
<1>. SUFFICES ASSUME "type" \notin camerasCrossed', NEW c \in {"a", "b"} PROVE TypeIs(c)'
  BY DEF TypeInv, Cameras!ManageCameras
<1>. QED  BY TypeKept DEF TypeInv, Cameras!ManageCameras

LEMMA TypeChangeKeeps ==
    ASSUME ManageTypes, TypeInv, NEW c \in {"a", "b"}, NEW t \in Cameras!Types, Cameras!handleTypeChange(c, t) PROVE TypeInv'
<1>. DEFINE r == [kind |-> "type", stage |-> "asked", camera |-> c, type |-> t]
<1>1. /\ Cameras!Asked(r) /\ UNCHANGED <<camerasServer, localOverrides>>
      /\ camerasCrossed' = IF \E i \in DOMAIN camerasRequests : camerasRequests[i].kind = "type" /\ camerasRequests[i].camera = c
                           THEN camerasCrossed \cup {"type"} ELSE camerasCrossed
  BY DEF Cameras!handleTypeChange
<1>2. r \in CameraWrite /\ About(r) = c /\ r.stage = "asked" /\ camerasRequests \in Seq(CameraWrite)
  BY DEF CameraWrite, Cameras!TypeWrite, Cameras!Stages, About, ManageTypes, Cameras!ManageCameras
<1>. HIDE DEF r
<1>. SUFFICES ASSUME "type" \notin camerasCrossed', NEW d \in {"a", "b"} PROVE TypeIs(d)'
  BY <1>1 DEF TypeInv, Cameras!ManageCameras
<1>3. TypeIs(d) /\ \A i \in DOMAIN camerasRequests : About(camerasRequests[i]) # c
  BY <1>1, TypeWrites DEF TypeInv, Cameras!ManageCameras
<1>4. CASE d # c
  BY <1>1, <1>2, <1>3, <1>4, AskedKept, TypeKept
<1>5. CASE d = c
  <2>1. OnlyOne(c)' /\ \A j \in DOMAIN camerasRequests' : About(camerasRequests'[j]) = c => camerasRequests'[j].stage = "asked"
    BY <1>1, <1>2, <1>3, <1>5, WriteAsked DEF TypeIs
  <2>2. ~TypeTaken(c)
    BY <1>3 DEF TypeTaken
  <2>. QED  BY <1>1, <1>3, <1>5, <2>1, <2>2 DEF TypeIs, About
<1>. QED  BY <1>4, <1>5

LEMMA TypeServed ==
    ASSUME ManageTypes, TypeInv, NEW i \in DOMAIN camerasRequests, Cameras!Serve(i) PROVE TypeInv'
<1>1. PICK s \in {"taken", "failed"} :
        /\ camerasRequests' = [camerasRequests EXCEPT ![i].stage = s]
        /\ IF s = "taken" THEN camerasServer' = Cameras!Applied(camerasRequests[i]) ELSE UNCHANGED camerasServer
  BY DEF Cameras!Serve
<1>2. /\ camerasRequests[i] \in CameraWrite /\ camerasRequests \in Seq(CameraWrite) /\ camerasServer \in Cameras!File
      /\ s \in Cameras!Stages /\ camerasServer.type \in [{"a", "b"} -> Cameras!Types]
  BY DEF ManageTypes, Cameras!Stages, Cameras!File, Cameras!ManageCameras
<1>3. UNCHANGED <<localOverrides, camerasCrossed>> /\ camerasRequests[i].stage = "asked"
  BY DEF Cameras!Serve
<1>. SUFFICES ASSUME "type" \notin camerasCrossed, NEW d \in {"a", "b"} PROVE TypeIs(d)'
  BY <1>3 DEF TypeInv, Cameras!ManageCameras
<1>4. TypeIs(d)
  BY DEF TypeInv, Cameras!ManageCameras
<1>5. CASE About(camerasRequests[i]) # d
  <2>1. Kept(d)
    BY <1>1, <1>2, <1>5, StagedKept
  <2>2. camerasServer'.type[d] = camerasServer.type[d]
    <3>1. CASE s # "taken"
      BY <1>1, <3>1
    <3>2. CASE s = "taken" /\ camerasRequests[i].kind # "type"
      <4>1. Cameras!Applied(camerasRequests[i]).type = camerasServer.type
        BY <1>2, <3>2, FileWritten
      <4>. QED  BY <1>1, <3>2, <4>1
    <3>3. CASE s = "taken" /\ camerasRequests[i].kind = "type"
      <4>1. Cameras!Applied(camerasRequests[i]).type = [camerasServer.type EXCEPT ![camerasRequests[i].camera] = camerasRequests[i].type]
        BY <1>2, <3>3, FileWritten
      <4>2. camerasRequests[i].camera # d
        BY <1>5, <3>3, TypeWrites
      <4>. QED  BY <1>1, <1>2, <3>3, <4>1, <4>2
    <3>. QED  BY <3>1, <3>2, <3>3
  <2>. QED  BY <1>3, <1>4, <2>1, <2>2, TypeKept
<1>6. CASE About(camerasRequests[i]) = d
  <2>1. /\ DOMAIN camerasRequests' = DOMAIN camerasRequests /\ OnlyOne(d)' /\ camerasRequests[i].kind = "type" /\ camerasRequests[i].camera = d
        /\ camerasRequests'[i].stage = s /\ About(camerasRequests'[i]) = d /\ camerasRequests'[i].type = camerasRequests[i].type
        /\ \A j \in DOMAIN camerasRequests : j # i => camerasRequests'[j] = camerasRequests[j]
    BY <1>1, <1>2, <1>4, <1>6, WriteStaged, TypeWrites DEF TypeIs
  <2>2. \A j \in DOMAIN camerasRequests : About(camerasRequests[j]) = d => j = i
    BY <1>4, <1>6 DEF TypeIs, OnlyOne
  <2>3. \A j \in DOMAIN camerasRequests' : About(camerasRequests'[j]) = d => j = i
    BY <2>1, <2>2
  <2>4. localOverrides[d] \in {Null, camerasServer.type[d]}
    BY <1>3, <1>4, <2>2 DEF TypeIs, TypeTaken
  <2>5. CASE s = "taken"
    <3>1. Cameras!Applied(camerasRequests[i]).type = [camerasServer.type EXCEPT ![d] = camerasRequests[i].type]
      BY <1>2, <2>1, FileWritten
    <3>2. camerasServer'.type[d] = camerasRequests[i].type
      BY <1>1, <1>2, <2>5, <3>1
    <3>3. TypeTaken(d)'
      BY <2>1, <2>5 DEF TypeTaken, About
    <3>. QED  BY <2>1, <2>3, <3>2, <3>3 DEF TypeIs, About
  <2>6. CASE s = "failed"
    BY <1>1, <1>3, <2>1, <2>3, <2>4, <2>6 DEF TypeIs, About
  <2>. QED  BY <2>5, <2>6
<1>. QED  BY <1>5, <1>6

LEMMA TypeEnds ==
    ASSUME ManageTypes, TypeInv, NEW i \in DOMAIN camerasRequests, Cameras!Succeeded(i) \/ Cameras!Failed(i)
    PROVE  TypeInv'
<1>1. /\ Cameras!ManageEnded(i) /\ UNCHANGED camerasServer /\ camerasRequests \in Seq(CameraWrite) /\ camerasCrossed \subseteq camerasCrossed'
      /\ \/ camerasRequests[i].stage = "taken"
            /\ localOverrides' = IF camerasRequests[i].kind = "type"
                                 THEN [localOverrides EXCEPT ![camerasRequests[i].camera] = camerasRequests[i].type] ELSE localOverrides
         \/ camerasRequests[i].stage = "failed" /\ UNCHANGED localOverrides
  BY DEF Cameras!Succeeded, Cameras!Failed, ManageTypes
<1>2. localOverrides \in [{"a", "b"} -> Cameras!Types \cup {Null}] /\ localOverrides' \in [{"a", "b"} -> Cameras!Types \cup {Null}]
  BY <1>1, TypeWrites DEF TypeInv, Cameras!ManageCameras
<1>. SUFFICES ASSUME "type" \notin camerasCrossed', NEW d \in {"a", "b"} PROVE TypeIs(d)'
  BY <1>1, <1>2 DEF TypeInv, Cameras!ManageCameras
<1>3. TypeIs(d)
  BY <1>1 DEF TypeInv, Cameras!ManageCameras
<1>4. CASE About(camerasRequests[i]) # d
  <2>1. localOverrides'[d] = localOverrides[d]
    BY <1>1, <1>2, <1>4, TypeWrites
  <2>. QED  BY <1>1, <1>3, <1>4, <2>1, EndedKept, TypeKept
<1>5. CASE About(camerasRequests[i]) = d
  <2>1. OnlyOne(d)' /\ \A j \in DOMAIN camerasRequests' : About(camerasRequests'[j]) # d
    BY <1>1, <1>3, <1>5, WriteEnds DEF TypeIs
  <2>2. camerasRequests[i].kind = "type" /\ camerasRequests[i].camera = d
    BY <1>5, TypeWrites
  <2>3. localOverrides'[d] \in {Null, camerasServer.type[d]}
    <3>1. CASE camerasRequests[i].stage = "taken"
      BY <1>1, <1>2, <1>3, <1>5, <2>2, <3>1 DEF TypeIs
    <3>2. CASE camerasRequests[i].stage = "failed"
      BY <1>1, <1>3, <1>5, <3>2 DEF TypeIs, TypeTaken, OnlyOne
    <3>. QED  BY <1>1, <3>1, <3>2
  <2>. QED  BY <1>1, <2>1, <2>3 DEF TypeIs, About
<1>. QED  BY <1>4, <1>5

LEMMA TypeNext == ASSUME ManageTypes, ManageTypes', TypeInv, Cameras!ManageNext PROVE TypeInv'
<1>1. CASE Cameras!Drag \/ Cameras!Dispatch \/ Cameras!OpenEditor \/ Cameras!CloseEditor \/ \E f \in Cameras!Fields : Cameras!Type(f)
  BY <1>1, SameKept, TypesKept
     DEF Cameras!Drag, Cameras!Dispatch, Cameras!OpenEditor, Cameras!CloseEditor, Cameras!Type
<1>2. ASSUME NEW r, About(r) \notin {"a", "b"}, Cameras!Asked(r) \/ UNCHANGED camerasRequests, camerasCrossed \subseteq camerasCrossed',
             UNCHANGED <<camerasServer, localOverrides>>
      PROVE  TypeInv'
  <2>1. \A c \in {"a", "b"} : Kept(c)
    BY <1>2, AskedKept, SameKept DEF ManageTypes
  <2>. QED  BY <1>2, <2>1, TypesKept
<1>3. CASE Cameras!handleReorderDragEnd
  <2>. DEFINE r == [kind |-> "order", stage |-> "asked", order |-> orderedCameras, enabledCameras |-> camerasConfig.order]
  <2>1. About(r) = "order"
    BY DEF About
  <2>2. Cameras!Asked(r) \/ UNCHANGED camerasRequests
    BY <1>3 DEF Cameras!handleReorderDragEnd
  <2>. HIDE DEF r
  <2>3. UNCHANGED <<camerasServer, localOverrides>> /\ camerasCrossed \subseteq camerasCrossed'
    BY <1>3 DEF Cameras!handleReorderDragEnd
  <2>. QED  BY <1>2, <2>1, <2>2, <2>3
<1>4. CASE Cameras!EnableAgain \/ \E s \in {"on", "off", "disabled"} : Cameras!handleChange(s)
  <2>. DEFINE r(on) == [kind |-> "status", stage |-> "asked", enabled |-> on]
  <2>1. \A on \in BOOLEAN : About(r(on)) = "status"
    BY DEF About
  <2>2. /\ UNCHANGED <<camerasServer, localOverrides, camerasCrossed>>
        /\ UNCHANGED camerasRequests \/ \E on \in BOOLEAN : Cameras!Asked(r(on))
    BY <1>4 DEF Cameras!EnableAgain, Cameras!handleChange
  <2>. HIDE DEF r
  <2>. QED  BY <1>2, <2>1, <2>2, SameKept, TypesKept
<1>5. CASE Cameras!manageOnSubmit
  <2>. DEFINE r == [kind |-> "details", stage |-> "asked", fields |-> [f \in Cameras!Changed |-> editor.details[f]]]
  <2>1. About(r) = "details"
    BY DEF About
  <2>2. Cameras!Asked(r) \/ UNCHANGED camerasRequests
    BY <1>5 DEF Cameras!manageOnSubmit
  <2>. HIDE DEF r
  <2>. QED  BY <1>2, <1>5, <2>1, <2>2 DEF Cameras!manageOnSubmit
<1>6. CASE \E c \in Cameras!ManageCameras, t \in Cameras!Types : Cameras!handleTypeChange(c, t)
  BY <1>6, TypeChangeKeeps DEF Cameras!ManageCameras
<1>7. CASE \E i \in DOMAIN camerasRequests : Cameras!Serve(i) \/ Cameras!Succeeded(i) \/ Cameras!Failed(i)
  BY <1>7, TypeServed, TypeEnds
<1>8. CASE Cameras!ManageRevalidate
  BY <1>8, SameKept, TypesKept DEF Cameras!ManageRevalidate
<1>9. CASE Cameras!ManageOtherClient
  <2>1. UNCHANGED <<localOverrides, camerasRequests>> /\ camerasCrossed \subseteq camerasCrossed' /\ \A c \in {"a", "b"} : Kept(c)
    BY <1>9, SameKept DEF Cameras!ManageOtherClient
  <2>2. camerasServer'.type = camerasServer.type \/ "type" \in camerasCrossed'
    BY <1>9 DEF Cameras!ManageOtherClient, ManageTypes, Cameras!File
  <2>. QED  BY <2>1, <2>2, TypesKept
<1>. QED  BY <1>1, <1>3, <1>4, <1>5, <1>6, <1>7, <1>8, <1>9 DEF Cameras!ManageNext

(***************************************************************************)
(* The editor, and the list as a whole                                     *)
(***************************************************************************)
LEMMA EditorNext == ASSUME ManageTypes, ManageTypes', EditorInv, Cameras!ManageNext PROVE EditorInv'
<1>1. editor \in [open : BOOLEAN, details : [Cameras!Fields -> Cameras!Texts]] /\ editor' \in [open : BOOLEAN, details : [Cameras!Fields -> Cameras!Texts]]
  BY DEF ManageTypes
<1>2. CASE UNCHANGED <<camerasConfig, editor>>
  BY <1>2 DEF EditorInv
<1>3. CASE editor' = [editor EXCEPT !.open = FALSE]
  BY <1>1, <1>3 DEF EditorInv
<1>4. CASE Cameras!OpenEditor
  BY <1>4 DEF Cameras!OpenEditor, EditorInv
<1>5. ASSUME NEW f \in Cameras!Fields, Cameras!Type(f) PROVE EditorInv'
  <2>. DEFINE d == [editor.details EXCEPT ![f] = "mine"]
  <2>1. editor' = [editor EXCEPT !.details = d] /\ UNCHANGED camerasConfig /\ editor.open
    BY <1>5 DEF Cameras!Type
  <2>2. \A g \in Cameras!Fields : d[g] \in {camerasConfig.details[g], "mine"}
    BY <1>1, <2>1 DEF EditorInv
  <2>. HIDE DEF d
  <2>3. editor'.details = d
    BY <1>1, <2>1
  <2>. QED  BY <2>1, <2>2, <2>3 DEF EditorInv
<1>6. CASE Cameras!Arrives
  <2>1. CASE editor.open /\ camerasConfig'.details # camerasConfig.details
    <3>1. editor' = [editor EXCEPT !.details = camerasConfig'.details]
      BY <1>6, <2>1 DEF Cameras!Arrives
    <3>. DEFINE d == camerasConfig'.details
    <3>. HIDE DEF d
    <3>2. editor'.details = d
      BY <1>1, <3>1 DEF d
    <3>. QED  BY <3>2 DEF EditorInv, d
  <2>2. CASE ~(editor.open /\ camerasConfig'.details # camerasConfig.details)
    BY <1>6, <2>2 DEF Cameras!Arrives, EditorInv
  <2>. QED  BY <2>1, <2>2
<1>7. CASE Cameras!Drag \/ Cameras!handleReorderDragEnd \/ Cameras!EnableAgain \/ Cameras!Dispatch \/ Cameras!ManageOtherClient
  BY <1>2, <1>7 DEF Cameras!Drag, Cameras!handleReorderDragEnd, Cameras!EnableAgain, Cameras!Dispatch, Cameras!ManageOtherClient
<1>8. CASE \/ \E s \in {"on", "off", "disabled"} : Cameras!handleChange(s)
           \/ \E c \in Cameras!ManageCameras, t \in Cameras!Types : Cameras!handleTypeChange(c, t)
  BY <1>2, <1>8 DEF Cameras!handleChange, Cameras!handleTypeChange
<1>9. CASE Cameras!CloseEditor \/ Cameras!manageOnSubmit
  BY <1>2, <1>3, <1>9 DEF Cameras!CloseEditor, Cameras!manageOnSubmit
<1>10. CASE \E i \in DOMAIN camerasRequests : Cameras!Serve(i) \/ Cameras!Failed(i)
  BY <1>2, <1>10 DEF Cameras!Serve, Cameras!Failed
<1>11. CASE \E i \in DOMAIN camerasRequests : Cameras!Succeeded(i)
  BY <1>3, <1>6, <1>11 DEF Cameras!Succeeded
<1>12. CASE Cameras!ManageRevalidate
  BY <1>6, <1>12 DEF Cameras!ManageRevalidate
<1>. QED  BY <1>4, <1>5, <1>7, <1>8, <1>9, <1>10, <1>11, <1>12 DEF Cameras!ManageNext

LEMMA ManageInvInit == ASSUME Cameras!ManageInit PROVE ManageInv
<1>1. /\ camerasServer = [order |-> <<"a", "b">>, type |-> [c \in Cameras!ManageCameras |-> "normal"], enabled |-> TRUE,
                          details |-> [f \in Cameras!Fields |-> "old"]]
      /\ camerasConfig = camerasServer /\ orderedCameras = camerasServer.order /\ dragging = FALSE
      /\ localOverrides = [c \in Cameras!ManageCameras |-> Null] /\ editor = [open |-> FALSE, details |-> camerasServer.details]
      /\ camerasRequests = <<>> /\ camerasWire = <<>> /\ enabled = TRUE
  BY DEF Cameras!ManageInit
<1>2. camerasServer \in Cameras!File
  BY <1>1 DEF Cameras!File, Cameras!Orders, Cameras!Types, Cameras!Texts
<1>3. ManageTypes
  <2>1. editor \in [open : BOOLEAN, details : [Cameras!Fields -> Cameras!Texts]]
    <3>1. camerasServer.details \in [Cameras!Fields -> Cameras!Texts]
      BY <1>2 DEF Cameras!File
    <3>. QED  BY <1>1, <3>1
  <2>2. orderedCameras \in Cameras!Orders
    BY <1>1, <1>2 DEF Cameras!File
  <2>3. camerasRequests \in Seq(CameraWrite)
    BY <1>1
  <2>4. dragging \in BOOLEAN
    BY <1>1, Zenon
  <2>. QED  BY <1>1, <1>2, <2>1, <2>2, <2>3, <2>4 DEF ManageTypes
<1>4. OrderInv /\ TypeInv /\ EditorInv
  BY <1>1 DEF OrderInv, OnlyOne, TypeInv, TypeIs, TypeTaken, EditorInv
<1>5. OnlyOne("status") /\ ~Disabling /\ camerasWire \in Seq(BOOLEAN) /\ enabled \in BOOLEAN
  BY <1>1 DEF OnlyOne, Disabling
<1>6. StatusInv
  BY <1>1, <1>5 DEF StatusInv
<1>. QED  BY <1>3, <1>4, <1>6 DEF ManageInv

LEMMA ManageNextKeeps == ASSUME ManageInv, Cameras!ManageNext PROVE ManageInv'
<1>1. ManageTypes'
  BY ManageTypesNext DEF ManageInv
<1>2. OrderInv'
  BY <1>1, OrderNext DEF ManageInv
<1>3. StatusInv'
  BY <1>1, StatusNext DEF ManageInv
<1>4. TypeInv'
  BY <1>1, TypeNext DEF ManageInv
<1>5. EditorInv'
  BY <1>1, EditorNext DEF ManageInv
<1>. QED  BY <1>1, <1>2, <1>3, <1>4, <1>5 DEF ManageInv

LEMMA ManageHidden == ASSUME ManageInv, UNCHANGED camerasVars PROVE ManageInv'
<1>. USE DEF camerasVars
<1>1. ManageTypes' /\ EditorInv'
  BY DEF ManageInv, ManageTypes, EditorInv
<1>2. OrderInv'
  BY DEF ManageInv, OrderInv, OrderIs, OnlyOne, About, Cameras!Pending
<1>3. StatusInv'
  BY DEF ManageInv, StatusInv, Disabling, ToldOff, OnlyOne, About
<1>4. TypeInv'
  BY DEF ManageInv, TypeInv, TypeIs, TypeTaken, OnlyOne, About
<1>. QED  BY <1>1, <1>2, <1>3, <1>4 DEF ManageInv

LEMMA ListIsTrue ==
    ASSUME ManageInv
    PROVE  Cameras!OrderIsShown /\ Cameras!DisabledIsOff /\ Cameras!TypeIsSaved /\ Cameras!UntypedIsKept
<1>1. Cameras!OrderIsShown
  BY DEF ManageInv, OrderInv, Cameras!OrderIsShown
<1>2. Cameras!DisabledIsOff
  BY DEF ManageInv, StatusInv, Disabling, ToldOff, Cameras!DisabledIsOff
<1>3. Cameras!TypeIsSaved
  <2>. SUFFICES ASSUME NEW c \in {"a", "b"}, localOverrides[c] \notin {Null, camerasServer.type[c]}, "type" \notin camerasCrossed
                PROVE  \E i \in DOMAIN camerasRequests : camerasRequests[i].kind = "type" /\ camerasRequests[i].camera = c
    BY DEF Cameras!TypeIsSaved, Cameras!ManageCameras
  <2>1. PICK i \in DOMAIN camerasRequests : About(camerasRequests[i]) = c
    BY DEF ManageInv, TypeInv, TypeIs, TypeTaken, Cameras!ManageCameras
  <2>. QED  BY <2>1, TypeWrites DEF ManageInv
<1>4. Cameras!UntypedIsKept
  <2>. SUFFICES ASSUME NEW i \in DOMAIN camerasRequests, camerasRequests[i].kind = "details", NEW f \in DOMAIN camerasRequests[i].fields
                PROVE  camerasRequests[i].fields[f] = "mine"
    BY DEF Cameras!UntypedIsKept
  <2>1. camerasRequests[i] \in Typed
    BY WriteIs DEF ManageInv, ManageTypes
  <2>. QED  BY <2>1 DEF Typed
<1>. QED  BY <1>1, <1>2, <1>3, <1>4

(***************************************************************************)
(* The wizard                                                              *)
(***************************************************************************)
WizardStream == [url : CameraNames, tested : BOOLEAN]
DataWith(Flags) == [cameraName : CameraNames \cup {Null}, probeMode : Flags, probeCandidates : SUBSET CameraNames,
                    streams : Seq(WizardStream), hasBackchannel : Flags]
WizardData == DataWith(BOOLEAN)
WizardSave == {s \in [data : WizardData, stage : {"checking", "camera", "go2rtc"}, found : BOOLEAN] : s.data.cameraName \in CameraNames}

WizardTypes ==
    /\ wizardData \in WizardData /\ currentStep \in 1..4 /\ (currentStep > 1 => wizardData.cameraName \in CameraNames)
    /\ \A t \in wizardAsked : t.camera \in CameraNames /\ t.streams \in Seq(WizardStream)
    /\ result \in Cameras!Result \cup {Null} /\ wizardSaves \in Seq(WizardSave)
    /\ \A c \in wizardCameras : c.name \in CameraNames
    /\ go2rtc \in [CameraNames -> Cameras!Restreams \cup {Null}]

\* The streams lead to the camera that is named, wherever they are kept: in the data from the
\* third step on, in a test that will write them back, in a save, and in a camera.
OwnTo(streams, n) == \A i \in DOMAIN streams : streams[i].url = n
DataIsOwn ==
    /\ currentStep >= 3 => OwnTo(wizardData.streams, wizardData.cameraName)
    /\ result # Null => /\ result.camera = wizardData.cameraName
                        /\ ~result.probe => OwnTo(wizardData.streams, wizardData.cameraName)
TestsAreOwn == \A t \in wizardAsked : t.kind \in {"test", "validate", "validateAll"} => OwnTo(t.streams, t.camera)
SavesAreOwn == \A i \in DOMAIN wizardSaves : OwnTo(wizardSaves[i].data.streams, wizardSaves[i].data.cameraName)
AddedAreOwn == \A c \in wizardCameras : \A i \in DOMAIN c.urls : c.urls[i] = c.name
StreamsInv == "late" \in wizardCrossed \/ (DataIsOwn /\ TestsAreOwn /\ SavesAreOwn /\ AddedAreOwn)

\* A camera that was added has its restreams, or a save of it has still to write them.
RestreamInv ==
    "unwritten" \in wizardCrossed \/
    \A c \in wizardCameras : go2rtc[c.name] # Null \/ \E i \in DOMAIN wizardSaves : wizardSaves[i].stage = "go2rtc" /\ wizardSaves[i].data.cameraName = c.name

WizardInv == WizardTypes /\ StreamsInv /\ RestreamInv

\* What a step does to the data: every field keeps its type.
LEMMA NameSet ==
    ASSUME wizardData \in WizardData, NEW n \in CameraNames, NEW p \in BOOLEAN,
           wizardData' = [wizardData EXCEPT !.cameraName = n, !.probeMode = p]
    PROVE  wizardData' \in WizardData /\ wizardData'.cameraName = n /\ wizardData'.streams = wizardData.streams
<1>. DEFINE Flags == BOOLEAN
<1>1. wizardData \in DataWith(Flags) /\ p \in Flags
  BY DEF WizardData
<1>. HIDE DEF Flags
<1>2. wizardData' \in DataWith(Flags) /\ wizardData'.cameraName = n /\ wizardData'.streams = wizardData.streams
  BY <1>1 DEF DataWith
<1>. QED  BY <1>2 DEF Flags, WizardData

LEMMA CandidatesSet ==
    ASSUME wizardData \in WizardData, NEW c \in SUBSET CameraNames,
           wizardData' = [wizardData EXCEPT !.probeMode = TRUE, !.probeCandidates = c]
    PROVE  /\ wizardData' \in WizardData /\ wizardData'.cameraName = wizardData.cameraName
           /\ wizardData'.streams = wizardData.streams
<1>. DEFINE Flags == BOOLEAN
            p == TRUE
<1>1. wizardData \in DataWith(Flags) /\ p \in Flags /\ wizardData' = [wizardData EXCEPT !.probeMode = p, !.probeCandidates = c]
  BY DEF WizardData
<1>. HIDE DEF Flags, p
<1>2. wizardData' \in DataWith(Flags) /\ wizardData'.cameraName = wizardData.cameraName /\ wizardData'.streams = wizardData.streams
  BY <1>1 DEF DataWith
<1>. QED  BY <1>2 DEF Flags, WizardData

LEMMA StreamsSet ==
    ASSUME wizardData \in WizardData, NEW s \in Seq(WizardStream), wizardData' = [wizardData EXCEPT !.streams = s]
    PROVE  wizardData' \in WizardData /\ wizardData'.cameraName = wizardData.cameraName /\ wizardData'.streams = s
<1>. DEFINE Flags == BOOLEAN
<1>1. wizardData \in DataWith(Flags)
  BY DEF WizardData
<1>. HIDE DEF Flags
<1>2. wizardData' \in DataWith(Flags) /\ wizardData'.cameraName = wizardData.cameraName /\ wizardData'.streams = s
  BY <1>1 DEF DataWith
<1>. QED  BY <1>2 DEF Flags, WizardData

LEMMA BackchannelSet ==
    ASSUME wizardData \in WizardData, NEW b \in BOOLEAN, wizardData' = [wizardData EXCEPT !.hasBackchannel = b]
    PROVE  /\ wizardData' \in WizardData /\ wizardData'.cameraName = wizardData.cameraName
           /\ wizardData'.streams = wizardData.streams
<1>. DEFINE Flags == BOOLEAN
<1>1. wizardData \in DataWith(Flags) /\ b \in Flags
  BY DEF WizardData
<1>. HIDE DEF Flags
<1>2. wizardData' \in DataWith(Flags) /\ wizardData'.cameraName = wizardData.cameraName /\ wizardData'.streams = wizardData.streams
  BY <1>1 DEF DataWith
<1>. QED  BY <1>2 DEF Flags, WizardData

LEMMA EmptyData == Cameras!NoData \in WizardData /\ Cameras!NoData.streams = <<>>
<1>1. <<>> \in Seq(WizardStream)
  OBVIOUS
<1>. QED  BY <1>1 DEF Cameras!NoData, WizardData, DataWith

\* The streams of a test, and those that a save writes.
LEMMA StreamsTested ==
    ASSUME NEW q \in Seq(WizardStream), NEW is, NEW r, r = [i \in DOMAIN q |-> [q[i] EXCEPT !.tested = @ \/ i \in is]]
    PROVE  r \in Seq(WizardStream) /\ DOMAIN r = DOMAIN q
<1>. DEFINE one(i) == [q[i] EXCEPT !.tested = @ \/ i \in is]
<1>1. ASSUME NEW i \in DOMAIN q PROVE one(i) \in WizardStream
  <2>. DEFINE b == q[i].tested \/ i \in is
  <2>1. b \in BOOLEAN
    OBVIOUS
  <2>2. q[i] \in WizardStream /\ one(i) = [q[i] EXCEPT !.tested = b]
    OBVIOUS
  <2>. HIDE DEF b
  <2>. QED  BY <2>1, <2>2 DEF WizardStream
<1>0. r = [i \in DOMAIN q |-> one(i)]
  OBVIOUS
<1>. DEFINE w == [i \in DOMAIN q |-> one(i)]
<1>. HIDE DEF one
<1>2. w \in Seq(WizardStream) /\ DOMAIN w = DOMAIN q
  <2>1. DOMAIN q = 1..Len(q) /\ Len(q) \in Nat
    OBVIOUS
  <2>. QED  BY <1>1, <2>1
<1>. HIDE DEF w
<1>. QED  BY <1>0, <1>2 DEF w

LEMMA UrlsAre ==
    ASSUME NEW q \in Seq(WizardStream)
    PROVE  Cameras!Urls(q) \in Seq(CameraNames) /\ DOMAIN Cameras!Urls(q) = DOMAIN q /\ \A i \in DOMAIN q : Cameras!Urls(q)[i] = q[i].url
<1>1. DOMAIN q = 1..Len(q) /\ Len(q) \in Nat
  OBVIOUS
<1>2. ASSUME NEW i \in DOMAIN q PROVE q[i].url \in CameraNames
  <2>1. q[i] \in WizardStream
    OBVIOUS
  <2>. QED  BY <2>1 DEF WizardStream
<1>. QED  BY <1>1, <1>2 DEF Cameras!Urls

\* A save goes through its stages with the data it started with.
LEMMA SaveStaged ==
    ASSUME NEW s \in WizardSave, NEW stage \in {"checking", "camera", "go2rtc"}, NEW found \in BOOLEAN
    PROVE  /\ LET t == [s EXCEPT !.stage = stage] IN t \in WizardSave /\ t.data = s.data /\ t.stage = stage
           /\ LET t == [s EXCEPT !.stage = stage, !.found = found] IN t \in WizardSave /\ t.data = s.data /\ t.stage = stage
<1>. DEFINE t == [s EXCEPT !.stage = stage]
            u == [s EXCEPT !.stage = stage, !.found = found]
<1>1. s \in [data : WizardData, stage : {"checking", "camera", "go2rtc"}, found : BOOLEAN] /\ s.data.cameraName \in CameraNames
  BY DEF WizardSave
<1>2. /\ t \in [data : WizardData, stage : {"checking", "camera", "go2rtc"}, found : BOOLEAN]
      /\ u \in [data : WizardData, stage : {"checking", "camera", "go2rtc"}, found : BOOLEAN]
      /\ t.data = s.data /\ t.stage = stage /\ u.data = s.data /\ u.stage = stage
  BY <1>1
<1>. HIDE DEF t, u
<1>3. t \in WizardSave /\ u \in WizardSave
  BY <1>1, <1>2 DEF WizardSave
<1>. QED  BY <1>2, <1>3 DEF t, u

\* A test that is started is of the camera that is named.
LEMMA StartIs ==
    ASSUME NEW d \in WizardData, d.cameraName \in CameraNames
    PROVE  /\ Cameras!Start(d).camera = d.cameraName /\ Cameras!Start(d).streams \in Seq(WizardStream)
           /\ Cameras!Start(d).kind \in {"probe", "manual"}
  BY DEF Cameras!Start

LEMMA SaveIs ==
    ASSUME WizardTypes, NEW i \in DOMAIN wizardSaves
    PROVE  /\ wizardSaves[i] \in WizardSave /\ wizardSaves[i].data \in WizardData /\ wizardSaves[i].data.cameraName \in CameraNames
           /\ wizardSaves[i].data.streams \in Seq(WizardStream)
<1>1. wizardSaves[i] \in WizardSave
  BY DEF WizardTypes
<1>. QED  BY <1>1 DEF WizardSave, WizardData, DataWith

\* The three ways to start a test.
LEMMA Tests ==
    ASSUME Cameras!validateAllStreams \/ \E i \in DOMAIN wizardData.streams : Cameras!testStream(i) \/ Cameras!validateStream(i)
    PROVE  currentStep >= 3 /\ \E how, is : Cameras!Test(how, is)
<1>1. CASE Cameras!validateAllStreams
  BY <1>1 DEF Cameras!validateAllStreams, Cameras!At
<1>2. CASE \E i \in DOMAIN wizardData.streams : Cameras!testStream(i)
  BY <1>2 DEF Cameras!testStream, Cameras!At
<1>3. CASE \E i \in DOMAIN wizardData.streams : Cameras!validateStream(i)
  BY <1>3 DEF Cameras!validateStream, Cameras!At
<1>. QED  BY <1>1, <1>2, <1>3

LEMMA WizardTypesNext == ASSUME WizardTypes, Cameras!WizardNext PROVE WizardTypes'
<1>1. /\ wizardData \in WizardData /\ wizardData.streams \in Seq(WizardStream) /\ wizardData.probeMode \in BOOLEAN
      /\ currentStep \in 1..4 /\ (currentStep > 1 => wizardData.cameraName \in CameraNames)
      /\ \A t \in wizardAsked : t.camera \in CameraNames /\ t.streams \in Seq(WizardStream)
      /\ result \in Cameras!Result \cup {Null} /\ wizardSaves \in Seq(WizardSave)
      /\ \A c \in wizardCameras : c.name \in CameraNames
      /\ go2rtc \in [CameraNames -> Cameras!Restreams \cup {Null}]
  BY DEF WizardTypes, WizardData, DataWith
<1>2. CASE Cameras!WizardOpen \/ Cameras!handleClose
  BY <1>1, <1>2, EmptyData DEF Cameras!WizardOpen, Cameras!handleClose, Cameras!Reset, Cameras!WizardServer, WizardTypes
<1>3. ASSUME NEW n \in CameraNames, NEW probe \in BOOLEAN, Cameras!handleContinue(n, probe) PROVE WizardTypes'
  <2>1. wizardData' \in WizardData /\ wizardData'.cameraName = n
    <3>1. wizardData' = [wizardData EXCEPT !.cameraName = n, !.probeMode = probe]
      BY <1>3 DEF Cameras!handleContinue
    <3>. QED  BY <1>1, <3>1, NameSet
  <2>. DEFINE d == wizardData'
  <2>2. d \in WizardData /\ d.cameraName \in CameraNames
    BY <2>1
  <2>3. wizardAsked' = wizardAsked \cup {Cameras!Start(d)}
    BY <1>3 DEF Cameras!handleContinue
  <2>. HIDE DEF d
  <2>4. \A t \in wizardAsked' : t.camera \in CameraNames /\ t.streams \in Seq(WizardStream)
    BY <1>1, <2>2, <2>3, StartIs
  <2>. QED  BY <1>1, <1>3, <2>1, <2>4 DEF Cameras!handleContinue, Cameras!WizardServer, WizardTypes
<1>4. CASE Cameras!handleBack \/ Cameras!Retry
  <2>1. currentStep > 1 /\ currentStep' \in 1..4 /\ result' \in {Null, result}
    BY <1>1, <1>4 DEF Cameras!handleBack, Cameras!Retry, Cameras!At
  <2>2. wizardAsked' = wizardAsked \/ wizardAsked' = wizardAsked \cup {Cameras!Start(wizardData)}
    BY <1>4 DEF Cameras!handleBack, Cameras!Retry
  <2>3. \A t \in wizardAsked' : t.camera \in CameraNames /\ t.streams \in Seq(WizardStream)
    BY <1>1, <2>1, <2>2, StartIs
  <2>4. UNCHANGED <<wizardData, wizardSaves, wizardCameras, go2rtc>>
    BY <1>4 DEF Cameras!handleBack, Cameras!Retry, Cameras!WizardServer
  <2>. QED  BY <1>1, <2>1, <2>3, <2>4 DEF WizardTypes
<1>5. ASSUME NEW t \in wizardAsked, NEW found \in BOOLEAN, Cameras!ProbeAnswer(t, found) \/ Cameras!ManualAnswer(t, found)
      PROVE  WizardTypes'
  <2>1. t.camera \in CameraNames
    BY <1>1
  <2>2. wizardData' \in WizardData /\ wizardData'.cameraName = wizardData.cameraName
    <3>1. CASE Cameras!ProbeAnswer(t, found)
      <4>1. UNCHANGED wizardData \/ wizardData' = [wizardData EXCEPT !.probeMode = TRUE, !.probeCandidates = {t.camera}]
        BY <3>1 DEF Cameras!ProbeAnswer
      <4>2. {t.camera} \in SUBSET CameraNames
        BY <2>1
      <4>. QED  BY <1>1, <4>1, <4>2, CandidatesSet
    <3>2. CASE Cameras!ManualAnswer(t, found)
      <4>. DEFINE one == [url |-> t.camera, tested |-> TRUE]
      <4>1. one \in WizardStream
        BY <2>1 DEF WizardStream
      <4>2. UNCHANGED wizardData \/ wizardData' = [wizardData EXCEPT !.streams = <<one>>]
        BY <3>2 DEF Cameras!ManualAnswer
      <4>. HIDE DEF one
      <4>3. <<one>> \in Seq(WizardStream)
        BY <4>1
      <4>. QED  BY <1>1, <4>2, <4>3, StreamsSet
    <3>. QED  BY <1>5, <3>1, <3>2
  <2>3. result' \in Cameras!Result \cup {Null}
    <3>1. result' = result \/ \E b \in BOOLEAN : result' = [probe |-> b, camera |-> t.camera]
      BY <1>5 DEF Cameras!ProbeAnswer, Cameras!ManualAnswer
    <3>. QED  BY <1>1, <2>1, <3>1 DEF Cameras!Result
  <2>. QED  BY <1>1, <1>5, <2>2, <2>3 DEF Cameras!ProbeAnswer, Cameras!ManualAnswer, Cameras!WizardServer, WizardTypes
<1>6. CASE Cameras!Next2
  <2>1. currentStep = 2 /\ result # Null /\ currentStep' = 3 /\ result' = Null /\ UNCHANGED <<wizardAsked, wizardSaves, wizardCameras, go2rtc>>
    BY <1>6 DEF Cameras!Next2, Cameras!At, Cameras!WizardServer
  <2>. DEFINE one == [url |-> result.camera, tested |-> FALSE]
  <2>2. UNCHANGED wizardData \/ wizardData' = [wizardData EXCEPT !.streams = <<one>>]
    BY <1>6 DEF Cameras!Next2
  <2>3. one \in WizardStream
    BY <1>1, <2>1 DEF WizardStream, Cameras!Result
  <2>. HIDE DEF one
  <2>4. <<one>> \in Seq(WizardStream)
    BY <2>3
  <2>5. wizardData' \in WizardData /\ wizardData'.cameraName = wizardData.cameraName
    BY <1>1, <2>2, <2>4, StreamsSet
  <2>. QED  BY <1>1, <2>1, <2>5 DEF WizardTypes
<1>7. CASE Cameras!addStream \/ \E i \in DOMAIN wizardData.streams : Cameras!removeStream(i)
  <2>1. currentStep = 3 /\ UNCHANGED <<currentStep, result, wizardAsked, wizardSaves, wizardCameras, go2rtc>>
    BY <1>7 DEF Cameras!addStream, Cameras!removeStream, Cameras!At, Cameras!WizardServer
  <2>. DEFINE one == [url |-> wizardData.cameraName, tested |-> FALSE]
  <2>2. one \in WizardStream
    BY <1>1, <2>1 DEF WizardStream
  <2>3. \/ wizardData' = [wizardData EXCEPT !.streams = Append(wizardData.streams, one)]
        \/ \E i \in DOMAIN wizardData.streams : wizardData' = [wizardData EXCEPT !.streams = Cameras!RemoveAt(wizardData.streams, i)]
    BY <1>7 DEF Cameras!addStream, Cameras!removeStream
  <2>. HIDE DEF one
  <2>4. Append(wizardData.streams, one) \in Seq(WizardStream)
    BY <1>1, <2>2
  <2>5. \A i \in DOMAIN wizardData.streams : Cameras!RemoveAt(wizardData.streams, i) \in Seq(WizardStream)
    BY <1>1, LeftIsOld
  <2>6. wizardData' \in WizardData /\ wizardData'.cameraName = wizardData.cameraName
    BY <1>1, <2>3, <2>4, <2>5, StreamsSet
  <2>. QED  BY <1>1, <2>1, <2>6 DEF WizardTypes
<1>8. ASSUME NEW how, NEW is, Cameras!Test(how, is), currentStep >= 3 PROVE WizardTypes'
  <2>. DEFINE tested == [i \in DOMAIN wizardData.streams |-> [wizardData.streams[i] EXCEPT !.tested = @ \/ i \in is]]
              t == [kind |-> how, camera |-> wizardData.cameraName, visit |-> visit, streams |-> tested]
  <2>1. wizardAsked' = wizardAsked \cup {t} /\ UNCHANGED <<currentStep, wizardData, result, wizardSaves, wizardCameras, go2rtc>>
    BY <1>8 DEF Cameras!Test, Cameras!WizardServer
  <2>2. tested \in Seq(WizardStream)
    BY <1>1, StreamsTested
  <2>. HIDE DEF tested
  <2>3. t.camera \in CameraNames /\ t.streams \in Seq(WizardStream)
    BY <1>1, <1>8, <2>2
  <2>. HIDE DEF t
  <2>. QED  BY <1>1, <2>1, <2>3 DEF WizardTypes
<1>9. CASE Cameras!validateAllStreams \/ \E i \in DOMAIN wizardData.streams : Cameras!testStream(i) \/ Cameras!validateStream(i)
  <2>1. currentStep >= 3 /\ \E how, is : Cameras!Test(how, is)
    BY <1>9, Tests
  <2>. QED  BY <1>8, <2>1
<1>10. ASSUME NEW t \in wizardAsked, Cameras!TestAnswer(t) \/ Cameras!ValidateAnswer(t) PROVE WizardTypes'
  <2>1. /\ wizardAsked' = wizardAsked \ {t} /\ wizardData' = [wizardData EXCEPT !.streams = t.streams]
        /\ UNCHANGED <<currentStep, result, wizardSaves, wizardCameras, go2rtc>>
    BY <1>10 DEF Cameras!TestAnswer, Cameras!ValidateAnswer, Cameras!WriteBack, Cameras!WizardServer
  <2>2. wizardData' \in WizardData /\ wizardData'.cameraName = wizardData.cameraName
    BY <1>1, <2>1, StreamsSet
  <2>. QED  BY <1>1, <2>1, <2>2 DEF WizardTypes
<1>11. CASE Cameras!Next3
  BY <1>1, <1>11 DEF Cameras!Next3, Cameras!At, Cameras!WizardServer, WizardTypes
<1>12. CASE Cameras!handleSave
  <2>. DEFINE s == [data |-> wizardData, stage |-> "checking", found |-> FALSE]
  <2>1. wizardSaves' = Append(wizardSaves, s) /\ UNCHANGED <<currentStep, wizardData, result, wizardAsked, wizardCameras, go2rtc>>
    BY <1>12 DEF Cameras!handleSave, Cameras!WizardServer
  <2>2. s \in WizardSave
    BY <1>1, <1>12 DEF Cameras!handleSave, Cameras!At, WizardSave
  <2>. HIDE DEF s
  <2>3. wizardSaves' \in Seq(WizardSave)
    BY <1>1, <2>1, <2>2
  <2>. QED  BY <1>1, <2>1, <2>3 DEF WizardTypes
<1>13. ASSUME NEW i \in DOMAIN wizardSaves, NEW ok \in BOOLEAN, Cameras!BackchannelAnswer(i, ok) PROVE WizardTypes'
  <2>. DEFINE s == [wizardSaves[i] EXCEPT !.stage = "camera", !.found = ok]
  <2>1. wizardSaves' = [wizardSaves EXCEPT ![i] = s]
    BY <1>13 DEF Cameras!BackchannelAnswer
  <2>2. s \in WizardSave
    BY SaveIs, SaveStaged
  <2>. HIDE DEF s
  <2>3. wizardSaves' \in Seq(WizardSave)
    BY <1>1, <2>1, <2>2
  <2>4. wizardData' \in WizardData /\ wizardData'.cameraName = wizardData.cameraName
    BY <1>1, <1>13, BackchannelSet DEF Cameras!BackchannelAnswer
  <2>. QED  BY <1>1, <1>13, <2>3, <2>4 DEF Cameras!BackchannelAnswer, Cameras!WizardServer, WizardTypes
<1>14. ASSUME NEW i \in DOMAIN wizardSaves, NEW ok \in BOOLEAN, Cameras!CameraAnswer(i, ok) PROVE WizardTypes'
  <2>. DEFINE s == [wizardSaves[i] EXCEPT !.stage = "go2rtc"]
  <2>1. wizardSaves' = [wizardSaves EXCEPT ![i] = s] \/ wizardSaves' = Cameras!RemoveAt(wizardSaves, i)
    BY <1>14 DEF Cameras!CameraAnswer
  <2>2. s \in WizardSave
    <3>1. \A found \in BOOLEAN : [wizardSaves[i] EXCEPT !.stage = "go2rtc"] \in WizardSave
      BY SaveIs, SaveStaged
    <3>. QED  BY <3>1
  <2>. HIDE DEF s
  <2>3. wizardSaves' \in Seq(WizardSave)
    <3>1. CASE wizardSaves' = [wizardSaves EXCEPT ![i] = s]
      BY <1>1, <2>2, <3>1
    <3>2. CASE wizardSaves' = Cameras!RemoveAt(wizardSaves, i)
      BY <1>1, <3>2, LeftIsOld
    <3>. QED  BY <2>1, <3>1, <3>2
  <2>4. \A c \in wizardCameras' : c.name \in CameraNames
    BY <1>1, <1>14, SaveIs DEF Cameras!CameraAnswer
  <2>. QED  BY <1>1, <1>14, <2>3, <2>4 DEF Cameras!CameraAnswer, WizardTypes
<1>15. ASSUME NEW i \in DOMAIN wizardSaves, NEW ok \in BOOLEAN, Cameras!Go2rtcAnswer(i, ok) PROVE WizardTypes'
  <2>1. /\ wizardSaves' = Cameras!RemoveAt(wizardSaves, i) /\ UNCHANGED <<wizardAsked, wizardCameras>>
        /\ currentStep' = 1 /\ wizardData' = Cameras!NoData /\ result' = Null
    BY <1>15 DEF Cameras!Go2rtcAnswer, Cameras!Reset
  <2>2. wizardSaves' \in Seq(WizardSave)
    BY <1>1, <2>1, LeftIsOld
  <2>3. Cameras!go2rtcStreams(wizardSaves[i].data) \in Cameras!Restreams
    BY SaveIs, UrlsAre DEF Cameras!go2rtcStreams, Cameras!Restreams, WizardData, DataWith
  <2>4. go2rtc' \in [CameraNames -> Cameras!Restreams \cup {Null}]
    BY <1>1, <1>15, <2>3, SaveIs DEF Cameras!Go2rtcAnswer
  <2>. QED  BY <1>1, <2>1, <2>2, <2>4, EmptyData DEF WizardTypes
<1>. QED  BY <1>2, <1>3, <1>4, <1>5, <1>6, <1>7, <1>9, <1>10, <1>11, <1>12, <1>13, <1>14, <1>15 DEF Cameras!WizardNext

LEMMA WizardRemembers == ASSUME Cameras!WizardNext PROVE wizardCrossed \subseteq wizardCrossed'
<1>1. CASE \/ Cameras!WizardOpen \/ Cameras!handleClose \/ Cameras!handleBack \/ Cameras!Retry \/ Cameras!Next2 \/ Cameras!addStream
           \/ Cameras!Next3 \/ Cameras!handleSave
           \/ \E n \in CameraNames, probe \in BOOLEAN : Cameras!handleContinue(n, probe)
           \/ \E i \in DOMAIN wizardData.streams : Cameras!removeStream(i)
  BY <1>1 DEF Cameras!WizardOpen, Cameras!handleClose, Cameras!handleBack, Cameras!Retry, Cameras!Next2, Cameras!addStream,
              Cameras!Next3, Cameras!handleSave, Cameras!handleContinue, Cameras!removeStream
<1>2. CASE Cameras!validateAllStreams \/ \E i \in DOMAIN wizardData.streams : Cameras!testStream(i) \/ Cameras!validateStream(i)
  BY <1>2, Tests DEF Cameras!Test
<1>3. CASE \/ \E t \in wizardAsked, found \in BOOLEAN : Cameras!ProbeAnswer(t, found) \/ Cameras!ManualAnswer(t, found)
           \/ \E t \in wizardAsked : Cameras!TestAnswer(t) \/ Cameras!ValidateAnswer(t)
  BY <1>3 DEF Cameras!ProbeAnswer, Cameras!ManualAnswer, Cameras!TestAnswer, Cameras!ValidateAnswer, Cameras!WriteBack
<1>4. CASE \E i \in DOMAIN wizardSaves, ok \in BOOLEAN :
             Cameras!BackchannelAnswer(i, ok) \/ Cameras!CameraAnswer(i, ok) \/ Cameras!Go2rtcAnswer(i, ok)
  BY <1>4 DEF Cameras!BackchannelAnswer, Cameras!CameraAnswer, Cameras!Go2rtcAnswer
<1>. QED  BY <1>1, <1>2, <1>3, <1>4 DEF Cameras!WizardNext

LEMMA OneOwn == ASSUME NEW n, NEW b PROVE OwnTo(<<[url |-> n, tested |-> b]>>, n)
<1>. DEFINE one == [url |-> n, tested |-> b]
<1>1. one.url = n
  OBVIOUS
<1>. HIDE DEF one
<1>2. \A i \in DOMAIN <<one>> : <<one>>[i] = one
  OBVIOUS
<1>. QED  BY <1>1, <1>2 DEF OwnTo, one

LEMMA DataNext ==
    ASSUME WizardTypes, DataIsOwn, TestsAreOwn, Cameras!WizardNext, "late" \notin wizardCrossed'
    PROVE  DataIsOwn'
<1>1. wizardData \in WizardData /\ wizardData.streams \in Seq(WizardStream) /\ currentStep \in 1..4
      /\ (currentStep > 1 => wizardData.cameraName \in CameraNames)
      /\ \A t \in wizardAsked : t.camera \in CameraNames /\ t.streams \in Seq(WizardStream)
  BY DEF WizardTypes, WizardData, DataWith
<1>2. ASSUME currentStep' = 1 \/ currentStep' = 2, result' = Null PROVE DataIsOwn'
  BY <1>2 DEF DataIsOwn
<1>3. ASSUME result' = Null, OwnTo(wizardData.streams, wizardData.cameraName)' PROVE DataIsOwn'
  BY <1>3 DEF DataIsOwn
<1>4. ASSUME currentStep' >= 3 => currentStep >= 3, UNCHANGED result, wizardData'.cameraName = wizardData.cameraName,
             wizardData'.streams = wizardData.streams
      PROVE  DataIsOwn'
  BY <1>4 DEF DataIsOwn, OwnTo
<1>5. CASE Cameras!WizardOpen \/ Cameras!handleClose
  BY <1>2, <1>5 DEF Cameras!WizardOpen, Cameras!handleClose, Cameras!Reset
<1>6. CASE \E n \in CameraNames, probe \in BOOLEAN : Cameras!handleContinue(n, probe)
  BY <1>2, <1>6 DEF Cameras!handleContinue
<1>7. CASE Cameras!handleBack
  <2>1. result' = Null /\ UNCHANGED wizardData /\ currentStep' = currentStep - 1
    BY <1>7 DEF Cameras!handleBack
  <2>. QED  BY <1>1, <2>1 DEF DataIsOwn, OwnTo
<1>8. CASE Cameras!Retry \/ Cameras!handleSave
  BY <1>4, <1>8 DEF Cameras!Retry, Cameras!handleSave
<1>9. ASSUME NEW t \in wizardAsked, NEW found \in BOOLEAN, Cameras!ProbeAnswer(t, found) PROVE DataIsOwn'
  <2>1. /\ t.kind = "probe" /\ UNCHANGED currentStep
        /\ UNCHANGED wizardData \/ wizardData' = [wizardData EXCEPT !.probeMode = TRUE, !.probeCandidates = {t.camera}]
        /\ result' = result \/ (result' = [probe |-> t.kind = "probe", camera |-> t.camera] /\ wizardData.cameraName = t.camera)
    BY <1>9 DEF Cameras!ProbeAnswer
  <2>2. wizardData'.cameraName = wizardData.cameraName /\ wizardData'.streams = wizardData.streams
    <3>1. {t.camera} \in SUBSET CameraNames
      BY <1>1
    <3>. QED  BY <1>1, <2>1, <3>1, CandidatesSet
  <2>3. CASE result' = result
    BY <1>4, <2>1, <2>2, <2>3
  <2>4. CASE result' = [probe |-> t.kind = "probe", camera |-> t.camera] /\ wizardData.cameraName = t.camera
    <3>1. result'.camera = wizardData'.cameraName /\ result'.probe
      BY <2>1, <2>2, <2>4
    <3>. QED  BY <2>1, <2>2, <3>1 DEF DataIsOwn, OwnTo
  <2>. QED  BY <2>1, <2>3, <2>4
<1>10. ASSUME NEW t \in wizardAsked, NEW found \in BOOLEAN, Cameras!ManualAnswer(t, found) PROVE DataIsOwn'
  <2>1. CASE ~found
    BY <1>4, <1>10, <2>1 DEF Cameras!ManualAnswer
  <2>2. CASE found
    <3>. DEFINE one == [url |-> t.camera, tested |-> TRUE]
    <3>1. wizardData' = [wizardData EXCEPT !.streams = <<one>>] /\ wizardData.cameraName = t.camera
      BY <1>10, <2>2 DEF Cameras!ManualAnswer
    <3>2. one \in WizardStream /\ OwnTo(<<one>>, t.camera)
      BY <1>1, OneOwn DEF WizardStream
    <3>. HIDE DEF one
    <3>3. <<one>> \in Seq(WizardStream)
      BY <3>2
    <3>4. wizardData'.cameraName = t.camera /\ wizardData'.streams = <<one>>
      BY <1>1, <3>1, <3>3, StreamsSet
    <3>5. OwnTo(wizardData.streams, wizardData.cameraName)'
      BY <3>2, <3>4 DEF OwnTo
    <3>6. result' = result \/ \E b : result' = [probe |-> b, camera |-> t.camera]
      BY <1>10 DEF Cameras!ManualAnswer
    <3>7. result' # Null => result'.camera = wizardData'.cameraName
      BY <3>1, <3>4, <3>6 DEF DataIsOwn
    <3>. QED  BY <3>5, <3>7 DEF DataIsOwn
  <2>. QED  BY <2>1, <2>2
<1>11. CASE Cameras!Next2
  <2>1. result # Null /\ result' = Null /\ result.camera = wizardData.cameraName
        /\ (~result.probe => OwnTo(wizardData.streams, wizardData.cameraName)) /\ wizardData.cameraName \in CameraNames
    BY <1>1, <1>11 DEF Cameras!Next2, Cameras!At, DataIsOwn
  <2>2. CASE result.probe
    <3>. DEFINE one == [url |-> result.camera, tested |-> FALSE]
    <3>1. wizardData' = [wizardData EXCEPT !.streams = <<one>>]
      BY <1>11, <2>2 DEF Cameras!Next2
    <3>2. one \in WizardStream /\ OwnTo(<<one>>, result.camera)
      BY <2>1, OneOwn DEF WizardStream
    <3>. HIDE DEF one
    <3>3. <<one>> \in Seq(WizardStream)
      BY <3>2
    <3>4. wizardData'.cameraName = wizardData.cameraName /\ wizardData'.streams = <<one>>
      BY <1>1, <3>1, <3>3, StreamsSet
    <3>5. OwnTo(wizardData.streams, wizardData.cameraName)'
      BY <2>1, <3>2, <3>4 DEF OwnTo
    <3>. QED  BY <1>3, <2>1, <3>5
  <2>3. CASE ~result.probe
    <3>1. UNCHANGED wizardData
      BY <1>11, <2>3 DEF Cameras!Next2
    <3>2. OwnTo(wizardData.streams, wizardData.cameraName)'
      BY <2>1, <2>3, <3>1 DEF OwnTo
    <3>. QED  BY <1>3, <2>1, <3>2
  <2>. QED  BY <2>2, <2>3
<1>12. ASSUME NEW s \in Seq(WizardStream), wizardData' = [wizardData EXCEPT !.streams = s], OwnTo(s, wizardData.cameraName), UNCHANGED result
       PROVE  DataIsOwn'
  <2>1. wizardData'.cameraName = wizardData.cameraName /\ wizardData'.streams = s
    BY <1>1, <1>12, StreamsSet
  <2>2. OwnTo(wizardData.streams, wizardData.cameraName)'
    BY <1>12, <2>1 DEF OwnTo
  <2>. QED  BY <1>12, <2>1, <2>2 DEF DataIsOwn
<1>13. CASE Cameras!addStream
  <2>. DEFINE one == [url |-> wizardData.cameraName, tested |-> FALSE]
              s == Append(wizardData.streams, one)
  <2>1. currentStep = 3 /\ wizardData' = [wizardData EXCEPT !.streams = s] /\ UNCHANGED result
    BY <1>13 DEF Cameras!addStream, Cameras!At
  <2>2. one \in WizardStream /\ one.url = wizardData.cameraName
    BY <1>1, <2>1 DEF WizardStream
  <2>3. OwnTo(wizardData.streams, wizardData.cameraName)
    BY <2>1 DEF DataIsOwn
  <2>. HIDE DEF one
  <2>4. s \in Seq(WizardStream) /\ OwnTo(s, wizardData.cameraName)
    BY <1>1, <2>2, <2>3 DEF OwnTo
  <2>. HIDE DEF s
  <2>. QED  BY <1>12, <2>1, <2>4
<1>14. ASSUME NEW i \in DOMAIN wizardData.streams, Cameras!removeStream(i) PROVE DataIsOwn'
  <2>. DEFINE s == Cameras!RemoveAt(wizardData.streams, i)
  <2>1. currentStep = 3 /\ wizardData' = [wizardData EXCEPT !.streams = s] /\ UNCHANGED result
    BY <1>14 DEF Cameras!removeStream, Cameras!At
  <2>2. OwnTo(wizardData.streams, wizardData.cameraName)
    BY <2>1 DEF DataIsOwn
  <2>3. s \in Seq(WizardStream) /\ \A j \in DOMAIN s : \E k \in DOMAIN wizardData.streams : s[j] = wizardData.streams[k]
    BY <1>1, LeftIsOld
  <2>. HIDE DEF s
  <2>4. OwnTo(s, wizardData.cameraName)
    BY <2>2, <2>3 DEF OwnTo
  <2>. QED  BY <1>12, <2>1, <2>3, <2>4
<1>15. CASE Cameras!validateAllStreams \/ \E i \in DOMAIN wizardData.streams : Cameras!testStream(i) \/ Cameras!validateStream(i)
  BY <1>4, <1>15, Tests DEF Cameras!Test
<1>16. ASSUME NEW t \in wizardAsked, Cameras!TestAnswer(t) \/ Cameras!ValidateAnswer(t) PROVE DataIsOwn'
  <2>1. /\ wizardData' = [wizardData EXCEPT !.streams = t.streams] /\ UNCHANGED result
        /\ t.kind \in {"test", "validate", "validateAll"} /\ wizardData.cameraName = t.camera
    BY <1>16 DEF Cameras!TestAnswer, Cameras!ValidateAnswer, Cameras!WriteBack
  <2>2. OwnTo(t.streams, wizardData.cameraName)
    BY <2>1 DEF TestsAreOwn
  <2>. QED  BY <1>1, <1>12, <2>1, <2>2
<1>17. CASE Cameras!Next3
  BY <1>4, <1>17 DEF Cameras!Next3, Cameras!At
<1>18. ASSUME NEW i \in DOMAIN wizardSaves, NEW ok \in BOOLEAN, Cameras!BackchannelAnswer(i, ok) PROVE DataIsOwn'
  <2>1. wizardData' = [wizardData EXCEPT !.hasBackchannel = ok] /\ UNCHANGED <<currentStep, result>>
    BY <1>18 DEF Cameras!BackchannelAnswer
  <2>. QED  BY <1>1, <1>4, <2>1, BackchannelSet
<1>19. CASE \E i \in DOMAIN wizardSaves, ok \in BOOLEAN : Cameras!CameraAnswer(i, ok) \/ Cameras!Go2rtcAnswer(i, ok)
  BY <1>2, <1>4, <1>19 DEF Cameras!CameraAnswer, Cameras!Go2rtcAnswer, Cameras!Reset
<1>. QED  BY <1>5, <1>6, <1>7, <1>8, <1>9, <1>10, <1>11, <1>13, <1>14, <1>15, <1>16, <1>17, <1>18, <1>19 DEF Cameras!WizardNext

LEMMA TestsNext ==
    ASSUME WizardTypes, DataIsOwn, TestsAreOwn, Cameras!WizardNext
    PROVE  TestsAreOwn'
<1>1. wizardData \in WizardData /\ wizardData.streams \in Seq(WizardStream) /\ (currentStep > 1 => wizardData.cameraName \in CameraNames)
  BY DEF WizardTypes, WizardData, DataWith
<1>2. ASSUME wizardAsked' \subseteq wizardAsked PROVE TestsAreOwn'
  BY <1>2 DEF TestsAreOwn, OwnTo
<1>3. ASSUME NEW t, wizardAsked' = wizardAsked \cup {t}, t.kind \in {"probe", "manual"} \/ OwnTo(t.streams, t.camera) PROVE TestsAreOwn'
  BY <1>3 DEF TestsAreOwn, OwnTo
<1>4. CASE \/ Cameras!WizardOpen \/ Cameras!handleClose \/ Cameras!Next2 \/ Cameras!addStream \/ Cameras!Next3 \/ Cameras!handleSave
           \/ \E i \in DOMAIN wizardData.streams : Cameras!removeStream(i)
           \/ \E i \in DOMAIN wizardSaves, ok \in BOOLEAN :
                 Cameras!BackchannelAnswer(i, ok) \/ Cameras!CameraAnswer(i, ok) \/ Cameras!Go2rtcAnswer(i, ok)
  BY <1>2, <1>4 DEF Cameras!WizardOpen, Cameras!handleClose, Cameras!Next2, Cameras!addStream, Cameras!Next3, Cameras!handleSave,
                    Cameras!removeStream, Cameras!BackchannelAnswer, Cameras!CameraAnswer, Cameras!Go2rtcAnswer
<1>5. CASE \E t \in wizardAsked, found \in BOOLEAN : Cameras!ProbeAnswer(t, found) \/ Cameras!ManualAnswer(t, found)
  BY <1>2, <1>5 DEF Cameras!ProbeAnswer, Cameras!ManualAnswer
<1>6. CASE \E t \in wizardAsked : Cameras!TestAnswer(t) \/ Cameras!ValidateAnswer(t)
  BY <1>2, <1>6 DEF Cameras!TestAnswer, Cameras!ValidateAnswer, Cameras!WriteBack
<1>7. ASSUME NEW n \in CameraNames, NEW probe \in BOOLEAN, Cameras!handleContinue(n, probe) PROVE TestsAreOwn'
  <2>. DEFINE t == Cameras!Start(wizardData')
  <2>1. wizardAsked' = wizardAsked \cup {t}
    BY <1>7 DEF Cameras!handleContinue
  <2>2. t.kind \in {"probe", "manual"}
    BY DEF Cameras!Start
  <2>. HIDE DEF t
  <2>. QED  BY <1>3, <2>1, <2>2
<1>8. CASE Cameras!handleBack \/ Cameras!Retry
  <2>. DEFINE t == Cameras!Start(wizardData)
  <2>1. wizardAsked' = wizardAsked \/ wizardAsked' = wizardAsked \cup {t}
    BY <1>8 DEF Cameras!handleBack, Cameras!Retry
  <2>2. t.kind \in {"probe", "manual"}
    BY DEF Cameras!Start
  <2>. HIDE DEF t
  <2>. QED  BY <1>2, <1>3, <2>1, <2>2
<1>9. CASE Cameras!validateAllStreams \/ \E i \in DOMAIN wizardData.streams : Cameras!testStream(i) \/ Cameras!validateStream(i)
  <2>1. PICK how, is : Cameras!Test(how, is) /\ currentStep >= 3
    BY <1>9, Tests
  <2>. DEFINE tested == [i \in DOMAIN wizardData.streams |-> [wizardData.streams[i] EXCEPT !.tested = @ \/ i \in is]]
              t == [kind |-> how, camera |-> wizardData.cameraName, visit |-> visit, streams |-> tested]
  <2>2. wizardAsked' = wizardAsked \cup {t}
    BY <2>1 DEF Cameras!Test
  <2>3. tested \in Seq(WizardStream) /\ DOMAIN tested = DOMAIN wizardData.streams
        /\ \A i \in DOMAIN wizardData.streams : tested[i].url = wizardData.streams[i].url
    <3>1. tested = [i \in DOMAIN wizardData.streams |-> [wizardData.streams[i] EXCEPT !.tested = @ \/ i \in is]]
      OBVIOUS
    <3>. HIDE DEF tested
    <3>. DEFINE q == wizardData.streams
    <3>2. q \in Seq(WizardStream) /\ tested = [i \in DOMAIN q |-> [q[i] EXCEPT !.tested = @ \/ i \in is]]
      BY <1>1, <3>1
    <3>. HIDE DEF q
    <3>3. tested \in Seq(WizardStream) /\ DOMAIN tested = DOMAIN q
      BY <3>2, StreamsTested
    <3>4. ASSUME NEW i \in DOMAIN q PROVE tested[i].url = q[i].url
      <4>. DEFINE b == q[i].tested \/ i \in is
      <4>1. tested[i] = [q[i] EXCEPT !.tested = b] /\ q[i] \in WizardStream
        BY <3>2
      <4>. HIDE DEF b
      <4>. QED  BY <4>1 DEF WizardStream
    <3>. QED  BY <3>3, <3>4 DEF q
  <2>. HIDE DEF tested
  <2>4. OwnTo(tested, wizardData.cameraName)
    BY <2>1, <2>3 DEF DataIsOwn, OwnTo
  <2>5. OwnTo(t.streams, t.camera)
    BY <2>4
  <2>. HIDE DEF t
  <2>. QED  BY <1>3, <2>2, <2>5
<1>. QED  BY <1>4, <1>5, <1>6, <1>7, <1>8, <1>9 DEF Cameras!WizardNext

\* The saves, the cameras and the restreams are left alone.
LEMMA NothingSaved ==
    ASSUME \/ Cameras!WizardOpen \/ Cameras!handleClose \/ Cameras!handleBack \/ Cameras!Retry \/ Cameras!Next2 \/ Cameras!addStream
           \/ Cameras!validateAllStreams \/ Cameras!Next3
           \/ \E n \in CameraNames, probe \in BOOLEAN : Cameras!handleContinue(n, probe)
           \/ \E t \in wizardAsked, found \in BOOLEAN : Cameras!ProbeAnswer(t, found) \/ Cameras!ManualAnswer(t, found)
           \/ \E t \in wizardAsked : Cameras!TestAnswer(t) \/ Cameras!ValidateAnswer(t)
           \/ \E i \in DOMAIN wizardData.streams : Cameras!removeStream(i) \/ Cameras!testStream(i) \/ Cameras!validateStream(i)
    PROVE  UNCHANGED <<wizardSaves, wizardCameras, go2rtc>>
<1>. USE DEF Cameras!WizardServer
<1>1. CASE Cameras!validateAllStreams \/ \E i \in DOMAIN wizardData.streams : Cameras!testStream(i) \/ Cameras!validateStream(i)
  BY <1>1, Tests DEF Cameras!Test
<1>2. CASE \/ Cameras!WizardOpen \/ Cameras!handleClose \/ Cameras!handleBack \/ Cameras!Retry \/ Cameras!Next2 \/ Cameras!addStream
           \/ Cameras!Next3 \/ \E n \in CameraNames, probe \in BOOLEAN : Cameras!handleContinue(n, probe)
           \/ \E i \in DOMAIN wizardData.streams : Cameras!removeStream(i)
  BY <1>2 DEF Cameras!WizardOpen, Cameras!handleClose, Cameras!handleBack, Cameras!Retry, Cameras!Next2, Cameras!addStream,
              Cameras!Next3, Cameras!handleContinue, Cameras!removeStream
<1>3. CASE \/ \E t \in wizardAsked, found \in BOOLEAN : Cameras!ProbeAnswer(t, found) \/ Cameras!ManualAnswer(t, found)
           \/ \E t \in wizardAsked : Cameras!TestAnswer(t) \/ Cameras!ValidateAnswer(t)
  BY <1>3 DEF Cameras!ProbeAnswer, Cameras!ManualAnswer, Cameras!TestAnswer, Cameras!ValidateAnswer, Cameras!WriteBack
<1>. QED  BY <1>1, <1>2, <1>3

\* A save that changes its stage, or ends.
LEMMA SaveMoves ==
    ASSUME WizardTypes, NEW i \in DOMAIN wizardSaves, NEW stage \in {"checking", "camera", "go2rtc"}, NEW found \in BOOLEAN,
           \/ wizardSaves' = [wizardSaves EXCEPT ![i].stage = stage]
           \/ wizardSaves' = [wizardSaves EXCEPT ![i].stage = stage, ![i].found = found]
    PROVE  /\ DOMAIN wizardSaves' = DOMAIN wizardSaves /\ wizardSaves'[i].stage = stage /\ \A j \in DOMAIN wizardSaves : wizardSaves'[j].data = wizardSaves[j].data
           /\ \A j \in DOMAIN wizardSaves : j # i => wizardSaves'[j] = wizardSaves[j]
<1>. DEFINE s == [wizardSaves[i] EXCEPT !.stage = stage]
            t == [wizardSaves[i] EXCEPT !.stage = stage, !.found = found]
<1>1. wizardSaves' = [wizardSaves EXCEPT ![i] = s] \/ wizardSaves' = [wizardSaves EXCEPT ![i] = t]
  OBVIOUS
<1>2. wizardSaves[i] \in WizardSave /\ wizardSaves \in Seq(WizardSave)
  BY SaveIs DEF WizardTypes
<1>3. s.data = wizardSaves[i].data /\ s.stage = stage
  BY <1>2 DEF WizardSave
<1>4. t.data = wizardSaves[i].data /\ t.stage = stage
  BY <1>2 DEF WizardSave
<1>. HIDE DEF s, t
<1>. QED  BY <1>1, <1>2, <1>3, <1>4

LEMMA WizardSaveEnds ==
    ASSUME WizardTypes, NEW i \in DOMAIN wizardSaves, wizardSaves' = Cameras!RemoveAt(wizardSaves, i)
    PROVE  /\ \A j \in DOMAIN wizardSaves' : \E k \in DOMAIN wizardSaves \ {i} : wizardSaves'[j] = wizardSaves[k]
           /\ \A k \in DOMAIN wizardSaves \ {i} : \E j \in DOMAIN wizardSaves' : wizardSaves'[j] = wizardSaves[k]
<1>1. wizardSaves \in Seq(WizardSave)
  BY DEF WizardTypes
<1>. QED  BY <1>1, LeftIsOld

LEMMA SavesNext ==
    ASSUME WizardTypes, DataIsOwn, SavesAreOwn, AddedAreOwn, Cameras!WizardNext
    PROVE  SavesAreOwn' /\ AddedAreOwn'
<1>1. ASSUME UNCHANGED <<wizardSaves, wizardCameras>> PROVE SavesAreOwn' /\ AddedAreOwn'
  BY <1>1 DEF SavesAreOwn, AddedAreOwn, OwnTo
<1>2. CASE Cameras!handleSave
  <2>. DEFINE s == [data |-> wizardData, stage |-> "checking", found |-> FALSE]
  <2>1. wizardSaves' = Append(wizardSaves, s) /\ UNCHANGED wizardCameras /\ currentStep >= 3 /\ wizardSaves \in Seq(WizardSave)
    BY <1>2 DEF Cameras!handleSave, Cameras!At, Cameras!WizardServer, WizardTypes
  <2>2. s.data = wizardData /\ OwnTo(wizardData.streams, wizardData.cameraName)
    BY <2>1 DEF DataIsOwn
  <2>. HIDE DEF s
  <2>3. \A j \in DOMAIN wizardSaves' : wizardSaves'[j] = s \/ (j \in DOMAIN wizardSaves /\ wizardSaves'[j] = wizardSaves[j])
    BY <2>1
  <2>4. OwnTo(s.data.streams, s.data.cameraName)
    BY <2>2
  <2>. QED  BY <2>1, <2>3, <2>4 DEF SavesAreOwn, AddedAreOwn, OwnTo
<1>3. ASSUME NEW i \in DOMAIN wizardSaves, NEW ok \in BOOLEAN, Cameras!BackchannelAnswer(i, ok) PROVE SavesAreOwn' /\ AddedAreOwn'
  <2>1. /\ DOMAIN wizardSaves' = DOMAIN wizardSaves /\ \A j \in DOMAIN wizardSaves : wizardSaves'[j].data = wizardSaves[j].data
        /\ UNCHANGED wizardCameras
    BY <1>3, SaveMoves DEF Cameras!BackchannelAnswer, Cameras!WizardServer
  <2>. QED  BY <2>1 DEF SavesAreOwn, AddedAreOwn, OwnTo
<1>4. ASSUME NEW i \in DOMAIN wizardSaves, NEW ok \in BOOLEAN, Cameras!CameraAnswer(i, ok) PROVE SavesAreOwn' /\ AddedAreOwn'
  <2>1. CASE ok
    <3>. DEFINE c == [name |-> wizardSaves[i].data.cameraName, urls |-> Cameras!Urls(wizardSaves[i].data.streams)]
    <3>1. wizardCameras' = wizardCameras \cup {c} /\ wizardSaves' = [wizardSaves EXCEPT ![i].stage = "go2rtc"]
      BY <1>4, <2>1 DEF Cameras!CameraAnswer
    <3>2. \A j \in DOMAIN c.urls : c.urls[j] = c.name
      BY SaveIs, UrlsAre DEF SavesAreOwn, OwnTo
    <3>. HIDE DEF c
    <3>3. DOMAIN wizardSaves' = DOMAIN wizardSaves /\ \A j \in DOMAIN wizardSaves : wizardSaves'[j].data = wizardSaves[j].data
      BY <3>1, SaveMoves
    <3>. QED  BY <3>1, <3>2, <3>3 DEF SavesAreOwn, AddedAreOwn, OwnTo
  <2>2. CASE ~ok
    <3>1. UNCHANGED wizardCameras /\ \A j \in DOMAIN wizardSaves' : \E k \in DOMAIN wizardSaves \ {i} : wizardSaves'[j] = wizardSaves[k]
      BY <1>4, <2>2, WizardSaveEnds DEF Cameras!CameraAnswer
    <3>. QED  BY <3>1 DEF SavesAreOwn, AddedAreOwn, OwnTo
  <2>. QED  BY <2>1, <2>2
<1>5. ASSUME NEW i \in DOMAIN wizardSaves, NEW ok \in BOOLEAN, Cameras!Go2rtcAnswer(i, ok) PROVE SavesAreOwn' /\ AddedAreOwn'
  <2>1. UNCHANGED wizardCameras /\ \A j \in DOMAIN wizardSaves' : \E k \in DOMAIN wizardSaves \ {i} : wizardSaves'[j] = wizardSaves[k]
    BY <1>5, WizardSaveEnds DEF Cameras!Go2rtcAnswer
  <2>. QED  BY <2>1 DEF SavesAreOwn, AddedAreOwn, OwnTo
<1>. QED  BY <1>1, <1>2, <1>3, <1>4, <1>5, NothingSaved DEF Cameras!WizardNext

LEMMA RestreamNext == ASSUME WizardTypes, RestreamInv, Cameras!WizardNext PROVE RestreamInv'
<1>. SUFFICES ASSUME "unwritten" \notin wizardCrossed' PROVE RestreamInv'
  BY DEF RestreamInv
<1>. DEFINE Saved(n) == \E i \in DOMAIN wizardSaves : wizardSaves[i].stage = "go2rtc" /\ wizardSaves[i].data.cameraName = n
<1>1. \A c \in wizardCameras : go2rtc[c.name] # Null \/ Saved(c.name)
  BY WizardRemembers DEF RestreamInv
<1>2. ASSUME \A c \in wizardCameras' : go2rtc'[c.name] # Null \/ Saved(c.name)' PROVE RestreamInv'
  BY <1>2 DEF RestreamInv
<1>3. CASE UNCHANGED <<wizardSaves, wizardCameras, go2rtc>>
  BY <1>1, <1>3 DEF RestreamInv
<1>4. ASSUME UNCHANGED go2rtc, wizardCameras' = wizardCameras,
             \A k \in DOMAIN wizardSaves : wizardSaves[k].stage = "go2rtc" =>
                \E j \in DOMAIN wizardSaves' : wizardSaves'[j].stage = "go2rtc" /\ wizardSaves'[j].data.cameraName = wizardSaves[k].data.cameraName
      PROVE  RestreamInv'
  BY <1>1, <1>2, <1>4
<1>5. CASE Cameras!handleSave
  <2>. DEFINE s == [data |-> wizardData, stage |-> "checking", found |-> FALSE]
  <2>1. wizardSaves' = Append(wizardSaves, s) /\ UNCHANGED <<wizardCameras, go2rtc>> /\ wizardSaves \in Seq(WizardSave)
    BY <1>5 DEF Cameras!handleSave, Cameras!WizardServer, WizardTypes
  <2>. HIDE DEF s
  <2>2. \A k \in DOMAIN wizardSaves : k \in DOMAIN wizardSaves' /\ wizardSaves'[k] = wizardSaves[k]
    BY <2>1
  <2>. QED  BY <1>4, <2>1, <2>2
<1>6. ASSUME NEW i \in DOMAIN wizardSaves, NEW ok \in BOOLEAN, Cameras!BackchannelAnswer(i, ok) PROVE RestreamInv'
  <2>1. /\ DOMAIN wizardSaves' = DOMAIN wizardSaves /\ \A j \in DOMAIN wizardSaves : j # i => wizardSaves'[j] = wizardSaves[j]
        /\ wizardSaves[i].stage = "checking" /\ UNCHANGED <<wizardCameras, go2rtc>>
    BY <1>6, SaveMoves DEF Cameras!BackchannelAnswer, Cameras!WizardServer
  <2>. QED  BY <1>4, <2>1
<1>7. ASSUME NEW i \in DOMAIN wizardSaves, NEW ok \in BOOLEAN, Cameras!CameraAnswer(i, ok) PROVE RestreamInv'
  <2>0. wizardSaves[i].stage = "camera" /\ UNCHANGED go2rtc
    BY <1>7 DEF Cameras!CameraAnswer
  <2>1. CASE ok
    <3>1. wizardCameras' = wizardCameras \cup {[name |-> wizardSaves[i].data.cameraName, urls |-> Cameras!Urls(wizardSaves[i].data.streams)]}
          /\ wizardSaves' = [wizardSaves EXCEPT ![i].stage = "go2rtc"]
      BY <1>7, <2>1 DEF Cameras!CameraAnswer
    <3>2. /\ DOMAIN wizardSaves' = DOMAIN wizardSaves /\ wizardSaves'[i].stage = "go2rtc" /\ \A j \in DOMAIN wizardSaves : wizardSaves'[j].data = wizardSaves[j].data
          /\ \A j \in DOMAIN wizardSaves : j # i => wizardSaves'[j] = wizardSaves[j]
      BY <3>1, SaveMoves
    <3>3. Saved(wizardSaves[i].data.cameraName)'
      BY <3>2
    <3>4. ASSUME NEW c \in wizardCameras PROVE go2rtc'[c.name] # Null \/ Saved(c.name)'
      BY <1>1, <2>0, <3>2
    <3>. QED  BY <1>2, <3>1, <3>2, <3>4
  <2>2. CASE ~ok
    <3>1. UNCHANGED wizardCameras /\ \A k \in DOMAIN wizardSaves \ {i} : \E j \in DOMAIN wizardSaves' : wizardSaves'[j] = wizardSaves[k]
      BY <1>7, <2>2, WizardSaveEnds DEF Cameras!CameraAnswer
    <3>2. \A k \in DOMAIN wizardSaves : wizardSaves[k].stage = "go2rtc" => k \in DOMAIN wizardSaves \ {i}
      BY <2>0
    <3>. QED  BY <1>4, <2>0, <3>1, <3>2
  <2>. QED  BY <2>1, <2>2
<1>8. ASSUME NEW i \in DOMAIN wizardSaves, NEW ok \in BOOLEAN, Cameras!Go2rtcAnswer(i, ok) PROVE RestreamInv'
  <2>. DEFINE n == wizardSaves[i].data.cameraName
              r == Cameras!go2rtcStreams(wizardSaves[i].data)
  <2>1. ok /\ go2rtc' = [go2rtc EXCEPT ![n] = r] /\ UNCHANGED wizardCameras
    BY <1>8 DEF Cameras!Go2rtcAnswer
  <2>2. \A k \in DOMAIN wizardSaves \ {i} : \E j \in DOMAIN wizardSaves' : wizardSaves'[j] = wizardSaves[k]
    BY <1>8, WizardSaveEnds DEF Cameras!Go2rtcAnswer
  <2>3. r # Null
    <3>1. r \in Cameras!Restreams
      BY SaveIs, UrlsAre DEF Cameras!go2rtcStreams, Cameras!Restreams, WizardData, DataWith
    <3>. QED  BY <3>1, CamerasAssumption
  <2>. HIDE DEF r
  <2>4. ASSUME NEW c \in wizardCameras PROVE go2rtc'[c.name] # Null \/ Saved(c.name)'
    <3>1. c.name \in CameraNames /\ go2rtc \in [CameraNames -> Cameras!Restreams \cup {Null}]
      BY DEF WizardTypes
    <3>2. CASE c.name = n
      BY <2>1, <2>3, <3>1, <3>2
    <3>3. CASE c.name # n
      <4>1. go2rtc'[c.name] = go2rtc[c.name]
        BY <2>1, <3>1, <3>3
      <4>2. ASSUME NEW k \in DOMAIN wizardSaves, wizardSaves[k].stage = "go2rtc", wizardSaves[k].data.cameraName = c.name PROVE Saved(c.name)'
        BY <2>2, <3>3, <4>2
      <4>. QED  BY <1>1, <4>1, <4>2
    <3>. QED  BY <3>2, <3>3
  <2>. QED  BY <1>2, <2>1, <2>4
<1>. QED  BY <1>3, <1>5, <1>6, <1>7, <1>8, NothingSaved DEF Cameras!WizardNext

LEMMA WizardInvInit == ASSUME Cameras!WizardInit PROVE WizardInv
<1>1. WizardTypes
  BY EmptyData DEF Cameras!WizardInit, WizardTypes
<1>2. StreamsInv /\ RestreamInv
  BY DEF Cameras!WizardInit, StreamsInv, DataIsOwn, TestsAreOwn, SavesAreOwn, AddedAreOwn, RestreamInv
<1>. QED  BY <1>1, <1>2 DEF WizardInv

LEMMA WizardNextKeeps == ASSUME WizardInv, Cameras!WizardNext PROVE WizardInv'
<1>1. WizardTypes /\ WizardTypes' /\ RestreamInv'
  BY WizardTypesNext, RestreamNext DEF WizardInv
<1>2. ASSUME "late" \notin wizardCrossed' PROVE DataIsOwn' /\ TestsAreOwn' /\ SavesAreOwn' /\ AddedAreOwn'
  <2>1. DataIsOwn /\ TestsAreOwn /\ SavesAreOwn /\ AddedAreOwn
    BY <1>2, WizardRemembers DEF WizardInv, StreamsInv
  <2>. QED  BY <1>1, <1>2, <2>1, DataNext, TestsNext, SavesNext
<1>. QED  BY <1>1, <1>2 DEF WizardInv, StreamsInv

LEMMA WizardHidden == ASSUME WizardInv, UNCHANGED wizardVars PROVE WizardInv'
<1>. USE DEF wizardVars
<1>1. WizardTypes' /\ RestreamInv'
  BY DEF WizardInv, WizardTypes, RestreamInv
<1>2. StreamsInv'
  BY DEF WizardInv, StreamsInv, DataIsOwn, TestsAreOwn, SavesAreOwn, AddedAreOwn, OwnTo
<1>. QED  BY <1>1, <1>2 DEF WizardInv

LEMMA AddedIsOwn == ASSUME WizardInv PROVE Cameras!SavedIsOwn /\ Cameras!RestreamExists
<1>1. Cameras!SavedIsOwn
  BY DEF WizardInv, StreamsInv, AddedAreOwn, Cameras!SavedIsOwn
<1>2. Cameras!RestreamExists
  BY DEF WizardInv, RestreamInv, Cameras!RestreamExists
<1>. QED  BY <1>1, <1>2

CamerasInForce ==
    (shown = "clone" => CloneInv) /\ (shown = "cameras" => ManageInv) /\ (shown = "wizard" => WizardInv)

\* A camera said to be copied is a copy, a target is refused for a reason and a restart that is due
\* is marked.  The rows of the cameras, their types and a disabled camera are as the user left
\* them, and no detail is written that nobody typed.  A camera that the wizard adds has streams of
\* its own, and its restreams.  Each but for the cases named in Cameras, for any zones and names of
\* cameras, and any number of actions, of other clients and of failures.
THEOREM CamerasAreAsTold == Spec => []CamerasAgree
<1>1. Init => CamerasInForce
  BY CloneInvInit, ManageInvInit, WizardInvInit DEF Init, CamerasInForce
<1>2. CamerasInForce /\ [Next]_vars => CamerasInForce'
  <2>. SUFFICES ASSUME CamerasInForce, [Next]_vars PROVE CamerasInForce'
    OBVIOUS
  <2>1. shown' = shown
    BY DEF Next, vars
  <2>2. ASSUME shown = "clone" PROVE CloneInv'
    <3>1. Cameras!CloneNext \/ UNCHANGED cloneVars
      BY <2>2 DEF Next, vars
    <3>. QED  BY <2>2, <3>1, CloneNextKeeps, CloneHidden DEF CamerasInForce
  <2>3. ASSUME shown = "cameras" PROVE ManageInv'
    <3>1. Cameras!ManageNext \/ UNCHANGED camerasVars
      BY <2>3 DEF Next, vars
    <3>. QED  BY <2>3, <3>1, ManageNextKeeps, ManageHidden DEF CamerasInForce
  <2>4. ASSUME shown = "wizard" PROVE WizardInv'
    <3>1. Cameras!WizardNext \/ UNCHANGED wizardVars
      BY <2>4 DEF Next, vars
    <3>. QED  BY <2>4, <3>1, WizardNextKeeps, WizardHidden DEF CamerasInForce
  <2>. QED  BY <2>1, <2>2, <2>3, <2>4 DEF CamerasInForce
<1>3. CamerasInForce => CamerasAgree
  BY CopyIsOwn, ListIsTrue, AddedIsOwn DEF CamerasInForce, CamerasAgree
<1>. QED  BY <1>1, <1>2, <1>3, PTL DEF Spec
=============================================================================
