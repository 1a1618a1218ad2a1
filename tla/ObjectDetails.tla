--------------------------- MODULE ObjectDetails ---------------------------
(***************************************************************************)
(* The details of a tracked object on the explore page: which object the   *)
(* dialog shows, the description being edited in it, the texts saved from  *)
(* it, and the cached list behind it, which a save rewrites in place and a *)
(* websocket update or a delete loads again.                               *)
(***************************************************************************)
EXTENDS Naturals

CONSTANTS
    Null,
    Events,
    Second,    \* the events described as "b" when the page is opened, the others as "a"
    MaxUser    \* bound: requests of the user

Texts == {"a", "b", "typed", "generated"}
Rec == [desc : Texts, sub : {"", "name"}]
List == [Events -> Rec \cup {Null}]
Load == [data : List \cup {Null}, dropped : BOOLEAN]
Tab == [desc : Texts, editing : BOOLEAN, orig : Texts \cup {Null}, dialog : {"none", "sub"}]

VARIABLES
    server,     \* the event database: a record per event, Null once deleted
    rows,       \* the cached list
    loading,    \* a request of it: its answer and whether it is dropped, or Null
    selectedId, isOpen, page,
    closing,    \* the 300 ms before the selection goes
    tab,        \* the details tab: desc, editing, the original text, the dialog on top; or Null
    requests,
    generating, \* events whose description is being generated
    announced,  \* updates of descriptions not yet received
    strayed,    \* history: the text of one event was put under another
    behind,     \* history: the list missed a change
    acts

view == <<selectedId, isOpen, page, closing, tab>>
vars == <<server, rows, loading, view, requests, generating, announced, strayed, behind, acts>>

TypeOK ==
    /\ server \in List /\ rows \in List /\ loading \in Load \cup {Null}
    /\ selectedId \in Events \cup {Null} /\ page \in {"snapshot", "tracking_details"}
    /\ tab \in Tab \cup {Null}
    /\ (isOpen => selectedId # Null) /\ (tab # Null => selectedId # Null)
    /\ \A r \in requests : r.id \in Events

First == [e \in Events |-> [desc |-> IF e \in Second THEN "b" ELSE "a", sub |-> ""]]
Ask == [data |-> Null, dropped |-> FALSE]

Init ==
    /\ server = First /\ rows = First /\ loading = Null
    /\ selectedId = Null /\ isOpen = FALSE /\ page = "snapshot" /\ closing = FALSE /\ tab = Null
    /\ requests = {} /\ generating = {} /\ announced = 0
    /\ strayed = FALSE /\ behind = FALSE /\ acts = 0

searchDetail(id, list) == IF id = Null THEN Null ELSE list[id]

NewTab(id, list) == [desc |-> list[id].desc, editing |-> FALSE, orig |-> Null, dialog |-> "none"]

\* What follows a change of the selection, of the page or of the list: the tab comes and goes
\* with the dialog and its page, and takes the description of the object it is given.
MutKeepsDesc(id, p, list, t) ==   \* mutant: a draft is kept when the object changes
    /\ selectedId' = (IF searchDetail(id, list) = Null THEN Null ELSE id)
    /\ page' = p
    /\ isOpen' = (searchDetail(id, list) # Null /\ (isOpen \/ id # selectedId))
    /\ tab' = IF searchDetail(id, list) = Null \/ p # "snapshot" THEN Null
              ELSE IF tab = Null THEN NewTab(id, list) ELSE t

MutStaysOpen(id, p, list, t) ==   \* mutant: the dialog stays when its object is gone
    LET found == searchDetail(id, list) # Null
        changed == id # selectedId \/ (found /\ list[id] # rows[id])
    IN  /\ selectedId' = (IF found THEN id ELSE Null)
        /\ page' = p
        /\ isOpen' = (isOpen \/ (found /\ changed))
        /\ tab' = IF ~found \/ p # "snapshot" THEN Null
                  ELSE IF tab = Null THEN NewTab(id, list)
                  ELSE IF changed THEN [t EXCEPT !.desc = list[id].desc] ELSE t

Show(id, p, list, t) ==
    LET found == searchDetail(id, list) # Null
        changed == id # selectedId \/ (found /\ list[id] # rows[id])
    IN  /\ selectedId' = (IF found THEN id ELSE Null)
        /\ page' = p
        /\ isOpen' = (found /\ (isOpen \/ changed))
        /\ tab' = IF ~found \/ p # "snapshot" THEN Null
                  ELSE IF tab = Null THEN NewTab(id, list)
                  ELSE IF changed THEN [t EXCEPT !.desc = list[id].desc] ELSE t

Kept == UNCHANGED <<server, requests, generating, announced, behind>>

(***************************************************************************)
(* The dialog                                                              *)
(***************************************************************************)
\* A click on a thumbnail, or its menu for the tracking details.
onSelectSearch(e, p) ==
    /\ ~isOpen /\ rows[e] # Null /\ Show(e, p, rows, tab)
    /\ UNCHANGED <<rows, loading, closing, strayed, acts>> /\ Kept

SelectPage(p) ==
    /\ isOpen /\ p # page /\ Show(selectedId, p, rows, tab)
    /\ UNCHANGED <<rows, loading, closing, strayed, acts>> /\ Kept

\* The arrow buttons, gone while a dialog is on top, or the arrow keys, which are not.
goToNext ==
    /\ isOpen
    /\ \E e \in Events : rows[e] # Null /\ e # selectedId /\ Show(e, page, rows, tab)
    /\ UNCHANGED <<rows, loading, closing, strayed, acts>> /\ Kept

handleOpenChange ==
    /\ isOpen /\ isOpen' = FALSE /\ closing' = TRUE
    /\ UNCHANGED <<rows, loading, selectedId, page, tab, strayed, acts>> /\ Kept

Closed ==
    /\ closing /\ closing' = FALSE /\ Show(Null, page, rows, tab)
    /\ UNCHANGED <<rows, loading, strayed, acts>> /\ Kept

(***************************************************************************)
(* The description and the sub label                                       *)
(***************************************************************************)
StartEdit ==
    /\ isOpen /\ tab # Null /\ ~tab.editing /\ tab.dialog = "none"
    /\ tab' = [tab EXCEPT !.editing = TRUE, !.orig = tab.desc]
    /\ UNCHANGED <<rows, loading, selectedId, isOpen, page, closing, strayed, acts>> /\ Kept

Type ==
    /\ isOpen /\ tab # Null /\ tab.editing /\ tab' = [tab EXCEPT !.desc = "typed"]
    /\ UNCHANGED <<rows, loading, selectedId, isOpen, page, closing, strayed, acts>> /\ Kept

\* Back to the text from when the edit began, whichever object is shown by now.
CancelEdit ==
    /\ isOpen /\ tab # Null /\ tab.editing
    /\ tab' = [tab EXCEPT !.editing = FALSE, !.desc = tab.orig]
    /\ strayed' = (strayed \/ tab.orig # rows[selectedId].desc)
    /\ UNCHANGED <<rows, loading, selectedId, isOpen, page, closing, acts>> /\ Kept

OpenSubLabel ==
    /\ isOpen /\ tab # Null /\ tab.dialog = "none" /\ tab' = [tab EXCEPT !.dialog = "sub"]
    /\ UNCHANGED <<rows, loading, selectedId, isOpen, page, closing, strayed, acts>> /\ Kept

Send(field, value) ==
    /\ acts < MaxUser /\ acts' = acts + 1
    /\ requests' = requests \cup
          {[id |-> selectedId, field |-> field, value |-> value, old |-> rows[selectedId].desc, state |-> "sent"]}
    /\ UNCHANGED <<server, rows, loading, selectedId, isOpen, page, closing, generating, announced, strayed, behind>>

updateDescription == /\ isOpen /\ tab # Null /\ tab.editing
                     /\ tab' = [tab EXCEPT !.editing = FALSE] /\ Send("desc", tab.desc)

handleSubLabelSave == isOpen /\ tab # Null /\ tab.dialog = "sub" /\ tab' = tab /\ Send("sub", "name")

\* The menu of a thumbnail, or the selected ones.
handleDelete(e) ==
    /\ ~isOpen /\ rows[e] # Null /\ acts < MaxUser /\ acts' = acts + 1
    /\ requests' = requests \cup {[id |-> e, field |-> "delete", value |-> "", old |-> "a", state |-> "sent"]}
    /\ UNCHANGED <<server, rows, loading, view, generating, announced, strayed, behind>>

regenerateDescription ==
    /\ isOpen /\ tab # Null /\ acts < MaxUser /\ acts' = acts + 1
    /\ generating' = generating \cup {selectedId}
    /\ UNCHANGED <<server, rows, loading, view, requests, announced, strayed, behind>>

(***************************************************************************)
(* The server and its answers                                              *)
(***************************************************************************)
\* The description arrives later and is announced to every client.
Generated(e) ==
    /\ e \in generating /\ generating' = generating \ {e}
    /\ server' = [server EXCEPT ![e] = IF @ = Null THEN Null ELSE [@ EXCEPT !.desc = "generated"]]
    /\ announced' = announced + 1
    /\ UNCHANGED <<rows, loading, view, requests, strayed, behind, acts>>

wsUpdate ==
    /\ announced > 0 /\ announced' = announced - 1 /\ loading' = Ask
    /\ UNCHANGED <<server, rows, view, requests, generating, strayed, behind, acts>>

Apply(r) ==
    /\ r.state = "sent"
    /\ LET ok == server[r.id] # Null
       IN  /\ requests' = (requests \ {r}) \cup {[r EXCEPT !.state = IF ok THEN "done" ELSE "failed"]}
           /\ server' = IF ~ok THEN server
                        ELSE [server EXCEPT ![r.id] = CASE r.field = "delete" -> Null
                                                        [] r.field = "desc" -> [@ EXCEPT !.desc = r.value]
                                                        [] OTHER -> [@ EXCEPT !.sub = r.value]]
    /\ UNCHANGED <<rows, loading, view, generating, announced, strayed, behind, acts>>

\* mapSearchResults: the saved field in every cached list; a load under way is dropped.
Rewritten(r) ==
    [rows EXCEPT ![r.id] = IF @ = Null THEN Null
                           ELSE IF r.field = "desc" THEN [@ EXCEPT !.desc = r.value]
                           ELSE [@ EXCEPT !.sub = r.value]]

MutRewritesNone(r) ==   \* mutant: a save rewrites only what the dialog shows
    /\ r.state = "done" /\ r.field # "delete" /\ requests' = requests \ {r}
    /\ Show(r.id, page, rows, IF tab = Null THEN Null ELSE [tab EXCEPT !.dialog = "none"])
    /\ UNCHANGED <<server, rows, loading, closing, generating, announced, strayed, behind, acts>>

\* A save answered: the cache, and the dialog is given the object the save was for, even if
\* it shows another one or was closed.
SaveAnswer(r) ==
    /\ r.state = "done" /\ r.field # "delete" /\ requests' = requests \ {r}
    /\ rows' = Rewritten(r)
    /\ loading' = IF loading = Null THEN Null ELSE [loading EXCEPT !.dropped = TRUE]
    /\ behind' = (behind \/ loading # Null \/ (server[r.id] # Null /\ server[r.id] # Rewritten(r)[r.id] /\ announced = 0))
    /\ Show(r.id, page, rows', IF tab = Null THEN Null ELSE [tab EXCEPT !.dialog = "none"])
    /\ UNCHANGED <<server, closing, generating, announced, strayed, acts>>

DeleteAnswer(r) ==
    /\ r.field = "delete" /\ r.state = "done" /\ requests' = requests \ {r} /\ loading' = Ask
    /\ UNCHANGED <<server, rows, view, generating, announced, strayed, behind, acts>>

\* A refused or lost save puts back the text its own object had.
SaveFail(r) ==
    /\ requests' = requests \ {r}
    /\ tab' = IF tab # Null /\ r.field = "desc" THEN [tab EXCEPT !.desc = r.old] ELSE tab
    /\ strayed' = (strayed \/ (tab # Null /\ r.field = "desc" /\ rows[selectedId].desc # r.old))
    /\ behind' = (behind \/ r.state # "sent")
    /\ UNCHANGED <<server, rows, loading, selectedId, isOpen, page, closing, generating, announced, acts>>

ListRead ==
    /\ loading # Null /\ loading.data = Null /\ loading' = [loading EXCEPT !.data = server]
    /\ UNCHANGED <<server, rows, view, requests, generating, announced, strayed, behind, acts>>

ListAnswer ==
    /\ loading # Null /\ loading.data # Null /\ loading' = Null
    /\ IF loading.dropped THEN UNCHANGED <<rows, view>>
       ELSE /\ rows' = loading.data /\ closing' = closing
            /\ IF selectedId = Null THEN UNCHANGED <<selectedId, isOpen, page, tab>>
               ELSE Show(selectedId, page, loading.data, tab)
    /\ UNCHANGED <<server, requests, generating, announced, strayed, behind, acts>>

Next ==
    \/ \E e \in Events : \/ \E p \in {"snapshot", "tracking_details"} : onSelectSearch(e, p)
                         \/ handleDelete(e) \/ Generated(e)
    \/ \E p \in {"snapshot", "tracking_details"} : SelectPage(p)
    \/ goToNext \/ handleOpenChange \/ Closed \/ StartEdit \/ Type \/ CancelEdit \/ OpenSubLabel
    \/ updateDescription \/ handleSubLabelSave \/ regenerateDescription \/ wsUpdate
    \/ \E r \in requests : Apply(r) \/ SaveAnswer(r) \/ DeleteAnswer(r) \/ SaveFail(r)
    \/ ListRead \/ ListAnswer

Spec == Init /\ [][Next]_vars

Quiet == requests = {} /\ loading = Null /\ announced = 0

\* A description at rest in the dialog is the one of the object shown.
ShownIsOwn == tab # Null /\ ~tab.editing /\ Quiet /\ tab.desc # "typed" => tab.desc = rows[selectedId].desc

\* Leaving out the two ways one object's text is put under another (a cancel and a failed save
\* after the dialog moved on), it is so, through navigation, edits and late answers.
ShownIsOwnElse == ~strayed => ShownIsOwn

\* The cached list is what the server has once everything is answered, unless an answer dropped
\* a load under way or overtook a newer description.
ListIsCurrent == Quiet /\ generating = {} /\ ~behind => rows = server
=============================================================================
