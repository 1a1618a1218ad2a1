--------------------------- MODULE ZonesAndMasks ----------------------------
(***************************************************************************)
(* Zones and masks: the list with its panes, and the polygon drawn in a    *)
(* pane.                                                                   *)
(***************************************************************************)
EXTENDS FiniteSetsExt, Naturals, Sequences, SequencesExt

CONSTANTS
    Null,
    MaxUser,   \* bound: panes opened, deletions and changes of profile, with what else is bounded
    MaxOther,  \* bound: changes by other clients and reads of the configuration on focus
    MaxAdds    \* bound: corners ever added

(***************************************************************************)
(* The masks and zones of a camera: the list MasksAndZonesView makes of    *)
(* the configuration, the copy of it that is edited, the three edit panes, *)
(* and the requests that save, rename and delete a polygon, which may      *)
(* fail, while the configuration is read again and others change it.       *)
(* A polygon's content is "old", "mine" (drawn here) or "other".           *)
(***************************************************************************)
Names == {"a", "b"}
Contents == {"old", "mine", "other"}
Kinds == {"zone", "motion_mask", "object_mask"}

VARIABLES
    server,    \* the configuration: polygons in order, and overrides of the profile
    config,    \* SWR: the configuration as last read
    fetch,     \* a read under way: Null, or whether it was answered and with what
    kind,      \* whose pane is used, one of Kinds
    list,      \* allPolygons
    editing,   \* editingPolygons
    pane,      \* editPane and activePolygonIndex, with the polygon it was opened on
    profile,   \* currentEditingProfile is set
    req,       \* the request under way, or Null
    isLoading,
    ghost,     \* history: an answer closed a pane that was not its own, something was drawn
               \* while a save was under way, the configuration changed under its pane, or a
               \* save was made of a copy the configuration had left behind
    failed,    \* history: a save failed, or another client's change met one
    used, others

ui == <<list, editing, pane, profile>>
zoneVars == <<server, config, fetch, kind, ui, req, isLoading, ghost, failed, used, others>>

Closed == [open |-> FALSE, index |-> 0, of |-> Null]
OnlyOld == [base |-> <<[name |-> "a", rev |-> "old"]>>, prof |-> [n \in Names |-> Null]]

\* The polygons of a configuration, those of the profile over the base.
Merged(c, p) ==
    [i \in DOMAIN c.base |->
        LET n == c.base[i].name IN
        [name |-> n, rev |-> IF p /\ c.prof[n] # Null THEN c.prof[n] ELSE c.base[i].rev,
         source |-> IF ~p THEN Null ELSE IF c.prof[n] # Null THEN "override" ELSE "base"]]

NamesOf(s) == {s[i].name : i \in DOMAIN s}

ZoneTypeOK ==
    /\ \A i \in DOMAIN server.base : server.base[i].name \in Names /\ server.base[i].rev \in Contents
    /\ Len(server.base) = Len(SetToSeq(NamesOf(server.base)))
    /\ pane.open = (pane.index # 0)
    /\ \A i \in DOMAIN list : list[i].rev = Null => list[i].name = ""
    /\ (req # Null) = isLoading
    /\ req # Null => req.rev \in Contents /\ req.to \in Names

ZoneInit ==
    /\ server = OnlyOld /\ config = OnlyOld /\ fetch = Null /\ kind \in Kinds
    /\ list = Merged(OnlyOld, FALSE) /\ editing = list
    /\ pane = Closed /\ profile = FALSE /\ req = Null /\ isLoading = FALSE
    /\ ghost = FALSE /\ failed = FALSE /\ used = 0 /\ others = 0

Asked == [done |-> FALSE, c |-> Null]
Use == used + others < MaxUser /\ used' = used + 1

(***************************************************************************)
(* The list and the pane                                                   *)
(***************************************************************************)
handleNewPolygon ==
    /\ ~pane.open /\ ~profile /\ Use
    /\ pane' = [open |-> TRUE, index |-> Len(list) + 1, of |-> ""]
    /\ editing' = Append(list, [name |-> "", rev |-> Null, source |-> Null])
    /\ UNCHANGED <<server, config, fetch, kind, list, profile, req, isLoading, ghost, failed, others>>

Edit(i) ==
    /\ ~pane.open /\ ~isLoading /\ i \in DOMAIN list /\ Use
    /\ pane' = [open |-> TRUE, index |-> i, of |-> list[i].name]
    /\ UNCHANGED <<server, config, fetch, kind, list, editing, profile, req, isLoading, ghost, failed, others>>

setPolygons ==
    /\ pane.open /\ editing[pane.index].rev # "mine"
    /\ editing' = [editing EXCEPT ![pane.index].rev = "mine"]
    /\ ghost' = (ghost \/ isLoading)
    /\ UNCHANGED <<server, config, fetch, kind, list, pane, profile, req, isLoading, failed, used, others>>

\* The request under way, if any, has lost its pane.
NotShown == IF req = Null THEN Null ELSE [req EXCEPT !.pane = FALSE]

MutCancelKeeps ==   \* mutant: what was drawn is left in the copy
    /\ pane.open /\ pane' = Closed /\ req' = NotShown
    /\ UNCHANGED <<server, config, fetch, kind, list, editing, profile, isLoading, ghost, failed, used, others>>
handleCancel ==
    /\ pane.open /\ pane' = Closed /\ editing' = list /\ req' = NotShown
    /\ UNCHANGED <<server, config, fetch, kind, list, profile, isLoading, ghost, failed, used, others>>

\* Another profile: the list is made again, the copy follows it and an open pane is cancelled.
ProfileChange ==
    /\ Use /\ profile' = ~profile
    /\ list' = Merged(config, ~profile) /\ editing' = list' /\ pane' = Closed /\ req' = NotShown
    /\ UNCHANGED <<server, config, fetch, kind, isLoading, ghost, failed, others>>

(***************************************************************************)
(* Saving and deleting.  The list takes what was drawn before it is sent.  *)
(***************************************************************************)
\* The name must be free: among the polygons edited, or among the masks of the configuration.
zoneFormSchema(n) == n \notin NamesOf(RemoveAt(editing, pane.index))
motionMaskFormSchema(p, n) == n = p.name \/ n \notin NamesOf(config.base)
objectMaskFormSchema(p, n) == n = p.name \/ n \notin NamesOf(config.base)

\* The first request of a save.  One under another name begins by deleting the old one.
Request(step, p, n) ==
    [step |-> step, state |-> "sent", old |-> p.name, to |-> n, rev |-> p.rev, prof |-> profile, pane |-> step # "remove"]
saveZone(p, n) == Request(IF n # p.name /\ p.name # "" THEN "delete" ELSE "write", p, n)
saveMotionMask(p, n) == Request(IF p.name # "" /\ n # p.name THEN "delete" ELSE "write", p, n)
saveObjectMask(p, n) == Request(IF p.name # "" /\ n # p.name THEN "delete" ELSE "write", p, n)

\* The list without the polygon of the pane, and whether the configuration has left the copy behind.
Others(s) == IF pane.index \in DOMAIN s THEN RemoveAt(s, pane.index) ELSE s
LeftBehind == \/ Others(editing) # Others(list)
              \/ pane.index \in DOMAIN list /\ list[pane.index].name # editing[pane.index].name

onSubmit(n) ==
    LET p == editing[pane.index] IN
    /\ pane.open /\ ~isLoading /\ p.rev # Null
    /\ profile => n = p.name
    /\ \/ kind = "zone" /\ zoneFormSchema(n) /\ req' = saveZone(p, n)
       \/ kind = "motion_mask" /\ motionMaskFormSchema(p, n) /\ req' = saveMotionMask(p, n)
       \/ kind = "object_mask" /\ objectMaskFormSchema(p, n) /\ req' = saveObjectMask(p, n)
    /\ isLoading' = TRUE /\ list' = editing
    /\ ghost' = (ghost \/ LeftBehind)
    /\ UNCHANGED <<server, config, fetch, kind, editing, pane, profile, failed, used, others>>

\* A polygon of the base cannot be deleted from a profile.  One without a name was never saved.
handleDelete(i) ==
    /\ ~pane.open /\ ~isLoading /\ i \in DOMAIN list /\ list[i].name # "" /\ list[i].source # "base" /\ Use
    /\ req' = Request("remove", list[i], list[i].name)
    /\ isLoading' = TRUE
    /\ UNCHANGED <<server, config, fetch, kind, ui, ghost, failed, others>>

Without(s, n) ==
    [s EXCEPT !.base = SelectSeq(@, LAMBDA p : p.name # n)]
Written(s, n, r) ==
    IF n \in NamesOf(s.base)
    THEN [s EXCEPT !.base = [i \in DOMAIN @ |-> IF @[i].name = n THEN [@[i] EXCEPT !.rev = r] ELSE @[i]]]
    ELSE [s EXCEPT !.base = Append(@, [name |-> n, rev |-> r])]

\* Deleting in the base takes the overrides of the profiles along; renaming leaves none, as a
\* polygon with overrides keeps its name.
deleted(s) ==
    IF req.prof THEN [s EXCEPT !.prof[req.to] = Null]
    ELSE [Without(s, req.old) EXCEPT !.prof[req.old] = Null]
Applied(s) ==
    IF req.step # "write" THEN deleted(s)
    ELSE IF req.prof THEN [s EXCEPT !.prof[req.to] = req.rev]
    ELSE Written(s, req.to, req.rev)

\* The server carries a request out or refuses it; the answer to one carried out may be lost.
Serve ==
    /\ req # Null /\ req.state = "sent"
    /\ \E done \in BOOLEAN, ok \in BOOLEAN :
          /\ ok => done
          /\ server' = IF done THEN Applied(server) ELSE server
          /\ req' = [req EXCEPT !.state = IF ok THEN "ok" ELSE "bad"]
    /\ UNCHANGED <<config, fetch, kind, ui, isLoading, ghost, failed, used, others>>

\* isLoading became false: whatever pane is open is closed.
LoadingEnds(ok) ==
    /\ req' = Null /\ isLoading' = FALSE
    /\ pane' = Closed
    /\ ghost' = (ghost \/ (pane.open /\ ~req.pane))
    /\ fetch' = IF ok THEN Asked ELSE fetch
    /\ failed' = (failed \/ ~ok)

\* The first request of a rename was answered: a zone's pane reads the configuration first.
RenameDeleted ==
    /\ req # Null /\ req.step = "delete" /\ req.state = "ok"
    /\ fetch' = IF kind = "zone" THEN Asked ELSE fetch
    /\ req' = [req EXCEPT !.state = IF kind = "zone" THEN "reading" ELSE "sent", !.step = "write"]
    /\ UNCHANGED <<server, config, kind, ui, isLoading, ghost, failed, used, others>>
RenameRead ==
    /\ req # Null /\ req.state = "reading" /\ fetch = Null
    /\ req' = [req EXCEPT !.state = "sent"]
    /\ UNCHANGED <<server, config, fetch, kind, ui, isLoading, ghost, failed, used, others>>

MutNotRead ==   \* mutant: the configuration is not read after a write
    /\ req # Null /\ req.state \in {"ok", "bad"} /\ ~(req.step = "delete" /\ req.state = "ok")
    /\ req' = Null /\ isLoading' = FALSE /\ pane' = Closed /\ failed' = (failed \/ req.state = "bad")
    /\ UNCHANGED <<server, config, fetch, kind, list, editing, profile, ghost, used, others>>
Answer ==
    /\ req # Null /\ req.state \in {"ok", "bad"} /\ ~(req.step = "delete" /\ req.state = "ok")
    /\ LoadingEnds(req.state = "ok")
    /\ UNCHANGED <<server, config, kind, list, editing, profile, used, others>>

(***************************************************************************)
(* The configuration                                                       *)
(***************************************************************************)
Read ==
    /\ fetch # Null /\ ~fetch.done /\ fetch' = [done |-> TRUE, c |-> server]
    /\ UNCHANGED <<server, config, kind, ui, req, isLoading, ghost, failed, used, others>>

\* A new configuration makes the list again; the copy follows unless a pane is open.
MutCopyFollows(c) == Merged(c, profile)   \* mutant: an open pane does not hold the copy
Copy(c) == IF pane.open THEN editing ELSE Merged(c, profile)
ConfigArrives ==
    /\ fetch # Null /\ fetch.done /\ fetch' = Null
    /\ config' = fetch.c
    /\ IF fetch.c = config THEN UNCHANGED <<list, editing>>
       ELSE list' = Merged(fetch.c, profile) /\ editing' = Copy(fetch.c)
    /\ ghost' = (ghost \/ (isLoading /\ pane.open /\ fetch.c # config))
    /\ UNCHANGED <<server, kind, pane, profile, req, isLoading, failed, used, others>>

Focus == /\ others < MaxOther /\ used + others < MaxUser /\ others' = others + 1 /\ fetch' = Asked
         /\ UNCHANGED <<server, config, kind, ui, req, isLoading, ghost, failed, used>>

OtherClient ==
    /\ others < MaxOther /\ used + others < MaxUser /\ others' = others + 1
    /\ \/ server' = Written(server, "b", "other")
       \/ server' = [Without(server, "a") EXCEPT !.prof["a"] = Null]
    /\ failed' = (failed \/ isLoading \/ fetch # Null)
    /\ UNCHANGED <<config, fetch, kind, ui, req, isLoading, ghost, used>>

ZoneNext ==
    \/ handleNewPolygon \/ setPolygons \/ handleCancel \/ ProfileChange
    \/ \E i \in DOMAIN list : Edit(i) \/ handleDelete(i)
    \/ \E n \in Names : onSubmit(n)
    \/ Serve \/ RenameDeleted \/ RenameRead \/ Answer
    \/ Read \/ ConfigArrives \/ Focus \/ OtherClient

ZoneSpec == ZoneInit /\ [][ZoneNext]_zoneVars

(***************************************************************************)
(* Properties                                                              *)
(***************************************************************************)
\* The pane edits the polygon it was opened on, whatever the configuration does meanwhile, unless
\* the copy was left behind (see ghost): then a saved zone may be opened as a new one.
PaneIsOwn == pane.open /\ ~ghost => pane.index \in DOMAIN editing /\ editing[pane.index].name = pane.of

\* With no pane open the copy is the list, unless an answer closed a pane that was not its own,
\* something was drawn after it was saved, or the configuration changed before the answer.
CopyIsList == ~pane.open /\ ~ghost => editing = list

\* With nothing under way the list is that of the configuration, unless a save failed: the list
\* goes on showing what was not saved.  So it does when another client takes a save back before
\* the configuration is read again, and when the copy saved was an old one (see ghost): then a
\* polygon saved just before is listed without its name.
ListIsConfig == ~isLoading /\ fetch = Null /\ ~failed /\ ~ghost => list = Merged(config, profile)

\* What was saved is in the configuration read afterwards, unless another client changed it.
SavedIsRead ==
    ~isLoading /\ fetch = Null /\ ~failed /\ others = 0 => config = server

(***************************************************************************)
(* The corners of the polygon that is being edited: clicks and right       *)
(* clicks on PolygonCanvas, and the undo and reset of PolygonEditControls, *)
(* which remember in pointsOrder when each corner was added.  A corner is  *)
(* the number of its addition; where it lies is left out.                  *)
(***************************************************************************)
VARIABLES
    points,
    pointsOrder,   \* Null until it is needed
    isFinished,
    added,         \* corners added so far
    torn           \* history: a corner was taken out by a right click, or all by reset

drawingVars == <<points, pointsOrder, isFinished, added, torn>>

DrawingTypeOK ==
    /\ \A i \in DOMAIN points : points[i] \in 1..MaxAdds
    /\ pointsOrder # Null => (torn \/ Len(pointsOrder) = Len(points))
    /\ isFinished \in BOOLEAN

\* A new polygon, or one of the configuration with its corners in order.
DrawingInit ==
    /\ \/ points = <<>> /\ isFinished = FALSE
       \/ points = <<1, 2, 3>> /\ isFinished = TRUE
    /\ pointsOrder = Null /\ added = Len(points) /\ torn = FALSE

\* The effect that numbers the corners of a finished polygon runs before any click.
Order == IF pointsOrder = Null /\ isFinished THEN [i \in DOMAIN points |-> i - 1] ELSE pointsOrder
OrderOrNone == IF Order = Null THEN <<>> ELSE Order
\* splice: an index past the end appends.
Spliced(s, i, x) == InsertAt(s, Min({i, Len(s) + 1}), x)

\* A new corner comes last, or between the ends of the line it lies on.
MutOrderOfPlace(i) == i   \* mutant: its place instead of its time
OrderOf(i) == Len(points) + 1
addPointToPolygon ==
    /\ added < MaxAdds /\ added' = added + 1
    /\ \E i \in (IF isFinished THEN 2 ELSE 1)..(Len(points) + 1) :
          /\ points' = InsertAt(points, i, added')
          /\ pointsOrder' = Spliced(OrderOrNone, i, OrderOf(i))
    /\ UNCHANGED <<isFinished, torn>>

closePolygon ==
    /\ Len(points) >= 3 /\ ~isFinished /\ isFinished' = TRUE
    /\ UNCHANGED <<points, pointsOrder, added, torn>>

\* A right click on a corner.
removePoint(i) ==
    /\ i \in DOMAIN points /\ points' = RemoveAt(points, i)
    /\ pointsOrder' = IF Order = Null THEN Null
                      ELSE IF i \in DOMAIN Order THEN RemoveAt(Order, i) ELSE Order
    /\ torn' = TRUE
    /\ UNCHANGED <<isFinished, added>>

\* indexOf(Math.max(...pointsOrder)): the first place of the latest corner.
LastPlace == CHOOSE i \in DOMAIN Order : Order[i] = Max(Range(Order)) /\ \A j \in 1..(i - 1) : Order[j] # Order[i]

MutStaysFinished ==   \* mutant: a triangle stays closed
    /\ points # <<>> /\ OrderOrNone # <<>>
    /\ points' = IF LastPlace \in DOMAIN points THEN RemoveAt(points, LastPlace) ELSE points
    /\ pointsOrder' = RemoveAt(Order, LastPlace)
    /\ UNCHANGED <<isFinished, added, torn>>
undo ==
    /\ points # <<>> /\ OrderOrNone # <<>>
    /\ points' = IF LastPlace \in DOMAIN points THEN RemoveAt(points, LastPlace) ELSE points
    /\ pointsOrder' = RemoveAt(Order, LastPlace)
    /\ isFinished' = (isFinished /\ Len(points) > 3)
    /\ UNCHANGED <<added, torn>>

\* pointsOrder is kept.
reset ==
    /\ points # <<>> /\ points' = <<>> /\ isFinished' = FALSE /\ pointsOrder' = Order
    /\ torn' = TRUE /\ UNCHANGED added

DrawingNext == addPointToPolygon \/ closePolygon \/ undo \/ reset \/ (\E i \in DOMAIN points : removePoint(i))

DrawingSpec == DrawingInit /\ [][DrawingNext]_drawingVars

(***************************************************************************)
(* Properties                                                              *)
(***************************************************************************)
\* "Remove last point" takes the corner that was added last.
UndoRemovesLast ==
    points # <<>> /\ OrderOrNone # <<>> => LastPlace \in DOMAIN points /\ points[LastPlace] = Max(Range(points))

\* So it does unless corners were taken out by right clicks or reset before: then it may take
\* another one, or none.
UndoRemovesLastElse == torn \/ UndoRemovesLast

\* A polygon that may be saved has three corners, unless right clicks took them away.
FinishedHasThree == torn \/ (isFinished => Len(points) >= 3)
=============================================================================
