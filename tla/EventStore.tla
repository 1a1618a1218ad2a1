------------------------------ MODULE EventStore ------------------------------
(***************************************************************************)
(* The EventProcessor thread (events/maintainer.py).  It receives the      *)
(* start, update and end messages of tracked objects in the order they     *)
(* were published, keeps the last relevant data of every event that has    *)
(* not ended (events_in_process), writes the events worth keeping to the   *)
(* Event table, and announces every event it has finished with.            *)
(*                                                                         *)
(* Of an event's data only what the decisions below distinguish is kept:   *)
(*   ended  end_time is set                                                *)
(*   media  which of has_clip and has_snapshot are true                    *)
(*   det    the fields whose change is written to the table at once        *)
(*          (top_score, entered_zones, speed, plate, path_data)            *)
(*   st     the fields whose change only refreshes the copy in memory      *)
(*          (stationary, attributes, sub_label, current_zones)             *)
(***************************************************************************)
EXTENDS Naturals, Sequences

CONSTANTS
    Cameras,      \* the names a camera may have
    Ids,          \* the ids the tracker may give to objects
    Media,        \* the kinds of media an event may own: clip, snapshot
    Details,      \* the values of the fields written to the table on change
    States,       \* the values of the fields kept in memory only
    None          \* no object, no event, no row

EventData == [ended : BOOLEAN, media : SUBSET Media, det : Details, st : States]
EventRow  == [ended : BOOLEAN, media : SUBSET Media, det : Details]

ASSUME NoneAssumption == None \notin EventData \cup EventRow

ASSUME DataAssumption == Details # {} /\ States # {}

VARIABLES
    configured,   \* cameras in the config object the threads share
    eventQ,       \* "event/update" messages not yet received
    finalQ,       \* "event/finalized" messages not yet received
    inProcess,    \* EventProcessor.events_in_process
    rows,         \* the Event table
    started       \* EventProcessor.run is past its start-up statement

storeVars == <<eventQ, finalQ, inProcess, rows, started>>

Message == [type : {"start", "update", "end"}, id : Ids, cam : Cameras,
            data : EventData]
Finalized == [id : Ids, cam : Cameras]

StoreTypeOK ==
    /\ configured \subseteq Cameras
    /\ eventQ \in Seq(Message)
    /\ finalQ \in Seq(Finalized)
    /\ inProcess \in [Ids -> EventData \cup {None}]
    /\ rows \in [Ids -> EventRow \cup {None}]
    /\ started \in BOOLEAN

StoreInit ==
    /\ configured = Cameras
    /\ eventQ = <<>>
    /\ finalQ = <<>>
    /\ inProcess = [o \in Ids |-> None]
    /\ rows = [o \in Ids |-> None]
    /\ started = FALSE

-----------------------------------------------------------------------------
\* An event that is saved is written again when it ends or when one of the
\* fields the table shows changed.
MutNoEndUpdate(prev, cur) ==
    cur.media # {} /\ (prev.media = {} \/ prev.det # cur.det \/ prev.ended # cur.ended)
MutEndNotCompared(prev, cur) ==
    cur.media # {} /\ (prev.media = {} \/ prev.det # cur.det)
ShouldUpdateDb(prev, cur) ==
    \/ ~prev.ended /\ cur.ended /\ prev.media # {}
    \/ /\ cur.media # {}
       /\ \/ prev.media = {}
          \/ prev.det # cur.det
          \/ prev.ended # cur.ended

ShouldUpdateState(prev, cur) == prev.st # cur.st

\* A saved event keeps the media it had: has_clip and has_snapshot are not
\* set back by a message that is written to the table.
MutNotSticky(prev, cur) == cur
Merged(prev, cur) ==
    IF ShouldUpdateDb(prev, cur)
      THEN [cur EXCEPT !.media = @ \cup prev.media]
      ELSE cur

\* The copy handle_object_detection leaves in memory.
MutDropSaved(m, prev) ==
    IF m.type = "end" \/ ShouldUpdateDb(prev, m.data) THEN None ELSE prev
MutNotDeleted(m, prev) ==
    IF ShouldUpdateDb(prev, m.data) THEN Merged(prev, m.data) ELSE prev
EntryAfter(m, prev) ==
    IF m.type = "end" THEN None
    ELSE IF ShouldUpdateDb(prev, m.data) \/ ShouldUpdateState(prev, m.data)
           THEN Merged(prev, m.data) ELSE prev

\* The columns of the Event table.
MutRowOf(cur) == cur
RowOf(cur) == [ended |-> cur.ended, media |-> cur.media, det |-> cur.det]

\* An event is announced as finalized once it ended, saved or not.
MutAnnounceAll(m, prev) == TRUE
MutAnnounceSaved(m, prev) == m.type = "end" /\ ShouldUpdateDb(prev, m.data)
Announced(m, prev) == m.type = "end"

-----------------------------------------------------------------------------
\* run, before its loop: events left open by the previous process are closed.
MutNotClosed(row) == row
Closed(row) == IF row = None THEN None ELSE [row EXCEPT !.ended = TRUE]

Startup ==
    /\ ~started
    /\ started' = TRUE
    /\ rows' = [o \in Ids |-> Closed(rows[o])]
    /\ UNCHANGED <<configured, eventQ, finalQ, inProcess>>

Receive(m) ==
    /\ started
    /\ eventQ # <<>> /\ m = Head(eventQ)
    /\ eventQ' = Tail(eventQ)
    /\ UNCHANGED <<configured, started>>

\* run: the first message of an event is only stored, whatever it says.
StoreFirst(m) ==
    /\ Receive(m)
    /\ m.type = "start" \/ inProcess[m.id] = None
    /\ inProcess' = [inProcess EXCEPT ![m.id] = m.data]
    /\ UNCHANGED <<finalQ, rows>>

\* A message of an event in process: what handle_object_detection is called for.
Later(m) == m.type # "start" /\ inProcess[m.id] # None

\* handle_object_detection returns early when the camera is gone: nothing is
\* written, stored or announced, and the event stays in process.
IgnoreUnconfigured(m) ==
    /\ Receive(m) /\ Later(m)
    /\ ShouldUpdateDb(inProcess[m.id], m.data)
    /\ m.cam \notin configured
    /\ UNCHANGED <<finalQ, inProcess, rows>>

\* handle_object_detection, to its end.
HandleObjectDetection(m) ==
    /\ Receive(m) /\ Later(m)
    /\ LET prev    == inProcess[m.id]
           updated == ShouldUpdateDb(prev, m.data)
       IN  /\ updated => m.cam \in configured
           /\ rows' = IF updated
                        THEN [rows EXCEPT ![m.id] = RowOf(Merged(prev, m.data))]
                        ELSE rows
           /\ inProcess' = [inProcess EXCEPT ![m.id] = EntryAfter(m, prev)]
           /\ finalQ' = IF Announced(m, prev)
                          THEN Append(finalQ, [id |-> m.id, cam |-> m.cam])
                          ELSE finalQ

HandleMessage(m) ==
    StoreFirst(m) \/ IgnoreUnconfigured(m) \/ HandleObjectDetection(m)

StoreNext == Startup \/ (eventQ # <<>> /\ HandleMessage(Head(eventQ)))

=============================================================================
