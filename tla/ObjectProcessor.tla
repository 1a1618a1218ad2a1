--------------------------- MODULE ObjectProcessor ---------------------------
(***************************************************************************)
(* The TrackedObjectProcessor thread (track/object_processing.py) with the *)
(* CameraState of every camera it serves (camera/state.py).  It applies    *)
(* configuration messages, force-ends the objects of cameras that were     *)
(* turned off, takes the batches the detect processes queue, turns them    *)
(* into start, update and end messages for the EventProcessor and into     *)
(* MQTT messages, and forgets the objects the EventProcessor has finished. *)
(*                                                                         *)
(* The thread takes one step per message it publishes, so the other        *)
(* threads run between any two of them.                                    *)
(***************************************************************************)
EXTENDS EventStore

CONSTANT MaxEvents    \* bounds the model: "event/update" messages in flight

ASSUME MaxEventsAssumption == MaxEvents \in Nat \ {0}

VARIABLES
    enabled,      \* cameras whose config says enabled
    keep,         \* per camera, the media its switches allow events to have
    shape,        \* per camera, its detect resolution
    cfgQ,         \* config messages not yet received: camera add and remove
    batchQ,       \* tracked_objects_queue, filled by the detect processes
    pc,           \* where the thread is in the loop of run
    states,       \* cameras that have a CameraState
    prevEnabled,  \* CameraState.prev_enabled
    seenShape,    \* CameraState._last_frame_shape
    tracked,      \* CameraState.tracked_objects, of all cameras
    batch,        \* the batch being processed
    visit,        \* cameras whose switch run has still to look at
    todo,         \* objects the current step of run has still to visit
    mqtt          \* type of the last message on the events topic, per object

configVars == <<enabled, keep, shape>>
procVars == <<pc, states, prevEnabled, seenShape, tracked, batch, visit, todo,
              mqtt>>

Shapes == {0, 1}

\* A TrackedObject: the camera it is on, end_time is set, it is a true
\* positive, and the media it qualifies for when the switches allow them
\* (position changes, severity, required zones: none is ever lost again).
TrackedObject == [cam : Cameras, ended : BOOLEAN, tp : BOOLEAN,
                  worthy : SUBSET Media]

\* A batch of one frame: the ids the tracker reports, and the resolution
\* their boxes are in.
Batch == [cam : Cameras, ids : SUBSET Ids, shape : Shapes]

ConfigMessage == [kind : {"add", "remove"}, cam : Cameras]

PC == {"drain", "manage", "force", "fetch", "update", "cleanup", "dead"}

ASSUME ObjectNoneAssumption == None \notin TrackedObject \cup Batch

ProcTypeOK ==
    /\ enabled \subseteq Cameras
    /\ keep \in [Cameras -> SUBSET Media]
    /\ shape \in [Cameras -> Shapes]
    /\ cfgQ \in Seq(ConfigMessage)
    /\ batchQ \in Seq(Batch)
    /\ pc \in PC
    /\ states \subseteq Cameras
    /\ prevEnabled \subseteq Cameras
    /\ seenShape \in [Cameras -> Shapes]
    /\ tracked \in [Ids -> TrackedObject \cup {None}]
    /\ batch \in Batch \cup {None}
    /\ visit \subseteq Cameras
    /\ todo \subseteq Ids
    /\ mqtt \in [Ids -> {"none", "new", "update", "end"}]

ProcInit ==
    /\ enabled = Cameras
    /\ keep = [c \in Cameras |-> Media]
    /\ shape = [c \in Cameras |-> 0]
    /\ cfgQ = <<>>
    /\ batchQ = <<>>
    /\ pc = "drain"
    /\ states = Cameras
    /\ prevEnabled = Cameras
    /\ seenShape = [c \in Cameras |-> 0]
    /\ tracked = [o \in Ids |-> None]
    /\ batch = None
    /\ visit = {}
    /\ todo = {}
    /\ mqtt = [o \in Ids |-> "none"]

-----------------------------------------------------------------------------
TrackedOn(c) == {o \in Ids : tracked[o] # None /\ tracked[o].cam = c}

\* An object is ended once: its end_time is set by whoever ends it first.
MutEndAgain(o) == tracked[o] # None
MutEndTruePositive(o) == tracked[o] # None /\ ~tracked[o].ended /\ tracked[o].tp
MustEnd(o) == tracked[o] # None /\ ~tracked[o].ended

\* should_save_snapshot and should_retain_recording.
MediaOf(obj) == IF obj.tp THEN obj.worthy \cap keep[obj.cam] ELSE {}

Publish(type, o, obj, media) ==
    /\ Len(eventQ) < MaxEvents
    /\ \E d \in Details, s \in States :
          eventQ' = Append(eventQ,
                      [type |-> type, id |-> o, cam |-> obj.cam,
                       data |-> [ended |-> obj.ended, media |-> media,
                                 det |-> d, st |-> s]])

MutHearsAll(obj) == TRUE
MqttHears(obj) == obj.tp

\* The "end" callback: MQTT hears only of true positives, the EventProcessor
\* of every object.
PublishEnd(o, obj) ==
    /\ Publish("end", o, obj, MediaOf(obj))
    /\ mqtt' = IF MqttHears(obj) THEN [mqtt EXCEPT ![o] = "end"] ELSE mqtt
    /\ tracked' = [tracked EXCEPT ![o] = obj]

-----------------------------------------------------------------------------
(* check_for_updates takes every waiting message and applies it to the     *)
(* shared config; run then creates the states of all added cameras and     *)
(* drops those of all removed ones.                                        *)

Named(kind) == {cfgQ[i].cam : i \in {j \in DOMAIN cfgQ : cfgQ[j].kind = kind}}

LastKind(c) ==
    LET at == {j \in DOMAIN cfgQ : cfgQ[j].cam = c}
    IN  cfgQ[CHOOSE i \in at : \A j \in at : j <= i].kind

ConfiguredNext ==
    {c \in Cameras : IF c \in Named("add") \cup Named("remove")
                       THEN LastKind(c) = "add" ELSE c \in configured}

\* A camera's config in an add message is enabled; setdefault keeps a config
\* that is already there.
EnabledNext ==
    {c \in ConfiguredNext :
        c \in enabled \/ c \notin configured \/ c \in Named("remove")}

\* An added camera that a later message of the same drain removed has no
\* config to create its state from: the lookup raises and the thread ends.
CheckForUpdatesDies ==
    /\ pc = "drain"
    /\ ~(Named("add") \subseteq ConfiguredNext)
    /\ configured' = ConfiguredNext /\ enabled' = EnabledNext
    /\ cfgQ' = <<>>
    /\ pc' = "dead"
    /\ UNCHANGED <<keep, shape, batchQ, states, prevEnabled, seenShape, tracked,
                   batch, visit, todo, mqtt, storeVars>>

\* The loop over the cameras goes on, or is done.
NextVisit(left) == IF left = {} THEN "fetch" ELSE "manage"

CheckForUpdates ==
    /\ pc = "drain"
    /\ Named("add") \subseteq ConfiguredNext
    /\ configured' = ConfiguredNext /\ enabled' = EnabledNext
    /\ cfgQ' = <<>>
    /\ states' = (states \cup Named("add")) \ Named("remove")
    /\ prevEnabled' = (prevEnabled \ Named("add")) \cup
                      (Named("add") \cap EnabledNext)
    /\ seenShape' = [c \in Cameras |->
                       IF c \in Named("add") THEN shape[c] ELSE seenShape[c]]
    /\ tracked' = [o \in Ids |->
                     IF tracked[o] # None
                        /\ tracked[o].cam \in Named("add") \cup Named("remove")
                       THEN None ELSE tracked[o]]
    /\ visit' = states' \cap configured'
    /\ pc' = NextVisit(visit')
    /\ UNCHANGED <<keep, shape, batchQ, batch, todo, mqtt, storeVars>>

\* prev_enabled once run has looked at camera c.
SeenEnabled(c) == IF c \in enabled THEN prevEnabled \cup {c} ELSE prevEnabled \ {c}

\* "manage camera disabled state", one camera: when it was on at the last look
\* and is off now, its objects are to be ended.
ManageDisabled ==
    /\ pc = "manage"
    /\ \E c \in visit :
          /\ visit' = visit \ {c}
          /\ todo' = IF c \in prevEnabled \ enabled
                       THEN {o \in TrackedOn(c) : MustEnd(o)} ELSE {}
          /\ prevEnabled' = SeenEnabled(c)
    /\ pc' = "force"
    /\ UNCHANGED <<configVars, cfgQ, batchQ, states, seenShape, tracked, batch,
                   mqtt, configured, storeVars>>

\* force_end_all_events, one object.
ForceEnd(o) ==
    /\ pc = "force" /\ o \in todo
    /\ PublishEnd(o, [tracked[o] EXCEPT !.ended = TRUE])
    /\ todo' = todo \ {o}
    /\ UNCHANGED <<configVars, cfgQ, batchQ, pc, states, prevEnabled, seenShape,
                   batch, visit>>
    /\ UNCHANGED <<configured, finalQ, inProcess, rows, started>>

ForceDone ==
    /\ pc = "force" /\ todo = {}
    /\ pc' = NextVisit(visit)
    /\ UNCHANGED <<configVars, cfgQ, batchQ, states, prevEnabled, seenShape,
                   tracked, batch, visit, todo, mqtt, configured, storeVars>>

-----------------------------------------------------------------------------
\* Nothing arrives within a second: back to the top of the loop.
FetchTimeout ==
    /\ pc = "fetch" /\ batchQ = <<>>
    /\ pc' = "drain"
    /\ UNCHANGED <<configVars, cfgQ, batchQ, states, prevEnabled, seenShape,
                   tracked, batch, visit, todo, mqtt, configured, storeVars>>

Served(c) == c \in configured \cap enabled \cap states

\* A batch of a camera that is gone, off or has no state is dropped.
FetchSkip ==
    /\ pc = "fetch" /\ batchQ # <<>>
    /\ ~Served(Head(batchQ).cam)
    /\ batchQ' = Tail(batchQ)
    /\ pc' = "drain"
    /\ UNCHANGED <<configVars, cfgQ, states, prevEnabled, seenShape, tracked,
                   batch, visit, todo, mqtt, configured, storeVars>>

\* CameraState.update up to its loops.  _discard_stale_resolution_state drops
\* every tracked object when the resolution changed, without end callbacks,
\* and skips a batch whose boxes do not fit (one in another resolution may).
FetchBatch ==
    /\ pc = "fetch" /\ batchQ # <<>>
    /\ LET b == Head(batchQ) IN
         /\ Served(b.cam)
         /\ batchQ' = Tail(batchQ)
         /\ seenShape' = [seenShape EXCEPT ![b.cam] = shape[b.cam]]
         /\ tracked' = [o \in Ids |->
                          IF o \in TrackedOn(b.cam) /\ seenShape[b.cam] # shape[b.cam]
                            THEN None ELSE tracked[o]]
         /\ \/ /\ batch' = b
               /\ todo' = b.ids \cup {o \in Ids : tracked'[o] # None
                                                   /\ tracked'[o].cam = b.cam}
               /\ pc' = "update"
            \/ /\ b.shape # shape[b.cam] /\ b.ids # {}
               /\ pc' = "cleanup"
               /\ UNCHANGED <<batch, todo>>
    /\ UNCHANGED <<configVars, cfgQ, states, prevEnabled, visit, mqtt, configured,
                   storeVars>>

NewIds     == {o \in todo : o \in batch.ids /\ tracked[o] = None}
UpdatedIds == {o \in todo : o \in batch.ids /\ tracked[o] # None}
RemovedIds == {o \in todo : o \notin batch.ids}

UpdateFrame ==
    UNCHANGED <<configVars, cfgQ, batchQ, pc, states, prevEnabled, seenShape,
                batch, visit, configured, finalQ, inProcess, rows, started>>

\* The loop over new_ids: a new object is a false positive without media.
NewObject(o) ==
    /\ pc = "update" /\ o \in NewIds
    /\ LET obj == [cam |-> batch.cam, ended |-> FALSE, tp |-> FALSE, worthy |-> {}]
       IN  /\ Publish("start", o, obj, {})
           /\ tracked' = [tracked EXCEPT ![o] = obj]
    /\ todo' = todo \ {o}
    /\ UNCHANGED mqtt
    /\ UpdateFrame

\* The loop over updated_ids.  TrackedObject.update may find a true positive,
\* which it stays, and new media the object qualifies for.  Only changes of a
\* true positive are published, and becoming one is (the first path point).
UpdateObject(o) ==
    /\ pc = "update" /\ NewIds = {} /\ o \in UpdatedIds
    /\ \E tp \in BOOLEAN, worthy \in SUBSET Media, publish \in BOOLEAN :
         LET old == tracked[o]
             obj == [old EXCEPT !.tp = tp, !.worthy = worthy]
         IN  /\ old.tp => tp
             /\ old.worthy \subseteq worthy /\ (worthy # {} => tp)
             /\ publish => tp
             /\ tp /\ ~old.tp => publish
             /\ tracked' = [tracked EXCEPT ![o] = obj]
             /\ \/ /\ publish
                   /\ Publish("update", o, obj, MediaOf(obj))
                   /\ mqtt' = [mqtt EXCEPT ![o] =
                                 IF old.tp THEN "update" ELSE "new"]
                \/ ~publish /\ UNCHANGED <<eventQ, mqtt>>
    /\ todo' = todo \ {o}
    /\ UpdateFrame

\* The loop over removed_ids: an object that has no end_time yet ends.
RemoveObject(o) ==
    /\ pc = "update" /\ NewIds \cup UpdatedIds = {} /\ o \in RemovedIds
    /\ IF MustEnd(o)
         THEN PublishEnd(o, [tracked[o] EXCEPT !.ended = TRUE])
         ELSE UNCHANGED <<eventQ, mqtt, tracked>>
    /\ todo' = todo \ {o}
    /\ UpdateFrame

UpdateDone ==
    /\ pc = "update" /\ todo = {}
    /\ pc' = "cleanup"
    /\ batch' = None
    /\ UNCHANGED <<configVars, cfgQ, batchQ, states, prevEnabled, seenShape,
                   tracked, visit, todo, mqtt, configured, storeVars>>

-----------------------------------------------------------------------------
(* "cleanup event finished queue": camera_states[camera].finished(id).     *)

Finished(f) == f.cam \in states /\ f.id \in TrackedOn(f.cam)

Cleanup ==
    /\ pc = "cleanup" /\ finalQ # <<>>
    /\ Finished(Head(finalQ))
    /\ tracked' = [tracked EXCEPT ![Head(finalQ).id] = None]
    /\ finalQ' = Tail(finalQ)
    /\ UNCHANGED <<configVars, cfgQ, batchQ, pc, states, prevEnabled, seenShape,
                   batch, visit, todo, mqtt, configured, eventQ, inProcess, rows,
                   started>>

\* Either lookup of that statement raises a KeyError and the thread ends.
CleanupDies ==
    /\ pc = "cleanup" /\ finalQ # <<>>
    /\ ~Finished(Head(finalQ))
    /\ pc' = "dead"
    /\ finalQ' = Tail(finalQ)
    /\ UNCHANGED <<configVars, cfgQ, batchQ, states, prevEnabled, seenShape,
                   tracked, batch, visit, todo, mqtt, configured, eventQ, inProcess,
                   rows, started>>

CleanupDone ==
    /\ pc = "cleanup" /\ finalQ = <<>>
    /\ pc' = "drain"
    /\ UNCHANGED <<configVars, cfgQ, batchQ, states, prevEnabled, seenShape,
                   tracked, batch, visit, todo, mqtt, configured, storeVars>>

ProcNext ==
    \/ CheckForUpdates \/ CheckForUpdatesDies \/ ManageDisabled
    \/ \E o \in Ids : ForceEnd(o) \/ NewObject(o) \/ UpdateObject(o) \/ RemoveObject(o)
    \/ ForceDone
    \/ FetchTimeout \/ FetchSkip \/ FetchBatch
    \/ UpdateDone
    \/ Cleanup \/ CleanupDies \/ CleanupDone

=============================================================================
