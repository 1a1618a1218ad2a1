--------------------------- MODULE ObjectLifecycle ---------------------------
(***************************************************************************)
(* The life of a tracked object from the frame it is first seen in to the  *)
(* closed row of its event: the detect process of every camera             *)
(* (video/detect.py with its norfair tracker), the TrackedObjectProcessor, *)
(* the EventProcessor, and what users do to the cameras meanwhile.         *)
(***************************************************************************)
EXTENDS ObjectProcessor

CONSTANTS
    Ops,          \* what users and operators do: see OpKinds
    MaxOps,       \* bounds the model: how many such operations in a behaviour
    QueueSize     \* tracked_objects_queue's size

\* toggle    turn a camera off or on
\* media     turn a camera's recording, snapshots or review on or off
\* add, remove   add or delete a camera at run time
\* resize    change a camera's detect resolution at run time
\* restart   the whole process stops at any point and starts again
OpKinds == {"toggle", "media", "add", "remove", "resize", "restart"}

ASSUME OpsAssumption == Ops \subseteq OpKinds /\ MaxOps \in Nat

ASSUME QueueSizeAssumption == QueueSize \in Nat \ {0}

ASSUME OwnerAssumption == None \notin Cameras

VARIABLES
    owner,        \* the camera whose tracker gave out the id, None if not yet
    reported,     \* the ids the trackers hold
    trackerOn,    \* cameras whose detect process processes frames
    trackerShape, \* the resolution each detect process works in
    live,         \* cameras in the configuration the API publishes from
    ops           \* operations left to users

envVars == <<owner, reported, trackerOn, trackerShape, live, ops>>
vars == <<configured, storeVars, configVars, cfgQ, batchQ, procVars, envVars>>

EnvTypeOK ==
    /\ owner \in [Ids -> Cameras \cup {None}]
    /\ reported \subseteq Ids
    /\ trackerOn \subseteq Cameras
    /\ trackerShape \in [Cameras -> Shapes]
    /\ live \subseteq Cameras
    /\ ops \in 0..MaxOps

\* Every variable has the type the code gives it (all three modules).
TypeOK == StoreTypeOK /\ ProcTypeOK /\ EnvTypeOK

Init ==
    /\ StoreInit /\ ProcInit
    /\ owner = [o \in Ids |-> None]
    /\ reported = {}
    /\ trackerOn = Cameras
    /\ trackerShape = [c \in Cameras |-> 0]
    /\ live = Cameras
    /\ ops = MaxOps

-----------------------------------------------------------------------------
(* The detect process of camera c.                                         *)

ReportedOn(c) == {o \in reported : owner[o] = c}

\* An id is the frame's time and a random string: it is never given out twice.
MutFreshIds == {o \in Ids : o \notin reported}
FreshIds == {o \in Ids : owner[o] = None}

\* One frame: the tracker drops some ids and may start a new one; the batch
\* is lost when the queue is full.
TrackFrame(c) ==
    /\ c \in trackerOn
    /\ \E gone \in SUBSET ReportedOn(c),
          new \in {{}} \cup {{o} : o \in FreshIds} :
         LET ids == (ReportedOn(c) \ gone) \cup new
         IN  /\ owner' = [o \in Ids |-> IF o \in new THEN c ELSE owner[o]]
             /\ reported' = (reported \ gone) \cup new
             /\ batchQ' = IF Len(batchQ) < QueueSize
                            THEN Append(batchQ, [cam |-> c, ids |-> ids,
                                                 shape |-> trackerShape[c]])
                            ELSE batchQ
    /\ UNCHANGED <<configured, storeVars, configVars, cfgQ, procVars, trackerOn,
                   trackerShape, live, ops>>

\* The process notices that its camera was turned on or off, added or removed.
\* A camera that is turned off loses its tracker state only if its frame queue
\* happens to be empty; a process that is stopped always does.
TrackerSync(c) ==
    /\ c \in trackerOn <=> c \notin live \cap enabled
    /\ IF c \in trackerOn
         THEN /\ trackerOn' = trackerOn \ {c}
              /\ \/ reported' = reported \ ReportedOn(c)
                 \/ c \in live /\ UNCHANGED reported
         ELSE trackerOn' = trackerOn \cup {c} /\ UNCHANGED reported
    /\ UNCHANGED <<configured, storeVars, configVars, cfgQ, batchQ, procVars,
                   owner, trackerShape, live, ops>>

\* The camera maintainer replaces a detect process that works in an old
\* resolution; until then its batches are in that one.
Recycle(c) ==
    /\ c \in live
    /\ trackerShape[c] # shape[c]
    /\ trackerShape' = [trackerShape EXCEPT ![c] = shape[c]]
    /\ reported' = reported \ ReportedOn(c)
    /\ UNCHANGED <<configured, storeVars, configVars, cfgQ, batchQ, procVars,
                   owner, trackerOn, live, ops>>

-----------------------------------------------------------------------------
(* What users do.                                                          *)

Op(kind) == kind \in Ops /\ ops > 0 /\ ops' = ops - 1

\* Dispatcher._on_enabled_command: the config object is the shared one.
SetEnabled(c) ==
    /\ Op("toggle")
    /\ c \in configured
    /\ enabled' = IF c \in enabled THEN enabled \ {c} ELSE enabled \cup {c}
    /\ UNCHANGED <<configured, storeVars, keep, shape, cfgQ, batchQ, procVars,
                   owner, reported, trackerOn, trackerShape, live>>

\* Dispatcher._on_recordings_command, _on_snapshots_command and the alerts and
\* detections commands: an object qualifies for the medium or no longer does.
SetMedia(c, m) ==
    /\ Op("media")
    /\ c \in configured
    /\ keep' = [keep EXCEPT ![c] = IF m \in @ THEN @ \ {m} ELSE @ \cup {m}]
    /\ UNCHANGED <<configured, storeVars, enabled, shape, cfgQ, batchQ, procVars,
                   owner, reported, trackerOn, trackerShape, live>>

\* api/camera.py delete_camera: the API has its own config object from then on, and the
\* rows of the camera's events are deleted.
RemoveCamera(c) ==
    /\ Op("remove")
    /\ c \in live
    /\ live' = live \ {c}
    /\ cfgQ' = Append(cfgQ, [kind |-> "remove", cam |-> c])
    /\ rows' = [o \in Ids |-> IF owner[o] = c THEN None ELSE rows[o]]
    /\ UNCHANGED <<configured, eventQ, finalQ, inProcess, started, configVars, batchQ,
                   procVars, owner, reported, trackerOn, trackerShape>>

\* api/app.py config_set, for a camera that was not configured.
AddCamera(c) ==
    /\ Op("add")
    /\ c \notin live
    /\ live' = live \cup {c}
    /\ cfgQ' = Append(cfgQ, [kind |-> "add", cam |-> c])
    /\ UNCHANGED <<configured, storeVars, configVars, batchQ, procVars, owner,
                   reported, trackerOn, trackerShape>>

\* api/app.py _config_set_in_memory: the shared config changes at once.
Resize(c) ==
    /\ Op("resize")
    /\ c \in live \cap configured
    /\ shape' = [shape EXCEPT ![c] = 1 - @]
    /\ UNCHANGED <<configured, storeVars, enabled, keep, cfgQ, batchQ, procVars,
                   owner, reported, trackerOn, trackerShape, live>>

\* The process dies at any point and is started again: the table survives, so does
\* what was switched off, and the trackers give out ids that were never used.
Restart ==
    /\ Op("restart")
    /\ configured' = live
    /\ eventQ' = <<>> /\ finalQ' = <<>>
    /\ inProcess' = [o \in Ids |-> None]
    /\ started' = FALSE
    /\ enabled' = live \cap EnabledNext
    /\ cfgQ' = <<>> /\ batchQ' = <<>>
    /\ pc' = "drain"
    /\ states' = live /\ prevEnabled' = live \cap EnabledNext /\ seenShape' = shape
    /\ tracked' = [o \in Ids |-> None]
    /\ batch' = None /\ visit' = {} /\ todo' = {}
    /\ reported' = {} /\ trackerOn' = live \cap EnabledNext /\ trackerShape' = shape
    /\ UNCHANGED <<rows, keep, shape, mqtt, owner, live>>

-----------------------------------------------------------------------------
Store == StoreNext /\ UNCHANGED <<configVars, cfgQ, batchQ, procVars, envVars>>
Processor == ProcNext /\ UNCHANGED envVars
Tracker(c) == TrackFrame(c) \/ TrackerSync(c) \/ Recycle(c)
User == \/ \E c \in Cameras : \/ SetEnabled(c) \/ RemoveCamera(c) \/ AddCamera(c)
                              \/ Resize(c)
                              \/ \E m \in Media : SetMedia(c, m)
        \/ Restart

Next == Store \/ Processor \/ (\E c \in Cameras : Tracker(c)) \/ User

\* Both threads and the detect processes keep running; frames keep coming from
\* a camera that is on.  Nobody has to do anything to the cameras.
Fairness ==
    /\ WF_vars(Store) /\ WF_vars(Processor)
    /\ \A c \in Cameras : WF_vars(TrackFrame(c)) /\ WF_vars(TrackerSync(c) \/ Recycle(c))

Spec == Init /\ [][Next]_vars /\ Fairness

-----------------------------------------------------------------------------
Live(o) == tracked[o] # None /\ ~tracked[o].ended
Forgotten(o) == tracked[o] = None
OpenRow(o) == rows[o] # None /\ ~rows[o].ended

Ending(o)    == {i \in DOMAIN eventQ : eventQ[i].id = o /\ eventQ[i].type = "end"}
Finishing(o) == {i \in DOMAIN finalQ : finalQ[i].id = o}

\* Every object the processor considers live has an event in process, or its
\* start message is on the way to the EventProcessor: its end will be heard as
\* the end of an event, not stored as the first message of one.
LiveIsInProcess ==
    \A o \in Ids : Live(o) =>
        \/ inProcess[o] # None
        \/ \E i \in DOMAIN eventQ : eventQ[i].id = o /\ eventQ[i].type = "start"

\* At most one message says that an object ended, be it the end message or the
\* finalized message it turns into, and while it is on its way the processor
\* still tracks the object, as ended: finished(id) finds what it deletes and
\* never deletes a live object.
OneEndPending ==
    \A o \in Ids :
        /\ \A i, j \in Ending(o) : i = j
        /\ \A i, j \in Finishing(o) : i = j
        /\ Ending(o) = {} \/ Finishing(o) = {}
        /\ Ending(o) \cup Finishing(o) # {} => tracked[o] # None /\ ~Live(o)

\* The processor's thread survives: no lookup of run raises.
ProcessorAlive == pc # "dead"

\* events_in_process holds no event of an object the processor has forgotten.
InProcessIsTracked == \A o \in Ids : inProcess[o] # None => ~Forgotten(o)

-----------------------------------------------------------------------------
MqttStep ==
    \A o \in Ids : /\ mqtt[o] = "none" => mqtt'[o] \in {"none", "new"}
                  /\ mqtt[o] = "end" => mqtt'[o] = "end"

\* The events topic: "new" is the first message of an object and "end" the last.
MqttInOrder == [][MqttStep]_vars

\* When the EventProcessor lets go of an event that has a row, the row is closed.
EndClosesRow ==
    [][\A o \in Ids : /\ started /\ started'
                      /\ inProcess[o] # None /\ inProcess'[o] = None
                      /\ rows[o] # None
                      => rows'[o].ended]_vars

\* The media a row says its event has are never taken back.
MediaNeverLost ==
    [][\A o \in Ids : rows[o] # None => rows[o].media \subseteq rows'[o].media]_vars

\* The table as EventRecord sees it, and the promise it makes there: events are
\* saved at most once, closed at most once and never opened again.
Stage(o) == IF rows[o] = None THEN "unsaved"
            ELSE IF rows[o].ended THEN "closed" ELSE "open"

Record == INSTANCE EventRecord WITH stage <- [o \in Ids |-> Stage(o)]

ImplementsEventRecord == Record!Spec

-----------------------------------------------------------------------------
\* An object the tracker has lost is forgotten, unless its camera is off (only a
\* processed frame lets the processor clean up) or the processor has died.
LostIsForgotten ==
    \A o \in Ids :
        o \notin reported /\ ~Forgotten(o)
            ~> Forgotten(o) \/ owner[o] \notin enabled \/ ~ProcessorAlive

\* The row of an object that was lost does not stay open.
LostIsClosed ==
    \A o \in Ids : o \notin reported /\ OpenRow(o) ~> ~OpenRow(o)

\* The objects of a camera that stays off are ended although no frame of it is
\* processed any more, if the processor's last look at it found it on, and unless
\* the processor has died.
SeenOffEndsObjects ==
    \A o \in Ids :
        Live(o) /\ owner[o] \in prevEnabled \ enabled
            ~> ~Live(o) \/ owner[o] \in enabled \/ ~ProcessorAlive

=============================================================================
