------------------------ MODULE ObjectLifecycleProofs ------------------------
(* Proofs about ObjectLifecycle, for every value of its constants.         *)
EXTENDS ObjectLifecycle, Integers, Sequences, SequenceTheorems, TLAPS

(***************************************************************************)
(* What sending to and receiving from a queue does to the messages in it.  *)
(***************************************************************************)
\* The receiver of a message takes a well-formed one and leaves well-formed ones.
LEMMA HeadTail ==
    ASSUME NEW S, NEW q \in Seq(S), q # <<>>
    PROVE  Head(q) \in S /\ Tail(q) \in Seq(S)
  BY HeadTailProperties

\* Sending puts the message behind the others.
LEMMA AppendAt ==
    ASSUME NEW S, NEW q \in Seq(S), NEW e \in S
    PROVE  /\ DOMAIN Append(q, e) = (DOMAIN q) \cup {Len(q) + 1}
           /\ \A i \in DOMAIN q : i \in Nat /\ i < Len(q) + 1 /\ Append(q, e)[i] = q[i]
           /\ Append(q, e)[Len(q) + 1] = e
  BY AppendProperties

\* Receiving moves every other message one place ahead.
LEMMA TailAt ==
    ASSUME NEW S, NEW q \in Seq(S), q # <<>>
    PROVE  /\ 1 \in DOMAIN q /\ q[1] = Head(q)
           /\ \A i \in DOMAIN Tail(q) : i + 1 \in DOMAIN q /\ Tail(q)[i] = q[i + 1]
           /\ \A i \in DOMAIN q : /\ i \in Nat \ {0}
                                  /\ i # 1 => /\ i - 1 \in DOMAIN Tail(q)
                                              /\ Tail(q)[i - 1] = q[i]
  BY HeadTailProperties

(***************************************************************************)
(* TypeOK is not inductive on its own: the processor's loops visit objects *)
(* they found earlier, so the objects still to visit must exist.           *)
(***************************************************************************)
ForceTodo == pc = "force" => \A o \in todo : tracked[o] # None

UpdateBatch == pc = "update" => batch # None

TypeInv == TypeOK /\ ForceTodo /\ UpdateBatch

\* A published message is well formed.
LEMMA PublishType ==
    ASSUME TypeOK, NEW type \in {"start", "update", "end"}, NEW o \in Ids,
           NEW obj \in TrackedObject, NEW media \in SUBSET Media,
           Publish(type, o, obj, media)
    PROVE  eventQ' \in Seq(Message)
<1>1. PICK d \in Details, s \in States :
        eventQ' = Append(eventQ,
                    [type |-> type, id |-> o, cam |-> obj.cam,
                     data |-> [ended |-> obj.ended, media |-> media,
                               det |-> d, st |-> s]])
  BY DEF Publish
<1>2. [ended |-> obj.ended, media |-> media, det |-> d, st |-> s] \in EventData
  BY DEF EventData, TrackedObject
<1>3. [type |-> type, id |-> o, cam |-> obj.cam,
       data |-> [ended |-> obj.ended, media |-> media, det |-> d, st |-> s]] \in Message
  BY <1>2 DEF Message, TrackedObject
<1>4. eventQ \in Seq(Message)
  BY DEF TypeOK, StoreTypeOK
<1>. QED  BY <1>1, <1>3, <1>4, AppendProperties

LEMMA MediaOfType ==
    ASSUME TypeOK, NEW obj \in TrackedObject
    PROVE  MediaOf(obj) \in SUBSET Media
  BY DEF MediaOf, TrackedObject, TypeOK, ProcTypeOK

LEMMA PublishEndType ==
    ASSUME TypeOK, NEW o \in Ids, NEW obj \in TrackedObject, PublishEnd(o, obj)
    PROVE  /\ eventQ' \in Seq(Message)
           /\ mqtt' \in [Ids -> {"none", "new", "update", "end"}]
           /\ tracked' = [tracked EXCEPT ![o] = obj]
           /\ tracked' \in [Ids -> TrackedObject \cup {None}]
<1>1. Publish("end", o, obj, MediaOf(obj)) /\ MediaOf(obj) \in SUBSET Media
  BY MediaOfType DEF PublishEnd
<1>2. eventQ' \in Seq(Message)
  BY <1>1, PublishType
<1>3. mqtt' \in [Ids -> {"none", "new", "update", "end"}]
  BY DEF PublishEnd, TypeOK, ProcTypeOK
<1>4. tracked' = [tracked EXCEPT ![o] = obj]
  BY DEF PublishEnd
<1>5. tracked' \in [Ids -> TrackedObject \cup {None}]
  BY <1>4 DEF TypeOK, ProcTypeOK
<1>. QED  BY <1>2, <1>3, <1>4, <1>5

-----------------------------------------------------------------------------
(* One lemma per thread: its steps preserve the typing invariant.          *)

LEMMA InitType == Init => TypeInv
<1>. SUFFICES ASSUME Init PROVE TypeInv
  OBVIOUS
<1>1. StoreTypeOK
  <2>1. eventQ \in Seq(Message) /\ finalQ \in Seq(Finalized)
    BY DEF Init, StoreInit
  <2>. QED  BY <2>1 DEF Init, StoreInit, StoreTypeOK
<1>2. ProcTypeOK
  BY DEF Init, ProcInit, ProcTypeOK, Shapes, PC
<1>3. EnvTypeOK
  BY OpsAssumption DEF Init, EnvTypeOK, Shapes
<1>4. ForceTodo /\ UpdateBatch
  BY DEF Init, ProcInit, ForceTodo, UpdateBatch
<1>. QED  BY <1>1, <1>2, <1>3, <1>4 DEF TypeInv, TypeOK

\* What the store's operators compute from well-formed data is well formed.
LEMMA StoreOperators ==
    ASSUME NEW m \in Message, NEW prev \in EventData
    PROVE  /\ Merged(prev, m.data) \in EventData
           /\ RowOf(Merged(prev, m.data)) \in EventRow
           /\ EntryAfter(m, prev) \in EventData \cup {None}
<1>1. m.data \in EventData
  BY DEF Message
<1>2. Merged(prev, m.data) \in EventData
  BY <1>1 DEF Merged, EventData
<1>3. RowOf(Merged(prev, m.data)) \in EventRow
  BY <1>2 DEF RowOf, EventData, EventRow
<1>4. EntryAfter(m, prev) \in EventData \cup {None}
  BY <1>2 DEF EntryAfter
<1>. QED  BY <1>2, <1>3, <1>4

LEMMA StoreType == TypeInv /\ Store => TypeInv'
<1>. SUFFICES ASSUME TypeInv, Store PROVE TypeInv'
  OBVIOUS
<1>. USE DEF TypeInv, TypeOK
<1>0. /\ UNCHANGED <<configVars, cfgQ, batchQ, procVars, envVars>>
      /\ ProcTypeOK' /\ EnvTypeOK' /\ ForceTodo' /\ UpdateBatch'
  BY DEF Store, configVars, procVars, envVars, ProcTypeOK, EnvTypeOK, ForceTodo, UpdateBatch
<1>1. CASE Startup
  <2>1. \A o \in Ids : Closed(rows[o]) \in EventRow \cup {None}
    BY DEF Closed, StoreTypeOK, EventRow
  <2>. QED  BY <1>0, <1>1, <2>1 DEF Startup, StoreTypeOK
<1>2. ASSUME eventQ # <<>>, NEW m, m = Head(eventQ), HandleMessage(m)
      PROVE  TypeInv'
  <2>1. m \in Message /\ Tail(eventQ) \in Seq(Message)
    BY <1>2, HeadTail DEF StoreTypeOK
  <2>2. Receive(m) => eventQ' \in Seq(Message) /\ configured' \subseteq Cameras
                      /\ started' \in BOOLEAN
    BY <2>1 DEF Receive, StoreTypeOK
  <2>3. CASE StoreFirst(m)
    BY <1>0, <2>1, <2>2, <2>3 DEF StoreFirst, StoreTypeOK, Message
  <2>4. CASE IgnoreUnconfigured(m)
    BY <1>0, <2>2, <2>4 DEF IgnoreUnconfigured, StoreTypeOK
  <2>5. CASE HandleObjectDetection(m)
    <3>1. inProcess[m.id] \in EventData
      BY <2>1, <2>5 DEF HandleObjectDetection, Later, StoreTypeOK, Message
    <3>2. /\ RowOf(Merged(inProcess[m.id], m.data)) \in EventRow
          /\ EntryAfter(m, inProcess[m.id]) \in EventData \cup {None}
      BY <2>1, <3>1, StoreOperators
    <3>3. rows' \in [Ids -> EventRow \cup {None}]
      BY <2>5, <3>2 DEF HandleObjectDetection, StoreTypeOK
    <3>4. inProcess' \in [Ids -> EventData \cup {None}]
      BY <2>5, <3>2 DEF HandleObjectDetection, StoreTypeOK
    <3>5. [id |-> m.id, cam |-> m.cam] \in Finalized
      BY <2>1 DEF Message, Finalized
    <3>6. finalQ' \in Seq(Finalized)
      BY <2>5, <3>5, AppendProperties DEF HandleObjectDetection, StoreTypeOK
    <3>. QED  BY <1>0, <2>2, <2>5, <3>3, <3>4, <3>6 DEF HandleObjectDetection, StoreTypeOK
  <2>. QED  BY <1>2, <2>3, <2>4, <2>5 DEF HandleMessage
<1>. QED  BY <1>1, <1>2 DEF Store, StoreNext

\* The steps of the processor that publish: they append a well-formed message
\* and leave every tracked object well formed.
LEMMA PublishSteps ==
    ASSUME TypeInv, NEW o \in Ids,
           ForceEnd(o) \/ NewObject(o) \/ UpdateObject(o) \/ RemoveObject(o)
    PROVE  /\ eventQ' \in Seq(Message)
           /\ mqtt' \in [Ids -> {"none", "new", "update", "end"}]
           /\ tracked' \in [Ids -> TrackedObject \cup {None}]
           /\ \A i \in Ids : tracked[i] # None => tracked'[i] # None
           /\ todo' = todo \ {o}
           /\ UNCHANGED <<configVars, cfgQ, batchQ, pc, states, prevEnabled,
                          seenShape, batch, visit, configured, finalQ, inProcess, rows, started>>
<1>. USE DEF TypeInv
<1>0. /\ tracked \in [Ids -> TrackedObject \cup {None}]
      /\ mqtt \in [Ids -> {"none", "new", "update", "end"}]
      /\ eventQ \in Seq(Message)
  BY DEF TypeOK, ProcTypeOK, StoreTypeOK
<1>1. ASSUME tracked[o] \in TrackedObject,
             PublishEnd(o, [tracked[o] EXCEPT !.ended = TRUE])
      PROVE  /\ eventQ' \in Seq(Message)
             /\ mqtt' \in [Ids -> {"none", "new", "update", "end"}]
             /\ tracked' \in [Ids -> TrackedObject \cup {None}]
             /\ \A i \in Ids : tracked[i] # None => tracked'[i] # None
  <2>. DEFINE obj == [tracked[o] EXCEPT !.ended = TRUE]
  <2>1. obj \in TrackedObject
    BY <1>1 DEF TrackedObject
  <2>2. /\ eventQ' \in Seq(Message)
        /\ mqtt' \in [Ids -> {"none", "new", "update", "end"}]
        /\ tracked' = [tracked EXCEPT ![o] = obj]
    BY <1>1, <2>1, PublishEndType
  <2>. QED  BY <1>0, <2>1, <2>2, ObjectNoneAssumption
<1>2. CASE ForceEnd(o)
  <2>1. tracked[o] \in TrackedObject
    BY <1>0, <1>2 DEF ForceEnd, ForceTodo
  <2>. QED  BY <1>1, <1>2, <2>1 DEF ForceEnd
<1>3. CASE NewObject(o)
  <2>. DEFINE obj == [cam |-> batch.cam, ended |-> FALSE, tp |-> FALSE, worthy |-> {}]
  <2>1. obj \in TrackedObject
    BY <1>3 DEF NewObject, UpdateBatch, TypeOK, ProcTypeOK, TrackedObject, Batch
  <2>2. Publish("start", o, obj, {}) /\ tracked' = [tracked EXCEPT ![o] = obj]
    BY <1>3 DEF NewObject
  <2>3. eventQ' \in Seq(Message)
    BY <2>1, <2>2, PublishType
  <2>. QED  BY <1>0, <1>3, <2>1, <2>2, <2>3, ObjectNoneAssumption DEF NewObject, UpdateFrame
<1>4. CASE UpdateObject(o)
  <2>1. PICK tp \in BOOLEAN, worthy \in SUBSET Media, publish \in BOOLEAN :
          LET obj == [tracked[o] EXCEPT !.tp = tp, !.worthy = worthy]
          IN  /\ tracked' = [tracked EXCEPT ![o] = obj]
              /\ \/ /\ Publish("update", o, obj, MediaOf(obj))
                    /\ mqtt' = [mqtt EXCEPT ![o] =
                                  IF tracked[o].tp THEN "update" ELSE "new"]
                 \/ UNCHANGED <<eventQ, mqtt>>
    BY <1>4 DEF UpdateObject
  <2>. DEFINE obj == [tracked[o] EXCEPT !.tp = tp, !.worthy = worthy]
  <2>2. tracked[o] \in TrackedObject
    BY <1>0, <1>4 DEF UpdateObject, UpdatedIds
  <2>3. obj \in TrackedObject
    BY <2>2 DEF TrackedObject
  <2>4. MediaOf(obj) \in SUBSET Media
    BY <2>3, MediaOfType
  <2>5. eventQ' \in Seq(Message)
    <3>1. CASE Publish("update", o, obj, MediaOf(obj))
      BY <2>3, <2>4, <3>1, PublishType
    <3>. QED  BY <1>0, <2>1, <3>1
  <2>. QED  BY <1>0, <1>4, <2>1, <2>3, <2>5, ObjectNoneAssumption DEF UpdateObject, UpdateFrame
<1>5. CASE RemoveObject(o)
  <2>1. CASE MustEnd(o)
    <3>1. tracked[o] \in TrackedObject
      BY <1>0, <2>1 DEF MustEnd
    <3>. QED  BY <1>1, <1>5, <2>1, <3>1 DEF RemoveObject, UpdateFrame
  <2>2. CASE ~MustEnd(o)
    BY <1>0, <1>5, <2>2 DEF RemoveObject, UpdateFrame
  <2>. QED  BY <2>1, <2>2
<1>. QED  BY <1>2, <1>3, <1>4, <1>5

LEMMA ProcessorType == TypeInv /\ Processor => TypeInv'
<1>. SUFFICES ASSUME TypeInv, Processor PROVE TypeInv'
  OBVIOUS
<1>. USE DEF TypeInv, TypeOK
<1>0. EnvTypeOK'
  BY DEF Processor, envVars, EnvTypeOK
<1>1. ASSUME NEW o \in Ids,
             ForceEnd(o) \/ NewObject(o) \/ UpdateObject(o) \/ RemoveObject(o)
      PROVE  TypeInv'
  <2>1. /\ eventQ' \in Seq(Message)
        /\ mqtt' \in [Ids -> {"none", "new", "update", "end"}]
        /\ tracked' \in [Ids -> TrackedObject \cup {None}]
        /\ \A i \in Ids : tracked[i] # None => tracked'[i] # None
        /\ todo' = todo \ {o}
        /\ UNCHANGED <<configVars, cfgQ, batchQ, pc, states, prevEnabled,
                       seenShape, batch, visit, configured, finalQ, inProcess, rows, started>>
    BY <1>1, PublishSteps
  <2>2. StoreTypeOK' /\ ProcTypeOK'
    BY <2>1 DEF StoreTypeOK, ProcTypeOK, configVars
  <2>3. ForceTodo' /\ UpdateBatch'
    BY <2>1 DEF ForceTodo, UpdateBatch, ProcTypeOK
  <2>. QED  BY <1>0, <2>2, <2>3
<1>2. CASE CheckForUpdatesDies
  <2>1. ConfiguredNext \subseteq Cameras /\ EnabledNext \subseteq Cameras
    BY DEF ConfiguredNext, EnabledNext
  <2>2. cfgQ' \in Seq(ConfigMessage)
    BY <1>2 DEF CheckForUpdatesDies
  <2>. QED  BY <1>0, <1>2, <2>1, <2>2 DEF CheckForUpdatesDies, StoreTypeOK, ProcTypeOK,
              storeVars, ForceTodo, UpdateBatch, PC
<1>3. CASE CheckForUpdates
  <2>1. ConfiguredNext \subseteq Cameras /\ EnabledNext \subseteq Cameras
    BY DEF ConfiguredNext, EnabledNext
  <2>2. cfgQ' \in Seq(ConfigMessage)
    BY <1>3 DEF CheckForUpdates
  <2>3. Named("add") \subseteq Cameras
    BY <1>3, <2>1 DEF CheckForUpdates
  <2>4. /\ states' \subseteq Cameras /\ prevEnabled' \subseteq Cameras
        /\ seenShape' \in [Cameras -> Shapes]
        /\ tracked' \in [Ids -> TrackedObject \cup {None}]
    BY <1>3, <2>1, <2>3 DEF CheckForUpdates, ProcTypeOK
  <2>5. visit' \subseteq Cameras /\ pc' \in {"fetch", "manage"}
    BY <1>3, <2>4 DEF CheckForUpdates, NextVisit
  <2>6. configured' = ConfiguredNext /\ enabled' = EnabledNext
        /\ UNCHANGED <<keep, shape, batchQ, batch, todo, mqtt, storeVars>>
    BY <1>3 DEF CheckForUpdates
  <2>. QED  BY <1>0, <2>1, <2>2, <2>4, <2>5, <2>6 DEF StoreTypeOK, ProcTypeOK,
              storeVars, ForceTodo, UpdateBatch, PC
<1>4. CASE ManageDisabled
  <2>1. PICK c \in visit :
          /\ visit' = visit \ {c}
          /\ todo' = IF c \in prevEnabled \ enabled
                       THEN {o \in TrackedOn(c) : MustEnd(o)} ELSE {}
          /\ prevEnabled' = SeenEnabled(c)
    BY <1>4 DEF ManageDisabled
  <2>2. prevEnabled' \subseteq Cameras /\ visit' \subseteq Cameras
    BY <2>1 DEF SeenEnabled, ProcTypeOK
  <2>3. todo' \subseteq Ids /\ \A o \in todo' : tracked[o] # None
    BY <2>1 DEF TrackedOn, MustEnd
  <2>4. /\ pc' = "force"
        /\ UNCHANGED <<configVars, cfgQ, batchQ, states, seenShape, tracked, batch,
                       mqtt, configured, storeVars>>
    BY <1>4 DEF ManageDisabled
  <2>. QED  BY <1>0, <2>2, <2>3, <2>4 DEF StoreTypeOK, ProcTypeOK, storeVars,
              configVars, ForceTodo, UpdateBatch, PC
<1>5. CASE ForceDone
  <2>1. /\ pc' \in {"fetch", "manage"}
        /\ UNCHANGED <<configVars, cfgQ, batchQ, states, prevEnabled, seenShape, tracked,
                       batch, visit, todo, mqtt, configured, storeVars>>
    BY <1>5 DEF ForceDone, NextVisit
  <2>. QED  BY <1>0, <2>1 DEF StoreTypeOK, ProcTypeOK, storeVars, configVars,
              ForceTodo, UpdateBatch, PC
<1>6. CASE FetchTimeout
  BY <1>0, <1>6 DEF FetchTimeout, StoreTypeOK, ProcTypeOK, storeVars, configVars,
     ForceTodo, UpdateBatch, PC
<1>7. CASE FetchSkip
  <2>1. batchQ' \in Seq(Batch)
    BY <1>7, HeadTail DEF FetchSkip, ProcTypeOK
  <2>. QED  BY <1>0, <1>7, <2>1 DEF FetchSkip, StoreTypeOK, ProcTypeOK, storeVars,
              configVars, ForceTodo, UpdateBatch, PC
<1>8. CASE FetchBatch
  <2>1. batchQ' \in Seq(Batch) /\ Head(batchQ) \in Batch
    BY <1>8, HeadTail DEF FetchBatch, ProcTypeOK
  <2>2. /\ seenShape' \in [Cameras -> Shapes]
        /\ tracked' \in [Ids -> TrackedObject \cup {None}]
    BY <1>8, <2>1 DEF FetchBatch, ProcTypeOK, Batch
  <2>3. /\ batch' \in Batch \cup {None} /\ todo' \subseteq Ids
        /\ pc' \in {"update", "cleanup"} /\ (pc' = "update" => batch' # None)
    <3>. DEFINE b == Head(batchQ)
    <3>1. b.ids \subseteq Ids /\ b # None
      BY <2>1, ObjectNoneAssumption DEF Batch
    <3>2. \/ /\ batch' = b /\ pc' = "update"
             /\ todo' = b.ids \cup {o \in Ids : tracked'[o] # None
                                                 /\ tracked'[o].cam = b.cam}
          \/ pc' = "cleanup" /\ UNCHANGED <<batch, todo>>
      BY <1>8 DEF FetchBatch
    <3>. QED  BY <2>1, <3>1, <3>2 DEF ProcTypeOK
  <2>4. UNCHANGED <<configVars, cfgQ, states, prevEnabled, visit, mqtt, configured,
                    storeVars>>
    BY <1>8 DEF FetchBatch
  <2>. QED  BY <1>0, <2>1, <2>2, <2>3, <2>4 DEF StoreTypeOK, ProcTypeOK, storeVars,
              configVars, ForceTodo, UpdateBatch, PC
<1>9. CASE UpdateDone
  BY <1>0, <1>9 DEF UpdateDone, StoreTypeOK, ProcTypeOK, storeVars, configVars,
     ForceTodo, UpdateBatch, PC
<1>10. CASE Cleanup
  <2>1. finalQ' \in Seq(Finalized)
    BY <1>10, HeadTail DEF Cleanup, StoreTypeOK
  <2>2. tracked' \in [Ids -> TrackedObject \cup {None}]
    BY <1>10 DEF Cleanup, ProcTypeOK
  <2>. QED  BY <1>0, <1>10, <2>1, <2>2 DEF Cleanup, StoreTypeOK, ProcTypeOK, configVars,
              ForceTodo, UpdateBatch
<1>11. CASE CleanupDies
  <2>1. finalQ' \in Seq(Finalized)
    BY <1>11, HeadTail DEF CleanupDies, StoreTypeOK
  <2>. QED  BY <1>0, <1>11, <2>1 DEF CleanupDies, StoreTypeOK, ProcTypeOK, configVars,
              ForceTodo, UpdateBatch, PC
<1>12. CASE CleanupDone
  BY <1>0, <1>12 DEF CleanupDone, StoreTypeOK, ProcTypeOK, storeVars, configVars,
     ForceTodo, UpdateBatch, PC
<1>. QED  BY <1>1, <1>2, <1>3, <1>4, <1>5, <1>6, <1>7, <1>8, <1>9, <1>10, <1>11, <1>12
          DEF Processor, ProcNext

LEMMA TrackerType ==
    ASSUME TypeInv, NEW c \in Cameras, Tracker(c) PROVE TypeInv'
<1>. USE DEF TypeInv, TypeOK
<1>0. /\ UNCHANGED <<configured, storeVars, configVars, cfgQ, procVars>>
      /\ UNCHANGED <<live, ops>>
  BY DEF Tracker, TrackFrame, TrackerSync, Recycle
<1>1. StoreTypeOK' /\ ForceTodo' /\ UpdateBatch'
  BY <1>0 DEF StoreTypeOK, storeVars, procVars, ForceTodo, UpdateBatch
<1>2. CASE TrackFrame(c)
  <2>1. PICK gone \in SUBSET ReportedOn(c), new \in {{}} \cup {{o} : o \in FreshIds} :
          LET ids == (ReportedOn(c) \ gone) \cup new
          IN  /\ owner' = [o \in Ids |-> IF o \in new THEN c ELSE owner[o]]
              /\ reported' = (reported \ gone) \cup new
              /\ batchQ' = IF Len(batchQ) < QueueSize
                             THEN Append(batchQ, [cam |-> c, ids |-> ids,
                                                  shape |-> trackerShape[c]])
                             ELSE batchQ
    BY <1>2 DEF TrackFrame
  <2>. DEFINE ids == (ReportedOn(c) \ gone) \cup new
              b   == [cam |-> c, ids |-> ids, shape |-> trackerShape[c]]
  <2>2. new \subseteq Ids
    BY DEF FreshIds
  <2>3. ids \subseteq Ids
    BY <2>2 DEF ReportedOn, EnvTypeOK
  <2>4. b \in Batch
    BY <2>3 DEF Batch, EnvTypeOK
  <2>5. batchQ' \in Seq(Batch)
    BY <2>1, <2>4, AppendProperties DEF ProcTypeOK
  <2>6. owner' \in [Ids -> Cameras \cup {None}] /\ reported' \subseteq Ids
    BY <2>1, <2>2 DEF EnvTypeOK
  <2>7. ProcTypeOK'
    BY <1>0, <2>5 DEF ProcTypeOK, configVars, procVars
  <2>8. EnvTypeOK'
    BY <1>0, <1>2, <2>6 DEF EnvTypeOK, TrackFrame
  <2>. QED  BY <1>1, <2>7, <2>8
<1>3. CASE TrackerSync(c)
  BY <1>0, <1>1, <1>3 DEF TrackerSync, ReportedOn, ProcTypeOK, EnvTypeOK, configVars, procVars
<1>4. CASE Recycle(c)
  BY <1>0, <1>1, <1>4 DEF Recycle, ReportedOn, ProcTypeOK, EnvTypeOK, configVars, procVars
<1>. QED  BY <1>2, <1>3, <1>4 DEF Tracker

LEMMA UserType == TypeInv /\ User => TypeInv'
<1>. SUFFICES ASSUME TypeInv, User PROVE TypeInv'
  OBVIOUS
<1>. USE DEF TypeInv, TypeOK
<1>0. ops' \in 0..MaxOps
  <2>1. ops > 0 /\ ops' = ops - 1
    BY DEF User, SetEnabled, RemoveCamera, AddCamera, Resize, SetMedia, Restart, Op
  <2>2. ops \in 0..MaxOps /\ MaxOps \in Nat
    BY OpsAssumption DEF EnvTypeOK
  <2>. QED  BY <2>1, <2>2
<1>1. ASSUME NEW c \in Cameras, SetEnabled(c) PROVE TypeInv'
  BY <1>0, <1>1 DEF SetEnabled, StoreTypeOK, ProcTypeOK, EnvTypeOK, storeVars,
     procVars, ForceTodo, UpdateBatch
<1>2. ASSUME NEW c \in Cameras, NEW m \in Media, SetMedia(c, m) PROVE TypeInv'
  <2>1. keep' \in [Cameras -> SUBSET Media]
    BY <1>2 DEF SetMedia, ProcTypeOK
  <2>. QED  BY <1>0, <1>2, <2>1 DEF SetMedia, StoreTypeOK, ProcTypeOK, EnvTypeOK,
              storeVars, procVars, ForceTodo, UpdateBatch
<1>3. ASSUME NEW c \in Cameras, RemoveCamera(c) \/ AddCamera(c) PROVE TypeInv'
  <2>0. rows' \in [Ids -> EventRow \cup {None}]
    BY <1>3 DEF RemoveCamera, AddCamera, storeVars, StoreTypeOK
  <2>1. [kind |-> "remove", cam |-> c] \in ConfigMessage
        /\ [kind |-> "add", cam |-> c] \in ConfigMessage
    BY DEF ConfigMessage
  <2>2. cfgQ' \in Seq(ConfigMessage)
    <3>1. \E msg \in ConfigMessage : cfgQ' = Append(cfgQ, msg)
      BY <1>3, <2>1 DEF RemoveCamera, AddCamera
    <3>. QED  BY <3>1, AppendProperties DEF ProcTypeOK
  <2>. QED  BY <1>0, <1>3, <2>0, <2>2 DEF RemoveCamera, AddCamera, StoreTypeOK, ProcTypeOK,
              EnvTypeOK, storeVars, configVars, procVars, ForceTodo, UpdateBatch
<1>4. ASSUME NEW c \in Cameras, Resize(c) PROVE TypeInv'
  BY <1>0, <1>4 DEF Resize, ReportedOn, StoreTypeOK, ProcTypeOK, EnvTypeOK, storeVars,
     procVars, ForceTodo, UpdateBatch, Shapes
<1>5. CASE Restart
  <2>1. /\ eventQ' \in Seq(Message) /\ finalQ' \in Seq(Finalized)
        /\ cfgQ' \in Seq(ConfigMessage) /\ batchQ' \in Seq(Batch)
    BY <1>5 DEF Restart
  <2>2. StoreTypeOK'
    BY <1>5, <2>1 DEF Restart, StoreTypeOK, EnvTypeOK
  <2>3. ProcTypeOK'
    <3>1. enabled' \subseteq Cameras /\ states' \subseteq Cameras /\ prevEnabled' \subseteq Cameras
      BY <1>5 DEF Restart, EnvTypeOK
    <3>2. tracked' \in [Ids -> TrackedObject \cup {None}]
      BY <1>5 DEF Restart
    <3>3. UNCHANGED <<keep, shape, mqtt>> /\ seenShape' = shape
      BY <1>5 DEF Restart
    <3>4. pc' = "drain" /\ batch' = None /\ visit' = {} /\ todo' = {}
      BY <1>5 DEF Restart
    <3>. QED  BY <2>1, <3>1, <3>2, <3>3, <3>4 DEF ProcTypeOK, PC
  <2>4. EnvTypeOK' /\ ForceTodo' /\ UpdateBatch'
    BY <1>0, <1>5 DEF Restart, EnvTypeOK, ProcTypeOK, ForceTodo, UpdateBatch
  <2>. QED  BY <2>2, <2>3, <2>4
<1>. QED  BY <1>1, <1>2, <1>3, <1>4, <1>5 DEF User

LEMMA NextType == TypeInv /\ [Next]_vars => TypeInv'
<1>1. TypeInv /\ UNCHANGED vars => TypeInv'
  BY DEF vars, storeVars, configVars, procVars, envVars, TypeInv, TypeOK, StoreTypeOK,
     ProcTypeOK, EnvTypeOK, ForceTodo, UpdateBatch
<1>. QED  BY <1>1, StoreType, ProcessorType, TrackerType, UserType DEF Next

\* Every variable keeps its type, for any number of cameras, objects and media.
THEOREM TypeCorrect == Spec => []TypeOK
<1>1. Spec => []TypeInv
  BY InitType, NextType, PTL DEF Spec
<1>2. TypeInv => TypeOK
  BY DEF TypeInv
<1>. QED  BY <1>1, <1>2, PTL

-----------------------------------------------------------------------------
(***************************************************************************)
(* LiveIsInProcess.  The end messages that may still be queued for an      *)
(* object that is live again (its camera was resized, or removed and added *)
(* back) must not take away the entry its new start message will make: the *)
(* invariant has to say that such a start is queued behind them.           *)
(***************************************************************************)
Starting(o) == {i \in DOMAIN eventQ : eventQ[i].id = o /\ eventQ[i].type = "start"}

LiveEntry(o) ==
    \/ Ending(o) = {} /\ inProcess[o] # None
    \/ \E i \in Starting(o) : \A j \in Ending(o) : j < i

LiveInv == \A o \in Ids : Live(o) => LiveEntry(o)

\* What the queue says of an object changes only with messages about it.
LEMMA PublishAt ==
    ASSUME TypeOK, NEW type \in {"start", "update", "end"}, NEW o \in Ids,
           NEW obj \in TrackedObject, NEW media \in SUBSET Media,
           Publish(type, o, obj, media), NEW i \in Ids
    PROVE  /\ Starting(i)' = IF i = o /\ type = "start"
                               THEN Starting(i) \cup {Len(eventQ) + 1} ELSE Starting(i)
           /\ Ending(i)' = IF i = o /\ type = "end"
                             THEN Ending(i) \cup {Len(eventQ) + 1} ELSE Ending(i)
           /\ \A j \in Starting(i) \cup Ending(i) : j < Len(eventQ) + 1
<1>1. PICK d \in Details, s \in States :
        eventQ' = Append(eventQ,
                    [type |-> type, id |-> o, cam |-> obj.cam,
                     data |-> [ended |-> obj.ended, media |-> media,
                               det |-> d, st |-> s]])
  BY DEF Publish
<1>. DEFINE m == [type |-> type, id |-> o, cam |-> obj.cam,
                  data |-> [ended |-> obj.ended, media |-> media, det |-> d, st |-> s]]
<1>2. m \in Message
  BY DEF Message, EventData, TrackedObject
<1>3. eventQ \in Seq(Message) /\ eventQ' = Append(eventQ, m)
  BY <1>1 DEF TypeOK, StoreTypeOK
<1>4. /\ DOMAIN eventQ' = (DOMAIN eventQ) \cup {Len(eventQ) + 1}
      /\ \A j \in DOMAIN eventQ :
            j \in Nat /\ j < Len(eventQ) + 1 /\ eventQ'[j] = eventQ[j]
      /\ eventQ'[Len(eventQ) + 1] = m
  BY <1>2, <1>3, AppendAt
<1>5. m.type = type /\ m.id = o
  OBVIOUS
<1>. HIDE DEF m
<1>. QED  BY <1>4, <1>5 DEF Starting, Ending

LEMMA LiveFrame ==
    ASSUME LiveInv, UNCHANGED <<eventQ, inProcess>>,
           \A o \in Ids : tracked'[o] = tracked[o] \/ tracked'[o] = None
    PROVE  LiveInv'
  BY DEF LiveInv, Live, LiveEntry, Starting, Ending

LEMMA StoreLive == TypeInv /\ LiveInv /\ Store => LiveInv'
<1>. SUFFICES ASSUME TypeInv, LiveInv, Store PROVE LiveInv'
  OBVIOUS
<1>0. UNCHANGED tracked
  BY DEF Store, procVars
<1>1. CASE Startup
  BY <1>0, <1>1, LiveFrame DEF Startup
<1>2. ASSUME eventQ # <<>>, NEW m, m = Head(eventQ), HandleMessage(m)
      PROVE  LiveInv'
  <2>1. eventQ \in Seq(Message) /\ inProcess \in [Ids -> EventData \cup {None}]
    BY DEF TypeInv, TypeOK, StoreTypeOK
  <2>a. m \in Message
    BY <1>2, <2>1, HeadTail
  <2>2. m \in Message /\ m.data \in EventData /\ m.id \in Ids
    BY <2>a DEF Message
  <2>3. eventQ' = Tail(eventQ)
    BY <1>2 DEF HandleMessage, StoreFirst, IgnoreUnconfigured, HandleObjectDetection, Receive
  <2>4. /\ 1 \in DOMAIN eventQ /\ eventQ[1] = m
        /\ \A i \in DOMAIN eventQ' : i + 1 \in DOMAIN eventQ /\ eventQ'[i] = eventQ[i + 1]
        /\ \A i \in DOMAIN eventQ : /\ i \in Nat \ {0}
                                    /\ i # 1 => /\ i - 1 \in DOMAIN eventQ'
                                                /\ eventQ'[i - 1] = eventQ[i]
    BY <1>2, <2>1, <2>3, TailAt
  <2>5. DOMAIN eventQ' \subseteq Nat
    BY <2>1, <2>3, <1>2, HeadTailProperties
  <2>6. ASSUME NEW o \in Ids, m.id # o
        PROVE  inProcess'[o] = inProcess[o]
    BY <1>2, <2>1, <2>2, <2>6 DEF HandleMessage, StoreFirst, IgnoreUnconfigured, HandleObjectDetection
  <2>7. m.type # "end" => inProcess'[m.id] # None
    <3>1. CASE StoreFirst(m)
      BY <2>1, <2>2, <3>1, NoneAssumption DEF StoreFirst
    <3>2. CASE IgnoreUnconfigured(m)
      BY <3>2 DEF IgnoreUnconfigured, Later
    <3>3. CASE HandleObjectDetection(m)
      <4>1. inProcess[m.id] \in EventData
        BY <2>1, <2>2, <3>3 DEF HandleObjectDetection, Later
      <4>2. Merged(inProcess[m.id], m.data) \in EventData
        BY <2>2, <4>1, StoreOperators
      <4>3. m.type # "end" => EntryAfter(m, inProcess[m.id]) \in EventData
        BY <4>1, <4>2 DEF EntryAfter
      <4>. QED  BY <2>1, <2>2, <3>3, <4>3, NoneAssumption DEF HandleObjectDetection
    <3>. QED  BY <1>2, <3>1, <3>2, <3>3 DEF HandleMessage
  <2>8. ASSUME NEW o \in Ids, Live(o) PROVE LiveEntry(o)'
    <3>1. \A j \in Ending(o)' : j \in Nat /\ j + 1 \in Ending(o)
      BY <2>4, <2>5 DEF Ending
    <3>2. CASE Ending(o) = {} /\ inProcess[o] # None
      <4>1. Ending(o)' = {}
        BY <3>1, <3>2
      <4>2. m.id = o => m.type # "end"
        BY <2>4, <3>2 DEF Ending
      <4>. QED  BY <2>6, <2>7, <3>2, <4>1, <4>2 DEF LiveEntry
    <3>3. ASSUME NEW i \in Starting(o), \A j \in Ending(o) : j < i
          PROVE  LiveEntry(o)'
      <4>1. CASE i = 1
        <5>1. Ending(o)' = {}
          BY <3>1, <3>3, <4>1
        <5>2. m.id = o /\ m.type = "start"
          BY <2>4, <4>1 DEF Starting
        <5>. QED  BY <2>7, <5>1, <5>2 DEF LiveEntry
      <4>2. CASE i # 1
        <5>1. i - 1 \in Starting(o)' /\ i \in Nat
          BY <2>4, <4>2 DEF Starting
        <5>2. \A j \in Ending(o)' : j < i - 1
          BY <3>1, <3>3, <5>1
        <5>. QED  BY <5>1, <5>2 DEF LiveEntry
      <4>. QED  BY <4>1, <4>2
    <3>. QED  BY <2>8, <3>2, <3>3 DEF LiveInv, LiveEntry
  <2>. QED  BY <1>0, <2>8 DEF LiveInv, Live
<1>. QED  BY <1>1, <1>2 DEF Store, StoreNext

\* What the steps that publish do to the objects that are live.
LEMMA PublishLive ==
    ASSUME TypeInv, LiveInv, NEW o \in Ids,
           ForceEnd(o) \/ NewObject(o) \/ UpdateObject(o) \/ RemoveObject(o)
    PROVE  LiveInv'
<1>0. /\ TypeOK /\ tracked \in [Ids -> TrackedObject \cup {None}]
      /\ UNCHANGED inProcess
  BY PublishSteps DEF TypeInv, TypeOK, ProcTypeOK
<1>1. ASSUME NEW type \in {"start", "update", "end"}, NEW obj \in TrackedObject,
             NEW media \in SUBSET Media, Publish(type, o, obj, media),
             tracked' = [tracked EXCEPT ![o] = obj],
             type = "end" => obj.ended,
             type = "update" => Live(o) \/ obj.ended
      PROVE  LiveInv'
  <2>1. ASSUME NEW i \in Ids
        PROVE  /\ Starting(i)' = IF i = o /\ type = "start"
                                   THEN Starting(i) \cup {Len(eventQ) + 1} ELSE Starting(i)
               /\ Ending(i)' = IF i = o /\ type = "end"
                                 THEN Ending(i) \cup {Len(eventQ) + 1} ELSE Ending(i)
               /\ \A j \in Starting(i) \cup Ending(i) : j < Len(eventQ) + 1
    BY <1>0, <1>1, <2>1, PublishAt
  <2>2. ASSUME NEW i \in Ids, LiveEntry(i), ~(i = o /\ type # "update")
        PROVE  LiveEntry(i)'
    <3>1. Starting(i)' = Starting(i) /\ Ending(i)' = Ending(i)
      BY <2>1, <2>2
    <3>. QED  BY <1>0, <2>2, <3>1 DEF LiveEntry
  <2>3. ASSUME NEW i \in Ids, i # o, Live(i)' PROVE Live(i)
    BY <1>0, <1>1, <2>3 DEF Live
  <2>4. Live(o)' => ~obj.ended
    BY <1>0, <1>1 DEF Live
  <2>5. type = "start" => LiveEntry(o)'
    <3>. SUFFICES ASSUME type = "start" PROVE LiveEntry(o)'
      OBVIOUS
    <3>1. Len(eventQ) + 1 \in Starting(o)'
      BY <2>1
    <3>2. \A j \in Ending(o)' : j < Len(eventQ) + 1
      BY <2>1
    <3>. QED  BY <3>1, <3>2 DEF LiveEntry
  <2>. QED  BY <1>1, <2>2, <2>3, <2>4, <2>5 DEF LiveInv
<1>2. ASSUME tracked[o] \in TrackedObject,
             PublishEnd(o, [tracked[o] EXCEPT !.ended = TRUE])
      PROVE  LiveInv'
  <2>. DEFINE obj == [tracked[o] EXCEPT !.ended = TRUE]
  <2>1. obj \in TrackedObject /\ obj.ended
    BY <1>2 DEF TrackedObject
  <2>2. MediaOf(obj) \in SUBSET Media
    BY <1>0, <2>1, MediaOfType
  <2>3. Publish("end", o, obj, MediaOf(obj)) /\ tracked' = [tracked EXCEPT ![o] = obj]
    BY <1>2 DEF PublishEnd
  <2>. HIDE DEF obj
  <2>. QED  BY <1>1, <2>1, <2>2, <2>3
<1>3. CASE ForceEnd(o)
  <2>1. tracked[o] \in TrackedObject
    BY <1>0, <1>3 DEF ForceEnd, ForceTodo, TypeInv, ProcTypeOK
  <2>. QED  BY <1>2, <1>3, <2>1 DEF ForceEnd
<1>4. CASE NewObject(o)
  <2>. DEFINE obj == [cam |-> batch.cam, ended |-> FALSE, tp |-> FALSE, worthy |-> {}]
  <2>1. obj \in TrackedObject
    BY <1>4 DEF NewObject, UpdateBatch, TypeInv, TypeOK, ProcTypeOK, TrackedObject, Batch
  <2>2. Publish("start", o, obj, {}) /\ tracked' = [tracked EXCEPT ![o] = obj]
    BY <1>4 DEF NewObject
  <2>3. {} \in SUBSET Media /\ "start" \in {"start", "update", "end"}
    OBVIOUS
  <2>. HIDE DEF obj
  <2>. QED  BY <1>1, <2>1, <2>2, <2>3
<1>5. CASE UpdateObject(o)
  <2>1. PICK tp \in BOOLEAN, worthy \in SUBSET Media, publish \in BOOLEAN :
          LET obj == [tracked[o] EXCEPT !.tp = tp, !.worthy = worthy]
          IN  /\ tracked' = [tracked EXCEPT ![o] = obj]
              /\ \/ Publish("update", o, obj, MediaOf(obj))
                 \/ UNCHANGED <<eventQ, mqtt>>
    BY <1>5 DEF UpdateObject
  <2>. DEFINE obj == [tracked[o] EXCEPT !.tp = tp, !.worthy = worthy]
  <2>2. tracked[o] \in TrackedObject
    BY <1>0, <1>5 DEF UpdateObject, UpdatedIds
  <2>3. obj \in TrackedObject /\ obj.ended = tracked[o].ended
    BY <2>2 DEF TrackedObject
  <2>4. MediaOf(obj) \in SUBSET Media
    BY <1>0, <2>3, MediaOfType
  <2>5. Live(o) \/ obj.ended
    BY <2>2, <2>3, ObjectNoneAssumption DEF Live, TrackedObject
  <2>6. tracked' = [tracked EXCEPT ![o] = obj]
    BY <2>1
  <2>7. CASE Publish("update", o, obj, MediaOf(obj))
    <3>. HIDE DEF obj
    <3>. QED  BY <1>1, <2>3, <2>4, <2>5, <2>6, <2>7
  <2>8. CASE UNCHANGED eventQ
    <3>1. \A i \in Ids : Live(i)' => Live(i)
      BY <1>0, <2>3, <2>5, <2>6 DEF Live
    <3>. QED  BY <1>0, <2>8, <3>1 DEF LiveInv, LiveEntry, Starting, Ending
  <2>. QED  BY <2>1, <2>7, <2>8
<1>6. CASE RemoveObject(o)
  <2>1. CASE MustEnd(o)
    <3>1. tracked[o] \in TrackedObject
      BY <1>0, <2>1 DEF MustEnd
    <3>. QED  BY <1>2, <1>6, <2>1, <3>1 DEF RemoveObject
  <2>2. CASE ~MustEnd(o)
    BY <1>0, <1>6, <2>2, LiveFrame DEF RemoveObject
  <2>. QED  BY <2>1, <2>2
<1>. QED  BY <1>3, <1>4, <1>5, <1>6

LEMMA ProcessorLive == TypeInv /\ LiveInv /\ Processor => LiveInv'
<1>. SUFFICES ASSUME TypeInv, LiveInv, Processor PROVE LiveInv'
  OBVIOUS
<1>0. tracked \in [Ids -> TrackedObject \cup {None}]
  BY DEF TypeInv, TypeOK, ProcTypeOK
<1>1. ASSUME NEW o \in Ids,
             ForceEnd(o) \/ NewObject(o) \/ UpdateObject(o) \/ RemoveObject(o)
      PROVE  LiveInv'
  BY <1>1, PublishLive
<1>2. CASE CheckForUpdatesDies \/ ManageDisabled \/ ForceDone \/ FetchTimeout
           \/ FetchSkip \/ UpdateDone \/ CleanupDies \/ CleanupDone
  BY <1>2, LiveFrame DEF CheckForUpdatesDies, ManageDisabled, ForceDone, FetchTimeout,
     FetchSkip, UpdateDone, CleanupDies, CleanupDone, storeVars
<1>3. CASE CheckForUpdates
  BY <1>3, LiveFrame DEF CheckForUpdates, storeVars
<1>4. CASE FetchBatch
  <2>1. /\ UNCHANGED <<eventQ, inProcess>>
        /\ \A o \in Ids : tracked'[o] = tracked[o] \/ tracked'[o] = None
    BY <1>4 DEF FetchBatch, storeVars
  <2>. QED  BY <2>1, LiveFrame
<1>5. CASE Cleanup
  BY <1>0, <1>5, LiveFrame DEF Cleanup
<1>. QED  BY <1>1, <1>2, <1>3, <1>4, <1>5 DEF Processor, ProcNext

LEMMA EnvLive ==
    LiveInv /\ ((\E c \in Cameras : Tracker(c)) \/ User \/ UNCHANGED vars) => LiveInv'
<1>1. LiveInv /\ UNCHANGED <<tracked, eventQ, inProcess>> => LiveInv'
  BY LiveFrame
<1>2. (\E c \in Cameras : Tracker(c)) \/ UNCHANGED vars => UNCHANGED <<tracked, eventQ, inProcess>>
  BY DEF Tracker, TrackFrame, TrackerSync, Recycle, vars, procVars, storeVars
<1>3. User => UNCHANGED <<tracked, eventQ, inProcess>> \/ \A o \in Ids : ~Live(o)'
  BY DEF User, SetEnabled, SetMedia, RemoveCamera, AddCamera, Resize, Restart, procVars, storeVars, Live
<1>. QED  BY <1>1, <1>2, <1>3 DEF LiveInv

LEMMA InitLive == Init => LiveInv
  BY DEF Init, ProcInit, LiveInv, Live

\* The end of a live object is always heard as the end of an event: whatever
\* users do to the cameras, the EventProcessor has its entry or will make it.
THEOREM LiveHasEntry == Spec => []LiveIsInProcess
<1>1. TypeInv /\ LiveInv /\ [Next]_vars => LiveInv'
  BY StoreLive, ProcessorLive, EnvLive DEF Next
<1>2. LiveInv => LiveIsInProcess
  BY DEF LiveInv, LiveIsInProcess, LiveEntry, Starting
<1>3. Spec => [](TypeInv /\ LiveInv)
  BY <1>1, InitType, InitLive, NextType, PTL DEF Spec
<1>. QED  BY <1>2, <1>3, PTL

(***************************************************************************)
(* How tracked objects end, for every value of the constants, while no     *)
(* camera is added, removed or resized at run time: those three make the   *)
(* processor drop objects without ending them, and what is proved here is  *)
(* false with them.                                                        *)
(***************************************************************************)

\* Users turn cameras and media on and off and restart the process.
CamerasStay == Ops \cap {"add", "remove", "resize"} = {}

\* Nothing then changes what cameras there are and what they look like.
Unchanging ==
    /\ cfgQ = <<>>
    /\ live = Cameras /\ configured = Cameras /\ states = Cameras
    /\ seenShape = shape

-----------------------------------------------------------------------------
(* The steps of the processor that say something of an object o, which is  *)
(* afterwards obj.                                                         *)

Said(type, o, obj) ==
    \E m \in Message :
        /\ m.type = type /\ m.id = o /\ m.cam = obj.cam /\ m.data.ended = obj.ended
        /\ eventQ' = Append(eventQ, m)

EndStep(o, obj) ==
    /\ Live(o) /\ obj.cam = tracked[o].cam /\ obj.ended
    /\ Said("end", o, obj)
    /\ mqtt' \in {mqtt, [mqtt EXCEPT ![o] = "end"]}

StartStep(o, obj) ==
    /\ pc = "update" /\ o \in batch.ids /\ Forgotten(o)
    /\ obj.cam = batch.cam /\ ~obj.ended
    /\ Said("start", o, obj)
    /\ UNCHANGED mqtt

UpdateStep(o, obj) ==
    /\ pc = "update" /\ o \in batch.ids /\ ~Forgotten(o)
    /\ obj.cam = tracked[o].cam /\ obj.ended = tracked[o].ended
    /\ \/ Said("update", o, obj) /\ \E t \in {"new", "update"} : mqtt' = [mqtt EXCEPT ![o] = t]
       \/ UNCHANGED <<eventQ, mqtt>>

\* What Publish queues names the object, its camera and whether it ended.
LEMMA PublishSaid ==
    ASSUME NEW type \in {"start", "update", "end"}, NEW o \in Ids,
           NEW obj \in TrackedObject, NEW media \in SUBSET Media,
           Publish(type, o, obj, media)
    PROVE  Said(type, o, obj)
<1>1. PICK d \in Details, s \in States :
        eventQ' = Append(eventQ,
                    [type |-> type, id |-> o, cam |-> obj.cam,
                     data |-> [ended |-> obj.ended, media |-> media,
                               det |-> d, st |-> s]])
  BY DEF Publish
<1>. DEFINE m == [type |-> type, id |-> o, cam |-> obj.cam,
                  data |-> [ended |-> obj.ended, media |-> media, det |-> d, st |-> s]]
<1>2. m \in Message
  BY DEF Message, EventData, TrackedObject
<1>3. m.type = type /\ m.id = o /\ m.cam = obj.cam /\ m.data.ended = obj.ended
  OBVIOUS
<1>. QED  BY <1>1, <1>2, <1>3 DEF Said

\* The objects still to be force-ended have not ended yet.
ForceLive == pc = "force" => \A o \in todo : Live(o)

\* The four steps of the processor that visit an object say its end, its start or
\* a change, or nothing and leave it as it is.
LEMMA SayingSteps ==
    ASSUME TypeInv, ForceLive, NEW o \in Ids,
           ForceEnd(o) \/ NewObject(o) \/ UpdateObject(o) \/ RemoveObject(o)
    PROVE  /\ o \in todo /\ todo' = todo \ {o}
           /\ ForceEnd(o) => pc = "force"
           /\ RemoveObject(o) => pc = "update" /\ o \notin batch.ids
           /\ ~ForceEnd(o) /\ ~RemoveObject(o) => pc = "update" /\ o \in batch.ids
           /\ UNCHANGED <<configVars, cfgQ, batchQ, pc, states, prevEnabled,
                          seenShape, batch, visit, configured, finalQ, inProcess, rows, started>>
           /\ \/ UNCHANGED <<tracked, eventQ, mqtt>>
              \/ \E obj \in TrackedObject :
                    /\ tracked' = [tracked EXCEPT ![o] = obj]
                    /\ \/ EndStep(o, obj) /\ (ForceEnd(o) \/ RemoveObject(o))
                       \/ StartStep(o, obj)
                       \/ UpdateStep(o, obj)
<1>. USE DEF TypeInv
<1>0. TypeOK /\ tracked \in [Ids -> TrackedObject \cup {None}]
  BY DEF TypeOK, ProcTypeOK
<1>1. /\ todo' = todo \ {o}
      /\ UNCHANGED <<configVars, cfgQ, batchQ, pc, states, prevEnabled,
                     seenShape, batch, visit, configured, finalQ, inProcess, rows, started>>
  BY PublishSteps
<1>2. /\ o \in todo
      /\ ForceEnd(o) => pc = "force"
      /\ RemoveObject(o) => pc = "update" /\ o \notin batch.ids
      /\ ~ForceEnd(o) /\ ~RemoveObject(o) => pc = "update" /\ o \in batch.ids
  BY DEF ForceEnd, NewObject, UpdateObject, RemoveObject, NewIds, UpdatedIds, RemovedIds
<1>. DEFINE Goal == \/ UNCHANGED <<tracked, eventQ, mqtt>>
                    \/ \E obj \in TrackedObject :
                          /\ tracked' = [tracked EXCEPT ![o] = obj]
                          /\ \/ EndStep(o, obj) /\ (ForceEnd(o) \/ RemoveObject(o))
                             \/ StartStep(o, obj)
                             \/ UpdateStep(o, obj)
<1>3. ASSUME Live(o), ForceEnd(o) \/ RemoveObject(o),
             PublishEnd(o, [tracked[o] EXCEPT !.ended = TRUE])
      PROVE  Goal
  <2>. DEFINE obj == [tracked[o] EXCEPT !.ended = TRUE]
  <2>1. obj \in TrackedObject /\ obj.ended /\ obj.cam = tracked[o].cam
    BY <1>0, <1>3 DEF TrackedObject, Live
  <2>2. MediaOf(obj) \in SUBSET Media
    BY <1>0, <2>1, MediaOfType
  <2>3. Publish("end", o, obj, MediaOf(obj)) /\ tracked' = [tracked EXCEPT ![o] = obj]
        /\ mqtt' \in {mqtt, [mqtt EXCEPT ![o] = "end"]}
    BY <1>3 DEF PublishEnd
  <2>. HIDE DEF obj
  <2>4. Said("end", o, obj)
    BY <2>1, <2>2, <2>3, PublishSaid
  <2>5. EndStep(o, obj)
    BY <1>3, <2>1, <2>3, <2>4 DEF EndStep
  <2>. QED  BY <1>3, <2>1, <2>3, <2>5
<1>4. ASSUME ForceEnd(o) PROVE Goal
  BY <1>2, <1>3, <1>4 DEF ForceLive, ForceEnd
<1>5. ASSUME NewObject(o) PROVE Goal
  <2>. DEFINE obj == [cam |-> batch.cam, ended |-> FALSE, tp |-> FALSE, worthy |-> {}]
  <2>1. obj \in TrackedObject /\ ~obj.ended /\ obj.cam = batch.cam
    BY <1>5 DEF NewObject, UpdateBatch, TypeOK, ProcTypeOK, TrackedObject, Batch
  <2>2. /\ Publish("start", o, obj, {}) /\ tracked' = [tracked EXCEPT ![o] = obj]
        /\ UNCHANGED mqtt /\ pc = "update" /\ o \in batch.ids /\ Forgotten(o)
    BY <1>5 DEF NewObject, NewIds, Forgotten
  <2>. HIDE DEF obj
  <2>3. Said("start", o, obj)
    BY <2>1, <2>2, PublishSaid
  <2>. QED  BY <2>1, <2>2, <2>3 DEF StartStep
<1>6. ASSUME UpdateObject(o) PROVE Goal
  <2>1. PICK tp \in BOOLEAN, worthy \in SUBSET Media, publish \in BOOLEAN :
          LET obj == [tracked[o] EXCEPT !.tp = tp, !.worthy = worthy]
          IN  /\ tracked' = [tracked EXCEPT ![o] = obj]
              /\ \/ /\ Publish("update", o, obj, MediaOf(obj))
                    /\ mqtt' = [mqtt EXCEPT ![o] = IF tracked[o].tp THEN "update" ELSE "new"]
                 \/ UNCHANGED <<eventQ, mqtt>>
    BY <1>6 DEF UpdateObject
  <2>. DEFINE obj == [tracked[o] EXCEPT !.tp = tp, !.worthy = worthy]
  <2>2. tracked[o] \in TrackedObject /\ pc = "update" /\ o \in batch.ids /\ ~Forgotten(o)
    BY <1>0, <1>6 DEF UpdateObject, UpdatedIds, Forgotten
  <2>3. obj \in TrackedObject /\ obj.cam = tracked[o].cam /\ obj.ended = tracked[o].ended
    BY <2>2 DEF TrackedObject
  <2>4. MediaOf(obj) \in SUBSET Media
    BY <1>0, <2>3, MediaOfType
  <2>5. /\ tracked' = [tracked EXCEPT ![o] = obj]
        /\ \/ /\ Publish("update", o, obj, MediaOf(obj))
              /\ \E t \in {"new", "update"} : mqtt' = [mqtt EXCEPT ![o] = t]
           \/ UNCHANGED <<eventQ, mqtt>>
    BY <2>1
  <2>. HIDE DEF obj
  <2>6. Publish("update", o, obj, MediaOf(obj)) => Said("update", o, obj)
    BY <2>3, <2>4, PublishSaid
  <2>. QED  BY <2>2, <2>3, <2>5, <2>6 DEF UpdateStep
<1>7. ASSUME RemoveObject(o) PROVE Goal
  BY <1>3, <1>7 DEF RemoveObject, MustEnd, Live
<1>. QED  BY <1>1, <1>2, <1>4, <1>5, <1>6, <1>7

-----------------------------------------------------------------------------
(* What the EventProcessor's step does to the queues and to its entries.   *)

\* The EventProcessor either runs its start-up statement or handles the message at
\* the head of the queue, which moves the others one place ahead.
LEMMA StoreStep ==
    ASSUME TypeInv, Store
    PROVE  /\ UNCHANGED <<configured, configVars, cfgQ, batchQ, procVars, envVars>>
           /\ \/ Startup
              \/ \E m \in Message :
                    /\ started /\ UNCHANGED started
                    /\ 1 \in DOMAIN eventQ /\ eventQ[1] = m
                    /\ \A i \in DOMAIN eventQ' : i \in Nat \ {0} /\ i + 1 \in DOMAIN eventQ
                                                 /\ eventQ'[i] = eventQ[i + 1]
                    /\ \A i \in DOMAIN eventQ : /\ i \in Nat \ {0}
                                                /\ i # 1 => /\ i - 1 \in DOMAIN eventQ'
                                                            /\ eventQ'[i - 1] = eventQ[i]
                    /\ HandleMessage(m)
<1>1. UNCHANGED <<configured, configVars, cfgQ, batchQ, procVars, envVars>>
  BY DEF Store, StoreNext, Startup, HandleMessage, StoreFirst, IgnoreUnconfigured,
     HandleObjectDetection, Receive
<1>2. ASSUME eventQ # <<>>, HandleMessage(Head(eventQ))
      PROVE  \E m \in Message :
                /\ started /\ UNCHANGED started
                /\ 1 \in DOMAIN eventQ /\ eventQ[1] = m
                /\ \A i \in DOMAIN eventQ' : i \in Nat \ {0} /\ i + 1 \in DOMAIN eventQ
                                             /\ eventQ'[i] = eventQ[i + 1]
                /\ \A i \in DOMAIN eventQ : /\ i \in Nat \ {0}
                                            /\ i # 1 => /\ i - 1 \in DOMAIN eventQ'
                                                        /\ eventQ'[i - 1] = eventQ[i]
                /\ HandleMessage(m)
  <2>1. eventQ \in Seq(Message)
    BY DEF TypeInv, TypeOK, StoreTypeOK
  <2>2. Head(eventQ) \in Message /\ Tail(eventQ) \in Seq(Message)
    BY <1>2, <2>1, HeadTail
  <2>3. eventQ' = Tail(eventQ) /\ started /\ UNCHANGED started
    BY <1>2 DEF HandleMessage, StoreFirst, IgnoreUnconfigured, HandleObjectDetection, Receive
  <2>4. /\ 1 \in DOMAIN eventQ /\ eventQ[1] = Head(eventQ)
        /\ \A i \in DOMAIN eventQ' : i + 1 \in DOMAIN eventQ /\ eventQ'[i] = eventQ[i + 1]
        /\ \A i \in DOMAIN eventQ : /\ i \in Nat \ {0}
                                    /\ i # 1 => /\ i - 1 \in DOMAIN eventQ'
                                                /\ eventQ'[i - 1] = eventQ[i]
    BY <1>2, <2>1, <2>3, TailAt
  <2>5. DOMAIN eventQ' \subseteq Nat \ {0}
    BY <2>2, <2>3
  <2>. QED  BY <1>2, <2>2, <2>3, <2>4, <2>5
<1>. QED  BY <1>1, <1>2 DEF Store, StoreNext

\* What handling a message does to the entry and the row of its event, and what
\* it announces.
LEMMA Handled ==
    ASSUME TypeInv, NEW m \in Message, HandleMessage(m)
    PROVE  /\ \A o \in Ids \ {m.id} : inProcess'[o] = inProcess[o] /\ rows'[o] = rows[o]
           /\ \/ UNCHANGED finalQ
              \/ /\ m.type = "end" /\ inProcess'[m.id] = None
                 /\ finalQ' = Append(finalQ, [id |-> m.id, cam |-> m.cam])
           /\ rows'[m.id] # rows[m.id] =>
                /\ inProcess[m.id] # None /\ m.type # "start"
                /\ rows'[m.id] # None /\ rows'[m.id].ended = m.data.ended
           /\ inProcess'[m.id] = None =>
                inProcess[m.id] # None /\ m.type = "end"
<1>. USE DEF TypeInv, TypeOK, StoreTypeOK
<1>0. m.id \in Ids /\ m.data \in EventData
  BY DEF Message
<1>1. CASE StoreFirst(m)
  BY <1>0, <1>1, NoneAssumption DEF StoreFirst
<1>2. CASE IgnoreUnconfigured(m)
  BY <1>2 DEF IgnoreUnconfigured, Later
<1>3. CASE HandleObjectDetection(m)
  <2>. DEFINE prev == inProcess[m.id]
  <2>1. prev \in EventData /\ prev # None /\ m.type # "start"
    BY <1>0, <1>3 DEF HandleObjectDetection, Later
  <2>2. /\ RowOf(Merged(prev, m.data)) \in EventRow
        /\ m.type # "end" => EntryAfter(m, prev) \in EventData
    <3>1. Merged(prev, m.data) \in EventData /\ RowOf(Merged(prev, m.data)) \in EventRow
      BY <2>1, StoreOperators
    <3>. QED  BY <2>1, <3>1 DEF EntryAfter
  <2>3. RowOf(Merged(prev, m.data)).ended = m.data.ended
    BY <1>0 DEF RowOf, Merged, EventData
  <2>4. m.type = "end" => EntryAfter(m, prev) = None
    BY DEF EntryAfter
  <2>5. /\ rows' = rows \/ rows' = [rows EXCEPT ![m.id] = RowOf(Merged(prev, m.data))]
        /\ inProcess' = [inProcess EXCEPT ![m.id] = EntryAfter(m, prev)]
        /\ \/ UNCHANGED finalQ
           \/ m.type = "end" /\ finalQ' = Append(finalQ, [id |-> m.id, cam |-> m.cam])
    BY <1>3 DEF HandleObjectDetection, Announced
  <2>6. m.type # "end" => inProcess'[m.id] # None
    BY <1>0, <2>2, <2>5, NoneAssumption
  <2>7. RowOf(Merged(prev, m.data)) # None
    BY <2>2, NoneAssumption
  <2>8. m.type = "end" => inProcess'[m.id] = None
    BY <1>0, <2>4, <2>5
  <2>9. rows'[m.id] # rows[m.id] => rows'[m.id] = RowOf(Merged(prev, m.data))
    BY <1>0, <2>5
  <2>. HIDE DEF prev
  <2>10. \A o \in Ids \ {m.id} : inProcess'[o] = inProcess[o] /\ rows'[o] = rows[o]
    BY <2>5
  <2>. QED  BY <2>1, <2>3, <2>5, <2>6, <2>7, <2>8, <2>9, <2>10 DEF prev
<1>. QED  BY <1>1, <1>2, <1>3 DEF HandleMessage

-----------------------------------------------------------------------------
(* Without those operations the processor has no configuration to apply.   *)

\* With no configuration message waiting check_for_updates applies nothing.
LEMMA NothingNamed ==
    ASSUME Unchanging
    PROVE  /\ \A kind : Named(kind) = {}
           /\ ConfiguredNext = configured
           /\ EnabledNext = enabled \cap Cameras
<1>1. \A kind : Named(kind) = {}
  BY DEF Named, Unchanging
<1>2. configured = Cameras
  BY DEF Unchanging
<1>3. ConfiguredNext = configured
  BY <1>1, <1>2 DEF ConfiguredNext
<1>. QED  BY <1>1, <1>2, <1>3 DEF EnabledNext

\* All cameras are configured when the process starts.
LEMMA InitUnchanging == Init => Unchanging
  BY DEF Init, StoreInit, ProcInit, Unchanging

\* The processor leaves the cameras and their resolutions alone, and forgets no
\* object because of them.
LEMMA ProcessorUnchanging ==
    ASSUME TypeInv, Unchanging, Processor
    PROVE  /\ Unchanging'
           /\ ~CheckForUpdatesDies
           /\ CheckForUpdates => UNCHANGED <<tracked, prevEnabled>> /\ enabled' = enabled
           /\ FetchBatch => UNCHANGED tracked
<1>. USE DEF Unchanging
<1>0. /\ tracked \in [Ids -> TrackedObject \cup {None}] /\ seenShape \in [Cameras -> Shapes]
      /\ enabled \subseteq Cameras
  BY DEF TypeInv, TypeOK, ProcTypeOK
<1>1. \A kind : Named(kind) = {}
  BY NothingNamed
<1>2. ConfiguredNext = configured /\ EnabledNext = enabled
  BY <1>0, NothingNamed
<1>3. ~CheckForUpdatesDies
  BY <1>1 DEF CheckForUpdatesDies
<1>4. UNCHANGED live
  BY DEF Processor, envVars
<1>5. CheckForUpdates => Unchanging' /\ UNCHANGED <<tracked, prevEnabled>> /\ enabled' = enabled
  <2>. SUFFICES ASSUME CheckForUpdates
                PROVE  Unchanging' /\ UNCHANGED <<tracked, prevEnabled>> /\ enabled' = enabled
    OBVIOUS
  <2>. DEFINE add == Named("add")  rem == Named("remove")
  <2>1. /\ configured' = ConfiguredNext /\ enabled' = EnabledNext /\ cfgQ' = <<>>
        /\ states' = (states \cup add) \ rem
        /\ prevEnabled' = (prevEnabled \ add) \cup (add \cap EnabledNext)
        /\ seenShape' = [c \in Cameras |-> IF c \in add THEN shape[c] ELSE seenShape[c]]
        /\ tracked' = [o \in Ids |->
                         IF tracked[o] # None /\ tracked[o].cam \in add \cup rem
                           THEN None ELSE tracked[o]]
        /\ UNCHANGED shape
    BY DEF CheckForUpdates
  <2>2. add = {} /\ rem = {}
    BY <1>1
  <2>. HIDE DEF add, rem
  <2>3. seenShape' = seenShape /\ tracked' = tracked
    BY <1>0, <2>1, <2>2
  <2>. QED  BY <1>2, <1>4, <2>1, <2>2, <2>3
<1>6. FetchBatch => Unchanging' /\ UNCHANGED tracked
  <2>. SUFFICES ASSUME FetchBatch PROVE Unchanging' /\ UNCHANGED tracked
    OBVIOUS
  <2>. DEFINE b == Head(batchQ)
  <2>1. /\ seenShape' = [seenShape EXCEPT ![b.cam] = shape[b.cam]]
        /\ tracked' = [o \in Ids |-> IF o \in TrackedOn(b.cam) /\ seenShape[b.cam] # shape[b.cam]
                                       THEN None ELSE tracked[o]]
        /\ UNCHANGED <<configVars, cfgQ, states, configured>>
    BY DEF FetchBatch
  <2>. HIDE DEF b
  <2>2. seenShape' = seenShape /\ tracked' = tracked
    BY <1>0, <2>1
  <2>. QED  BY <1>4, <2>1, <2>2 DEF configVars
<1>7. ASSUME NEW o \in Ids, ForceEnd(o) \/ NewObject(o) \/ UpdateObject(o) \/ RemoveObject(o)
      PROVE  Unchanging'
  BY <1>4, <1>7, PublishSteps DEF configVars
<1>8. ASSUME ManageDisabled \/ ForceDone \/ FetchTimeout \/ FetchSkip \/ UpdateDone
             \/ Cleanup \/ CleanupDies \/ CleanupDone
      PROVE  Unchanging'
  BY <1>4, <1>8 DEF ManageDisabled, ForceDone, FetchTimeout, FetchSkip, UpdateDone, Cleanup,
     CleanupDies, CleanupDone, configVars
<1>. QED  BY <1>3, <1>5, <1>6, <1>7, <1>8 DEF Processor, ProcNext

\* Nobody else changes them either.
LEMMA NextUnchanging ==
    ASSUME CamerasStay, TypeInv, Unchanging, [Next]_vars
    PROVE  Unchanging'
<1>. USE DEF Unchanging
<1>1. CASE Store
  BY <1>1, StoreStep DEF configVars, procVars, envVars
<1>2. CASE Processor
  BY <1>2, ProcessorUnchanging
<1>3. ASSUME NEW c \in Cameras, Tracker(c) PROVE Unchanging'
  BY <1>3 DEF Tracker, TrackFrame, TrackerSync, Recycle, configVars, procVars
<1>4. CASE User
  BY <1>4 DEF CamerasStay, User, SetEnabled, SetMedia, RemoveCamera, AddCamera, Resize, Restart,
     Op, procVars
<1>5. CASE UNCHANGED vars
  BY <1>5 DEF vars, configVars, procVars, envVars
<1>. QED  BY <1>1, <1>2, <1>3, <1>4, <1>5 DEF Next

-----------------------------------------------------------------------------
(***************************************************************************)
(* OneEndPending and ProcessorAlive.  They are inductive together once it  *)
(* is said that a message about an end names the camera the object is on,  *)
(* which finished(id) looks it up with, and that only objects that have    *)
(* not ended are chosen to be force-ended.                                 *)
(***************************************************************************)
EndNamesCamera ==
    \A o \in Ids :
        /\ \A i \in Ending(o) : eventQ[i].cam = tracked[o].cam
        /\ \A i \in Finishing(o) : finalQ[i].cam = tracked[o].cam

EndsInv == OneEndPending /\ EndNamesCamera /\ ProcessorAlive /\ ForceLive

\* A step that leaves the queues and what is known of an object's end alone.
LEMMA EndsFrame ==
    ASSUME OneEndPending, EndNamesCamera, UNCHANGED <<eventQ, finalQ>>,
           \A o \in Ids : Ending(o) \cup Finishing(o) # {} => tracked'[o] = tracked[o]
    PROVE  OneEndPending' /\ EndNamesCamera'
<1>1. \A o \in Ids : Ending(o)' = Ending(o) /\ Finishing(o)' = Finishing(o)
  BY DEF Ending, Finishing
<1>. QED  BY <1>1 DEF OneEndPending, EndNamesCamera, Live

\* Nothing has ended at the start.
LEMMA InitEnds == Init => EndsInv
  BY DEF Init, StoreInit, ProcInit, EndsInv, OneEndPending, EndNamesCamera, ProcessorAlive,
     ForceLive, Ending, Finishing

\* The EventProcessor turns an end message into one finalized message.
LEMMA StoreEnds == TypeInv /\ EndsInv /\ Store => EndsInv'
<1>. SUFFICES ASSUME TypeInv, EndsInv, Store PROVE EndsInv'
  OBVIOUS
<1>. USE DEF EndsInv
<1>1. UNCHANGED <<tracked, pc, todo>>
  BY StoreStep DEF procVars
<1>2. ProcessorAlive' /\ ForceLive'
  BY <1>1 DEF ProcessorAlive, ForceLive, Live
<1>3. CASE Startup
  BY <1>1, <1>2, <1>3, EndsFrame DEF Startup
<1>4. ASSUME NEW m \in Message,
             1 \in DOMAIN eventQ, eventQ[1] = m,
             \A i \in DOMAIN eventQ' : i \in Nat \ {0} /\ i + 1 \in DOMAIN eventQ
                                       /\ eventQ'[i] = eventQ[i + 1],
             HandleMessage(m)
      PROVE  EndsInv'
  <2>1. ASSUME NEW o \in Ids PROVE \A i \in Ending(o)' : i \in Nat \ {0} /\ i + 1 \in Ending(o)
    BY <1>4 DEF Ending
  <2>2. m.id \in Ids
    BY DEF Message
  <2>3. CASE UNCHANGED finalQ
    <3>1. \A o \in Ids : Finishing(o)' = Finishing(o)
      BY <2>3 DEF Finishing
    <3>2. OneEndPending'
      BY <1>1, <2>1, <3>1 DEF OneEndPending, Live
    <3>3. EndNamesCamera'
      BY <1>1, <1>4, <2>1, <2>3, <3>1 DEF EndNamesCamera, Ending
    <3>. QED  BY <1>2, <3>2, <3>3
  <2>4. CASE m.type = "end" /\ finalQ' = Append(finalQ, [id |-> m.id, cam |-> m.cam])
    <3>. DEFINE f == [id |-> m.id, cam |-> m.cam]
    <3>0. finalQ \in Seq(Finalized) /\ f \in Finalized /\ f.id = m.id /\ f.cam = m.cam
      BY DEF TypeInv, TypeOK, StoreTypeOK, Message, Finalized
    <3>1. /\ DOMAIN finalQ' = (DOMAIN finalQ) \cup {Len(finalQ) + 1}
          /\ \A i \in DOMAIN finalQ :
                i \in Nat /\ i < Len(finalQ) + 1 /\ finalQ'[i] = finalQ[i]
          /\ finalQ'[Len(finalQ) + 1] = f
      BY <2>4, <3>0, AppendAt
    <3>. HIDE DEF f
    <3>2. \A o \in Ids : Finishing(o)' = IF o = m.id THEN Finishing(o) \cup {Len(finalQ) + 1}
                                                     ELSE Finishing(o)
      BY <3>0, <3>1 DEF Finishing
    <3>3. 1 \in Ending(m.id)
      BY <1>4, <2>4 DEF Ending
    <3>4. Ending(m.id)' = {} /\ Finishing(m.id) = {}
      <4>1. \A i \in Ending(m.id) : i = 1
        BY <2>2, <3>3 DEF OneEndPending
      <4>2. \A i \in Ending(m.id)' : i \in Nat \ {0} /\ i + 1 = 1
        BY <2>1, <2>2, <4>1
      <4>3. Ending(m.id)' = {}
        BY <4>2
      <4>. QED  BY <2>2, <3>3, <4>3 DEF OneEndPending
    <3>5. tracked[m.id] # None /\ ~Live(m.id) /\ m.cam = tracked[m.id].cam
      BY <1>4, <2>2, <3>3 DEF OneEndPending, EndNamesCamera
    <3>6. OneEndPending'
      BY <1>1, <2>1, <3>2, <3>4, <3>5 DEF OneEndPending, Live
    <3>7. \A o \in Ids : \A i \in Ending(o)' : eventQ'[i].cam = tracked'[o].cam
      BY <1>1, <1>4, <2>1 DEF EndNamesCamera, Ending
    <3>8. \A o \in Ids : \A i \in Finishing(o)' : finalQ'[i].cam = tracked'[o].cam
      BY <1>1, <3>0, <3>1, <3>2, <3>4, <3>5 DEF EndNamesCamera, Finishing
    <3>. QED  BY <1>2, <3>6, <3>7, <3>8 DEF EndNamesCamera
  <2>. QED  BY <1>4, <2>3, <2>4, Handled
<1>. QED  BY <1>3, <1>4, StoreStep

\* A message about o is behind all the others.
LEMMA SaidAt ==
    ASSUME TypeInv, NEW type, NEW o, NEW obj, Said(type, o, obj)
    PROVE  LET n == Len(eventQ) + 1 IN
           /\ n \in Nat
           /\ DOMAIN eventQ' = (DOMAIN eventQ) \cup {n}
           /\ \A i \in DOMAIN eventQ : i \in Nat /\ i < n /\ eventQ'[i] = eventQ[i]
           /\ eventQ'[n].type = type /\ eventQ'[n].id = o
           /\ eventQ'[n].cam = obj.cam /\ eventQ'[n].data.ended = obj.ended
<1>1. eventQ \in Seq(Message)
  BY DEF TypeInv, TypeOK, StoreTypeOK
<1>2. PICK m \in Message :
        /\ m.type = type /\ m.id = o /\ m.cam = obj.cam /\ m.data.ended = obj.ended
        /\ eventQ' = Append(eventQ, m)
  BY DEF Said
<1>. QED  BY <1>1, <1>2, AppendAt

\* An object is ended once: MustEnd holds only while it is live.
LEMMA SayingEnds ==
    ASSUME TypeInv, EndsInv, NEW o \in Ids,
           ForceEnd(o) \/ NewObject(o) \/ UpdateObject(o) \/ RemoveObject(o)
    PROVE  EndsInv'
<1>. USE DEF EndsInv
<1>0. /\ tracked \in [Ids -> TrackedObject \cup {None}] /\ None \notin TrackedObject
      /\ todo' = todo \ {o} /\ UNCHANGED <<pc, finalQ>> /\ todo \subseteq Ids
  BY SayingSteps, ObjectNoneAssumption DEF TypeInv, TypeOK, ProcTypeOK
<1>1. CASE UNCHANGED <<tracked, eventQ, mqtt>>
  BY <1>0, <1>1, EndsFrame DEF ProcessorAlive, ForceLive, Live
<1>2. ASSUME NEW obj \in TrackedObject, tracked' = [tracked EXCEPT ![o] = obj],
             \/ EndStep(o, obj)
             \/ StartStep(o, obj)
             \/ UpdateStep(o, obj)
      PROVE  EndsInv'
  <2>1. ProcessorAlive' /\ ForceLive'
    BY <1>0, <1>2 DEF ProcessorAlive, ForceLive, Live
  <2>2. tracked'[o] = obj /\ tracked'[o] # None /\ \A i \in Ids \ {o} : tracked'[i] = tracked[i]
    BY <1>0, <1>2
  <2>3. \A i \in Ids : Finishing(i)' = Finishing(i)
    BY <1>0 DEF Finishing
  <2>4. CASE UNCHANGED eventQ
    <3>1. \A i \in Ids : Ending(i)' = Ending(i)
      BY <2>4 DEF Ending
    <3>2. UpdateStep(o, obj)
      <4>1. eventQ \in Seq(Message)
        BY DEF TypeInv, TypeOK, StoreTypeOK
      <4>2. \A type : ~Said(type, o, obj)
        <5>. SUFFICES ASSUME NEW type, Said(type, o, obj) PROVE FALSE
          OBVIOUS
        <5>1. Len(eventQ) + 1 \in DOMAIN eventQ
          BY <2>4, SaidAt
        <5>. QED  BY <4>1, <5>1
      <4>. QED  BY <1>2, <4>2 DEF EndStep, StartStep
    <3>3. obj.cam = tracked[o].cam /\ obj.ended = tracked[o].ended
      BY <3>2 DEF UpdateStep
    <3>4. OneEndPending'
      BY <2>2, <2>3, <3>1, <3>3 DEF OneEndPending, Live
    <3>5. EndNamesCamera'
      BY <1>0, <2>2, <2>3, <2>4, <3>1, <3>3 DEF EndNamesCamera
    <3>. QED  BY <2>1, <3>4, <3>5
  <2>5. ASSUME NEW type \in {"start", "update", "end"}, Said(type, o, obj),
               \/ EndStep(o, obj) /\ type = "end"
               \/ StartStep(o, obj) /\ type = "start"
               \/ UpdateStep(o, obj) /\ type = "update"
        PROVE  EndsInv'
    <3>. DEFINE n == Len(eventQ) + 1
    <3>1. /\ n \in Nat
          /\ DOMAIN eventQ' = (DOMAIN eventQ) \cup {n}
          /\ \A i \in DOMAIN eventQ : i \in Nat /\ i < n /\ eventQ'[i] = eventQ[i]
          /\ eventQ'[n].type = type /\ eventQ'[n].id = o /\ eventQ'[n].cam = obj.cam
      BY <2>5, SaidAt
    <3>. HIDE DEF n
    <3>2. \A i \in Ids : Ending(i)' = IF i = o /\ type = "end" THEN Ending(i) \cup {n} ELSE Ending(i)
      BY <3>1 DEF Ending
    <3>3. CASE type = "end"
      <4>1. Live(o) /\ obj.cam = tracked[o].cam /\ obj.ended
        BY <2>5, <3>3 DEF EndStep
      <4>2. Ending(o) = {} /\ Finishing(o) = {}
        BY <4>1 DEF OneEndPending
      <4>3. OneEndPending'
        BY <2>2, <2>3, <3>2, <3>3, <4>1, <4>2 DEF OneEndPending, Live
      <4>4. EndNamesCamera'
        <5>1. ASSUME NEW i \in Ids, NEW j \in Ending(i)' PROVE eventQ'[j].cam = tracked'[i].cam
          <6>1. CASE j = n
            BY <2>2, <3>1, <3>2, <5>1, <6>1 DEF Ending
          <6>2. CASE j # n
            BY <2>2, <3>1, <3>2, <4>2, <5>1, <6>2 DEF EndNamesCamera, Ending
          <6>. QED  BY <6>1, <6>2
        <5>2. ASSUME NEW i \in Ids, NEW j \in Finishing(i)' PROVE finalQ'[j].cam = tracked'[i].cam
          BY <1>0, <2>2, <2>3, <4>2, <5>2 DEF EndNamesCamera
        <5>. QED  BY <5>1, <5>2 DEF EndNamesCamera
      <4>. QED  BY <2>1, <4>3, <4>4
    <3>4. CASE type # "end"
      <4>1. \/ tracked[o] = None
            \/ tracked[o] # None /\ obj.cam = tracked[o].cam /\ obj.ended = tracked[o].ended
        BY <2>5, <3>4 DEF StartStep, UpdateStep, Forgotten
      <4>2. tracked[o] = None => Ending(o) \cup Finishing(o) = {}
        BY DEF OneEndPending
      <4>3. \A i \in Ids : Ending(i)' = Ending(i)
        BY <3>2, <3>4
      <4>4. OneEndPending'
        BY <2>2, <2>3, <4>1, <4>2, <4>3 DEF OneEndPending, Live
      <4>5. \A i \in Ids : \A j \in Ending(i) : eventQ'[j] = eventQ[j]
        BY <3>1 DEF Ending
      <4>6. EndNamesCamera'
        BY <1>0, <2>2, <2>3, <4>1, <4>2, <4>3, <4>5 DEF EndNamesCamera
      <4>. QED  BY <2>1, <4>4, <4>6
    <3>. QED  BY <3>3, <3>4
  <2>. QED  BY <1>2, <2>4, <2>5 DEF EndStep, StartStep, UpdateStep
<1>. QED  BY <1>1, <1>2, SayingSteps

\* finished(id) finds the object it deletes, so no lookup of the loop raises.
LEMMA ProcessorEnds == TypeInv /\ Unchanging /\ EndsInv /\ Processor => EndsInv'
<1>. SUFFICES ASSUME TypeInv, Unchanging, EndsInv, Processor PROVE EndsInv'
  OBVIOUS
<1>. USE DEF EndsInv
<1>0. tracked \in [Ids -> TrackedObject \cup {None}] /\ finalQ \in Seq(Finalized)
  BY DEF TypeInv, TypeOK, ProcTypeOK, StoreTypeOK
<1>1. ASSUME NEW o \in Ids,
             ForceEnd(o) \/ NewObject(o) \/ UpdateObject(o) \/ RemoveObject(o)
      PROVE  EndsInv'
  BY <1>1, SayingEnds
<1>2. CASE CheckForUpdates \/ FetchBatch
  <2>1. UNCHANGED <<tracked, eventQ, finalQ>>
    BY <1>2, ProcessorUnchanging DEF CheckForUpdates, FetchBatch, storeVars
  <2>2. pc' \in {"fetch", "manage", "update", "cleanup"}
    BY <1>2 DEF CheckForUpdates, FetchBatch, NextVisit
  <2>. QED  BY <2>1, <2>2, EndsFrame DEF ProcessorAlive, ForceLive
<1>3. CASE ManageDisabled
  <2>1. PICK c \in visit : todo' = IF c \in prevEnabled \ enabled
                                     THEN {o \in TrackedOn(c) : MustEnd(o)} ELSE {}
    BY <1>3 DEF ManageDisabled
  <2>2. UNCHANGED <<tracked, eventQ, finalQ>> /\ pc' = "force"
    BY <1>3 DEF ManageDisabled, storeVars
  <2>3. ForceLive'
    BY <2>1, <2>2 DEF ForceLive, MustEnd, Live
  <2>. QED  BY <2>2, <2>3, EndsFrame DEF ProcessorAlive
<1>4. CASE ForceDone \/ FetchTimeout \/ FetchSkip \/ UpdateDone \/ CleanupDone
  <2>1. /\ UNCHANGED <<tracked, eventQ, finalQ>>
        /\ pc' \in {"fetch", "manage", "drain", "cleanup"}
    BY <1>4 DEF ForceDone, FetchTimeout, FetchSkip, UpdateDone, CleanupDone, NextVisit, storeVars
  <2>. QED  BY <2>1, EndsFrame DEF ProcessorAlive, ForceLive
<1>5. ASSUME pc = "cleanup", finalQ # <<>>
      PROVE  /\ Head(finalQ).id \in Ids /\ 1 \in Finishing(Head(finalQ).id)
             /\ Finished(Head(finalQ))
  <2>1. /\ Head(finalQ) \in Finalized
        /\ 1 \in DOMAIN finalQ /\ finalQ[1] = Head(finalQ)
    BY <1>0, <1>5, HeadTail, TailAt
  <2>2. Head(finalQ).id \in Ids /\ Head(finalQ).cam \in states
    BY <2>1 DEF Finalized, Unchanging
  <2>3. 1 \in Finishing(Head(finalQ).id)
    BY <2>1 DEF Finishing
  <2>. QED  BY <2>1, <2>2, <2>3 DEF Finished, TrackedOn, OneEndPending, EndNamesCamera
<1>6. ~CleanupDies
  BY <1>5 DEF CleanupDies
<1>7. CASE Cleanup
  <2>1. PICK id \in Ids :
          /\ 1 \in Finishing(id)
          /\ tracked' = [tracked EXCEPT ![id] = None]
          /\ finalQ' = Tail(finalQ) /\ finalQ # <<>> /\ UNCHANGED <<pc, eventQ>> /\ pc = "cleanup"
    BY <1>5, <1>7 DEF Cleanup
  <2>2. /\ \A i \in DOMAIN finalQ' : i + 1 \in DOMAIN finalQ /\ finalQ'[i] = finalQ[i + 1]
        /\ DOMAIN finalQ' \subseteq Nat \ {0}
    BY <1>0, <2>1, TailAt, HeadTail
  <2>3. \A o \in Ids : \A i \in Finishing(o)' : i \in Nat \ {0} /\ i + 1 \in Finishing(o)
    BY <2>2 DEF Finishing
  <2>4. Ending(id) = {} /\ \A i \in Finishing(id) : i = 1
    BY <2>1 DEF OneEndPending
  <2>5. Finishing(id)' = {}
    <3>1. \A i \in Finishing(id)' : i \in Nat \ {0} /\ i + 1 = 1
      BY <2>1, <2>3, <2>4
    <3>. QED  BY <3>1
  <2>6. \A o \in Ids : Ending(o)' = Ending(o)
    BY <2>1 DEF Ending
  <2>7. \A o \in Ids \ {id} : tracked'[o] = tracked[o]
    BY <1>0, <2>1
  <2>8. OneEndPending'
    BY <2>3, <2>4, <2>5, <2>6, <2>7 DEF OneEndPending, Live
  <2>9. EndNamesCamera'
    BY <2>1, <2>2, <2>3, <2>4, <2>5, <2>6, <2>7 DEF EndNamesCamera, Finishing
  <2>. QED  BY <2>1, <2>8, <2>9 DEF ProcessorAlive, ForceLive
<1>. QED  BY <1>1, <1>2, <1>3, <1>4, <1>6, <1>7, ProcessorUnchanging DEF Processor, ProcNext

\* The trackers and users leave objects and their ends alone; a restart drops all.
LEMMA EnvEnds ==
    TypeInv /\ EndsInv /\ ((\E c \in Cameras : Tracker(c)) \/ User \/ UNCHANGED vars) => EndsInv'
<1>. SUFFICES ASSUME EndsInv, (\E c \in Cameras : Tracker(c)) \/ User \/ UNCHANGED vars
              PROVE  EndsInv'
  OBVIOUS
<1>. USE DEF EndsInv
<1>1. CASE Restart
  BY <1>1 DEF Restart, OneEndPending, EndNamesCamera, ProcessorAlive, ForceLive, Ending, Finishing
<1>2. CASE ~Restart
  <2>1. UNCHANGED <<tracked, eventQ, finalQ, pc, todo>>
    BY <1>2 DEF Tracker, TrackFrame, TrackerSync, Recycle, User, SetEnabled, SetMedia,
       RemoveCamera, AddCamera, Resize, vars, procVars, storeVars
  <2>. QED  BY <2>1, EndsFrame DEF ProcessorAlive, ForceLive, Live
<1>. QED  BY <1>1, <1>2

\* The inductive invariant of the two theorems below.
LEMMA SpecEnds ==
    ASSUME CamerasStay
    PROVE  Spec => [](TypeInv /\ Unchanging /\ EndsInv)
<1>. DEFINE I == TypeInv /\ Unchanging /\ EndsInv
<1>1. Init => I
  BY InitType, InitUnchanging, InitEnds
<1>2. I /\ [Next]_vars => I'
  BY NextType, NextUnchanging, StoreEnds, ProcessorEnds, EnvEnds DEF Next
<1>. HIDE DEF I
<1>3. Spec => []I
  BY <1>1, <1>2, PTL DEF Spec
<1>. QED  BY <1>3 DEF I

\* While cameras stay as they are, an object has at most one end on its way to
\* being forgotten (Ending and Finishing), and what is looked up then is there
\* (maintainer.py and object_processing.py meet only through their queues).
THEOREM OneEndHolds ==
    ASSUME CamerasStay PROVE Spec => []OneEndPending
<1>1. EndsInv => OneEndPending
  BY DEF EndsInv
<1>. QED  BY <1>1, SpecEnds, PTL

\* While cameras stay as they are, no lookup of the processor's thread raises,
\* whatever is turned on and off and whenever the process is restarted.
THEOREM ProcessorLives ==
    ASSUME CamerasStay PROVE Spec => []ProcessorAlive
<1>1. EndsInv => ProcessorAlive
  BY DEF EndsInv
<1>. QED  BY <1>1, SpecEnds, PTL

(***************************************************************************)
(* The order in which the trackers, the processor and the EventProcessor   *)
(* speak of an object, for every value of the constants, while every       *)
(* camera stays configured and on.  A camera that is turned off ends its   *)
(* objects although the tracker still has them: they are updated again     *)
(* once it is on, after their end, and what is proved here is false.       *)
(***************************************************************************)

\* Users turn media on and off and restart the process.
CamerasStayOn == Ops \subseteq {"media", "restart"}

AlwaysOn ==
    enabled = Cameras /\ prevEnabled = Cameras /\ (pc = "force" => todo = {})

BatchWhen == batch # None => pc = "update"

\* Whatever is said of an object, its id was given out, by its camera's tracker.
Owned ==
    /\ \A o \in reported : owner[o] # None
    /\ \A k \in DOMAIN batchQ : \A o \in batchQ[k].ids : owner[o] = batchQ[k].cam
    /\ batch # None => \A o \in batch.ids : owner[o] = batch.cam
    /\ \A o \in Ids : tracked[o] # None => owner[o] = tracked[o].cam
    /\ \A o \in Ids : rows[o] # None \/ mqtt[o] # "none" => owner[o] # None

\* The object may be in a batch that is still to come.
Coming(o) == o \in reported \/ \E k \in DOMAIN batchQ : o \in batchQ[k].ids

\* The processor has heard of the object, or will before it takes batch k.
Known(o, k) ==
    \/ tracked[o] # None
    \/ batch # None /\ o \in batch.ids
    \/ \E i \in DOMAIN batchQ : i < k /\ o \in batchQ[i].ids

\* An object that is missing from a batch of its camera, once it was known, is
\* in no later batch: the tracker never reports an id again that it dropped.
LeftForGood ==
    \A o \in Ids : \A k \in DOMAIN batchQ :
        batchQ[k].cam = owner[o] /\ o \notin batchQ[k].ids /\ Known(o, k) =>
            o \notin reported /\ \A j \in DOMAIN batchQ : j > k => o \notin batchQ[j].ids

\* The objects update removes are tracked, and gone from the tracker.
RemovedGone ==
    pc = "update" => \A o \in todo : o \notin batch.ids => tracked[o] # None /\ ~Coming(o)

\* The life of the object's event is over for one of those who follow it.
Over(o) ==
    \/ mqtt[o] = "end"
    \/ tracked[o] # None /\ tracked[o].ended
    \/ rows[o] # None /\ inProcess[o] = None

OverGone ==
    \A o \in Ids : Over(o) => /\ ~Coming(o) /\ ~Live(o)
                              /\ batch # None => o \notin batch.ids

\* The messages about an object that are still queued.
About(o) == {i \in DOMAIN eventQ : eventQ[i].id = o}

\* No message is left when the event is finished with, and none follows an end.
Protocol ==
    \A o \in Ids :
        /\ Forgotten(o) \/ Finishing(o) # {} => inProcess[o] = None /\ About(o) = {}
        /\ rows[o] # None /\ inProcess[o] = None => About(o) = {}
        /\ \A i \in Ending(o) : \A j \in About(o) : j <= i
        /\ rows[o] # None /\ inProcess[o] # None => ~rows[o].ended /\ started

EndedSaid == \A i \in DOMAIN eventQ : eventQ[i].data.ended <=> eventQ[i].type = "end"

TrackingInv == AlwaysOn /\ BatchWhen /\ Owned /\ LeftForGood /\ RemovedGone
OrderInv == TrackingInv /\ OverGone /\ Protocol /\ EndedSaid

\* The types the proofs below need, and that None is none of those values.
LEMMA OrderTypes ==
    ASSUME TypeInv
    PROVE  /\ tracked \in [Ids -> TrackedObject \cup {None}] /\ None \notin TrackedObject
           /\ batchQ \in Seq(Batch) /\ batch \in Batch \cup {None} /\ None \notin Batch
           /\ \A b \in Batch : b.cam \in Cameras /\ b.ids \subseteq Ids
           /\ \A k \in DOMAIN batchQ : k \in Nat \ {0} /\ batchQ[k] \in Batch
           /\ reported \subseteq Ids /\ owner \in [Ids -> Cameras \cup {None}]
           /\ eventQ \in Seq(Message) /\ finalQ \in Seq(Finalized)
           /\ mqtt \in [Ids -> {"none", "new", "update", "end"}]
           /\ rows \in [Ids -> EventRow \cup {None}] /\ None \notin EventRow
           /\ inProcess \in [Ids -> EventData \cup {None}] /\ None \notin EventData
           /\ todo \subseteq Ids /\ (pc = "update" => batch \in Batch)
<1>1. /\ tracked \in [Ids -> TrackedObject \cup {None}] /\ None \notin TrackedObject
      /\ batchQ \in Seq(Batch) /\ batch \in Batch \cup {None} /\ None \notin Batch
      /\ mqtt \in [Ids -> {"none", "new", "update", "end"}]
      /\ todo \subseteq Ids /\ (pc = "update" => batch \in Batch)
  BY ObjectNoneAssumption DEF TypeInv, TypeOK, ProcTypeOK, UpdateBatch
<1>2. /\ reported \subseteq Ids /\ owner \in [Ids -> Cameras \cup {None}]
      /\ eventQ \in Seq(Message) /\ finalQ \in Seq(Finalized)
      /\ rows \in [Ids -> EventRow \cup {None}] /\ None \notin EventRow
      /\ inProcess \in [Ids -> EventData \cup {None}] /\ None \notin EventData
  BY NoneAssumption DEF TypeInv, TypeOK, StoreTypeOK, EnvTypeOK
<1>3. \A b \in Batch : b.cam \in Cameras /\ b.ids \subseteq Ids
  BY DEF Batch
<1>4. \A k \in DOMAIN batchQ : k \in Nat \ {0} /\ batchQ[k] \in Batch
  BY <1>1
<1>. QED  BY <1>1, <1>2, <1>3, <1>4

\* Nothing is tracked, queued or stored at the start.
LEMMA InitOrder == Init => OrderInv
  BY DEF Init, StoreInit, ProcInit, OrderInv, TrackingInv, AlwaysOn, BatchWhen, Owned, LeftForGood,
     RemovedGone, OverGone, Over, Coming, Live, Protocol, EndedSaid, About, Ending, Finishing

\* A step that says nothing and leaves the batches alone.
LEMMA OrderFrame ==
    ASSUME OrderInv, AlwaysOn', BatchWhen', RemovedGone',
           UNCHANGED <<owner, eventQ, finalQ, inProcess, rows, started, mqtt, batchQ, tracked>>,
           reported' \subseteq reported, batch' \in {batch, None}
    PROVE  OrderInv'
<1>. USE DEF OrderInv, TrackingInv
<1>1. Owned'
  BY DEF Owned
<1>2. \A o : Coming(o)' => Coming(o)
  BY DEF Coming
<1>3. LeftForGood'
  <2>1. ASSUME NEW o, NEW k, Known(o, k)' PROVE Known(o, k)
    BY <2>1 DEF Known
  <2>. QED  BY <2>1 DEF LeftForGood
<1>4. OverGone'
  BY <1>2 DEF OverGone, Over, Live
<1>5. \A o \in Ids : /\ Ending(o)' = Ending(o) /\ Finishing(o)' = Finishing(o)
                     /\ About(o)' = About(o)
  BY DEF Ending, Finishing, About
<1>6. Protocol'
  BY <1>5 DEF Protocol, Forgotten
<1>7. EndedSaid'
  BY DEF EndedSaid
<1>. QED  BY <1>1, <1>3, <1>4, <1>6, <1>7

-----------------------------------------------------------------------------
(* The detect process: an id that is dropped is not reported again.        *)

\* A frame adds only an id that was never used, and reports no id it dropped.
LEMMA TrackFrameOrder ==
    ASSUME TypeInv, OrderInv, NEW c \in Cameras, TrackFrame(c) PROVE OrderInv'
<1>. USE DEF OrderInv, TrackingInv
<1>1. PICK gone \in SUBSET ReportedOn(c), new \in {{}} \cup {{o} : o \in FreshIds} :
        LET ids == (ReportedOn(c) \ gone) \cup new
        IN  /\ owner' = [o \in Ids |-> IF o \in new THEN c ELSE owner[o]]
            /\ reported' = (reported \ gone) \cup new
            /\ batchQ' = IF Len(batchQ) < QueueSize
                           THEN Append(batchQ, [cam |-> c, ids |-> ids,
                                                shape |-> trackerShape[c]])
                           ELSE batchQ
  BY DEF TrackFrame
<1>2. UNCHANGED <<eventQ, finalQ, inProcess, rows, started, mqtt, tracked, batch, pc, todo,
                  enabled, prevEnabled>>
  BY DEF TrackFrame, storeVars, configVars, procVars
<1>. DEFINE ids == (ReportedOn(c) \ gone) \cup new
            b == [cam |-> c, ids |-> ids, shape |-> trackerShape[c]]
            n == Len(batchQ) + 1
<1>3. /\ new \subseteq Ids /\ \A o \in new : owner[o] = None
      /\ \A o \in Ids : owner'[o] = IF o \in new THEN c ELSE owner[o]
      /\ reported' = (reported \ gone) \cup new
      /\ ids \subseteq Ids /\ \A o \in ids : owner'[o] = c
      /\ \A o \in reported : o \notin reported' => o \in gone
      /\ \A o \in Ids : o \in reported /\ owner[o] = c /\ o \notin ids => o \notin reported'
  BY <1>1, OrderTypes DEF ReportedOn, FreshIds
<1>4. b \in Batch /\ b.cam = c /\ b.ids = ids
  BY <1>3 DEF TypeInv, TypeOK, EnvTypeOK, Batch
<1>5. /\ DOMAIN batchQ \subseteq DOMAIN batchQ' /\ DOMAIN batchQ' \subseteq (DOMAIN batchQ) \cup {n}
      /\ n \notin DOMAIN batchQ /\ n \in Nat
      /\ \A k \in DOMAIN batchQ : k \in Nat /\ k < n /\ batchQ'[k] = batchQ[k]
      /\ n \in DOMAIN batchQ' => batchQ'[n] = b
  BY <1>1, <1>4, OrderTypes, AppendAt
<1>. HIDE DEF ids, b, n
<1>6. \A o \in Ids : owner[o] # None => owner'[o] = owner[o] /\ o \notin new
  BY <1>3
<1>7. \A o \in Ids : Coming(o)' => Coming(o) \/ owner[o] = None
  <2>1. \A o \in ids : o \in reported \/ owner[o] = None
    BY <1>3 DEF ids, ReportedOn
  <2>. QED  BY <1>3, <1>4, <1>5, <2>1 DEF Coming
<1>8. \A o \in Ids : tracked[o] # None \/ (batch # None /\ o \in batch.ids)
                       \/ (\E k \in DOMAIN batchQ : o \in batchQ[k].ids)
                       \/ o \in reported \/ rows[o] # None \/ mqtt[o] # "none"
                     => owner[o] # None
  <2>1. \A t \in TrackedObject : t.cam \in Cameras
    BY DEF TrackedObject
  <2>2. ASSUME NEW o \in Ids, tracked[o] # None PROVE owner[o] # None
    BY <2>1, <2>2, OrderTypes, OwnerAssumption DEF Owned
  <2>3. ASSUME NEW o \in Ids, batch # None, o \in batch.ids PROVE owner[o] # None
    BY <2>3, OrderTypes, OwnerAssumption DEF Owned
  <2>4. ASSUME NEW o \in Ids, NEW k \in DOMAIN batchQ, o \in batchQ[k].ids PROVE owner[o] # None
    BY <2>4, OrderTypes, OwnerAssumption DEF Owned
  <2>. QED  BY <2>2, <2>3, <2>4 DEF Owned
<1>9. Owned'
  <2>1. \A k \in DOMAIN batchQ' : \A o \in batchQ'[k].ids : owner'[o] = batchQ'[k].cam
    BY <1>3, <1>4, <1>5, <1>6, <1>8, OrderTypes DEF Owned
  <2>2. \A o \in reported' : owner'[o] # None
    BY <1>3, <1>6, <1>8, OrderTypes, OwnerAssumption
  <2>3. batch # None => \A o \in batch.ids : owner'[o] = batch.cam
    BY <1>6, <1>8, OrderTypes DEF Owned
  <2>. QED  BY <1>2, <1>6, <1>8, <2>1, <2>2, <2>3 DEF Owned
<1>10. LeftForGood'
  <2>. SUFFICES ASSUME NEW o \in Ids, NEW k \in DOMAIN batchQ', batchQ'[k].cam = owner'[o],
                       o \notin batchQ'[k].ids, Known(o, k)'
                PROVE  /\ o \notin reported'
                       /\ \A j \in DOMAIN batchQ' : j > k => o \notin batchQ'[j].ids
    BY DEF LeftForGood
  <2>1. \/ tracked[o] # None \/ (batch # None /\ o \in batch.ids)
        \/ \E i \in DOMAIN batchQ' : i < k /\ o \in batchQ'[i].ids
    BY <1>2 DEF Known
  <2>2. ASSUME NEW i \in DOMAIN batchQ', i < k PROVE i \in DOMAIN batchQ /\ batchQ'[i] = batchQ[i]
    BY <1>5, <2>2
  <2>3. owner[o] # None /\ owner'[o] = owner[o] /\ o \notin new
    BY <1>6, <1>8, <2>1, <2>2
  <2>4. CASE k = n
    BY <1>3, <1>4, <1>5, <2>3, <2>4
  <2>5. CASE k \in DOMAIN batchQ
    <3>1. Known(o, k)
      BY <2>1, <2>2 DEF Known
    <3>2. o \notin reported /\ \A j \in DOMAIN batchQ : j > k => o \notin batchQ[j].ids
      BY <1>5, <2>3, <2>5, <3>1 DEF LeftForGood
    <3>3. o \notin ids /\ o \notin reported'
      BY <1>3, <2>3, <3>2 DEF ids, ReportedOn
    <3>. QED  BY <1>4, <1>5, <3>2, <3>3
  <2>. QED  BY <1>5, <2>4, <2>5
<1>11. RemovedGone'
  BY <1>2, <1>7, <1>8, OrderTypes DEF RemovedGone
<1>12. OverGone'
  BY <1>2, <1>7, <1>8 DEF OverGone, Over, Live
<1>13. AlwaysOn' /\ BatchWhen' /\ EndedSaid'
  BY <1>2 DEF AlwaysOn, BatchWhen, EndedSaid
<1>14. Protocol'
  <2>1. \A o \in Ids : /\ Ending(o)' = Ending(o) /\ Finishing(o)' = Finishing(o)
                       /\ About(o)' = About(o)
    BY <1>2 DEF Ending, Finishing, About
  <2>. QED  BY <1>2, <2>1 DEF Protocol, Forgotten
<1>. QED  BY <1>9, <1>10, <1>11, <1>12, <1>13, <1>14

\* Turning a detect process off or replacing it only drops ids.
LEMMA TrackerOrder ==
    ASSUME TypeInv, OrderInv, NEW c \in Cameras, Tracker(c) PROVE OrderInv'
<1>1. CASE TrackFrame(c)
  BY <1>1, TrackFrameOrder
<1>2. CASE TrackerSync(c) \/ Recycle(c)
  <2>1. /\ UNCHANGED <<owner, eventQ, finalQ, inProcess, rows, started, mqtt, batchQ, tracked,
                       batch, pc, todo, enabled, prevEnabled>>
        /\ reported' \subseteq reported
    BY <1>2 DEF TrackerSync, Recycle, storeVars, configVars, procVars
  <2>2. AlwaysOn' /\ BatchWhen'
    BY <2>1 DEF OrderInv, TrackingInv, AlwaysOn, BatchWhen
  <2>3. RemovedGone'
    BY <2>1 DEF OrderInv, TrackingInv, RemovedGone, Coming
  <2>. QED  BY <2>1, <2>2, <2>3, OrderFrame
<1>. QED  BY <1>1, <1>2 DEF Tracker

-----------------------------------------------------------------------------
(* The processor.                                                          *)

\* Its steps that neither take a batch nor say anything.
LEMMA QuietOrder ==
    ASSUME TypeInv, Unchanging, OrderInv, Processor,
           \/ CheckForUpdates \/ ManageDisabled \/ ForceDone \/ FetchTimeout
           \/ UpdateDone \/ CleanupDone
    PROVE  OrderInv'
<1>. USE DEF OrderInv, TrackingInv
<1>0. UNCHANGED <<owner, reported>>
  BY DEF Processor, envVars
<1>1. /\ UNCHANGED <<eventQ, finalQ, inProcess, rows, started, mqtt, batchQ, tracked>>
      /\ batch' \in {batch, None}
  BY ProcessorUnchanging DEF CheckForUpdates, ManageDisabled, ForceDone, FetchTimeout,
     UpdateDone, CleanupDone, storeVars
<1>2. pc # "update" \/ batch' = None
  BY DEF CheckForUpdates, ManageDisabled, ForceDone, FetchTimeout, UpdateDone, CleanupDone
<1>3. pc' # "update" /\ batch' = None
  BY <1>1, <1>2 DEF CheckForUpdates, ManageDisabled, ForceDone, FetchTimeout, UpdateDone,
     CleanupDone, NextVisit, BatchWhen
<1>4. AlwaysOn'
  <2>1. CASE CheckForUpdates
    BY <2>1, ProcessorUnchanging DEF CheckForUpdates, AlwaysOn, NextVisit
  <2>2. CASE ManageDisabled
    <3>1. PICK c \in visit :
            /\ todo' = IF c \in prevEnabled \ enabled
                         THEN {o \in TrackedOn(c) : MustEnd(o)} ELSE {}
            /\ prevEnabled' = SeenEnabled(c)
      BY <2>2 DEF ManageDisabled
    <3>2. c \in Cameras
      BY DEF TypeInv, TypeOK, ProcTypeOK
    <3>. QED  BY <2>2, <3>1, <3>2 DEF ManageDisabled, AlwaysOn, SeenEnabled, configVars
  <2>3. CASE ForceDone \/ FetchTimeout \/ UpdateDone \/ CleanupDone
    BY <2>3 DEF ForceDone, FetchTimeout, UpdateDone, CleanupDone, AlwaysOn, NextVisit, configVars
  <2>. QED  BY <2>1, <2>2, <2>3
<1>5. BatchWhen' /\ RemovedGone'
  BY <1>3 DEF BatchWhen, RemovedGone
<1>. QED  BY <1>0, <1>1, <1>4, <1>5, OrderFrame

\* Taking a batch: what it lacks of its camera's objects is gone for good.
LEMMA FetchOrder ==
    ASSUME TypeInv, Unchanging, OrderInv, Processor, FetchBatch
    PROVE  OrderInv'
<1>. USE DEF OrderInv, TrackingInv
<1>. DEFINE b == Head(batchQ)
<1>0. /\ batchQ # <<>> /\ pc = "fetch" /\ batchQ' = Tail(batchQ)
      /\ UNCHANGED <<owner, reported, eventQ, finalQ, inProcess, rows, started, mqtt, tracked,
                     enabled, prevEnabled>>
      /\ \/ /\ pc' = "update" /\ batch' = b
            /\ todo' = b.ids \cup {o \in Ids : tracked'[o] # None /\ tracked'[o].cam = b.cam}
         \/ pc' = "cleanup" /\ batch' = batch
  BY ProcessorUnchanging DEF FetchBatch, Processor, envVars, storeVars, configVars
<1>1. /\ batch = None /\ b \in Batch /\ 1 \in DOMAIN batchQ /\ batchQ[1] = b
      /\ \A k \in DOMAIN batchQ' : k \in Nat \ {0} /\ k + 1 \in DOMAIN batchQ
                                   /\ batchQ'[k] = batchQ[k + 1]
  <2>1. batchQ' \in Seq(Batch) /\ b \in Batch
    BY <1>0, OrderTypes, HeadTail
  <2>. QED  BY <1>0, <2>1, OrderTypes, TailAt DEF BatchWhen
<1>. HIDE DEF b
<1>2. \A o : Coming(o)' => Coming(o)
  BY <1>0, <1>1 DEF Coming
<1>3. \A o \in b.ids : Coming(o)
  BY <1>1 DEF Coming
<1>4. Owned'
  <2>1. \A k \in DOMAIN batchQ' : \A o \in batchQ'[k].ids : owner[o] = batchQ'[k].cam
    BY <1>1 DEF Owned
  <2>2. batch' # None => \A o \in batch'.ids : owner[o] = batch'.cam
    BY <1>0, <1>1 DEF Owned
  <2>. QED  BY <1>0, <2>1, <2>2 DEF Owned
<1>5. LeftForGood'
  <2>. SUFFICES ASSUME NEW o \in Ids, NEW k \in DOMAIN batchQ', batchQ'[k].cam = owner[o],
                       o \notin batchQ'[k].ids, Known(o, k)'
                PROVE  /\ o \notin reported
                       /\ \A j \in DOMAIN batchQ' : j > k => o \notin batchQ'[j].ids
    BY <1>0 DEF LeftForGood
  <2>1. k + 1 \in DOMAIN batchQ /\ batchQ'[k] = batchQ[k + 1] /\ k \in Nat \ {0}
    BY <1>1
  <2>2. \/ tracked[o] # None
        \/ o \in batchQ[1].ids
        \/ \E i \in DOMAIN batchQ' : i < k /\ o \in batchQ'[i].ids
    BY <1>0, <1>1 DEF Known
  <2>3. Known(o, k + 1)
    <3>1. ASSUME NEW i \in DOMAIN batchQ', i < k, o \in batchQ'[i].ids PROVE Known(o, k + 1)
      <4>1. i + 1 \in DOMAIN batchQ /\ i + 1 < k + 1 /\ o \in batchQ[i + 1].ids
        BY <1>1, <2>1, <3>1
      <4>. QED  BY <4>1 DEF Known
    <3>2. 1 \in DOMAIN batchQ /\ 1 < k + 1
      BY <1>1, <2>1
    <3>. QED  BY <2>2, <3>1, <3>2 DEF Known
  <2>4. o \notin reported /\ \A j \in DOMAIN batchQ : j > k + 1 => o \notin batchQ[j].ids
    BY <2>1, <2>3 DEF LeftForGood
  <2>5. ASSUME NEW j \in DOMAIN batchQ', j > k PROVE o \notin batchQ'[j].ids
    <3>1. j + 1 \in DOMAIN batchQ /\ j + 1 > k + 1 /\ batchQ'[j] = batchQ[j + 1]
      BY <1>1, <2>1, <2>5
    <3>. QED  BY <2>4, <3>1
  <2>. QED  BY <2>4, <2>5
<1>6. RemovedGone'
  <2>. SUFFICES ASSUME pc' = "update", NEW o \in todo', o \notin batch'.ids
                PROVE  tracked[o] # None /\ ~Coming(o)'
    BY <1>0 DEF RemovedGone
  <2>1. o \in Ids /\ tracked[o] # None /\ tracked[o].cam = b.cam /\ o \notin b.ids
    BY <1>0
  <2>2. batchQ[1].cam = owner[o] /\ o \notin batchQ[1].ids /\ Known(o, 1)
    BY <1>1, <2>1 DEF Owned, Known
  <2>3. o \notin reported /\ \A j \in DOMAIN batchQ : j > 1 => o \notin batchQ[j].ids
    BY <1>1, <2>1, <2>2 DEF LeftForGood
  <2>4. ASSUME NEW k \in DOMAIN batchQ' PROVE o \notin batchQ'[k].ids
    <3>1. k + 1 \in DOMAIN batchQ /\ k + 1 > 1 /\ batchQ'[k] = batchQ[k + 1]
      BY <1>1
    <3>. QED  BY <2>3, <3>1
  <2>. QED  BY <1>0, <2>1, <2>3, <2>4 DEF Coming
<1>7. OverGone'
  BY <1>0, <1>1, <1>2, <1>3 DEF OverGone, Over, Live
<1>8. AlwaysOn' /\ BatchWhen' /\ EndedSaid'
  BY <1>0, <1>1 DEF AlwaysOn, BatchWhen, EndedSaid
<1>9. Protocol'
  <2>1. \A o \in Ids : /\ Ending(o)' = Ending(o) /\ Finishing(o)' = Finishing(o)
                       /\ About(o)' = About(o)
    BY <1>0 DEF Ending, Finishing, About
  <2>. QED  BY <1>0, <2>1 DEF Protocol, Forgotten
<1>. QED  BY <1>4, <1>5, <1>6, <1>7, <1>8, <1>9

\* The tracking half keeps when only an object of the batch, or one that is
\* gone, becomes tracked, changes or is forgotten.
LEMMA TrackedFrame ==
    ASSUME TypeInv, TrackingInv, NEW o \in Ids, NEW obj \in TrackedObject \cup {None},
           tracked' = [tracked EXCEPT ![o] = obj],
           obj # None => obj.cam = owner[o] /\ (tracked[o] # None \/ (batch # None /\ o \in batch.ids)),
           todo' \subseteq todo, pc = "update" => obj # None,
           UNCHANGED <<owner, reported, batchQ, batch, rows, pc, enabled, prevEnabled>>,
           \A i \in Ids : mqtt'[i] # "none" => mqtt[i] # "none" \/ owner[i] # None
    PROVE  TrackingInv'
<1>. USE DEF TrackingInv
<1>0. tracked'[o] = obj /\ \A i \in Ids \ {o} : tracked'[i] = tracked[i]
  BY OrderTypes
<1>1. Owned'
  BY <1>0 DEF Owned
<1>2. LeftForGood'
  <2>1. \A k : Known(o, k)' => Known(o, k)
    BY <1>0 DEF Known
  <2>2. \A i \in Ids \ {o} : \A k : Known(i, k)' => Known(i, k)
    BY <1>0 DEF Known
  <2>. QED  BY <2>1, <2>2 DEF LeftForGood
<1>3. \A i \in Ids : Coming(i)' = Coming(i)
  BY DEF Coming
<1>4. RemovedGone'
  BY <1>0, <1>3, OrderTypes DEF RemovedGone
<1>5. AlwaysOn' /\ BatchWhen'
  BY DEF AlwaysOn, BatchWhen
<1>. QED  BY <1>1, <1>2, <1>4, <1>5

\* Saying something of an object: the first message, a change, or its end.
LEMMA SayingOrder ==
    ASSUME TypeInv, EndsInv, OrderInv, UNCHANGED <<owner, reported>>, NEW o \in Ids,
           ForceEnd(o) \/ NewObject(o) \/ UpdateObject(o) \/ RemoveObject(o)
    PROVE  OrderInv'
<1>. USE DEF OrderInv
<1>0. /\ o \in todo /\ todo' = todo \ {o} /\ (ForceEnd(o) => pc = "force")
      /\ RemoveObject(o) => pc = "update" /\ o \notin batch.ids
      /\ UNCHANGED <<configVars, batchQ, pc, prevEnabled, batch, finalQ, inProcess, rows, started>>
  BY SayingSteps DEF EndsInv
<1>1. ~ForceEnd(o)
  BY <1>0 DEF TrackingInv, AlwaysOn
<1>2. CASE UNCHANGED <<tracked, eventQ, mqtt>>
  <2>1. AlwaysOn' /\ BatchWhen'
    BY <1>0 DEF TrackingInv, AlwaysOn, BatchWhen, configVars
  <2>2. RemovedGone'
    BY <1>0, <1>2 DEF TrackingInv, RemovedGone, Coming
  <2>. QED  BY <1>0, <1>2, <2>1, <2>2, OrderFrame
<1>3. ASSUME NEW obj \in TrackedObject, tracked' = [tracked EXCEPT ![o] = obj],
             \/ EndStep(o, obj) /\ (ForceEnd(o) \/ RemoveObject(o))
             \/ StartStep(o, obj)
             \/ UpdateStep(o, obj)
      PROVE  OrderInv'
  <2>1. /\ tracked'[o] = obj /\ obj # None
        /\ \A i \in Ids \ {o} : tracked'[i] = tracked[i]
    BY <1>3, OrderTypes
  <2>2. \/ EndStep(o, obj) /\ pc = "update" /\ o \notin batch.ids /\ ~Coming(o)
        \/ StartStep(o, obj) /\ ~Over(o)
        \/ UpdateStep(o, obj) /\ ~Over(o) /\ Live(o)
    <3>1. CASE EndStep(o, obj) /\ RemoveObject(o)
      BY <1>0, <3>1 DEF TrackingInv, RemovedGone
    <3>2. CASE StartStep(o, obj) \/ UpdateStep(o, obj)
      <4>1. batch # None /\ o \in batch.ids
        BY <3>2, OrderTypes DEF StartStep, UpdateStep
      <4>. QED  BY <3>2, <4>1 DEF OverGone, Over, Live, UpdateStep, Forgotten
    <3>. QED  BY <1>1, <1>3, <3>1, <3>2
  <2>3. /\ obj.cam = owner[o] /\ (tracked[o] # None \/ (batch # None /\ o \in batch.ids))
        /\ owner[o] # None
    <3>1. obj.cam \in Cameras
      BY DEF TrackedObject
    <3>2. CASE EndStep(o, obj) \/ UpdateStep(o, obj)
      <4>1. tracked[o] # None /\ obj.cam = tracked[o].cam
        BY <3>2 DEF EndStep, UpdateStep, Live, Forgotten
      <4>. QED  BY <3>1, <4>1, OwnerAssumption DEF TrackingInv, Owned
    <3>3. CASE StartStep(o, obj)
      <4>1. batch # None /\ o \in batch.ids /\ obj.cam = batch.cam
        BY <3>3, OrderTypes DEF StartStep
      <4>. QED  BY <3>1, <4>1, OwnerAssumption DEF TrackingInv, Owned
    <3>. QED  BY <1>3, <3>2, <3>3
  <2>4. /\ \A i \in Ids \ {o} : mqtt'[i] = mqtt[i]
        /\ EndStep(o, obj) \/ mqtt'[o] # "end"
    BY <2>2, OrderTypes DEF EndStep, StartStep, UpdateStep, Over
  <2>5. TrackingInv'
    <3>1. \A i \in Ids : mqtt'[i] # "none" => mqtt[i] # "none" \/ owner[i] # None
      BY <2>3, <2>4
    <3>. QED  BY <1>0, <1>3, <2>1, <2>3, <3>1, TrackedFrame DEF configVars
  <2>6. \A i \in Ids : Coming(i)' = Coming(i)
    BY <1>0 DEF Coming
  <2>7. OverGone'
    <3>1. ASSUME NEW i \in Ids \ {o}, Over(i)'
          PROVE  ~Coming(i)' /\ ~Live(i)' /\ (batch' # None => i \notin batch'.ids)
      BY <1>0, <2>1, <2>4, <2>6, <3>1 DEF OverGone, Over, Live
    <3>2. ASSUME Over(o)'
          PROVE  ~Coming(o)' /\ ~Live(o)' /\ (batch' # None => o \notin batch'.ids)
      <4>1. CASE EndStep(o, obj)
        BY <1>0, <2>1, <2>2, <2>6, <4>1 DEF EndStep, Live, StartStep, UpdateStep, Forgotten,
           OverGone, Over
      <4>2. CASE ~EndStep(o, obj)
        <5>1. ~Over(o) /\ ~obj.ended
          BY <2>2, <4>2 DEF StartStep, UpdateStep, Live
        <5>. QED  BY <1>0, <2>1, <2>4, <3>2, <4>2, <5>1 DEF Over
      <4>. QED  BY <4>1, <4>2
    <3>. QED  BY <3>1, <3>2 DEF OverGone
  <2>8. CASE UNCHANGED eventQ
    <3>1. \A i \in Ids : /\ Ending(i)' = Ending(i) /\ Finishing(i)' = Finishing(i)
                         /\ About(i)' = About(i)
      BY <1>0, <2>8 DEF Ending, Finishing, About
    <3>2. Protocol'
      BY <1>0, <2>1, <3>1 DEF Protocol, Forgotten
    <3>. QED  BY <2>5, <2>7, <2>8, <3>2 DEF EndedSaid
  <2>9. ASSUME NEW type, Said(type, o, obj), obj.ended <=> type = "end",
               type = "end" => EndStep(o, obj)
        PROVE  OrderInv'
    <3>. DEFINE n == Len(eventQ) + 1
    <3>1. /\ n \in Nat
          /\ DOMAIN eventQ' = (DOMAIN eventQ) \cup {n}
          /\ \A i \in DOMAIN eventQ : i \in Nat /\ i < n /\ eventQ'[i] = eventQ[i]
          /\ eventQ'[n].type = type /\ eventQ'[n].id = o
          /\ eventQ'[n].data.ended = obj.ended
      BY <2>9, SaidAt
    <3>. HIDE DEF n
    <3>2. \A i \in Ids : /\ About(i)' = IF i = o THEN About(i) \cup {n} ELSE About(i)
                         /\ Ending(i)' = IF i = o /\ type = "end" THEN Ending(i) \cup {n} ELSE Ending(i)
                         /\ \A j \in About(i) \cup Ending(i) : j \in Nat /\ j < n
      BY <3>1 DEF About, Ending
    <3>3. \A i \in Ids : Finishing(i)' = Finishing(i)
      BY <1>0 DEF Finishing
    <3>4. Finishing(o) = {} /\ Ending(o) = {} /\ ~Over(o)
      <4>1. Forgotten(o) \/ Live(o)
        BY <2>2 DEF EndStep, StartStep
      <4>2. ~Over(o)
        BY <2>2 DEF EndStep, OverGone
      <4>. QED  BY <4>1, <4>2 DEF EndsInv, OneEndPending, Forgotten
    <3>5. Protocol'
      <4>1. ASSUME NEW i \in Ids \ {o}
            PROVE  /\ About(i)' = About(i) /\ Ending(i)' = Ending(i)
                   /\ Finishing(i)' = Finishing(i) /\ Forgotten(i)' = Forgotten(i)
        BY <2>1, <3>2, <3>3 DEF Forgotten
      <4>2. /\ ~Forgotten(o)' /\ Finishing(o)' = {} /\ ~(rows[o] # None /\ inProcess[o] = None)
        BY <2>1, <3>3, <3>4 DEF Forgotten, Over
      <4>3. \A i \in Ending(o)' : \A j \in About(o)' : j <= i
        BY <3>1, <3>2, <3>4
      <4>. QED  BY <1>0, <4>1, <4>2, <4>3 DEF Protocol
    <3>6. EndedSaid'
      BY <2>9, <3>1 DEF EndedSaid
    <3>. QED  BY <2>5, <2>7, <3>5, <3>6
  <2>. QED  BY <2>2, <2>8, <2>9 DEF EndStep, StartStep, UpdateStep, Live
<1>. QED  BY <1>2, <1>3, SayingSteps DEF EndsInv

\* Forgetting an object: nothing is queued about it any more.
LEMMA CleanupOrder ==
    ASSUME TypeInv, EndsInv, OrderInv, UNCHANGED <<owner, reported>>, Cleanup
    PROVE  OrderInv'
<1>. USE DEF OrderInv
<1>1. PICK f \in Finalized :
        /\ f = Head(finalQ) /\ finalQ # <<>> /\ finalQ' = Tail(finalQ)
        /\ tracked' = [tracked EXCEPT ![f.id] = None]
        /\ UNCHANGED <<configVars, batchQ, pc, prevEnabled, batch, todo, mqtt, eventQ, inProcess,
                       rows, started>>
        /\ pc = "cleanup"
  BY OrderTypes, HeadTail DEF Cleanup
<1>2. PICK id \in Ids : id = f.id
  BY DEF Finalized
<1>3. /\ 1 \in Finishing(id)
      /\ \A i \in DOMAIN finalQ' : i \in Nat \ {0} /\ i + 1 \in DOMAIN finalQ
                                   /\ finalQ'[i] = finalQ[i + 1]
  <2>1. finalQ' \in Seq(Finalized)
    BY <1>1, OrderTypes, HeadTail
  <2>. QED  BY <1>1, <1>2, <2>1, OrderTypes, TailAt DEF Finishing
<1>4. tracked'[id] = None /\ \A i \in Ids \ {id} : tracked'[i] = tracked[i]
  BY <1>1, <1>2, OrderTypes
<1>5. TrackingInv'
  <2>1. todo' \subseteq todo /\ pc # "update"
    BY <1>1
  <2>2. TrackingInv
    OBVIOUS
  <2>. QED  BY <1>1, <1>2, <2>1, <2>2, TrackedFrame DEF configVars
<1>6. OverGone'
  <2>1. \A o \in Ids : (Coming(o)' => Coming(o)) /\ (Over(o)' => Over(o)) /\ (Live(o)' => Live(o))
    BY <1>1, <1>4 DEF Coming, Over, Live
  <2>. QED  BY <1>1, <2>1 DEF OverGone
<1>7. Protocol'
  <2>1. \A o \in Ids : Ending(o)' = Ending(o) /\ About(o)' = About(o)
    BY <1>1 DEF Ending, About
  <2>2. ASSUME NEW o \in Ids, Finishing(o)' # {} PROVE Finishing(o) # {}
    <3>1. PICK i \in DOMAIN finalQ' : finalQ'[i].id = o
      BY <2>2 DEF Finishing
    <3>2. i + 1 \in Finishing(o)
      BY <1>3, <3>1 DEF Finishing
    <3>. QED  BY <3>2
  <2>3. \A o \in Ids : Forgotten(o)' \/ Finishing(o)' # {} => Forgotten(o) \/ Finishing(o) # {}
    BY <1>3, <1>4, <2>2 DEF Forgotten
  <2>. QED  BY <1>1, <2>1, <2>3 DEF Protocol
<1>8. EndedSaid'
  BY <1>1 DEF EndedSaid
<1>. QED  BY <1>5, <1>6, <1>7, <1>8

\* Every step of the processor keeps the order.
LEMMA ProcessorOrder == TypeInv /\ Unchanging /\ EndsInv /\ OrderInv /\ Processor => OrderInv'
<1>. SUFFICES ASSUME TypeInv, Unchanging, EndsInv, OrderInv, Processor PROVE OrderInv'
  OBVIOUS
<1>0. UNCHANGED <<owner, reported>>
  BY DEF Processor, envVars
<1>1. ASSUME NEW o \in Ids, ForceEnd(o) \/ NewObject(o) \/ UpdateObject(o) \/ RemoveObject(o)
      PROVE  OrderInv'
  BY <1>0, <1>1, SayingOrder
<1>2. CASE CheckForUpdates \/ ManageDisabled \/ ForceDone \/ FetchTimeout \/ UpdateDone
           \/ CleanupDone
  BY <1>2, QuietOrder
<1>3. CASE FetchBatch
  BY <1>3, FetchOrder
<1>4. CASE Cleanup
  BY <1>0, <1>4, CleanupOrder
<1>5. ~CleanupDies
  BY ProcessorEnds DEF EndsInv, ProcessorAlive, CleanupDies
<1>6. ~FetchSkip
  <2>. SUFFICES ASSUME batchQ # <<>> PROVE Served(Head(batchQ).cam)
    BY DEF FetchSkip
  <2>1. Head(batchQ) \in Batch
    BY OrderTypes, HeadTail
  <2>2. Head(batchQ).cam \in Cameras
    BY <2>1, OrderTypes
  <2>. QED  BY <2>2 DEF Served, Unchanging, OrderInv, TrackingInv, AlwaysOn
<1>. QED  BY <1>1, <1>2, <1>3, <1>4, <1>5, <1>6, ProcessorUnchanging DEF Processor, ProcNext

-----------------------------------------------------------------------------
(* The EventProcessor.                                                     *)

\* handle_object_detection lets go of the event when its end is heard.
LEMMA EndLetsGo ==
    ASSUME TypeInv, NEW m \in Message, HandleMessage(m), m.type = "end",
           rows'[m.id] # rows[m.id]
    PROVE  inProcess'[m.id] = None
<1>1. m.id \in Ids /\ inProcess \in [Ids -> EventData \cup {None}]
  BY DEF Message, TypeInv, TypeOK, StoreTypeOK
<1>2. HandleObjectDetection(m)
  BY DEF HandleMessage, StoreFirst, IgnoreUnconfigured
<1>. QED  BY <1>1, <1>2 DEF HandleObjectDetection, EntryAfter

\* The EventProcessor finishes with an event only when nothing follows its end.
LEMMA StoreOrder == TypeInv /\ EndsInv /\ OrderInv /\ Store => OrderInv'
<1>. SUFFICES ASSUME TypeInv, EndsInv, OrderInv, Store PROVE OrderInv'
  OBVIOUS
<1>. USE DEF OrderInv
<1>1. UNCHANGED <<owner, reported, batchQ, batch, tracked, todo, pc, mqtt, enabled, prevEnabled>>
  BY StoreStep DEF configVars, procVars, envVars
<1>2. \A o : Coming(o)' = Coming(o)
  BY <1>1 DEF Coming
<1>3. LeftForGood' /\ RemovedGone' /\ AlwaysOn' /\ BatchWhen'
  <2>1. \A o, k : Known(o, k)' = Known(o, k)
    BY <1>1 DEF Known
  <2>. QED  BY <1>1, <1>2, <2>1 DEF TrackingInv, LeftForGood, RemovedGone, AlwaysOn, BatchWhen
<1>4. CASE Startup
  <2>1. /\ UNCHANGED <<eventQ, finalQ, inProcess>> /\ ~started
        /\ \A o \in Ids : rows'[o] = None <=> rows[o] = None
    <3>1. \A o \in Ids : Closed(rows[o]) = None <=> rows[o] = None
      BY OrderTypes DEF Closed, EventRow
    <3>. QED  BY <1>4, <3>1 DEF Startup
  <2>2. \A o \in Ids : /\ Ending(o)' = Ending(o) /\ Finishing(o)' = Finishing(o)
                       /\ About(o)' = About(o)
    BY <2>1 DEF Ending, Finishing, About
  <2>3. Protocol'
    BY <1>1, <2>1, <2>2 DEF Protocol, Forgotten
  <2>4. OverGone'
    BY <1>1, <1>2, <2>1 DEF OverGone, Over, Live
  <2>5. Owned'
    BY <1>1, <2>1 DEF TrackingInv, Owned
  <2>. QED  BY <1>3, <2>1, <2>3, <2>4, <2>5 DEF TrackingInv, EndedSaid
<1>5. ASSUME NEW m \in Message, started, UNCHANGED started,
             1 \in DOMAIN eventQ, eventQ[1] = m,
             \A i \in DOMAIN eventQ' : i \in Nat \ {0} /\ i + 1 \in DOMAIN eventQ
                                       /\ eventQ'[i] = eventQ[i + 1],
             HandleMessage(m)
      PROVE  OrderInv'
  <2>1. PICK id \in Ids : id = m.id
    BY DEF Message
  <2>2. /\ \A o \in Ids \ {id} : inProcess'[o] = inProcess[o] /\ rows'[o] = rows[o]
        /\ \/ UNCHANGED finalQ
           \/ /\ m.type = "end" /\ inProcess'[id] = None
              /\ finalQ' = Append(finalQ, [id |-> m.id, cam |-> m.cam])
        /\ rows'[id] # rows[id] =>
             inProcess[id] # None /\ rows'[id] # None /\ rows'[id].ended = m.data.ended
        /\ inProcess'[id] = None => inProcess[id] # None /\ m.type = "end"
    BY <1>5, <2>1, Handled
  <2>3. 1 \in About(id) /\ (m.type = "end" => 1 \in Ending(id))
    BY <1>5, <2>1 DEF About, Ending
  <2>4. \A o \in Ids : /\ \A i \in About(o)' : i \in Nat \ {0} /\ i + 1 \in About(o)
                       /\ \A i \in Ending(o)' : i \in Nat \ {0} /\ i + 1 \in Ending(o)
    BY <1>5 DEF About, Ending
  <2>5. m.type = "end" => About(id)' = {}
    <3>. SUFFICES ASSUME m.type = "end", NEW i \in About(id)' PROVE FALSE
      OBVIOUS
    <3>1. i \in Nat \ {0} /\ i + 1 \in About(id)
      BY <2>4
    <3>2. i + 1 <= 1
      BY <2>3, <3>1 DEF Protocol
    <3>. QED  BY <3>1, <3>2
  <2>6. m.type = "end" => tracked[id] # None /\ tracked[id].ended
    BY <2>3 DEF EndsInv, OneEndPending, Live
  <2>7. ~Forgotten(id) /\ Finishing(id) = {} /\ ~(rows[id] # None /\ inProcess[id] = None)
    BY <2>3 DEF Protocol
  <2>8. \A o \in Ids \ {id} : Finishing(o)' = Finishing(o)
    <3>1. CASE UNCHANGED finalQ
      BY <3>1 DEF Finishing
    <3>2. CASE finalQ' = Append(finalQ, [id |-> m.id, cam |-> m.cam])
      <4>1. [id |-> m.id, cam |-> m.cam] \in Finalized
        BY DEF Message, Finalized
      <4>. DEFINE f == [id |-> m.id, cam |-> m.cam]
      <4>2. /\ DOMAIN finalQ' = (DOMAIN finalQ) \cup {Len(finalQ) + 1}
            /\ \A i \in DOMAIN finalQ : finalQ'[i] = finalQ[i]
            /\ finalQ'[Len(finalQ) + 1] = f /\ f.id = id
        BY <2>1, <3>2, <4>1, OrderTypes, AppendAt
      <4>. HIDE DEF f
      <4>. QED  BY <4>2 DEF Finishing
    <3>. QED  BY <2>2, <3>1, <3>2
  <2>9. Protocol'
    <3>1. ASSUME NEW o \in Ids \ {id}
          PROVE  /\ Forgotten(o)' = Forgotten(o) /\ Finishing(o)' = Finishing(o)
                 /\ inProcess'[o] = inProcess[o] /\ rows'[o] = rows[o]
                 /\ About(o) = {} => About(o)' = {}
      BY <1>1, <2>2, <2>4, <2>8 DEF Forgotten
    <3>2. \A o \in Ids : \A i \in Ending(o)' : \A j \in About(o)' : j <= i
      <4>. SUFFICES ASSUME NEW o \in Ids, NEW i \in Ending(o)', NEW j \in About(o)' PROVE j <= i
        OBVIOUS
      <4>1. i \in Nat /\ j \in Nat /\ i + 1 \in Ending(o) /\ j + 1 \in About(o)
        BY <2>4
      <4>2. j + 1 <= i + 1
        BY <4>1 DEF Protocol
      <4>. QED  BY <4>1, <4>2
    <3>3. ASSUME Forgotten(id)' \/ Finishing(id)' # {}
          PROVE  inProcess'[id] = None /\ About(id)' = {}
      <4>1. ~UNCHANGED finalQ
        BY <1>1, <2>7, <3>3 DEF Forgotten, Finishing
      <4>. QED  BY <2>2, <2>5, <4>1
    <3>4. rows'[id] # None /\ inProcess'[id] = None => About(id)' = {}
      BY <2>2, <2>5
    <3>5. rows'[id] # None /\ inProcess'[id] # None => ~rows'[id].ended /\ started'
      <4>. SUFFICES ASSUME rows'[id] # None, inProcess'[id] # None PROVE ~rows'[id].ended
        BY <1>5
      <4>1. CASE rows'[id] = rows[id]
        BY <2>7, <4>1 DEF Protocol
      <4>2. CASE rows'[id] # rows[id]
        <5>1. m.type # "end"
          <6>. SUFFICES ASSUME m.type = "end" PROVE inProcess'[id] = None
            OBVIOUS
          <6>. QED  BY <1>5, <2>1, <4>2, EndLetsGo
        <5>. QED  BY <1>5, <2>2, <4>2, <5>1 DEF EndedSaid
      <4>. QED  BY <4>1, <4>2
    <3>. QED  BY <1>5, <3>1, <3>2, <3>3, <3>4, <3>5 DEF Protocol
  <2>10. OverGone'
    <3>1. ASSUME NEW o \in Ids, Over(o)' PROVE Over(o)
      <4>1. CASE o # id
        BY <1>1, <2>2, <3>1, <4>1 DEF Over
      <4>2. CASE o = id /\ ~(rows'[id] # None /\ inProcess'[id] = None)
        BY <1>1, <3>1, <4>2 DEF Over
      <4>3. CASE o = id /\ rows'[id] # None /\ inProcess'[id] = None
        BY <2>2, <2>6, <4>3 DEF Over
      <4>. QED  BY <4>1, <4>2, <4>3
    <3>. QED  BY <1>1, <1>2, <3>1 DEF OverGone, Live
  <2>11. Owned'
    <3>1. owner[id] # None
      <4>1. tracked[id] \in TrackedObject /\ tracked[id].cam \in Cameras
        BY <2>7, OrderTypes DEF Forgotten, TrackedObject
      <4>. QED  BY <2>7, <4>1, OwnerAssumption DEF TrackingInv, Owned, Forgotten
    <3>. QED  BY <1>1, <2>2, <3>1 DEF TrackingInv, Owned
  <2>12. EndedSaid'
    BY <1>5 DEF EndedSaid
  <2>. QED  BY <1>3, <2>9, <2>10, <2>11, <2>12 DEF TrackingInv
<1>. QED  BY <1>4, <1>5, StoreStep

-----------------------------------------------------------------------------
\* A switched medium touches nothing here, and a restart leaves only the table.
LEMMA UserOrder ==
    ASSUME CamerasStayOn, Unchanging, OrderInv, User PROVE OrderInv'
<1>1. ASSUME NEW c \in Cameras, NEW m \in Media, SetMedia(c, m) PROVE OrderInv'
  <2>1. /\ UNCHANGED <<owner, reported, eventQ, finalQ, inProcess, rows, started, mqtt, batchQ,
                       tracked, batch, pc, todo, enabled, prevEnabled>>
    BY <1>1 DEF SetMedia, storeVars, procVars
  <2>2. AlwaysOn' /\ BatchWhen'
    BY <2>1 DEF OrderInv, TrackingInv, AlwaysOn, BatchWhen
  <2>3. RemovedGone'
    BY <2>1 DEF OrderInv, TrackingInv, RemovedGone, Coming
  <2>. QED  BY <2>1, <2>2, <2>3, OrderFrame
<1>2. CASE Restart
  <2>0. live \cap EnabledNext = Cameras
    BY NothingNamed DEF OrderInv, TrackingInv, AlwaysOn, Unchanging
  <2>1. /\ enabled' = Cameras /\ prevEnabled' = Cameras /\ pc' = "drain" /\ batch' = None
        /\ batchQ' = <<>> /\ reported' = {} /\ eventQ' = <<>> /\ finalQ' = <<>>
        /\ \A o \in Ids : tracked'[o] = None /\ inProcess'[o] = None
        /\ UNCHANGED <<rows, mqtt, owner>>
    BY <1>2, <2>0 DEF Restart
  <2>2. TrackingInv'
    BY <2>1 DEF OrderInv, TrackingInv, AlwaysOn, BatchWhen, Owned, LeftForGood, RemovedGone
  <2>3. OverGone'
    BY <2>1 DEF OverGone, Coming, Live
  <2>4. Protocol' /\ EndedSaid'
    BY <2>1 DEF Protocol, EndedSaid, About, Ending, Finishing
  <2>. QED  BY <2>2, <2>3, <2>4 DEF OrderInv
<1>3. \A c \in Cameras : ~SetEnabled(c) /\ ~RemoveCamera(c) /\ ~AddCamera(c) /\ ~Resize(c)
  BY DEF CamerasStayOn, SetEnabled, RemoveCamera, AddCamera, Resize, Op
<1>. QED  BY <1>1, <1>2, <1>3 DEF User

\* Nor does a step in which nothing happens.
LEMMA StutterOrder == OrderInv /\ UNCHANGED vars => OrderInv'
<1>. SUFFICES ASSUME OrderInv, UNCHANGED vars PROVE OrderInv'
  OBVIOUS
<1>1. UNCHANGED <<owner, reported, eventQ, finalQ, inProcess, rows, started, mqtt, batchQ,
                  tracked, batch, pc, todo, enabled, prevEnabled>>
  BY DEF vars, storeVars, configVars, procVars, envVars
<1>2. AlwaysOn' /\ BatchWhen' /\ RemovedGone'
  BY <1>1 DEF OrderInv, TrackingInv, AlwaysOn, BatchWhen, RemovedGone, Coming
<1>. QED  BY <1>1, <1>2, OrderFrame

\* Everything the steps below may rely on.
Sound == TypeInv /\ Unchanging /\ EndsInv /\ OrderInv

\* Together the invariants are inductive.
LEMMA NextSound ==
    ASSUME CamerasStayOn PROVE Sound /\ [Next]_vars => Sound'
<1>1. CamerasStay
  BY DEF CamerasStayOn, CamerasStay
<1>2. Sound /\ [Next]_vars => TypeInv' /\ Unchanging' /\ EndsInv'
  BY <1>1, NextType, NextUnchanging, StoreEnds, ProcessorEnds, EnvEnds DEF Sound, Next
<1>3. Sound /\ [Next]_vars => OrderInv'
  BY StoreOrder, ProcessorOrder, TrackerOrder, UserOrder, StutterOrder DEF Sound, Next
<1>. QED  BY <1>2, <1>3 DEF Sound

\* They hold in every state of a behaviour in which cameras stay on.
LEMMA SpecSound == ASSUME CamerasStayOn PROVE Spec => []Sound
<1>1. Init => Sound
  BY InitType, InitUnchanging, InitEnds, InitOrder DEF Sound
<1>. QED  BY <1>1, NextSound, PTL DEF Spec

\* The EventProcessor holds no event of an object the processor has forgotten:
\* finished(id) comes after the entry was deleted, and no message is queued
\* that would make another.
THEOREM NothingLeftInProcess ==
    ASSUME CamerasStayOn PROVE Spec => []InProcessIsTracked
<1>1. Sound => InProcessIsTracked
  BY DEF Sound, OrderInv, Protocol, InProcessIsTracked
<1>. QED  BY <1>1, SpecSound, PTL

\* MQTT clients were told of every true positive that is tracked.
TrackedTold == \A o \in Ids : tracked[o] # None /\ tracked[o].tp => mqtt[o] # "none"

FirstIsNew == \A o \in Ids : mqtt[o] = "none" => mqtt'[o] \in {"none", "new"}

\* A false positive is published by nobody, and the update that finds a true one says "new".
LEMMA PublishTold ==
    ASSUME TypeInv, TrackedTold, NEW o \in Ids,
           ForceEnd(o) \/ NewObject(o) \/ UpdateObject(o) \/ RemoveObject(o)
    PROVE  TrackedTold' /\ FirstIsNew
<1>1. /\ tracked \in [Ids -> TrackedObject \cup {None}]
      /\ mqtt \in [Ids -> {"none", "new", "update", "end"}]
  BY DEF TypeInv, TypeOK, ProcTypeOK
<1>2. ASSUME tracked[o] # None, PublishEnd(o, [tracked[o] EXCEPT !.ended = TRUE])
      PROVE  TrackedTold' /\ FirstIsNew
  <2>. DEFINE obj == [tracked[o] EXCEPT !.ended = TRUE]
  <2>1. tracked[o] \in TrackedObject /\ obj.tp = tracked[o].tp
    BY <1>1, <1>2 DEF TrackedObject
  <2>2. /\ tracked' = [tracked EXCEPT ![o] = obj]
        /\ mqtt' = IF obj.tp THEN [mqtt EXCEPT ![o] = "end"] ELSE mqtt
    BY <1>2 DEF PublishEnd, MqttHears
  <2>. HIDE DEF obj
  <2>. QED  BY <1>1, <1>2, <2>1, <2>2 DEF TrackedTold, FirstIsNew
<1>3. ASSUME ForceEnd(o) PROVE TrackedTold' /\ FirstIsNew
  <2>1. tracked[o] # None
    BY <1>3 DEF ForceEnd, TypeInv, ForceTodo
  <2>. QED  BY <1>2, <1>3, <2>1 DEF ForceEnd
<1>4. ASSUME NewObject(o) PROVE TrackedTold' /\ FirstIsNew
  <2>. DEFINE obj == [cam |-> batch.cam, ended |-> FALSE, tp |-> FALSE, worthy |-> {}]
  <2>1. UNCHANGED mqtt /\ tracked' = [tracked EXCEPT ![o] = obj]
    BY <1>4 DEF NewObject
  <2>2. obj.tp = FALSE
    OBVIOUS
  <2>. HIDE DEF obj
  <2>. QED  BY <1>1, <2>1, <2>2 DEF TrackedTold, FirstIsNew
<1>5. ASSUME UpdateObject(o) PROVE TrackedTold' /\ FirstIsNew
  <2>1. tracked[o] # None /\ tracked[o] \in TrackedObject
    BY <1>1, <1>5 DEF UpdateObject, UpdatedIds
  <2>2. PICK tp \in BOOLEAN, worthy \in SUBSET Media :
            /\ tracked' = [tracked EXCEPT ![o] = [@ EXCEPT !.tp = tp, !.worthy = worthy]]
            /\ \/ mqtt' = [mqtt EXCEPT ![o] = IF tracked[o].tp THEN "update" ELSE "new"]
               \/ mqtt' = mqtt /\ (tp => tracked[o].tp)
    <3>1. PICK tp \in BOOLEAN, worthy \in SUBSET Media, publish \in BOOLEAN :
            /\ tp /\ ~tracked[o].tp => publish
            /\ tracked' = [tracked EXCEPT ![o] = [tracked[o] EXCEPT !.tp = tp, !.worthy = worthy]]
            /\ \/ publish /\ mqtt' = [mqtt EXCEPT ![o] = IF tracked[o].tp THEN "update" ELSE "new"]
               \/ ~publish /\ mqtt' = mqtt
      BY <1>5 DEF UpdateObject
    <3>. QED  BY <1>1, <3>1
  <2>3. [tracked[o] EXCEPT !.tp = tp, !.worthy = worthy].tp = tp
    BY <2>1 DEF TrackedObject
  <2>4. /\ tracked'[o].tp = tp /\ \A i \in Ids \ {o} : tracked'[i] = tracked[i] /\ mqtt'[i] = mqtt[i]
        /\ mqtt'[o] \in {"new", "update"} \/ (mqtt'[o] = mqtt[o] /\ (tp => tracked[o].tp))
        /\ mqtt[o] = "none" => mqtt'[o] \in {"none", "new"}
    BY <1>1, <2>1, <2>2, <2>3 DEF TrackedTold
  <2>. QED  BY <2>1, <2>4 DEF TrackedTold, FirstIsNew
<1>6. ASSUME RemoveObject(o) PROVE TrackedTold' /\ FirstIsNew
  BY <1>2, <1>6 DEF RemoveObject, MustEnd, TrackedTold, FirstIsNew
<1>. QED  BY <1>3, <1>4, <1>5, <1>6

\* No other step tells MQTT clients anything, or finds a true positive.
LEMMA NextTold == ASSUME TypeInv, TrackedTold, [Next]_vars PROVE TrackedTold' /\ FirstIsNew
<1>1. ASSUME UNCHANGED mqtt, \A o \in Ids : tracked'[o] = tracked[o] \/ tracked'[o] = None
      PROVE  TrackedTold' /\ FirstIsNew
  BY <1>1 DEF TrackedTold, FirstIsNew
<1>2. CASE Processor
  <2>1. ASSUME NEW o \in Ids, ForceEnd(o) \/ NewObject(o) \/ UpdateObject(o) \/ RemoveObject(o)
        PROVE  TrackedTold' /\ FirstIsNew
    BY <2>1, PublishTold
  <2>2. CASE \/ CheckForUpdatesDies \/ ManageDisabled \/ ForceDone
             \/ FetchTimeout \/ FetchSkip \/ UpdateDone \/ CleanupDone
    BY <1>1, <2>2 DEF CheckForUpdatesDies, ManageDisabled, ForceDone, FetchTimeout, FetchSkip,
       UpdateDone, CleanupDone
  <2>3. CASE CheckForUpdates
    <3>1. UNCHANGED mqtt
      BY <2>3 DEF CheckForUpdates
    <3>2. \A o \in Ids : tracked'[o] = tracked[o] \/ tracked'[o] = None
      BY <2>3 DEF CheckForUpdates
    <3>. QED  BY <1>1, <3>1, <3>2
  <2>4. CASE FetchBatch
    BY <1>1, <2>4 DEF FetchBatch
  <2>5. CASE Cleanup \/ CleanupDies
    <3>1. UNCHANGED mqtt /\ (\/ UNCHANGED tracked
                            \/ \E id : tracked' = [tracked EXCEPT ![id] = None])
      BY <2>5 DEF Cleanup, CleanupDies
    <3>2. tracked \in [Ids -> TrackedObject \cup {None}]
      BY DEF TypeInv, TypeOK, ProcTypeOK
    <3>3. \A o \in Ids : tracked'[o] = tracked[o] \/ tracked'[o] = None
      BY <3>1, <3>2
    <3>. QED  BY <1>1, <3>1, <3>3
  <2>. QED  BY <1>2, <2>1, <2>2, <2>3, <2>4, <2>5 DEF Processor, ProcNext
<1>3. CASE ~Processor
  <2>1. UNCHANGED mqtt /\ \A o \in Ids : tracked'[o] = tracked[o] \/ tracked'[o] = None
    BY <1>3 DEF Next, Store, Tracker, TrackFrame, TrackerSync, Recycle, User, SetEnabled,
       SetMedia, RemoveCamera, AddCamera, Resize, Restart, vars, procVars
  <2>. QED  BY <1>1, <2>1
<1>. QED  BY <1>2, <1>3

\* On the events topic an object is first "new", since only its being a true positive makes
\* it heard of, and nothing follows its end: update is not called for an object that ended,
\* since the tracker no longer has it.
THEOREM MqttIsInOrder == ASSUME CamerasStayOn PROVE Spec => MqttInOrder
<1>1. ASSUME Sound, [Next]_vars, NEW o \in Ids, mqtt[o] = "end" PROVE mqtt'[o] = "end"
  <2>. USE DEF Sound
  <2>1. CASE Processor
    <3>1. ASSUME NEW i \in Ids, ForceEnd(i) \/ NewObject(i) \/ UpdateObject(i) \/ RemoveObject(i)
          PROVE  mqtt'[o] = "end"
      <4>1. UNCHANGED mqtt \/ \E obj \in TrackedObject : EndStep(i, obj) \/ UpdateStep(i, obj)
        BY <1>1, <3>1, SayingSteps DEF EndsInv, StartStep
      <4>2. ASSUME NEW obj \in TrackedObject, EndStep(i, obj) PROVE mqtt'[o] = "end"
        BY <1>1, <4>2, OrderTypes DEF EndStep
      <4>3. ASSUME NEW obj \in TrackedObject, UpdateStep(i, obj) PROVE mqtt'[o] = "end"
        <5>1. batch # None /\ i \in batch.ids
          BY <1>1, <4>3, OrderTypes DEF UpdateStep
        <5>2. i # o
          BY <1>1, <5>1 DEF OrderInv, OverGone, Over
        <5>. QED  BY <1>1, <4>3, <5>2, OrderTypes DEF UpdateStep
      <4>. QED  BY <1>1, <4>1, <4>2, <4>3
    <3>2. CASE ~(\E i \in Ids : ForceEnd(i) \/ NewObject(i) \/ UpdateObject(i) \/ RemoveObject(i))
      BY <1>1, <2>1, <3>2 DEF Processor, ProcNext, CheckForUpdates, CheckForUpdatesDies,
         ManageDisabled, ForceDone, FetchTimeout, FetchSkip, FetchBatch, UpdateDone, Cleanup,
         CleanupDies, CleanupDone
    <3>. QED  BY <3>1, <3>2
  <2>2. CASE ~Processor
    BY <1>1, <2>2 DEF Next, Store, Tracker, TrackFrame, TrackerSync, Recycle, User, SetEnabled,
       SetMedia, RemoveCamera, AddCamera, Resize, Restart, vars, procVars
  <2>. QED  BY <2>1, <2>2
<1>2. Init => TrackedTold
  BY DEF Init, ProcInit, TrackedTold
<1>3. Sound /\ TrackedTold /\ [Next]_vars => TrackedTold'
  BY NextTold DEF Sound
<1>4. Sound /\ TrackedTold /\ [Next]_vars => MqttStep
  BY <1>1, NextTold DEF Sound, FirstIsNew, MqttStep
<1>. QED  BY <1>2, <1>3, <1>4, SpecSound, PTL DEF Spec, MqttInOrder

-----------------------------------------------------------------------------
(* The Event table is an EventRecord.                                      *)

Stages == [o \in Ids |-> Stage(o)]

\* Handling one message saves the event, closes it, or leaves its stage alone.
LEMMA HandledStage ==
    ASSUME Sound, NEW m \in Message, HandleMessage(m)
    PROVE  UNCHANGED Stages \/ Record!Next
<1>1. PICK id \in Ids : id = m.id
  BY DEF Message
<1>2. \A o \in Ids \ {id} : Stage(o)' = Stage(o)
  BY <1>1, Handled DEF Sound, Stage
<1>3. CASE rows'[id] = rows[id]
  <2>1. \A o \in Ids : Stage(o)' = Stage(o)
    BY <1>2, <1>3 DEF Stage
  <2>. QED  BY <2>1 DEF Stages
<1>4. CASE rows'[id] # rows[id]
  <2>1. inProcess[id] # None /\ rows'[id] # None
    BY <1>1, <1>4, Handled DEF Sound
  <2>2. rows[id] = None \/ ~rows[id].ended
    BY <2>1 DEF Sound, OrderInv, Protocol
  <2>3. /\ Stage(id) = "unsaved" \/ Stage(id) = "open"
        /\ Stage(id)' = "open" \/ Stage(id)' = "closed"
    BY <2>1, <2>2 DEF Stage
  <2>4. Stages' = [Stages EXCEPT ![id] = Stage(id)']
    <3>. DEFINE s == Stage(id)'
    <3>1. \A o \in Ids : Stage(o)' = IF o = id THEN s ELSE Stage(o)
      BY <1>2
    <3>. HIDE DEF s
    <3>. QED  BY <3>1 DEF Stages
  <2>5. Stages[id] = Stage(id)
    BY DEF Stages
  <2>6. CASE Stage(id) = "unsaved"
    <3>1. Record!Save(id)
      BY <2>3, <2>4, <2>5, <2>6 DEF Record!Save, Stages
    <3>. QED  BY <3>1 DEF Record!Next
  <2>7. CASE Stage(id) = "open" /\ Stage(id)' = "closed"
    <3>1. Record!Close(id)
      BY <2>4, <2>5, <2>7 DEF Record!Close, Stages
    <3>. QED  BY <3>1 DEF Record!Next
  <2>8. CASE Stage(id) = "open" /\ Stage(id)' = "open"
    <3>1. \A o \in Ids : Stage(o)' = Stage(o)
      BY <1>2, <2>8
    <3>. QED  BY <3>1 DEF Stages
  <2>. QED  BY <2>3, <2>6, <2>7, <2>8
<1>. QED  BY <1>3, <1>4

\* Every step of the system is a step of EventRecord or leaves the stages alone.
LEMMA StepStage == ASSUME CamerasStayOn PROVE Sound /\ [Next]_vars => [Record!Next]_Stages
<1>. SUFFICES ASSUME Sound, [Next]_vars PROVE UNCHANGED Stages \/ Record!Next
  OBVIOUS
<1>1. CASE UNCHANGED rows
  <2>1. \A o \in Ids : Stage(o)' = Stage(o)
    BY <1>1 DEF Stage
  <2>. QED  BY <2>1 DEF Stages
<1>2. CASE Startup
  <2>1. \A o \in Ids : rows'[o] = Closed(rows[o])
    BY <1>2 DEF Startup
  <2>2. \A o \in Ids : rows[o] # None => rows[o] \in EventRow
    BY OrderTypes DEF Sound
  <2>3. \A o \in Ids : Stage(o)' = IF Stage(o) = "open" THEN "closed" ELSE Stage(o)
    <3>1. ASSUME NEW o \in Ids, rows[o] = None
          PROVE  Stage(o) = "unsaved" /\ Stage(o)' = "unsaved"
      BY <2>1, <3>1 DEF Stage, Closed
    <3>2. ASSUME NEW o \in Ids, rows[o] # None
          PROVE  Stage(o) \in {"open", "closed"} /\ Stage(o)' = "closed"
      <4>1. ASSUME NEW r \in EventRow PROVE Closed(r) # None /\ Closed(r).ended
        <5>1. [r EXCEPT !.ended = TRUE] \in EventRow /\ [r EXCEPT !.ended = TRUE].ended
          BY DEF EventRow
        <5>. QED  BY <5>1, NoneAssumption DEF Closed
      <4>2. rows'[o] # None /\ rows'[o].ended
        BY <2>1, <2>2, <3>2, <4>1
      <4>. QED  BY <3>2, <4>2 DEF Stage
    <3>. QED  BY <3>1, <3>2
  <2>4. Record!CloseAll
    BY <2>3 DEF Record!CloseAll, Stages
  <2>. QED  BY <2>4 DEF Record!Next
<1>3. ASSUME NEW m \in Message, HandleMessage(m) PROVE UNCHANGED Stages \/ Record!Next
  BY <1>3, HandledStage
<1>4. CASE Store
  BY <1>2, <1>3, <1>4, StoreStep DEF Sound
<1>5. CASE Processor
  <2>1. ASSUME NEW o \in Ids, ForceEnd(o) \/ NewObject(o) \/ UpdateObject(o) \/ RemoveObject(o)
        PROVE  UNCHANGED rows
    BY <2>1, PublishSteps DEF Sound
  <2>2. CASE \/ CheckForUpdates \/ CheckForUpdatesDies \/ ManageDisabled \/ ForceDone
             \/ FetchTimeout \/ FetchSkip \/ FetchBatch \/ UpdateDone \/ CleanupDone
    <3>1. UNCHANGED storeVars
      BY <2>2 DEF CheckForUpdates, CheckForUpdatesDies, ManageDisabled, ForceDone, FetchTimeout,
         FetchSkip, FetchBatch, UpdateDone, CleanupDone
    <3>. QED  BY <1>1, <3>1 DEF storeVars
  <2>3. CASE Cleanup \/ CleanupDies
    BY <1>1, <2>3 DEF Cleanup, CleanupDies
  <2>. QED  BY <1>1, <1>5, <2>1, <2>2, <2>3 DEF Processor, ProcNext
<1>6. CASE (\E c \in Cameras : Tracker(c)) \/ User \/ UNCHANGED vars
  <2>1. \A c \in Cameras : ~RemoveCamera(c)
    BY DEF CamerasStayOn, RemoveCamera, Op
  <2>. QED  BY <1>1, <1>6, <2>1 DEF Tracker, TrackFrame, TrackerSync, Recycle, User, SetEnabled,
               SetMedia, AddCamera, Resize, Restart, vars, storeVars
<1>. QED  BY <1>4, <1>5, <1>6 DEF Next

\* However the threads interleave and whenever the process is restarted, the row
\* of an event is saved once, closed once, and never opened again.
THEOREM TableIsRecord == ASSUME CamerasStayOn PROVE Spec => ImplementsEventRecord
<1>1. Init => Record!Init
  BY DEF Init, StoreInit, Record!Init, Stage
<1>2. Sound /\ [Next]_vars => [Record!Next]_([o \in Ids |-> Stage(o)])
  BY StepStage DEF Stages
<1>. QED  BY <1>1, <1>2, SpecSound, PTL DEF Spec, ImplementsEventRecord, Record!Spec

-----------------------------------------------------------------------------
(***************************************************************************)
(* What a row keeps.  The copy of an event in memory is replaced by a      *)
(* message that changes only fields kept in memory, whatever media that    *)
(* message has; the row then forgets media at the next write, and is not   *)
(* closed when the event ends without any.  It takes a medium that was     *)
(* turned off meanwhile, and such a message.                               *)
(***************************************************************************)
OneState == \A s, t \in States : s = t

\* Nobody turns a medium off, or no message changes only what is kept in memory.
MediaStay == Ops \subseteq {"restart"} \/ (CamerasStayOn /\ OneState)

\* The media of an object only grow, from the entry in process through the
\* messages that are queued to the object itself.
Growing ==
    \A o \in Ids :
        /\ \A i, j \in About(o) : i < j => eventQ[i].data.media \subseteq eventQ[j].data.media
        /\ \A i \in About(o) :
              /\ inProcess[o] # None => inProcess[o].media \subseteq eventQ[i].data.media
              /\ tracked[o] # None => eventQ[i].data.media \subseteq MediaOf(tracked[o])
        /\ tracked[o] # None /\ inProcess[o] # None =>
              inProcess[o].media \subseteq MediaOf(tracked[o])

\* What is queued starts with a start message or continues an event in process,
\* and an event in process has the media of its row.
Kept ==
    \A o \in Ids :
        /\ \A i \in Starting(o) : /\ rows[o] = None /\ inProcess[o] = None
                                  /\ \A j \in About(o) : i <= j
        /\ About(o) # {} => inProcess[o] # None \/ Starting(o) # {}
        /\ inProcess[o] # None => ~inProcess[o].ended
        /\ rows[o] # None => /\ rows[o].media # {}
                             /\ inProcess[o] # None => rows[o].media \subseteq inProcess[o].media

\* What Publish queues has the media it was given.
LEMMA PublishMedia ==
    ASSUME NEW type \in {"start", "update", "end"}, NEW o \in Ids,
           NEW obj \in TrackedObject, NEW media \in SUBSET Media,
           Publish(type, o, obj, media)
    PROVE  \E m \in Message : m.id = o /\ m.data.media = media /\ eventQ' = Append(eventQ, m)
<1>1. PICK d \in Details, s \in States :
        eventQ' = Append(eventQ,
                    [type |-> type, id |-> o, cam |-> obj.cam,
                     data |-> [ended |-> obj.ended, media |-> media,
                               det |-> d, st |-> s]])
  BY DEF Publish
<1>. DEFINE m == [type |-> type, id |-> o, cam |-> obj.cam,
                  data |-> [ended |-> obj.ended, media |-> media, det |-> d, st |-> s]]
<1>2. m \in Message
  BY DEF Message, EventData, TrackedObject
<1>3. m.id = o /\ m.data.media = media
  OBVIOUS
<1>. QED  BY <1>1, <1>2, <1>3

\* What is said of an object is the media it has by then, which only grow.
LEMMA SayingMedia ==
    ASSUME TypeInv, NEW o \in Ids,
           ForceEnd(o) \/ NewObject(o) \/ UpdateObject(o) \/ RemoveObject(o)
    PROVE  \/ UNCHANGED <<tracked, eventQ>>
           \/ \E obj \in TrackedObject :
                /\ tracked' = [tracked EXCEPT ![o] = obj]
                /\ tracked[o] # None => MediaOf(tracked[o]) \subseteq MediaOf(obj)
                /\ \/ UNCHANGED eventQ
                   \/ \E m \in Message : /\ m.id = o /\ m.data.media = MediaOf(obj)
                                         /\ eventQ' = Append(eventQ, m)
<1>. DEFINE Goal(obj) ==
       /\ tracked' = [tracked EXCEPT ![o] = obj]
       /\ tracked[o] # None => MediaOf(tracked[o]) \subseteq MediaOf(obj)
       /\ \/ UNCHANGED eventQ
          \/ \E m \in Message : /\ m.id = o /\ m.data.media = MediaOf(obj)
                                /\ eventQ' = Append(eventQ, m)
<1>0. TypeOK /\ (tracked[o] # None => tracked[o] \in TrackedObject)
  BY OrderTypes DEF TypeInv
<1>1. ASSUME tracked[o] # None, PublishEnd(o, [tracked[o] EXCEPT !.ended = TRUE])
      PROVE  \E obj \in TrackedObject : Goal(obj)
  <2>. DEFINE obj == [tracked[o] EXCEPT !.ended = TRUE]
  <2>1. obj \in TrackedObject /\ obj.cam = tracked[o].cam /\ obj.tp = tracked[o].tp
        /\ obj.worthy = tracked[o].worthy
    BY <1>0, <1>1 DEF TrackedObject
  <2>2. Publish("end", o, obj, MediaOf(obj)) /\ tracked' = [tracked EXCEPT ![o] = obj]
    BY <1>1 DEF PublishEnd
  <2>. HIDE DEF obj
  <2>3. MediaOf(obj) = MediaOf(tracked[o])
    BY <2>1 DEF MediaOf
  <2>4. MediaOf(obj) \in SUBSET Media
    BY <1>0, <2>1, MediaOfType
  <2>5. \E m \in Message : m.id = o /\ m.data.media = MediaOf(obj) /\ eventQ' = Append(eventQ, m)
    BY <2>1, <2>2, <2>4, PublishMedia
  <2>6. Goal(obj)
    BY <2>2, <2>3, <2>5
  <2>. QED  BY <2>1, <2>6
<1>2. ASSUME NewObject(o) PROVE \E obj \in TrackedObject : Goal(obj)
  <2>. DEFINE obj == [cam |-> batch.cam, ended |-> FALSE, tp |-> FALSE, worthy |-> {}]
  <2>1. obj \in TrackedObject /\ ~obj.tp
    BY <1>2, OrderTypes DEF NewObject, TrackedObject
  <2>2. Publish("start", o, obj, {}) /\ tracked' = [tracked EXCEPT ![o] = obj] /\ tracked[o] = None
    BY <1>2 DEF NewObject, NewIds
  <2>. HIDE DEF obj
  <2>3. MediaOf(obj) = {}
    BY <2>1 DEF MediaOf
  <2>4. \E m \in Message : m.id = o /\ m.data.media = MediaOf(obj) /\ eventQ' = Append(eventQ, m)
    BY <2>1, <2>2, <2>3, PublishMedia
  <2>5. Goal(obj)
    BY <2>2, <2>4
  <2>. QED  BY <2>1, <2>5
<1>3. ASSUME UpdateObject(o) PROVE \E obj \in TrackedObject : Goal(obj)
  <2>1. PICK tp \in BOOLEAN, worthy \in SUBSET Media, publish \in BOOLEAN :
          LET obj == [tracked[o] EXCEPT !.tp = tp, !.worthy = worthy]
          IN  /\ tracked[o].tp => tp
              /\ tracked[o].worthy \subseteq worthy
              /\ tracked' = [tracked EXCEPT ![o] = obj]
              /\ Publish("update", o, obj, MediaOf(obj)) \/ UNCHANGED eventQ
    BY <1>3 DEF UpdateObject
  <2>. DEFINE obj == [tracked[o] EXCEPT !.tp = tp, !.worthy = worthy]
  <2>2. tracked[o] # None
    BY <1>3 DEF UpdateObject, UpdatedIds
  <2>3. obj \in TrackedObject /\ obj.cam = tracked[o].cam /\ obj.tp = tp /\ obj.worthy = worthy
    BY <1>0, <2>2 DEF TrackedObject
  <2>4. /\ tracked[o].tp => tp
        /\ tracked[o].worthy \subseteq worthy
        /\ tracked' = [tracked EXCEPT ![o] = obj]
        /\ Publish("update", o, obj, MediaOf(obj)) \/ UNCHANGED eventQ
    BY <2>1
  <2>. HIDE DEF obj
  <2>5. MediaOf(tracked[o]) \subseteq MediaOf(obj)
    BY <2>3, <2>4 DEF MediaOf
  <2>6. MediaOf(obj) \in SUBSET Media
    BY <1>0, <2>3, MediaOfType
  <2>7. UNCHANGED eventQ
        \/ \E m \in Message : m.id = o /\ m.data.media = MediaOf(obj) /\ eventQ' = Append(eventQ, m)
    BY <2>3, <2>4, <2>6, PublishMedia
  <2>8. Goal(obj)
    BY <2>4, <2>5, <2>7
  <2>. QED  BY <2>3, <2>8
<1>4. ASSUME ForceEnd(o), tracked[o] # None PROVE \E obj \in TrackedObject : Goal(obj)
  BY <1>1, <1>4 DEF ForceEnd
<1>5. ASSUME RemoveObject(o)
      PROVE  UNCHANGED <<tracked, eventQ>> \/ \E obj \in TrackedObject : Goal(obj)
  BY <1>1, <1>5 DEF RemoveObject, MustEnd
<1>6. ForceEnd(o) => tracked[o] # None
  BY DEF ForceEnd, TypeInv, ForceTodo
<1>. QED  BY <1>2, <1>3, <1>4, <1>5, <1>6

\* A step that neither says anything nor changes an object it does not forget.
LEMMA GrowingFrame ==
    ASSUME Growing, UNCHANGED <<keep, eventQ, inProcess>>,
           \A o \in Ids : tracked'[o] = tracked[o] \/ tracked'[o] = None
    PROVE  Growing'
<1>1. \A o : About(o)' = About(o)
  BY DEF About
<1>2. \A obj : MediaOf(obj)' = MediaOf(obj)
  BY DEF MediaOf
<1>. QED  BY <1>1, <1>2 DEF Growing

\* A new message has all the media of those before it.
LEMMA SayingGrowing ==
    ASSUME Sound, Growing, NEW o \in Ids,
           ForceEnd(o) \/ NewObject(o) \/ UpdateObject(o) \/ RemoveObject(o)
    PROVE  Growing'
<1>0. UNCHANGED <<keep, inProcess>>
  BY SayingSteps DEF Sound, EndsInv, configVars
<1>1. CASE UNCHANGED <<tracked, eventQ>>
  BY <1>0, <1>1, GrowingFrame
<1>2. ASSUME NEW obj \in TrackedObject, tracked' = [tracked EXCEPT ![o] = obj],
             tracked[o] # None => MediaOf(tracked[o]) \subseteq MediaOf(obj),
             \/ UNCHANGED eventQ
             \/ \E m \in Message : /\ m.id = o /\ m.data.media = MediaOf(obj)
                                   /\ eventQ' = Append(eventQ, m)
      PROVE  Growing'
  <2>1. /\ tracked'[o] = obj /\ obj # None
        /\ \A i \in Ids \ {o} : tracked'[i] = tracked[i]
    BY <1>2, OrderTypes DEF Sound
  <2>2. \A x : MediaOf(x)' = MediaOf(x)
    BY <1>0 DEF MediaOf
  <2>3. tracked[o] = None => About(o) = {} /\ inProcess[o] = None
    BY DEF Sound, OrderInv, Protocol, Forgotten
  <2>4. /\ \A i \in About(o) : eventQ[i].data.media \subseteq MediaOf(obj)
        /\ inProcess[o] # None => inProcess[o].media \subseteq MediaOf(obj)
    BY <1>2, <2>3 DEF Growing
  <2>5. CASE UNCHANGED eventQ
    <3>1. \A i \in Ids : About(i)' = About(i)
      BY <2>5 DEF About
    <3>. QED  BY <1>0, <2>1, <2>2, <2>4, <2>5, <3>1 DEF Growing
  <2>6. ASSUME NEW m \in Message, m.id = o, m.data.media = MediaOf(obj),
               eventQ' = Append(eventQ, m)
        PROVE  Growing'
    <3>1. PICK n \in Nat :
            /\ DOMAIN eventQ' = (DOMAIN eventQ) \cup {n}
            /\ \A i \in DOMAIN eventQ : i \in Nat /\ i < n /\ eventQ'[i] = eventQ[i]
            /\ eventQ'[n] = m
      <4>1. eventQ \in Seq(Message)
        BY OrderTypes DEF Sound
      <4>2. Len(eventQ) + 1 \in Nat
        BY <4>1
      <4>. QED  BY <2>6, <4>1, <4>2, AppendAt
    <3>2. \A i \in Ids : /\ About(i)' = IF i = o THEN About(i) \cup {n} ELSE About(i)
                         /\ \A j \in About(i) : j \in Nat /\ j < n /\ eventQ'[j] = eventQ[j]
      BY <2>6, <3>1 DEF About
    <3>3. ASSUME NEW i \in Ids \ {o}
          PROVE  /\ About(i)' = About(i) /\ inProcess'[i] = inProcess[i]
                 /\ tracked'[i] = tracked[i]
                 /\ \A j \in About(i) : eventQ'[j] = eventQ[j]
      BY <1>0, <2>1, <3>2
    <3>4. /\ About(o)' = About(o) \cup {n} /\ eventQ'[n].data.media = MediaOf(obj)
          /\ \A j \in About(o) : j \in Nat /\ j < n /\ eventQ'[j] = eventQ[j]
      BY <2>6, <3>1, <3>2
    <3>5. \A i, j \in About(o)' : i < j => eventQ'[i].data.media \subseteq eventQ'[j].data.media
      <4>. SUFFICES ASSUME NEW i \in About(o)', NEW j \in About(o)', i < j
                    PROVE  eventQ'[i].data.media \subseteq eventQ'[j].data.media
        OBVIOUS
      <4>1. i \in About(o)
        BY <3>4
      <4>2. CASE j = n
        BY <2>4, <3>4, <4>1, <4>2
      <4>3. CASE j \in About(o)
        BY <3>4, <4>1, <4>3 DEF Growing
      <4>. QED  BY <3>4, <4>2, <4>3
    <3>6. \A i \in About(o)' :
             /\ inProcess'[o] # None => inProcess'[o].media \subseteq eventQ'[i].data.media
             /\ eventQ'[i].data.media \subseteq MediaOf(obj)
      <4>1. ASSUME NEW i \in About(o)
            PROVE  /\ inProcess[o] # None => inProcess[o].media \subseteq eventQ[i].data.media
                   /\ eventQ[i].data.media \subseteq MediaOf(obj)
        BY <2>4 DEF Growing
      <4>. QED  BY <1>0, <2>4, <3>4, <4>1
    <3>7. inProcess'[o] # None => inProcess'[o].media \subseteq MediaOf(obj)
      BY <1>0, <2>4
    <3>. QED  BY <2>1, <2>2, <3>3, <3>5, <3>6, <3>7 DEF Growing
  <2>. QED  BY <1>2, <2>5, <2>6
<1>. QED  BY <1>1, <1>2, SayingMedia DEF Sound

\* The message the EventProcessor handles next, and what it can rely on.
LEMMA HeadMessage ==
    ASSUME Sound, Store, ~Startup
    PROVE  \E m \in Message :
              /\ started /\ UNCHANGED <<started, tracked, keep, mqtt>>
              /\ 1 \in About(m.id) /\ eventQ[1] = m
              /\ m.type = "start" => 1 \in Starting(m.id)
              /\ \A i \in DOMAIN eventQ' : i \in Nat \ {0} /\ i + 1 \in DOMAIN eventQ
                                           /\ eventQ'[i] = eventQ[i + 1]
              /\ \A o \in Ids : /\ \A i \in About(o)' : i \in Nat \ {0} /\ i + 1 \in About(o)
                                /\ \A i \in Starting(o)' : i \in Nat \ {0} /\ i + 1 \in Starting(o)
                                /\ \A i \in Starting(o) : i # 1 => i - 1 \in Starting(o)'
              /\ m.data.ended <=> m.type = "end"
              /\ HandleMessage(m)
<1>1. UNCHANGED <<tracked, keep, mqtt>>
  BY StoreStep DEF Sound, configVars, procVars
<1>2. PICK m \in Message :
        /\ started /\ UNCHANGED started
        /\ 1 \in DOMAIN eventQ /\ eventQ[1] = m
        /\ \A i \in DOMAIN eventQ' : i \in Nat \ {0} /\ i + 1 \in DOMAIN eventQ
                                     /\ eventQ'[i] = eventQ[i + 1]
        /\ \A i \in DOMAIN eventQ : /\ i \in Nat \ {0}
                                    /\ i # 1 => /\ i - 1 \in DOMAIN eventQ'
                                                /\ eventQ'[i - 1] = eventQ[i]
        /\ HandleMessage(m)
  BY StoreStep DEF Sound
<1>3. \A o \in Ids : /\ \A i \in About(o)' : i \in Nat \ {0} /\ i + 1 \in About(o)
                     /\ \A i \in Starting(o)' : i \in Nat \ {0} /\ i + 1 \in Starting(o)
                     /\ \A i \in Starting(o) : i # 1 => i - 1 \in Starting(o)'
  BY <1>2 DEF About, Starting
<1>4. 1 \in About(m.id) /\ (m.type = "start" => 1 \in Starting(m.id))
  BY <1>2 DEF About, Starting
<1>5. m.data.ended <=> m.type = "end"
  BY <1>2 DEF Sound, OrderInv, EndedSaid
<1>. QED  BY <1>1, <1>2, <1>3, <1>4, <1>5

\* The media of the entry handling a message leaves in memory.
LEMMA EntryMedia ==
    ASSUME TypeInv, NEW m \in Message, HandleMessage(m), inProcess'[m.id] # None
    PROVE  /\ inProcess'[m.id] \in EventData
           /\ m.type = "start" \/ inProcess[m.id] = None =>
                UNCHANGED rows /\ inProcess'[m.id] = m.data
           /\ m.type # "start" /\ inProcess[m.id] # None =>
                \/ inProcess'[m.id] = inProcess[m.id] /\ UNCHANGED rows
                \/ /\ inProcess[m.id].st # m.data.st /\ UNCHANGED rows
                   /\ inProcess'[m.id] = m.data
                \/ /\ inProcess'[m.id].media = m.data.media \cup inProcess[m.id].media
                   /\ inProcess'[m.id].media # {}
                   /\ inProcess'[m.id].ended = m.data.ended
                   /\ rows'[m.id].media = inProcess'[m.id].media
<1>1. /\ m.id \in Ids /\ m.data \in EventData
      /\ inProcess \in [Ids -> EventData \cup {None}] /\ rows \in [Ids -> EventRow \cup {None}]
  BY DEF Message, TypeInv, TypeOK, StoreTypeOK
<1>2. CASE StoreFirst(m)
  BY <1>1, <1>2 DEF StoreFirst
<1>3. CASE IgnoreUnconfigured(m)
  BY <1>1, <1>3 DEF IgnoreUnconfigured, Later
<1>4. CASE HandleObjectDetection(m)
  <2>. DEFINE prev == inProcess[m.id]  cur == m.data
  <2>1. /\ prev \in EventData /\ prev # None /\ m.type # "start"
        /\ inProcess' = [inProcess EXCEPT ![m.id] = EntryAfter(m, prev)]
        /\ rows' = IF ShouldUpdateDb(prev, cur)
                     THEN [rows EXCEPT ![m.id] = RowOf(Merged(prev, cur))] ELSE rows
    BY <1>1, <1>4 DEF HandleObjectDetection, Later
  <2>2. inProcess'[m.id] = EntryAfter(m, prev) /\ m.type # "end"
    BY <1>1, <2>1 DEF EntryAfter
  <2>3. CASE ShouldUpdateDb(prev, cur)
    <3>1. EntryAfter(m, prev) = Merged(prev, cur) /\ rows'[m.id] = RowOf(Merged(prev, cur))
      BY <1>1, <2>1, <2>2, <2>3 DEF EntryAfter
    <3>2. /\ Merged(prev, cur) \in EventData
          /\ Merged(prev, cur).media = cur.media \cup prev.media
          /\ Merged(prev, cur).ended = cur.ended
      BY <1>1, <2>1, <2>3 DEF Merged, EventData
    <3>3. cur.media \cup prev.media # {}
      BY <2>3 DEF ShouldUpdateDb
    <3>4. RowOf(Merged(prev, cur)).media = Merged(prev, cur).media
      BY DEF RowOf
    <3>. QED  BY <2>1, <2>2, <3>1, <3>2, <3>3, <3>4
  <2>4. CASE ~ShouldUpdateDb(prev, cur)
    <3>1. Merged(prev, cur) = cur /\ UNCHANGED rows
      BY <2>1, <2>4 DEF Merged
    <3>. QED  BY <1>1, <2>1, <2>2, <2>4, <3>1 DEF EntryAfter, ShouldUpdateState
  <2>. QED  BY <2>3, <2>4
<1>. QED  BY <1>2, <1>3, <1>4 DEF HandleMessage

\* The entry in process has no media that later messages lack.
LEMMA StoreGrowing == ASSUME Sound, Growing, Store PROVE Growing'
<1>1. CASE Startup
  <2>1. UNCHANGED <<keep, eventQ, inProcess, tracked>>
    BY <1>1, StoreStep DEF Sound, Startup, configVars, procVars
  <2>. QED  BY <2>1, GrowingFrame
<1>2. ASSUME ~Startup PROVE Growing'
  <2>1. PICK m \in Message :
          /\ UNCHANGED <<tracked, keep>>
          /\ 1 \in About(m.id) /\ eventQ[1] = m
          /\ \A i \in DOMAIN eventQ' : eventQ'[i] = eventQ[i + 1]
          /\ \A o \in Ids : \A i \in About(o)' : i \in Nat \ {0} /\ i + 1 \in About(o)
          /\ HandleMessage(m)
    BY <1>2, HeadMessage
  <2>2. PICK id \in Ids : id = m.id
    BY DEF Message
  <2>3. \A o \in Ids \ {id} : inProcess'[o] = inProcess[o]
    BY <2>1, <2>2, Handled DEF Sound
  <2>4. inProcess'[id] # None => inProcess'[id].media \subseteq m.data.media
    <3>1. inProcess[id] # None => inProcess[id].media \subseteq m.data.media
      BY <2>1, <2>2 DEF Growing
    <3>. QED  BY <2>1, <2>2, <3>1, EntryMedia DEF Sound
  <2>5. \A x : MediaOf(x)' = MediaOf(x)
    BY <2>1 DEF MediaOf
  <2>6. \A o \in Ids : \A i \in About(o)' : /\ i \in Nat \ {0} /\ i + 1 \in About(o)
                                            /\ eventQ'[i] = eventQ[i + 1]
    BY <2>1 DEF About
  <2>7. \A o \in Ids : \A i, j \in About(o)' :
           i < j => eventQ'[i].data.media \subseteq eventQ'[j].data.media
    <3>. SUFFICES ASSUME NEW o \in Ids, NEW i \in About(o)', NEW j \in About(o)', i < j
                  PROVE  eventQ'[i].data.media \subseteq eventQ'[j].data.media
      OBVIOUS
    <3>1. i + 1 \in About(o) /\ j + 1 \in About(o) /\ i + 1 < j + 1
      BY <2>6
    <3>. QED  BY <2>6, <3>1 DEF Growing
  <2>8. \A o \in Ids \ {id} : \A i \in About(o)' :
           inProcess'[o] # None => inProcess'[o].media \subseteq eventQ'[i].data.media
    BY <2>3, <2>6 DEF Growing
  <2>9. \A i \in About(id)' :
           inProcess'[id] # None => inProcess'[id].media \subseteq eventQ'[i].data.media
    <3>. SUFFICES ASSUME NEW i \in About(id)' PROVE m.data.media \subseteq eventQ'[i].data.media
      BY <2>4
    <3>1. i + 1 \in About(id) /\ 1 < i + 1 /\ eventQ'[i] = eventQ[i + 1]
      BY <2>6
    <3>. QED  BY <2>1, <2>2, <3>1 DEF Growing
  <2>10. \A o \in Ids : \A i \in About(o)' :
            tracked'[o] # None => eventQ'[i].data.media \subseteq MediaOf(tracked[o])
    BY <2>1, <2>6 DEF Growing
  <2>11. \A o \in Ids : tracked[o] # None /\ inProcess'[o] # None =>
            inProcess'[o].media \subseteq MediaOf(tracked[o])
    <3>1. tracked[id] # None => m.data.media \subseteq MediaOf(tracked[id])
      BY <2>1, <2>2 DEF Growing
    <3>. QED  BY <2>3, <2>4, <3>1 DEF Growing
  <2>. QED  BY <2>1, <2>5, <2>7, <2>8, <2>9, <2>10, <2>11 DEF Growing
<1>. QED  BY <1>1, <1>2

\* While no medium is turned off, media only grow.
LEMMA NextGrowing ==
    ASSUME Ops \subseteq {"restart"}, Sound, Growing, [Next]_vars PROVE Growing'
<1>1. CASE Store
  BY <1>1, StoreGrowing
<1>2. CASE Processor
  <2>1. ASSUME NEW o \in Ids, ForceEnd(o) \/ NewObject(o) \/ UpdateObject(o) \/ RemoveObject(o)
        PROVE  Growing'
    BY <2>1, SayingGrowing
  <2>2. CASE \/ CheckForUpdates \/ CheckForUpdatesDies \/ ManageDisabled \/ ForceDone
             \/ FetchTimeout \/ FetchSkip \/ FetchBatch \/ UpdateDone \/ CleanupDone
    <3>1. UNCHANGED <<keep, storeVars, tracked>>
      BY <1>2, <2>2, ProcessorUnchanging DEF Sound, CheckForUpdates, CheckForUpdatesDies,
         ManageDisabled, ForceDone, FetchTimeout, FetchSkip, FetchBatch, UpdateDone, CleanupDone,
         configVars
    <3>. QED  BY <3>1, GrowingFrame DEF storeVars
  <2>3. CASE Cleanup \/ CleanupDies
    <3>1. /\ UNCHANGED <<keep, eventQ, inProcess>>
          /\ \A o \in Ids : tracked'[o] = tracked[o] \/ tracked'[o] = None
      BY <2>3, OrderTypes DEF Sound, Cleanup, CleanupDies, configVars
    <3>. QED  BY <3>1, GrowingFrame
  <2>. QED  BY <1>2, <2>1, <2>2, <2>3 DEF Processor, ProcNext
<1>3. CASE (\E c \in Cameras : Tracker(c)) \/ UNCHANGED vars
  <2>1. UNCHANGED <<keep, eventQ, inProcess, tracked>>
    BY <1>3 DEF Tracker, TrackFrame, TrackerSync, Recycle, vars, storeVars, configVars, procVars
  <2>. QED  BY <2>1, GrowingFrame
<1>4. CASE User
  <2>1. Restart
    BY <1>4 DEF User, SetEnabled, SetMedia, RemoveCamera, AddCamera, Resize, Op
  <2>. QED  BY <2>1 DEF Restart, Growing, About
<1>. QED  BY <1>1, <1>2, <1>3, <1>4 DEF Next

\* Whatever a message that is not written has in memory replaced, its media are
\* no fewer.
Grown == Growing \/ OneState

\* A message that changes what is kept in memory takes no medium away.
LEMMA NoneTaken ==
    ASSUME TypeInv, Grown, NEW m \in Message, 1 \in About(m.id), eventQ[1] = m
    PROVE  inProcess[m.id] # None =>
             inProcess[m.id].media \subseteq m.data.media \/ inProcess[m.id].st = m.data.st
<1>1. m.id \in Ids /\ m.data.st \in States
  BY DEF Message, EventData
<1>2. inProcess[m.id] # None => inProcess[m.id].st \in States
  BY <1>1, OrderTypes DEF EventData
<1>. QED  BY <1>1, <1>2 DEF Grown, Growing, OneState

\* A step that leaves the messages, the entries and the table alone.
LEMMA KeptFrame ==
    ASSUME Kept, UNCHANGED <<eventQ, inProcess, rows>> PROVE Kept'
<1>1. \A o : About(o)' = About(o) /\ Starting(o)' = Starting(o)
  BY DEF About, Starting
<1>. QED  BY <1>1 DEF Kept

\* A start is said of an object nothing is queued or stored of; a change and an
\* end of one that is live.
LEMMA SayingKept ==
    ASSUME Sound, LiveInv, Kept, NEW o \in Ids,
           ForceEnd(o) \/ NewObject(o) \/ UpdateObject(o) \/ RemoveObject(o)
    PROVE  Kept'
<1>0. UNCHANGED <<inProcess, rows>>
  BY SayingSteps DEF Sound, EndsInv
<1>1. CASE UNCHANGED eventQ
  BY <1>0, <1>1, KeptFrame
<1>2. ASSUME NEW obj \in TrackedObject, NEW type, Said(type, o, obj),
             type = "start" => About(o) = {} /\ inProcess[o] = None /\ rows[o] = None,
             type # "start" => Live(o)
      PROVE  Kept'
  <2>1. PICK n \in Nat :
          /\ DOMAIN eventQ' = (DOMAIN eventQ) \cup {n}
          /\ \A i \in DOMAIN eventQ : i \in Nat /\ i < n /\ eventQ'[i] = eventQ[i]
          /\ eventQ'[n].type = type /\ eventQ'[n].id = o
    BY <1>2, SaidAt DEF Sound
  <2>2. \A i \in Ids : /\ About(i)' = IF i = o THEN About(i) \cup {n} ELSE About(i)
                       /\ Starting(i)' = IF i = o /\ type = "start"
                                           THEN Starting(i) \cup {n} ELSE Starting(i)
                       /\ Starting(i) \subseteq About(i)
                       /\ \A j \in About(i) : j \in Nat /\ j < n
    BY <2>1 DEF About, Starting
  <2>3. CASE type = "start"
    <3>1. About(o)' = {n} /\ Starting(o)' = {n}
      BY <1>2, <2>2, <2>3
    <3>. QED  BY <1>0, <1>2, <2>2, <2>3, <3>1 DEF Kept
  <2>4. CASE type # "start"
    <3>1. inProcess[o] # None \/ Starting(o) # {}
      BY <1>2, <2>4 DEF LiveInv, LiveEntry
    <3>2. \A i \in Ids : Starting(i)' = Starting(i)
      BY <2>2, <2>4
    <3>3. \A i \in Ids \ {o} : About(i)' = About(i)
      BY <2>2
    <3>4. \A i \in Starting(o) : \A j \in About(o)' : i <= j
      BY <2>2 DEF Kept
    <3>. QED  BY <1>0, <3>1, <3>2, <3>3, <3>4 DEF Kept
  <2>. QED  BY <2>3, <2>4
<1>3. ASSUME NEW obj \in TrackedObject, StartStep(o, obj) PROVE Kept'
  <2>1. o \in batch.ids /\ batch # None /\ Forgotten(o)
    BY <1>3, OrderTypes DEF StartStep, Sound
  <2>2. About(o) = {} /\ inProcess[o] = None /\ rows[o] = None
    BY <2>1 DEF Sound, OrderInv, Protocol, OverGone, Over
  <2>. QED  BY <1>2, <1>3, <2>2 DEF StartStep
<1>4. ASSUME NEW obj \in TrackedObject, UpdateStep(o, obj) PROVE Kept'
  <2>1. o \in batch.ids /\ batch # None /\ ~Forgotten(o)
    BY <1>4, OrderTypes DEF UpdateStep, Sound
  <2>2. Live(o)
    BY <2>1 DEF Sound, OrderInv, OverGone, Over, Live, Forgotten
  <2>. QED  BY <1>1, <1>2, <1>4, <2>2 DEF UpdateStep
<1>5. ASSUME NEW obj \in TrackedObject, EndStep(o, obj) PROVE Kept'
  BY <1>2, <1>5 DEF EndStep
<1>. QED  BY <1>1, <1>3, <1>4, <1>5, SayingSteps DEF Sound, EndsInv

\* What handling a message does to the row of its event and to the entry.
LEMMA HandledKept ==
    ASSUME Sound, Grown, Kept, NEW m \in Message, HandleMessage(m),
           1 \in About(m.id), eventQ[1] = m,
           m.type = "start" => 1 \in Starting(m.id),
           m.data.ended <=> m.type = "end"
    PROVE  /\ rows'[m.id] # None => rows'[m.id].media # {}
           /\ rows[m.id] # None =>
                /\ rows'[m.id] # None /\ rows[m.id].media \subseteq rows'[m.id].media
                /\ inProcess'[m.id] = None => rows'[m.id].ended
           /\ inProcess'[m.id] # None =>
                /\ ~inProcess'[m.id].ended
                /\ rows'[m.id] # None => rows'[m.id].media \subseteq inProcess'[m.id].media
<1>. DEFINE id == m.id  prev == inProcess[id]  cur == m.data
<1>0. /\ id \in Ids /\ cur \in EventData
      /\ inProcess \in [Ids -> EventData \cup {None}] /\ rows \in [Ids -> EventRow \cup {None}]
  BY OrderTypes DEF Message, Sound
<1>1. prev # None => Starting(id) = {} /\ m.type # "start"
  BY <1>0 DEF Kept
<1>2. prev = None => m.type = "start"
  <2>. SUFFICES ASSUME prev = None PROVE m.type = "start"
    OBVIOUS
  <2>1. PICK i \in Starting(id) : TRUE
    BY <1>0 DEF Kept
  <2>2. i <= 1 /\ i \in Nat \ {0}
    <3>1. eventQ \in Seq(Message)
      BY OrderTypes DEF Sound
    <3>. QED  BY <1>0, <3>1 DEF Kept, Starting
  <2>3. i = 1
    BY <2>2
  <2>. QED  BY <2>3 DEF Starting
<1>3. CASE prev = None
  <2>1. rows[id] = None
    BY <1>0, <1>2, <1>3 DEF Kept
  <2>2. StoreFirst(m)
    BY <1>3 DEF HandleMessage, IgnoreUnconfigured, HandleObjectDetection, Later
  <2>3. UNCHANGED rows /\ inProcess'[id] = cur /\ cur # None
    BY <1>0, <2>2, NoneAssumption DEF StoreFirst
  <2>. QED  BY <1>2, <1>3, <2>1, <2>3
<1>4. CASE prev # None
  <2>0. /\ m.type # "start" /\ prev \in EventData /\ ~prev.ended
        /\ rows[id] # None => rows[id].media # {} /\ rows[id].media \subseteq prev.media
    BY <1>0, <1>1, <1>4 DEF Kept
  <2>1. CASE inProcess'[id] # None
    <3>1. \/ inProcess'[id] = prev /\ UNCHANGED rows
          \/ prev.st # cur.st /\ UNCHANGED rows /\ inProcess'[id] = cur
          \/ /\ inProcess'[id].media = cur.media \cup prev.media
             /\ inProcess'[id].media # {}
             /\ inProcess'[id].ended = cur.ended
             /\ rows'[id].media = inProcess'[id].media
      BY <1>4, <2>0, <2>1, EntryMedia DEF Sound
    <3>2. ~cur.ended
      <4>1. m.type = "end" => inProcess'[id] = None
        <5>1. HandleObjectDetection(m) /\ m.type = "end" => inProcess'[id] = None
          BY <1>0 DEF HandleObjectDetection, EntryAfter
        <5>2. ~StoreFirst(m)
          BY <1>4, <2>0 DEF StoreFirst
        <5>3. ~IgnoreUnconfigured(m)
          BY DEF IgnoreUnconfigured, Sound, Unchanging, Message
        <5>. QED  BY <5>1, <5>2, <5>3 DEF HandleMessage
      <4>. QED  BY <2>1, <4>1
    <3>3. prev.media \subseteq cur.media \/ prev.st = cur.st
      BY <1>4, NoneTaken DEF Sound
    <3>4. rows[id] # None => rows'[id] # None
      BY <1>0, Handled DEF Sound
    <3>. QED  BY <2>0, <2>1, <3>1, <3>2, <3>3, <3>4
  <2>2. CASE inProcess'[id] = None
    <3>1. m.type = "end" /\ cur.ended
      BY <2>2, Handled DEF Sound
    <3>2. HandleObjectDetection(m)
      <4>1. ~IgnoreUnconfigured(m)
        BY <1>4, <2>2 DEF IgnoreUnconfigured
      <4>2. ~StoreFirst(m)
        BY <1>4, <2>0 DEF StoreFirst
      <4>. QED  BY <4>1, <4>2 DEF HandleMessage
    <3>3. rows' = IF ShouldUpdateDb(prev, cur)
                    THEN [rows EXCEPT ![id] = RowOf(Merged(prev, cur))] ELSE rows
      BY <3>2 DEF HandleObjectDetection
    <3>4. rows[id] # None => ShouldUpdateDb(prev, cur)
      BY <2>0, <3>1 DEF ShouldUpdateDb
    <3>5. CASE ShouldUpdateDb(prev, cur)
      <4>1. rows'[id] = RowOf(Merged(prev, cur))
        BY <1>0, <3>3, <3>5
      <4>2. /\ Merged(prev, cur).media = cur.media \cup prev.media
            /\ Merged(prev, cur).ended = cur.ended
        BY <1>0, <3>5 DEF Merged, EventData
      <4>3. /\ rows'[id].media = cur.media \cup prev.media /\ rows'[id].ended
            /\ cur.media \cup prev.media # {}
        <5>1. /\ RowOf(Merged(prev, cur)).media = Merged(prev, cur).media
              /\ RowOf(Merged(prev, cur)).ended = Merged(prev, cur).ended
          BY DEF RowOf
        <5>2. cur.media # {} \/ prev.media # {}
          BY <3>5 DEF ShouldUpdateDb
        <5>. HIDE DEF id, prev, cur
        <5>. QED  BY <3>1, <4>1, <4>2, <5>1, <5>2
      <4>4. rows'[id] # None
        BY <1>0, <2>0, <4>1, StoreOperators, NoneAssumption
      <4>. QED  BY <2>0, <2>2, <4>3, <4>4
    <3>6. CASE ~ShouldUpdateDb(prev, cur)
      BY <2>2, <3>3, <3>4, <3>6
    <3>. QED  BY <3>5, <3>6
  <2>. QED  BY <2>1, <2>2
<1>. QED  BY <1>3, <1>4

\* What one step does to the rows and the entries of the EventProcessor.
RowsStep ==
    \A o \in Ids :
        /\ rows[o] # None => rows'[o] # None /\ rows[o].media \subseteq rows'[o].media
        /\ started /\ started' /\ inProcess[o] # None /\ inProcess'[o] = None /\ rows[o] # None =>
              rows'[o].ended

\* The EventProcessor never takes media from a row, and closes it at the end.
LEMMA StoreKept == ASSUME Sound, Grown, Kept, Store PROVE Kept' /\ RowsStep
<1>1. CASE Startup
  <2>1. /\ UNCHANGED <<eventQ, inProcess>> /\ ~started
        /\ \A o \in Ids : rows'[o] = Closed(rows[o])
    BY <1>1 DEF Startup
  <2>2. \A o : About(o)' = About(o) /\ Starting(o)' = Starting(o)
    BY <2>1 DEF About, Starting
  <2>3. \A o \in Ids : /\ rows[o] = None => rows'[o] = None
                       /\ rows[o] # None => rows'[o] # None /\ rows'[o].media = rows[o].media
    <3>1. ASSUME NEW r \in EventRow PROVE Closed(r) # None /\ Closed(r).media = r.media
      <4>1. [r EXCEPT !.ended = TRUE] \in EventRow /\ [r EXCEPT !.ended = TRUE].media = r.media
        BY DEF EventRow
      <4>. QED  BY <4>1, NoneAssumption DEF Closed
    <3>2. \A o \in Ids : rows[o] # None => rows[o] \in EventRow
      BY OrderTypes DEF Sound
    <3>3. \A o \in Ids : rows[o] = None => rows'[o] = None
      BY <2>1 DEF Closed
    <3>. QED  BY <2>1, <3>1, <3>2, <3>3
  <2>. QED  BY <2>1, <2>2, <2>3 DEF Kept, RowsStep
<1>2. ASSUME ~Startup PROVE Kept' /\ RowsStep
  <2>1. PICK m \in Message :
          /\ 1 \in About(m.id) /\ eventQ[1] = m
          /\ m.type = "start" => 1 \in Starting(m.id)
          /\ \A o \in Ids : /\ \A i \in About(o)' : i \in Nat \ {0} /\ i + 1 \in About(o)
                            /\ \A i \in Starting(o)' : i \in Nat \ {0} /\ i + 1 \in Starting(o)
                            /\ \A i \in Starting(o) : i # 1 => i - 1 \in Starting(o)'
          /\ m.data.ended <=> m.type = "end"
          /\ HandleMessage(m)
    BY <1>2, HeadMessage
  <2>2. PICK id \in Ids : id = m.id
    BY DEF Message
  <2>3. /\ rows'[id] # None => rows'[id].media # {}
        /\ rows[id] # None => /\ rows'[id] # None /\ rows[id].media \subseteq rows'[id].media
                              /\ inProcess'[id] = None => rows'[id].ended
        /\ inProcess'[id] # None =>
             /\ ~inProcess'[id].ended
             /\ rows'[id] # None => rows'[id].media \subseteq inProcess'[id].media
    BY <2>1, <2>2, HandledKept
  <2>4. \A o \in Ids \ {id} : inProcess'[o] = inProcess[o] /\ rows'[o] = rows[o]
    BY <2>1, <2>2, Handled DEF Sound
  <2>5. \A o \in Ids \ {id} : 1 \notin About(o) /\ 1 \notin Starting(o)
    BY <2>1, <2>2 DEF About, Starting
  <2>6. Starting(id)' = {}
    <3>. SUFFICES ASSUME NEW i \in Starting(id)' PROVE FALSE
      OBVIOUS
    <3>1. i \in Nat \ {0} /\ i + 1 \in Starting(id)
      BY <2>1
    <3>2. i + 1 <= 1
      BY <2>1, <2>2, <3>1 DEF Kept
    <3>. QED  BY <3>1, <3>2
  <2>7. inProcess'[id] = None => About(id)' = {}
    <3>1. ASSUME inProcess'[id] = None PROVE m.type = "end"
      BY <2>1, <2>2, <3>1, Handled DEF Sound
    <3>2. ASSUME m.type = "end" PROVE About(id)' = {}
      <4>. SUFFICES ASSUME NEW i \in About(id)' PROVE FALSE
        OBVIOUS
      <4>1. i \in Nat \ {0} /\ i + 1 \in About(id)
        BY <2>1
      <4>2. 1 \in Ending(id)
        BY <2>1, <2>2, <3>2 DEF About, Ending
      <4>3. i + 1 <= 1
        BY <4>1, <4>2 DEF Sound, OrderInv, Protocol
      <4>. QED  BY <4>1, <4>3
    <3>. QED  BY <3>1, <3>2
  <2>8. ASSUME NEW o \in Ids \ {id}
        PROVE  /\ \A i \in Starting(o)' : \A j \in About(o)' : i <= j
               /\ Starting(o)' # {} => Starting(o) # {}
               /\ About(o)' # {} => About(o) # {}
               /\ Starting(o) # {} => Starting(o)' # {}
    <3>1. ASSUME NEW i \in Starting(o)', NEW j \in About(o)' PROVE i <= j
      <4>1. i \in Nat /\ j \in Nat /\ i + 1 \in Starting(o) /\ j + 1 \in About(o)
        BY <2>1
      <4>2. i + 1 <= j + 1
        BY <4>1 DEF Kept
      <4>. QED  BY <4>1, <4>2
    <3>. QED  BY <2>1, <2>5, <3>1
  <2>9. Kept'
    <3>1. ASSUME NEW o \in Ids \ {id}
          PROVE  /\ \A i \in Starting(o)' : /\ rows'[o] = None /\ inProcess'[o] = None
                                            /\ \A j \in About(o)' : i <= j
                 /\ About(o)' # {} => inProcess'[o] # None \/ Starting(o)' # {}
                 /\ inProcess'[o] # None => ~inProcess'[o].ended
                 /\ rows'[o] # None =>
                      /\ rows'[o].media # {}
                      /\ inProcess'[o] # None => rows'[o].media \subseteq inProcess'[o].media
      BY <2>4, <2>8 DEF Kept
    <3>. QED  BY <2>3, <2>6, <2>7, <3>1 DEF Kept
  <2>10. RowsStep
    BY <2>3, <2>4 DEF RowsStep
  <2>. QED  BY <2>9, <2>10
<1>. QED  BY <1>1, <1>2

Steady == Sound /\ LiveInv /\ Grown /\ Kept

\* No other step writes the table.
LEMMA NextKept == ASSUME CamerasStayOn, Steady, [Next]_vars PROVE Kept' /\ RowsStep
<1>. USE DEF Steady
<1>1. UNCHANGED <<eventQ, inProcess, rows>> => Kept' /\ RowsStep
  BY KeptFrame DEF RowsStep
<1>2. CASE Store
  BY <1>2, StoreKept
<1>3. CASE Processor
  <2>1. ASSUME NEW o \in Ids, ForceEnd(o) \/ NewObject(o) \/ UpdateObject(o) \/ RemoveObject(o)
        PROVE  Kept' /\ RowsStep
    <3>1. UNCHANGED <<inProcess, rows>>
      BY <2>1, SayingSteps DEF Sound, EndsInv
    <3>. QED  BY <2>1, <3>1, SayingKept DEF RowsStep
  <2>2. CASE \/ CheckForUpdates \/ CheckForUpdatesDies \/ ManageDisabled \/ ForceDone
             \/ FetchTimeout \/ FetchSkip \/ FetchBatch \/ UpdateDone \/ CleanupDone
    <3>1. UNCHANGED storeVars
      BY <2>2 DEF CheckForUpdates, CheckForUpdatesDies, ManageDisabled, ForceDone, FetchTimeout,
         FetchSkip, FetchBatch, UpdateDone, CleanupDone
    <3>. QED  BY <1>1, <3>1 DEF storeVars
  <2>3. CASE Cleanup \/ CleanupDies
    BY <1>1, <2>3 DEF Cleanup, CleanupDies
  <2>. QED  BY <1>3, <2>1, <2>2, <2>3 DEF Processor, ProcNext
<1>4. CASE (\E c \in Cameras : Tracker(c)) \/ UNCHANGED vars
  BY <1>1, <1>4 DEF Tracker, TrackFrame, TrackerSync, Recycle, vars, storeVars
<1>5. CASE User /\ ~Restart
  <2>1. \A c \in Cameras : ~RemoveCamera(c)
    BY DEF CamerasStayOn, RemoveCamera, Op
  <2>. QED  BY <1>1, <1>5, <2>1 DEF User, SetEnabled, SetMedia, AddCamera, Resize, storeVars
<1>6. CASE Restart
  BY <1>6 DEF Restart, Kept, RowsStep, About, Starting
<1>. QED  BY <1>2, <1>3, <1>4, <1>5, <1>6 DEF Next

\* The inductive invariant of the two theorems below.
LEMMA SpecSteady == ASSUME MediaStay PROVE Spec => []Steady
<1>0. CamerasStayOn /\ (OneState \/ Ops \subseteq {"restart"})
  BY DEF MediaStay, CamerasStayOn
<1>1. Init => Steady
  <2>1. Init => LiveInv /\ Sound
    BY InitLive, InitType, InitUnchanging, InitEnds, InitOrder DEF Sound
  <2>2. Init => Kept /\ Growing
    BY DEF Init, StoreInit, ProcInit, Kept, Growing, About, Starting
  <2>. QED  BY <2>1, <2>2 DEF Steady, Grown
<1>2. Steady /\ [Next]_vars => Steady'
  <2>. SUFFICES ASSUME Steady, [Next]_vars PROVE Steady'
    OBVIOUS
  <2>1. Sound'
    BY <1>0, NextSound DEF Steady
  <2>2. LiveInv'
    BY StoreLive, ProcessorLive, EnvLive DEF Steady, Sound, Next
  <2>3. Grown'
    BY <1>0, NextGrowing DEF Steady, Grown, OneState
  <2>4. Kept'
    BY <1>0, NextKept
  <2>. QED  BY <2>1, <2>2, <2>3, <2>4 DEF Steady
<1>. QED  BY <1>1, <1>2, PTL DEF Spec

\* A row never loses the media it says its event has (the merge of maintainer.py,
\* and the copy it is merged with), unless somebody turns a medium off.
THEOREM MediaAreKept == ASSUME MediaStay PROVE Spec => MediaNeverLost
<1>0. CamerasStayOn
  BY DEF MediaStay, CamerasStayOn
<1>1. Steady /\ [Next]_vars =>
        [\A o \in Ids : rows[o] # None => rows[o].media \subseteq rows'[o].media]_vars
  BY <1>0, NextKept DEF RowsStep
<1>. QED  BY <1>1, SpecSteady, PTL DEF Spec, MediaNeverLost

\* When the EventProcessor lets go of a saved event its row is closed, unless
\* somebody turns a medium off: should_update_db sees that it ended.
THEOREM EndIsWritten == ASSUME MediaStay PROVE Spec => EndClosesRow
<1>0. CamerasStayOn
  BY DEF MediaStay, CamerasStayOn
<1>1. Steady /\ [Next]_vars =>
        [\A o \in Ids : /\ started /\ started'
                        /\ inProcess[o] # None /\ inProcess'[o] = None
                        /\ rows[o] # None
                        => rows'[o].ended]_vars
  BY <1>0, NextKept DEF RowsStep
<1>. QED  BY <1>1, SpecSteady, PTL DEF Spec, EndClosesRow

=============================================================================
