--------------------------- MODULE ClientActivity ---------------------------
(***************************************************************************)
(* How the web interface follows the server: the websocket of WsProvider,  *)
(* the topic store of api/ws.ts, and the object list one camera card keeps *)
(* in useCameraActivity.  The server side is the part of the program the   *)
(* store talks to: the processor thread that publishes "events" while it   *)
(* works on a frame and reports the activity of the camera at the end of   *)
(* it, the dispatcher's answer to onConnect, and the toggles, which the    *)
(* websocket thread and the MQTT thread both execute.                      *)
(*                                                                         *)
(* One camera and one toggle (detect) stand for all of them: the store     *)
(* keeps every topic separately.  A browser task runs to its end with its  *)
(* microtasks and the synchronous render it causes before the next task,   *)
(* so a delivered message, a mount or a tab switch is one step.            *)
(***************************************************************************)
EXTENDS Naturals, Sequences

CONSTANTS
    Objs,         \* tracked objects of the camera
    Null,         \* no value
    MaxUses,      \* bound: breaks of the connection, flips, unmounts, tab
                  \* switches and other clients' requests, taken together
    MaxWire       \* bound: messages under way to the client

ONOFF == {"ON", "OFF"}
Threads == {"ws", "mqtt"}

VARIABLES
    phase,        \* server: life of each object
    activity,     \* server: CameraActivityManager.last_camera_activity
    detect,       \* server: the toggle in the configuration
    publishing,   \* server: the state message a thread has still to publish
    snap,         \* server: the onConnect answer being built
    ws,           \* WsProvider: readyState of wsRef, "waiting" for the timer
    up, down,     \* the two directions of the open socket
    pendingSends, \* WsProvider: sends buffered while not open
    wsState,      \* ws.ts: topics this model reads
    lastCameraActivityPayload,
    mounted,      \* the card is on screen
    objects,      \* useCameraActivity: the objects shown
    exact,        \* history: what was applied last was true when published
    asked,        \* history: the user's last flip, if nothing overrides it
    used          \* history: how much of each bound was used

server == <<phase, activity, detect, publishing, snap>>
client == <<pendingSends, wsState, lastCameraActivityPayload, mounted, objects>>
vars == <<server, ws, up, down, client, exact, asked, used>>

Entry == [id : Objs, stationary : BOOLEAN]
Known == {"active", "stationary"}
\* What the processor would report now of objects that have not ended.
Live == {[id |-> o, stationary |-> phase[o] = "stationary"] :
            o \in {p \in Objs : phase[p] \in Known}}
\* CameraState.update lists every tracked object, the ended ones included:
\* they stay tracked until the event processor has finished them.
Listed == Live \cup {[id |-> o, stationary |-> FALSE] :
                        o \in {p \in Objs : phase[p] = "ended"}}

Event(type, o, st) == [topic |-> "events", type |-> type, id |-> o, stationary |-> st]
StateMsg(v) == [topic |-> "detect", payload |-> v, exact |-> v = detect]
Use == used < MaxUses /\ used' = used + 1

TypeOK ==
    /\ phase \in [Objs -> Known \cup {"none", "ended", "gone"}]
    /\ activity \in SUBSET Entry
    /\ detect \in ONOFF
    /\ publishing \in [Threads -> {Null} \cup ONOFF]
    /\ ws \in {"connecting", "open", "waiting", "unmounted"}
    /\ wsState.detect \in ONOFF \cup {Null}
    /\ mounted \in BOOLEAN
    /\ objects \in SUBSET Entry
    /\ exact \in [objects : BOOLEAN, detect : BOOLEAN]
    /\ asked \in ONOFF \cup {Null}
    /\ used \in 0..MaxUses

EmptyStore == [activity |-> Null, events |-> Null, detect |-> Null]

Init ==
    /\ phase = [o \in Objs |-> "none"] /\ activity = {}
    /\ detect = "ON"
    /\ publishing = [t \in Threads |-> Null] /\ snap = Null
    /\ ws = "connecting" /\ up = <<>> /\ down = <<>>
    /\ pendingSends = <<>> /\ wsState = EmptyStore
    /\ lastCameraActivityPayload = Null
    /\ mounted = FALSE /\ objects = {}
    /\ exact = [objects |-> FALSE, detect |-> FALSE] /\ asked = Null
    /\ used = 0

(***************************************************************************)
(* Server                                                                  *)
(***************************************************************************)
\* A broadcast reaches the client only through an open socket.
Publish(m) ==
    /\ Len(down) < MaxWire
    /\ down' = IF ws = "open" THEN Append(down, m) ELSE down

\* The object is no false positive any more, or changed significantly.
ObjectUpdate(o) ==
    \E st \in BOOLEAN :
        /\ \/ phase[o] = "none" /\ UNCHANGED used
           \/ phase[o] \in Known /\ st # (phase[o] = "stationary")
              /\ Use
        /\ phase' = [phase EXCEPT ![o] = IF st THEN "stationary" ELSE "active"]
        /\ Publish(Event(IF phase[o] = "none" THEN "new" ELSE "update", o, st))
        /\ UNCHANGED <<activity, detect, publishing, snap, ws, up, client, exact, asked>>

ObjectEnd(o) ==
    /\ phase[o] \in Known
    /\ phase' = [phase EXCEPT ![o] = "ended"]
    /\ Publish(Event("end", o, FALSE))
    /\ UNCHANGED <<activity, detect, publishing, snap, ws, up, client, exact, asked, used>>

\* The event processor confirmed the end: CameraState.finished.
ObjectFinished(o) ==
    /\ phase[o] = "ended"
    /\ phase' = [phase EXCEPT ![o] = "gone"]
    /\ UNCHANGED <<activity, detect, publishing, snap, ws, up, down, client, exact, asked, used>>

\* The camera_activity callback at the end of a frame.
ReportActivity ==
    /\ activity # Listed
    /\ activity' = Listed
    /\ UNCHANGED <<phase, detect, publishing, snap, ws, up, down, client, exact, asked, used>>

\* handle_on_connect, first half: the answer is put together.  The request is
\* ours or another client's; one websocket thread serves them all.
BuildSnapshot ==
    /\ snap = Null /\ publishing["ws"] = Null
    /\ \/ up # <<>> /\ Head(up).topic = "onConnect"
          /\ up' = Tail(up) /\ UNCHANGED used
       \/ Use /\ UNCHANGED up
    /\ snap' = [objects |-> activity, detect |-> detect]
    /\ UNCHANGED <<phase, activity, detect, publishing, ws, down, client, exact, asked>>

\* handle_on_connect, second half: published to every client.
SendSnapshot ==
    /\ snap # Null
    /\ snap' = Null
    /\ Publish([topic |-> "camera_activity", objects |-> snap.objects,
                detect |-> snap.detect,
                exact |-> [objects |-> snap.objects = Live,
                           detect |-> snap.detect = detect]])
    /\ UNCHANGED <<phase, activity, detect, publishing, ws, up, client, exact, asked, used>>

\* mutant: the setting in another form
MutLowerCase(t, v) ==
    /\ publishing[t] = Null
    /\ detect' = IF v = "ON" THEN "on" ELSE "off"
    /\ publishing' = [publishing EXCEPT ![t] = v]

\* _on_detect_command up to the publication, by the thread that received it.
SetToggle(t, v) ==
    /\ publishing[t] = Null
    /\ detect' = v
    /\ publishing' = [publishing EXCEPT ![t] = v]

WsToggle ==
    /\ snap = Null /\ up # <<>> /\ Head(up).topic = "detect"
    /\ SetToggle("ws", Head(up).payload)
    /\ up' = Tail(up)
    /\ UNCHANGED <<phase, activity, snap, ws, down, client, exact, asked, used>>

MqttToggle(v) ==
    /\ Use
    /\ SetToggle("mqtt", v)
    /\ asked' = Null
    /\ UNCHANGED <<phase, activity, snap, ws, up, down, client, exact>>

PublishState(t) ==
    /\ publishing[t] # Null
    /\ Publish(StateMsg(publishing[t]))
    /\ publishing' = [publishing EXCEPT ![t] = Null]
    /\ UNCHANGED <<phase, activity, detect, snap, ws, up, client, exact, asked, used>>

(***************************************************************************)
(* WsProvider                                                              *)
(***************************************************************************)
OnConnect == [topic |-> "onConnect", payload |-> Null]

\* mutant: the first send of a topic stays
MutKeepsFirst(m) ==
    IF \E i \in DOMAIN pendingSends : pendingSends[i].topic = m.topic
    THEN pendingSends ELSE Append(pendingSends, m)

\* The Map keyed by topic: a second send replaces the first in its place.
Buffer(m) ==
    IF \E i \in DOMAIN pendingSends : pendingSends[i].topic = m.topic
    THEN [i \in DOMAIN pendingSends |->
            IF pendingSends[i].topic = m.topic THEN m ELSE pendingSends[i]]
    ELSE Append(pendingSends, m)

sendJsonMessage(m) ==
    IF ws = "open"
    THEN up' = Append(up, m) /\ UNCHANGED pendingSends
    ELSE pendingSends' = Buffer(m) /\ UNCHANGED up

\* mutant: no question for the snapshot
MutOnlyFlush ==
    /\ ws = "connecting" /\ ws' = "open"
    /\ lastCameraActivityPayload' = Null
    /\ up' = pendingSends /\ pendingSends' = <<>>
    /\ UNCHANGED <<server, down, wsState, mounted, objects, exact, asked, used>>

\* ws.onopen: ask for the snapshot, then flush what was buffered.
onopen ==
    /\ ws = "connecting"
    /\ ws' = "open"
    /\ lastCameraActivityPayload' = Null
    /\ up' = <<OnConnect>> \o pendingSends
    /\ pendingSends' = <<>>
    /\ UNCHANGED <<server, down, wsState, mounted, objects, exact, asked, used>>

\* The connection breaks or cannot be made; what was under way is lost.
onclose ==
    /\ ws \in {"connecting", "open"}
    /\ Use
    /\ ws' = "waiting" /\ up' = <<>> /\ down' = <<>>
    /\ exact' = [objects |-> FALSE, detect |-> FALSE]
    /\ asked' = IF ws = "open" THEN Null ELSE asked
    /\ UNCHANGED <<server, client>>

\* mutant: only with a card on screen
MutConnectMounted ==
    /\ ws = "waiting" /\ mounted
    /\ ws' = "connecting"
    /\ UNCHANGED <<server, up, down, client, exact, asked, used>>

\* The reconnect timer.
connect ==
    /\ ws = "waiting"
    /\ ws' = "connecting"
    /\ UNCHANGED <<server, up, down, client, exact, asked, used>>

\* Logout: the provider goes, with everything below it.
UnmountProvider ==
    /\ ws # "unmounted" /\ Use
    /\ ws' = "unmounted" /\ up' = <<>> /\ down' = <<>>
    /\ pendingSends' = <<>>
    /\ wsState' = EmptyStore /\ lastCameraActivityPayload' = Null
    /\ mounted' = FALSE /\ objects' = {}
    /\ exact' = [objects |-> FALSE, detect |-> FALSE]
    /\ asked' = Null
    /\ UNCHANGED server

MountProvider ==
    /\ ws = "unmounted"
    /\ ws' = "connecting"
    /\ UNCHANGED <<server, up, down, client, exact, asked, used>>

(***************************************************************************)
(* The store and the card                                                  *)
(***************************************************************************)
\* mutant: the end of an object is one more update
MutKeepsEnded(list, e) ==
    LET known == {x \in list : x.id = e.id}
    IN  IF known = {} /\ e.stationary THEN list
        ELSE (list \ known) \cup {[id |-> e.id, stationary |-> e.stationary]}

\* The effect on an "events" message: what the list becomes.
ApplyEvent(list, e) ==
    LET known == {x \in list : x.id = e.id}
        entry == [id |-> e.id, stationary |-> e.stationary]
    IN  IF e.type = "end" THEN list \ known
        ELSE IF known = {} /\ e.stationary THEN list
        ELSE (list \ known) \cup {entry}

\* mutant: the configuration part is not taken
MutObjectsOnly(m) ==
    /\ lastCameraActivityPayload' = [objects |-> m.objects, detect |-> m.detect]
    /\ wsState' = [wsState EXCEPT !.activity = m.objects]
    /\ objects' = IF mounted THEN m.objects ELSE objects
    /\ exact' = [objects |-> mounted /\ m.exact.objects, detect |-> m.exact.detect]

\* applyCameraActivity: nothing for a payload equal to the last one; else the
\* snapshot replaces the list and its configuration part the toggle.
applyCameraActivity(m) ==
    LET payload == [objects |-> m.objects, detect |-> m.detect]
    IN  IF payload = lastCameraActivityPayload
        THEN UNCHANGED <<lastCameraActivityPayload, wsState, objects, exact>>
        ELSE /\ lastCameraActivityPayload' = payload
             /\ wsState' = [wsState EXCEPT !.activity = m.objects, !.detect = m.detect]
             /\ objects' = IF mounted THEN m.objects ELSE objects
             /\ exact' = [objects |-> mounted /\ m.exact.objects, detect |-> m.exact.detect]

\* processWsMessage, with the render and the effects it causes.
processWsMessage ==
    /\ ws = "open" /\ down # <<>>
    /\ down' = Tail(down)
    /\ LET m == Head(down)
       IN  \/ m.topic = "camera_activity" /\ applyCameraActivity(m)
           \/ /\ m.topic = "events"
              /\ wsState' = [wsState EXCEPT !.events = m]
              /\ objects' = IF mounted THEN ApplyEvent(objects, m) ELSE objects
              /\ UNCHANGED <<lastCameraActivityPayload, exact>>
           \/ /\ m.topic = "detect"
              /\ wsState' = [wsState EXCEPT !.detect = m.payload]
              /\ exact' = [exact EXCEPT !.detect = m.exact]
              /\ UNCHANGED <<lastCameraActivityPayload, objects>>
    /\ UNCHANGED <<server, ws, up, pendingSends, mounted, asked, used>>

\* requestCameraActivityResync: whatever the number of cards, one request.
requestCameraActivityResync ==
    /\ lastCameraActivityPayload' = Null
    /\ sendJsonMessage(OnConnect)

\* A new card starts from what the store holds, the last event included.
MountCard ==
    /\ ws # "unmounted" /\ ~mounted
    /\ mounted' = TRUE
    /\ LET start == IF wsState.activity = Null THEN {} ELSE wsState.activity
       IN  objects' = IF wsState.events = Null THEN start
                      ELSE ApplyEvent(start, wsState.events)
    /\ requestCameraActivityResync
    /\ exact' = [exact EXCEPT !.objects = FALSE]
    /\ UNCHANGED <<server, ws, down, wsState, asked, used>>

UnmountCard ==
    /\ mounted /\ Use
    /\ mounted' = FALSE /\ objects' = {}
    /\ UNCHANGED <<server, ws, up, down, pendingSends, wsState,
                   lastCameraActivityPayload, exact, asked>>

\* The user comes back to the tab.
VisibilityChange ==
    /\ mounted /\ Use
    /\ requestCameraActivityResync
    /\ UNCHANGED <<server, ws, down, wsState, mounted, objects, exact, asked>>

\* The user sets a value; the sliders of the motion tuner, which the store
\* treats alike, may send any.
UserToggle(v) ==
    /\ mounted /\ Use
    /\ sendJsonMessage([topic |-> "detect", payload |-> v])
    /\ asked' = v
    /\ UNCHANGED <<server, ws, down, wsState, lastCameraActivityPayload,
                   mounted, objects, exact>>

(***************************************************************************)
ServerStep ==
    \/ \E o \in Objs : ObjectUpdate(o) \/ ObjectEnd(o) \/ ObjectFinished(o)
    \/ ReportActivity \/ BuildSnapshot \/ SendSnapshot \/ WsToggle
    \/ \E v \in ONOFF : MqttToggle(v)
    \/ \E t \in Threads : PublishState(t)
SocketStep == onopen \/ onclose \/ connect \/ UnmountProvider \/ MountProvider
CardStep ==
    \/ processWsMessage \/ MountCard \/ UnmountCard \/ VisibilityChange
    \/ \E v \in ONOFF : UserToggle(v)
Next == ServerStep \/ SocketStep \/ CardStep

\* Threads, timers and the event loop go on; what a user, an object or the
\* network does is not forced.
Fairness ==
    /\ WF_vars(onopen) /\ WF_vars(connect) /\ WF_vars(processWsMessage)
    /\ WF_vars(SendSnapshot) /\ WF_vars(WsToggle)
    /\ WF_vars(up # <<>> /\ BuildSnapshot)
    /\ \A t \in Threads : WF_vars(PublishState(t))

Spec == Init /\ [][Next]_vars /\ Fairness

(***************************************************************************)
(* Properties                                                              *)
(***************************************************************************)
\* Nothing is under way between the server and the card.
Quiet ==
    /\ ws = "open" /\ mounted /\ up = <<>> /\ down = <<>> /\ snap = Null
    /\ \A t \in Threads : publishing[t] = Null
ActiveIn(list) == {x \in list : ~x.stationary}

\* Once everything has arrived, the card shows only objects that exist and
\* every moving one, if the snapshot it started from was true when it was
\* sent: no break of the connection, remount, repeated or skipped snapshot and
\* no order of events loses one (applyCameraActivity, useCameraActivity).
ShownIsLive ==
    Quiet /\ exact.objects => /\ objects \subseteq Live
                              /\ ActiveIn(objects) = ActiveIn(Live)

\* Once everything has arrived, the toggle shows the server's setting, if the
\* last message about it was true when it was sent.
ToggleIsConfigured == Quiet /\ exact.detect => wsState.detect = detect

\* The same without the condition on the snapshot, for objects that are over:
\* none stays on screen (useCameraActivity: no stale snapshot over newer events).
NoGhost ==
    Quiet /\ wsState.activity # Null => \A x \in objects : phase[x.id] # "gone"

\* The user's last word is what the server ends with: flips made while the
\* socket is down are kept, replaced by later ones and flushed on reconnect
\* (sendJsonMessage, onopen).  A flip under way when the connection breaks is
\* lost, and one made over MQTT later counts instead.
LastFlipWins == Quiet /\ asked # Null => detect = asked

\* The socket comes back after a break, and the card is given a snapshot.
ComesBack == ws = "waiting" ~> ws \in {"open", "unmounted"}
CardIsFilled == mounted ~> (~mounted \/ wsState.activity # Null)
=============================================================================
