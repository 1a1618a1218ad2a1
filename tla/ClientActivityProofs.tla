------------------------ MODULE ClientActivityProofs ------------------------
(***************************************************************************)
(* What a live card shows once everything has arrived is what the server   *)
(* has: the three parts of CardIsTruthful, for any number of objects, of   *)
(* messages under way, and of breaks, remounts and flips.                  *)
(*                                                                         *)
(* The invariants speak of what is under way: of every object and of the   *)
(* toggle, the last message that says something of it says the truth.      *)
(***************************************************************************)
EXTENDS ClientActivity, TLAPS

EventMsgs == [topic : {"events"}, type : {"new", "update", "end"}, id : Objs,
              stationary : BOOLEAN]
Exactness == [objects : BOOLEAN, detect : BOOLEAN]
SnapMsgs == [topic : {"camera_activity"}, objects : SUBSET Entry, detect : ONOFF,
             exact : Exactness]
StateMsgs == [topic : {"detect"}, payload : ONOFF, exact : BOOLEAN]
DownMsgs == EventMsgs \cup SnapMsgs \cup StateMsgs
UpMsgs == [topic : {"onConnect"}, payload : {Null}] \cup [topic : {"detect"}, payload : ONOFF]
Snapshots == [objects : SUBSET Entry, detect : ONOFF]
Stores == [activity : {Null} \cup SUBSET Entry, events : {Null} \cup EventMsgs,
           detect : ONOFF \cup {Null}]
Phases == Known \cup {"none", "ended", "gone"}

\* The variables have their types, and a socket that is not open carries
\* nothing and has taken back what was known to be true.
CardInv ==
    /\ phase \in [Objs -> Phases] /\ activity \in SUBSET Entry /\ detect \in ONOFF
    /\ publishing \in [Threads -> {Null} \cup ONOFF]
    /\ snap \in {Null} \cup Snapshots
    /\ ws \in {"connecting", "open", "waiting", "unmounted"}
    /\ up \in Seq(UpMsgs) /\ down \in Seq(DownMsgs) /\ pendingSends \in Seq(UpMsgs)
    /\ wsState \in Stores
    /\ mounted \in BOOLEAN /\ objects \in SUBSET Entry
    /\ exact \in Exactness /\ asked \in ONOFF \cup {Null}
    /\ ws # "open" => /\ down = <<>> /\ up = <<>>
                      /\ ~exact.objects /\ ~exact.detect
    /\ ws = "open" => pendingSends = <<>>

(***************************************************************************)
(* The objects                                                             *)
(***************************************************************************)
\* What a list says of an object of phase p: one that is over is not in it, a
\* moving one is.
AgreesOn(o, list, p) ==
    /\ \A x \in list : x.id = o => p \in Known /\ x.stationary = (p = "stationary")
    /\ p = "active" => [id |-> o, stationary |-> FALSE] \in list

\* An event says what its object is now.
RightEvent(e, p) ==
    /\ e.type = "end" <=> p \notin Known
    /\ e.type # "end" => e.stationary = (p = "stationary")

IsAbout(m, o) == m.topic = "events" /\ m.id = o
\* Nothing behind the i-th message under way is about the object.
LastAbout(o, i) == \A j \in 1..Len(down) : j > i => ~IsAbout(down[j], o)

EventsRight ==
    \A i \in 1..Len(down) : \A o \in Objs :
        IsAbout(down[i], o) /\ LastAbout(o, i) => RightEvent(down[i], phase[o])
SnapshotsRight ==
    \A i \in 1..Len(down) : \A o \in Objs :
        down[i].topic = "camera_activity" /\ down[i].exact.objects /\ LastAbout(o, i)
            => AgreesOn(o, down[i].objects, phase[o])
ListRight ==
    mounted /\ exact.objects =>
        \A o \in Objs : LastAbout(o, 0) => AgreesOn(o, objects, phase[o])
ListInv == EventsRight /\ SnapshotsRight /\ ListRight

(***************************************************************************)
(* The toggle                                                              *)
(***************************************************************************)
Pending == \E t \in Threads : publishing[t] # Null
\* Nothing behind the i-th message under way tells the setting, nor will.
LastSetting(i) == ~Pending /\ \A j \in 1..Len(down) : j > i => down[j].topic # "detect"

SettingInv ==
    /\ \A i \in 1..Len(down) :
        /\ down[i].topic = "detect" /\ down[i].exact /\ LastSetting(i)
             => down[i].payload = detect
        /\ down[i].topic = "camera_activity" /\ down[i].exact.detect /\ LastSetting(i)
             => down[i].detect = detect
    /\ exact.detect /\ LastSetting(0) => wsState.detect = detect

\* Of the flips that wait for the socket all are the user's last, of those on
\* their way the last one is; without any the server has it.
LastFlip(i) == up[i].topic = "detect" /\ \A j \in 1..Len(up) : j > i => up[j].topic # "detect"
NoFlip(q) == \A i \in 1..Len(q) : q[i].topic # "detect"
FlipInv ==
    asked # Null =>
        /\ \A i \in 1..Len(pendingSends) :
            pendingSends[i].topic = "detect" => pendingSends[i].payload = asked
        /\ \A i \in 1..Len(up) : LastFlip(i) => up[i].payload = asked
        /\ NoFlip(pendingSends) /\ NoFlip(up) => detect = asked
(***************************************************************************)
(* Sequences of messages                                                   *)
(***************************************************************************)
LEMMA AppendFacts ==
    ASSUME NEW S, NEW q \in Seq(S), NEW m \in S
    PROVE  /\ Append(q, m) \in Seq(S) /\ Len(Append(q, m)) = Len(q) + 1
           /\ \A i \in 1..Len(q) : Append(q, m)[i] = q[i]
           /\ Append(q, m)[Len(q) + 1] = m
OBVIOUS

LEMMA TailFacts ==
    ASSUME NEW S, NEW q \in Seq(S), q # <<>>
    PROVE  /\ Tail(q) \in Seq(S) /\ Len(q) \in Nat \ {0} /\ Len(Tail(q)) = Len(q) - 1
           /\ \A i \in 1..Len(Tail(q)) : Tail(q)[i] = q[i + 1]
           /\ Head(q) = q[1] /\ Head(q) \in S
OBVIOUS

(***************************************************************************)
(* Types                                                                   *)
(***************************************************************************)
LEMMA PublishType ==
    ASSUME CardInv, NEW m \in DownMsgs, Publish(m), UNCHANGED ws
    PROVE  down' \in Seq(DownMsgs) /\ (ws # "open" => down' = <<>>)
           /\ (ws = "open" => down' = Append(down, m))
BY AppendFacts DEF CardInv, Publish

LEMMA SendType ==
    ASSUME CardInv, NEW m \in UpMsgs, sendJsonMessage(m), UNCHANGED ws
    PROVE  up' \in Seq(UpMsgs) /\ pendingSends' \in Seq(UpMsgs)
           /\ (ws # "open" => up' = <<>>) /\ (ws = "open" => pendingSends' = <<>>)
<1>1. CASE ws = "open"
  BY <1>1, AppendFacts DEF CardInv, sendJsonMessage
<1>2. CASE ws # "open"
  <2>1. Buffer(m) \in Seq(UpMsgs)
    BY AppendFacts DEF Buffer, CardInv
  <2>. QED  BY <1>2, <2>1 DEF CardInv, sendJsonMessage
<1>. QED  BY <1>1, <1>2

LEMMA ListedType == Live \in SUBSET Entry /\ Listed \in SUBSET Entry
<1>1. \A o \in Objs : [id |-> o, stationary |-> phase[o] = "stationary"] \in Entry
  BY DEF Entry
<1>2. \A o \in Objs : [id |-> o, stationary |-> FALSE] \in Entry
  BY DEF Entry
<1>3. Live \in SUBSET Entry
  BY <1>1 DEF Live
<1>. QED  BY <1>2, <1>3 DEF Listed

LEMMA ApplyType ==
    ASSUME NEW list \in SUBSET Entry, NEW e \in EventMsgs
    PROVE  ApplyEvent(list, e) \in SUBSET Entry
BY DEF ApplyEvent, EventMsgs, Entry

LEMMA EmptyType ==
    EmptyStore \in Stores /\ [objects |-> FALSE, detect |-> FALSE] \in Exactness
BY DEF EmptyStore, Stores, Exactness

LEMMA InitType == Init => CardInv
<1>. SUFFICES ASSUME Init PROVE CardInv
  OBVIOUS
<1>1. /\ phase \in [Objs -> Phases] /\ publishing \in [Threads -> {Null} \cup ONOFF]
      /\ detect \in ONOFF
  BY DEF Init, Phases, ONOFF
<1>2. /\ up \in Seq(UpMsgs) /\ down \in Seq(DownMsgs) /\ pendingSends \in Seq(UpMsgs)
  BY DEF Init
<1>3. wsState \in Stores /\ exact \in Exactness /\ ~exact.objects /\ ~exact.detect
  BY EmptyType DEF Init
<1>. QED  BY <1>1, <1>2, <1>3 DEF Init, CardInv

LEMMA ServerType == CardInv /\ ServerStep => CardInv'
<1>. SUFFICES ASSUME CardInv, ServerStep PROVE CardInv'
  OBVIOUS
<1>1. ASSUME NEW o \in Objs, ObjectUpdate(o) PROVE CardInv'
  <2>1. PICK st \in BOOLEAN :
          /\ phase' = [phase EXCEPT ![o] = IF st THEN "stationary" ELSE "active"]
          /\ Publish(Event(IF phase[o] = "none" THEN "new" ELSE "update", o, st))
          /\ UNCHANGED <<activity, detect, publishing, snap, ws, up, client, exact, asked>>
    BY <1>1 DEF ObjectUpdate
  <2>2. Event(IF phase[o] = "none" THEN "new" ELSE "update", o, st) \in DownMsgs
    BY DEF Event, DownMsgs, EventMsgs
  <2>3. (IF st THEN "stationary" ELSE "active") \in Phases
    BY DEF Phases, Known
  <2>. QED  BY <2>1, <2>2, <2>3, PublishType DEF CardInv, client
<1>2. ASSUME NEW o \in Objs, ObjectEnd(o) PROVE CardInv'
  <2>1. Event("end", o, FALSE) \in DownMsgs
    BY DEF Event, DownMsgs, EventMsgs
  <2>. QED  BY <1>2, <2>1, PublishType DEF ObjectEnd, CardInv, client, Phases
<1>3. ASSUME NEW o \in Objs, ObjectFinished(o) PROVE CardInv'
  BY <1>3 DEF ObjectFinished, CardInv, client, Phases
<1>4. CASE ReportActivity
  BY <1>4, ListedType DEF ReportActivity, CardInv, client
<1>5. CASE BuildSnapshot
  <2>1. snap' \in Snapshots
    BY <1>5 DEF BuildSnapshot, CardInv, Snapshots
  <2>2. up' \in Seq(UpMsgs) /\ (ws # "open" => up' = <<>>)
    BY <1>5, TailFacts DEF BuildSnapshot, CardInv
  <2>. QED  BY <1>5, <2>1, <2>2 DEF BuildSnapshot, CardInv, client
<1>6. CASE SendSnapshot
  <2>. DEFINE m == [topic |-> "camera_activity", objects |-> snap.objects,
                    detect |-> snap.detect,
                    exact |-> [objects |-> snap.objects = Live,
                               detect |-> snap.detect = detect]]
  <2>1. m \in DownMsgs
    BY <1>6 DEF SendSnapshot, CardInv, Snapshots, DownMsgs, SnapMsgs, Exactness
  <2>2. Publish(m) /\ snap' = Null
        /\ UNCHANGED <<phase, activity, detect, publishing, ws, up, client, exact, asked, used>>
    BY <1>6 DEF SendSnapshot
  <2>. HIDE DEF m
  <2>. QED  BY <2>1, <2>2, PublishType DEF CardInv, client
<1>7. CASE WsToggle
  <2>1. up # <<>> /\ Head(up).topic = "detect"
    BY <1>7 DEF WsToggle
  <2>2. up' \in Seq(UpMsgs) /\ Head(up) \in UpMsgs /\ (ws # "open" => up' = <<>>)
    BY <1>7, <2>1, TailFacts DEF WsToggle, CardInv
  <2>3. Head(up).payload \in ONOFF
    BY <2>1, <2>2 DEF UpMsgs
  <2>. QED  BY <1>7, <2>2, <2>3 DEF WsToggle, SetToggle, CardInv, client
<1>8. ASSUME NEW v \in ONOFF, MqttToggle(v) PROVE CardInv'
  BY <1>8 DEF MqttToggle, SetToggle, CardInv, client
<1>9. ASSUME NEW t \in Threads, PublishState(t) PROVE CardInv'
  <2>1. StateMsg(publishing[t]) \in DownMsgs
    BY <1>9 DEF PublishState, CardInv, StateMsg, DownMsgs, StateMsgs
  <2>. QED  BY <1>9, <2>1, PublishType DEF PublishState, CardInv, client
<1>. QED  BY <1>1, <1>2, <1>3, <1>4, <1>5, <1>6, <1>7, <1>8, <1>9 DEF ServerStep

LEMMA SocketType == CardInv /\ SocketStep => CardInv'
<1>. SUFFICES ASSUME CardInv, SocketStep PROVE CardInv'
  OBVIOUS
<1>1. CASE onopen
  <2>1. OnConnect \in UpMsgs
    BY DEF OnConnect, UpMsgs
  <2>2. <<OnConnect>> \o pendingSends \in Seq(UpMsgs)
    BY <2>1 DEF CardInv
  <2>. QED  BY <1>1, <2>2 DEF onopen, CardInv, server
<1>2. CASE onclose
  BY <1>2 DEF onclose, CardInv, server, client, Exactness
<1>3. CASE connect
  BY <1>3 DEF connect, CardInv, server, client
<1>4. CASE UnmountProvider
  <2>1. wsState' \in Stores /\ exact' \in Exactness /\ ~exact'.objects /\ ~exact'.detect
    BY <1>4, EmptyType DEF UnmountProvider
  <2>2. up' \in Seq(UpMsgs) /\ down' \in Seq(DownMsgs) /\ pendingSends' \in Seq(UpMsgs)
    BY <1>4 DEF UnmountProvider
  <2>3. UNCHANGED <<phase, activity, detect, publishing, snap>>
    BY <1>4 DEF UnmountProvider, server
  <2>. QED  BY <1>4, <2>1, <2>2, <2>3 DEF UnmountProvider, CardInv
<1>5. CASE MountProvider
  BY <1>5 DEF MountProvider, CardInv, server, client
<1>. QED  BY <1>1, <1>2, <1>3, <1>4, <1>5 DEF SocketStep

\* What a message does to the store and the card, by its kind.
LEMMA HeadKinds ==
    ASSUME CardInv, down # <<>>
    PROVE  /\ Head(down) = down[1] /\ Head(down) \in DownMsgs /\ Len(down) \in Nat \ {0}
           /\ Head(down).topic = "events" => Head(down) \in EventMsgs
           /\ Head(down).topic = "camera_activity" => Head(down) \in SnapMsgs
           /\ Head(down).topic = "detect" => Head(down) \in StateMsgs
<1>1. Head(down) = down[1] /\ Head(down) \in DownMsgs /\ Len(down) \in Nat \ {0}
  BY TailFacts DEF CardInv
<1>. QED  BY <1>1 DEF DownMsgs, EventMsgs, SnapMsgs, StateMsgs

LEMMA CardStepType == CardInv /\ CardStep => CardInv'
<1>. SUFFICES ASSUME CardInv, CardStep PROVE CardInv'
  OBVIOUS
<1>0. OnConnect \in UpMsgs
  BY DEF OnConnect, UpMsgs
<1>1. CASE processWsMessage
  <2>. DEFINE m == Head(down)
  <2>1. down # <<>> /\ ws = "open" /\ down' \in Seq(DownMsgs)
    BY <1>1, TailFacts DEF processWsMessage, CardInv
  <2>2. UNCHANGED <<server, ws, up, pendingSends, mounted, asked>>
    BY <1>1 DEF processWsMessage
  <2>3. CASE m.topic = "camera_activity" /\ applyCameraActivity(m)
    <3>1. m \in SnapMsgs
      BY <2>1, <2>3, HeadKinds
    <3>2. m.objects \in SUBSET Entry /\ m.detect \in ONOFF /\ m.exact \in Exactness
      BY <3>1 DEF SnapMsgs
    <3>3. [wsState EXCEPT !.activity = m.objects, !.detect = m.detect] \in Stores
      BY <3>2 DEF Stores, CardInv
    <3>4. [objects |-> mounted /\ m.exact.objects, detect |-> m.exact.detect] \in Exactness
      BY <3>2 DEF Exactness, CardInv
    <3>5. wsState' \in Stores /\ objects' \in SUBSET Entry /\ exact' \in Exactness
      BY <2>3, <3>2, <3>3, <3>4 DEF applyCameraActivity, CardInv
    <3>. QED  BY <2>1, <2>2, <3>5 DEF CardInv, server
  <2>4. CASE /\ m.topic = "events"
             /\ wsState' = [wsState EXCEPT !.events = m]
             /\ objects' = IF mounted THEN ApplyEvent(objects, m) ELSE objects
             /\ UNCHANGED <<lastCameraActivityPayload, exact>>
    <3>1. m \in EventMsgs
      BY <2>1, <2>4, HeadKinds
    <3>2. wsState' \in Stores /\ objects' \in SUBSET Entry
      BY <2>4, <3>1, ApplyType DEF Stores, CardInv
    <3>. QED  BY <2>1, <2>2, <2>4, <3>2 DEF CardInv, server
  <2>5. CASE /\ m.topic = "detect"
             /\ wsState' = [wsState EXCEPT !.detect = m.payload]
             /\ exact' = [exact EXCEPT !.detect = m.exact]
             /\ UNCHANGED <<lastCameraActivityPayload, objects>>
    <3>1. m \in StateMsgs
      BY <2>1, <2>5, HeadKinds
    <3>2. wsState' \in Stores /\ exact' \in Exactness
      BY <2>5, <3>1 DEF Stores, Exactness, StateMsgs, CardInv
    <3>. QED  BY <2>1, <2>2, <2>5, <3>2 DEF CardInv, server
  <2>. QED  BY <1>1, <2>3, <2>4, <2>5 DEF processWsMessage
<1>2. CASE MountCard
  <2>1. /\ up' \in Seq(UpMsgs) /\ pendingSends' \in Seq(UpMsgs)
        /\ ws # "open" => up' = <<>>
        /\ ws = "open" => pendingSends' = <<>>
    BY <1>0, <1>2, SendType DEF MountCard, requestCameraActivityResync
  <2>2. exact' \in Exactness /\ ~exact'.objects /\ exact'.detect = exact.detect
    BY <1>2 DEF MountCard, CardInv, Exactness
  <2>3. objects' \in SUBSET Entry
    <3>. DEFINE start == IF wsState.activity = Null THEN {} ELSE wsState.activity
    <3>1. start \in SUBSET Entry
      BY DEF CardInv, Stores
    <3>2. wsState.events # Null => wsState.events \in EventMsgs
      BY DEF CardInv, Stores
    <3>3. objects' = IF wsState.events = Null THEN start ELSE ApplyEvent(start, wsState.events)
      BY <1>2 DEF MountCard
    <3>. HIDE DEF start
    <3>. QED  BY <3>1, <3>2, <3>3, ApplyType
  <2>. QED  BY <1>2, <2>1, <2>2, <2>3 DEF MountCard, CardInv, server
<1>3. CASE UnmountCard
  BY <1>3 DEF UnmountCard, CardInv, server
<1>4. CASE VisibilityChange
  <2>1. /\ up' \in Seq(UpMsgs) /\ pendingSends' \in Seq(UpMsgs)
        /\ ws # "open" => up' = <<>>
        /\ ws = "open" => pendingSends' = <<>>
    BY <1>0, <1>4, SendType DEF VisibilityChange, requestCameraActivityResync
  <2>. QED  BY <1>4, <2>1 DEF VisibilityChange, CardInv, server
<1>5. ASSUME NEW v \in ONOFF, UserToggle(v) PROVE CardInv'
  <2>0. [topic |-> "detect", payload |-> v] \in UpMsgs
    BY DEF UpMsgs
  <2>1. /\ up' \in Seq(UpMsgs) /\ pendingSends' \in Seq(UpMsgs)
        /\ ws # "open" => up' = <<>>
        /\ ws = "open" => pendingSends' = <<>>
    BY <1>5, <2>0, SendType DEF UserToggle
  <2>. QED  BY <1>5, <2>1 DEF UserToggle, CardInv, server
<1>. QED  BY <1>1, <1>2, <1>3, <1>4, <1>5 DEF CardStep
(***************************************************************************)
(* The objects shown                                                       *)
(***************************************************************************)
\* Nothing about the objects is sent or taken, and none that is not over ends.
LEMMA ListFrame ==
    ASSUME ListInv, UNCHANGED <<down, objects>>,
           mounted' /\ exact'.objects => mounted /\ exact.objects,
           \A o \in Objs : \/ phase'[o] = phase[o]
                           \/ phase[o] = "ended" /\ phase'[o] = "gone"
    PROVE  ListInv'
<1>1. \A o \in Objs : \A list : AgreesOn(o, list, phase[o]) => AgreesOn(o, list, phase'[o])
  BY DEF AgreesOn, Known
<1>2. \A o \in Objs : \A e : RightEvent(e, phase[o]) => RightEvent(e, phase'[o])
  BY DEF RightEvent, Known
<1>3. \A o \in Objs, i \in Nat : LastAbout(o, i)' = LastAbout(o, i)
  BY DEF LastAbout, IsAbout
<1>4. EventsRight'
  BY <1>2, <1>3 DEF ListInv, EventsRight, IsAbout
<1>5. SnapshotsRight'
  BY <1>1, <1>3 DEF ListInv, SnapshotsRight
<1>6. ListRight'
  BY <1>1, <1>3 DEF ListInv, ListRight
<1>. QED  BY <1>4, <1>5, <1>6 DEF ListInv

\* Without a connection nothing is claimed.
LEMMA ListEmpty ==
    ASSUME down' = <<>>, ~exact'.objects
    PROVE  ListInv'
BY DEF ListInv, EventsRight, SnapshotsRight, ListRight

\* A message is sent: an event that tells what became of its object, or a
\* snapshot that lists what there is, or one that does not claim to.
LEMMA ListAppend ==
    ASSUME CardInv, ListInv, NEW m \in DownMsgs, down' = Append(down, m),
           UNCHANGED <<mounted, objects, exact>>,
           \A o \in Objs : IF IsAbout(m, o) THEN RightEvent(m, phase'[o])
                           ELSE phase'[o] = phase[o],
           m.topic = "camera_activity" /\ m.exact.objects =>
               \A o \in Objs : AgreesOn(o, m.objects, phase'[o])
    PROVE  ListInv'
<1>. DEFINE n == Len(down)
<1>1. /\ Len(down') = n + 1 /\ n \in Nat
      /\ \A i \in 1..n : down'[i] = down[i]
      /\ down'[n + 1] = m
  BY AppendFacts DEF CardInv
<1>2. ASSUME NEW o \in Objs, NEW i \in 0..n, LastAbout(o, i)'
      PROVE  LastAbout(o, i) /\ phase'[o] = phase[o]
  <2>1. ~IsAbout(m, o)
    BY <1>1, <1>2 DEF LastAbout, IsAbout
  <2>2. LastAbout(o, i)
    BY <1>1, <1>2 DEF LastAbout, IsAbout
  <2>. QED  BY <2>1, <2>2
<1>3. EventsRight'
  <2>. SUFFICES ASSUME NEW i \in 1..(n + 1), NEW o \in Objs,
                       IsAbout(down'[i], o), LastAbout(o, i)'
                PROVE  RightEvent(down'[i], phase'[o])
    BY <1>1 DEF EventsRight, IsAbout
  <2>1. CASE i = n + 1
    BY <1>1, <2>1
  <2>2. CASE i \in 1..n
    BY <1>1, <1>2, <2>2 DEF ListInv, EventsRight
  <2>. QED  BY <1>1, <2>1, <2>2
<1>4. SnapshotsRight'
  <2>. SUFFICES ASSUME NEW i \in 1..(n + 1), NEW o \in Objs,
                       down'[i].topic = "camera_activity", down'[i].exact.objects,
                       LastAbout(o, i)'
                PROVE  AgreesOn(o, down'[i].objects, phase'[o])
    BY <1>1 DEF SnapshotsRight
  <2>1. CASE i = n + 1
    BY <1>1, <2>1
  <2>2. CASE i \in 1..n
    BY <1>1, <1>2, <2>2 DEF ListInv, SnapshotsRight
  <2>. QED  BY <1>1, <2>1, <2>2
<1>5. ListRight'
  <2>. SUFFICES ASSUME mounted, exact.objects, NEW o \in Objs, LastAbout(o, 0)'
                PROVE  AgreesOn(o, objects, phase'[o])
    BY DEF ListRight
  <2>. QED  BY <1>1, <1>2 DEF ListInv, ListRight
<1>. QED  BY <1>3, <1>4, <1>5 DEF ListInv

\* An event that tells the truth makes a list agree on its object, whatever
\* the list said before, and leaves the others alone.
LEMMA ApplyAgrees ==
    ASSUME NEW list \in SUBSET Entry, NEW e \in EventMsgs, NEW o \in Objs, NEW p \in Phases,
           IF e.id = o THEN RightEvent(e, p) ELSE AgreesOn(o, list, p)
    PROVE  AgreesOn(o, ApplyEvent(list, e), p)
<1>. DEFINE known == {x \in list : x.id = e.id}
            entry == [id |-> e.id, stationary |-> e.stationary]
<1>1. CASE e.id # o
  <2>1. \A x : x \in ApplyEvent(list, e) /\ x.id = o => x \in list
    BY <1>1 DEF ApplyEvent
  <2>2. \A x \in list : x.id = o => x \in ApplyEvent(list, e)
    BY <1>1 DEF ApplyEvent
  <2>3. [id |-> o, stationary |-> FALSE].id = o
    OBVIOUS
  <2>. QED  BY <1>1, <2>1, <2>2, <2>3 DEF AgreesOn
<1>2. CASE e.id = o /\ e.type = "end"
  <2>1. p \notin Known
    BY <1>2 DEF RightEvent
  <2>2. \A x \in ApplyEvent(list, e) : x.id # o
    BY <1>2 DEF ApplyEvent
  <2>. QED  BY <2>1, <2>2 DEF AgreesOn, Known
<1>3. CASE e.id = o /\ e.type # "end"
  <2>1. p \in Known /\ e.stationary = (p = "stationary")
    BY <1>3 DEF RightEvent
  <2>2. CASE known = {} /\ e.stationary
    <3>1. ApplyEvent(list, e) = list /\ \A x \in list : x.id # o
      BY <1>3, <2>2 DEF ApplyEvent
    <3>. QED  BY <2>1, <2>2, <3>1 DEF AgreesOn
  <2>3. CASE ~(known = {} /\ e.stationary)
    <3>1. ApplyEvent(list, e) = (list \ known) \cup {entry}
      BY <1>3, <2>3 DEF ApplyEvent
    <3>2. \A x \in (list \ known) : x.id # o
      BY <1>3
    <3>3. p = "active" => entry = [id |-> o, stationary |-> FALSE]
      BY <1>3, <2>1 DEF EventMsgs
    <3>4. \A x \in ApplyEvent(list, e) : x.id = o => x.stationary = (p = "stationary")
      BY <2>1, <3>1, <3>2
    <3>5. entry \in ApplyEvent(list, e)
      BY <3>1
    <3>. HIDE DEF entry, known
    <3>. QED  BY <2>1, <3>3, <3>4, <3>5 DEF AgreesOn
  <2>. QED  BY <2>2, <2>3
<1>. QED  BY <1>1, <1>2, <1>3
\* What is behind the message that is taken was behind it.
LEMMA TailFrame ==
    ASSUME CardInv, down # <<>>, down' = Tail(down)
    PROVE  /\ Len(down) \in Nat \ {0} /\ Len(down') = Len(down) - 1
           /\ \A i \in 1..Len(down') : down'[i] = down[i + 1] /\ i + 1 \in 1..Len(down)
           /\ \A o \in Objs : \A i \in 0..Len(down') : LastAbout(o, i)' => LastAbout(o, i + 1)
           /\ Pending' = Pending =>
                \A i \in 0..Len(down') : LastSetting(i)' => LastSetting(i + 1)
<1>1. /\ Len(down) \in Nat \ {0} /\ Len(down') = Len(down) - 1
      /\ \A i \in 1..Len(down') : down'[i] = down[i + 1]
  BY TailFacts DEF CardInv
<1>2. \A i \in 1..Len(down') : i + 1 \in 1..Len(down)
  BY <1>1
<1>3. \A j \in 1..Len(down) : j > 1 => j - 1 \in 1..Len(down') /\ down'[j - 1] = down[j]
  BY <1>1
<1>4. ASSUME NEW o \in Objs, NEW i \in 0..Len(down'), LastAbout(o, i)'
      PROVE  LastAbout(o, i + 1)
  BY <1>1, <1>3, <1>4 DEF LastAbout, IsAbout
<1>5. ASSUME Pending' = Pending, NEW i \in 0..Len(down'), LastSetting(i)'
      PROVE  LastSetting(i + 1)
  <2>1. ~Pending /\ \A j \in 1..Len(down') : j > i => down'[j].topic # "detect"
    BY <1>5 DEF LastSetting
  <2>. QED  BY <1>1, <1>3, <2>1 DEF LastSetting
<1>. QED  BY <1>1, <1>2, <1>4, <1>5

\* A message is taken.
LEMMA ListHead ==
    ASSUME CardInv, ListInv, processWsMessage
    PROVE  ListInv'
<1>. DEFINE m == Head(down)
<1>1. down # <<>> /\ down' = Tail(down) /\ UNCHANGED <<phase, mounted>>
  BY DEF processWsMessage, server
<1>2. /\ Len(down) \in Nat \ {0}
      /\ \A i \in 1..Len(down') : down'[i] = down[i + 1] /\ i + 1 \in 1..Len(down)
      /\ \A o \in Objs : \A i \in 0..Len(down') : LastAbout(o, i)' => LastAbout(o, i + 1)
      /\ Len(down') \in Nat
  BY <1>1, TailFrame
<1>3. EventsRight'
  BY <1>1, <1>2 DEF ListInv, EventsRight, IsAbout
<1>4. SnapshotsRight'
  BY <1>1, <1>2 DEF ListInv, SnapshotsRight
<1>5. \A o \in Objs : LastAbout(o, 0)' => LastAbout(o, 1)
  BY <1>2
<1>6. \A o \in Objs : LastAbout(o, 1) /\ ~IsAbout(m, o) => LastAbout(o, 0)
  BY <1>1, <1>2, HeadKinds DEF LastAbout
<1>7. m = down[1] /\ 1 \in 1..Len(down)
  BY <1>1, <1>2, HeadKinds
<1>8. CASE m.topic = "camera_activity" /\ applyCameraActivity(m)
  <2>1. CASE UNCHANGED <<objects, exact>>
    BY <1>1, <1>3, <1>4, <1>5, <1>6, <1>8, <2>1 DEF ListInv, ListRight, IsAbout
  <2>2. CASE /\ objects' = IF mounted THEN m.objects ELSE objects
             /\ exact' = [objects |-> mounted /\ m.exact.objects, detect |-> m.exact.detect]
    <3>1. \A o \in Objs : LastAbout(o, 1) /\ m.exact.objects => AgreesOn(o, m.objects, phase[o])
      BY <1>7, <1>8 DEF ListInv, SnapshotsRight
    <3>2. exact'.objects => mounted /\ m.exact.objects
      BY <2>2
    <3>. QED  BY <1>1, <1>3, <1>4, <1>5, <2>2, <3>1, <3>2 DEF ListInv, ListRight
  <2>. QED  BY <1>8, <2>1, <2>2 DEF applyCameraActivity
<1>9. CASE /\ m.topic = "events"
           /\ objects' = IF mounted THEN ApplyEvent(objects, m) ELSE objects
           /\ UNCHANGED exact
  <2>. SUFFICES ASSUME mounted, exact.objects, NEW o \in Objs, LastAbout(o, 0)'
                PROVE  AgreesOn(o, objects', phase[o])
    BY <1>1, <1>3, <1>4, <1>9 DEF ListInv, ListRight
  <2>1. m \in EventMsgs
    BY <1>1, <1>9, HeadKinds
  <2>2. m.id = o => RightEvent(m, phase[o])
    BY <1>5, <1>7, <1>9 DEF ListInv, EventsRight, IsAbout
  <2>3. m.id # o => AgreesOn(o, objects, phase[o])
    BY <1>5, <1>6 DEF ListInv, ListRight, IsAbout
  <2>4. objects \in SUBSET Entry /\ phase[o] \in Phases
    BY DEF CardInv
  <2>5. objects' = ApplyEvent(objects, m)
    BY <1>9
  <2>. HIDE DEF m
  <2>. QED  BY <2>1, <2>2, <2>3, <2>4, <2>5, ApplyAgrees
<1>10. CASE /\ m.topic = "detect"
            /\ exact' = [exact EXCEPT !.detect = m.exact]
            /\ UNCHANGED objects
  <2>1. exact'.objects = exact.objects
    BY <1>10 DEF CardInv, Exactness
  <2>2. ListRight'
    BY <1>1, <1>5, <1>6, <1>10, <2>1 DEF ListInv, ListRight, IsAbout
  <2>. QED  BY <1>3, <1>4, <2>2 DEF ListInv
<1>. QED  BY <1>8, <1>9, <1>10 DEF processWsMessage

\* An event or a snapshot is published, to the client if it is connected.
LEMMA ListPublish ==
    ASSUME CardInv, ListInv, NEW m \in DownMsgs, Publish(m),
           UNCHANGED <<ws, mounted, objects, exact>>,
           \A o \in Objs : IF IsAbout(m, o) THEN RightEvent(m, phase'[o])
                           ELSE phase'[o] = phase[o],
           m.topic = "camera_activity" /\ m.exact.objects =>
               \A o \in Objs : AgreesOn(o, m.objects, phase'[o])
    PROVE  ListInv'
<1>1. CASE ws = "open"
  BY <1>1, PublishType, ListAppend
<1>2. CASE ws # "open"
  BY <1>2, PublishType, ListEmpty DEF CardInv
<1>. QED  BY <1>1, <1>2

\* What the processor reports is what there is.
LEMMA LiveAgrees ==
    ASSUME CardInv, NEW o \in Objs PROVE AgreesOn(o, Live, phase[o])
<1>1. \A x \in Live : x.id = o => phase[o] \in Known /\ x.stationary = (phase[o] = "stationary")
  BY DEF Live
<1>2. phase[o] = "active" => [id |-> o, stationary |-> FALSE] \in Live
  <2>. SUFFICES ASSUME phase[o] = "active" PROVE [id |-> o, stationary |-> FALSE] \in Live
    OBVIOUS
  <2>1. o \in {p \in Objs : phase[p] \in Known}
    BY DEF Known
  <2>2. [id |-> o, stationary |-> FALSE] = [id |-> o, stationary |-> phase[o] = "stationary"]
    OBVIOUS
  <2>. QED  BY <2>1, <2>2 DEF Live
<1>. QED  BY <1>1, <1>2 DEF AgreesOn

LEMMA NextList == CardInv /\ ListInv /\ [Next]_vars => ListInv'
<1>. SUFFICES ASSUME CardInv, ListInv, [Next]_vars PROVE ListInv'
  OBVIOUS
<1>1. ASSUME NEW o \in Objs, ObjectUpdate(o) PROVE ListInv'
  <2>1. PICK st \in BOOLEAN :
          /\ phase' = [phase EXCEPT ![o] = IF st THEN "stationary" ELSE "active"]
          /\ Publish(Event(IF phase[o] = "none" THEN "new" ELSE "update", o, st))
          /\ UNCHANGED <<activity, detect, publishing, snap, ws, up, client, exact, asked>>
    BY <1>1 DEF ObjectUpdate
  <2>. DEFINE type == IF phase[o] = "none" THEN "new" ELSE "update"
  <2>2. Event(type, o, st) \in DownMsgs
    BY DEF Event, DownMsgs, EventMsgs
  <2>3. \A p \in Objs : IF IsAbout(Event(type, o, st), p)
                        THEN RightEvent(Event(type, o, st), phase'[p])
                        ELSE phase'[p] = phase[p]
    BY <2>1 DEF IsAbout, Event, RightEvent, Known, CardInv
  <2>. QED  BY <2>1, <2>2, <2>3, ListPublish DEF client, Event
<1>2. ASSUME NEW o \in Objs, ObjectEnd(o) PROVE ListInv'
  <2>1. Event("end", o, FALSE) \in DownMsgs
    BY DEF Event, DownMsgs, EventMsgs
  <2>2. \A p \in Objs : IF IsAbout(Event("end", o, FALSE), p)
                        THEN RightEvent(Event("end", o, FALSE), phase'[p])
                        ELSE phase'[p] = phase[p]
    BY <1>2 DEF ObjectEnd, IsAbout, Event, RightEvent, Known, CardInv
  <2>. QED  BY <1>2, <2>1, <2>2, ListPublish DEF ObjectEnd, client, Event
<1>3. ASSUME NEW o \in Objs, ObjectFinished(o) PROVE ListInv'
  BY <1>3, ListFrame DEF ObjectFinished, CardInv, client
<1>4. CASE SendSnapshot
  <2>. DEFINE m == [topic |-> "camera_activity", objects |-> snap.objects,
                    detect |-> snap.detect,
                    exact |-> [objects |-> snap.objects = Live,
                               detect |-> snap.detect = detect]]
  <2>1. m \in DownMsgs
    BY <1>4 DEF SendSnapshot, CardInv, Snapshots, DownMsgs, SnapMsgs, Exactness
  <2>2. Publish(m) /\ UNCHANGED <<phase, ws, mounted, objects, exact>>
    BY <1>4 DEF SendSnapshot, client
  <2>3. m.exact.objects => m.objects = Live
    OBVIOUS
  <2>4. m.topic = "camera_activity"
    OBVIOUS
  <2>. HIDE DEF m
  <2>. QED  BY <2>1, <2>2, <2>3, <2>4, LiveAgrees, ListPublish DEF IsAbout
<1>5. ASSUME NEW t \in Threads, PublishState(t) PROVE ListInv'
  <2>1. StateMsg(publishing[t]) \in DownMsgs
    BY <1>5 DEF PublishState, CardInv, StateMsg, DownMsgs, StateMsgs
  <2>. QED  BY <1>5, <2>1, ListPublish DEF PublishState, StateMsg, IsAbout, client
<1>6. CASE processWsMessage
  BY <1>6, ListHead
<1>7. CASE onclose \/ UnmountProvider
  BY <1>7, ListEmpty DEF onclose, UnmountProvider
<1>8. CASE MountCard
  <2>1. ~exact'.objects /\ UNCHANGED <<phase, down>>
    BY <1>8 DEF MountCard, CardInv, Exactness, server
  <2>2. EventsRight' /\ SnapshotsRight'
    BY <2>1 DEF ListInv, EventsRight, SnapshotsRight, LastAbout, IsAbout
  <2>. QED  BY <2>1, <2>2 DEF ListInv, ListRight
<1>9. CASE UnmountCard
  <2>1. ~mounted' /\ UNCHANGED <<phase, down>>
    BY <1>9 DEF UnmountCard, server
  <2>2. EventsRight' /\ SnapshotsRight'
    BY <2>1 DEF ListInv, EventsRight, SnapshotsRight, LastAbout, IsAbout
  <2>. QED  BY <2>1, <2>2 DEF ListInv, ListRight
<1>10. CASE \/ ReportActivity \/ BuildSnapshot \/ WsToggle
            \/ \E v \in ONOFF : MqttToggle(v)
            \/ onopen \/ connect \/ MountProvider \/ VisibilityChange
            \/ \E v \in ONOFF : UserToggle(v)
            \/ UNCHANGED vars
  <2>1. UNCHANGED <<phase, down, objects, mounted, exact>>
    BY <1>10 DEF ReportActivity, BuildSnapshot, WsToggle, MqttToggle, SetToggle, onopen,
       connect, MountProvider, VisibilityChange, UserToggle, vars, server, client
  <2>. QED  BY <2>1, ListFrame
<1>. QED  BY <1>1, <1>2, <1>3, <1>4, <1>5, <1>6, <1>7, <1>8, <1>9, <1>10
          DEF Next, ServerStep, SocketStep, CardStep
(***************************************************************************)
(* The toggle shown                                                        *)
(***************************************************************************)
\* "No value" is not a setting.
NullIsNoSetting == Null \notin ONOFF

\* Nothing about the toggle is sent, taken or set.
LEMMA SettingFrame ==
    ASSUME SettingInv, UNCHANGED <<down, detect, publishing>>,
           exact'.detect => exact.detect /\ wsState'.detect = wsState.detect
    PROVE  SettingInv'
<1>1. \A i : LastSetting(i)' = LastSetting(i)
  BY DEF LastSetting, Pending
<1>. QED  BY <1>1 DEF SettingInv

\* Without a connection nothing is claimed.
LEMMA SettingEmpty ==
    ASSUME down' = <<>>, ~exact'.detect
    PROVE  SettingInv'
BY DEF SettingInv

\* A setting that was made is still to be published.
LEMMA SettingPending ==
    ASSUME Pending' PROVE SettingInv'
BY DEF SettingInv, LastSetting

\* A message is sent: the setting as a thread made it, a snapshot, or an event.
LEMMA SettingAppend ==
    ASSUME CardInv, SettingInv, NEW m \in DownMsgs, down' = Append(down, m),
           UNCHANGED <<detect, exact, wsState>>,
           m.topic # "detect" => UNCHANGED publishing,
           m.topic = "detect" /\ m.exact => m.payload = detect,
           m.topic = "camera_activity" /\ m.exact.detect => m.detect = detect
    PROVE  SettingInv'
<1>. DEFINE n == Len(down)
<1>1. /\ Len(down') = n + 1 /\ n \in Nat
      /\ \A i \in 1..n : down'[i] = down[i]
      /\ down'[n + 1] = m
  BY AppendFacts DEF CardInv
<1>2. ASSUME NEW i \in 0..n, LastSetting(i)' PROVE LastSetting(i)
  <2>1. ~Pending' /\ \A j \in 1..(n + 1) : j > i => down'[j].topic # "detect"
    BY <1>1, <1>2 DEF LastSetting
  <2>2. m.topic # "detect"
    BY <1>1, <2>1
  <2>3. ~Pending
    BY <2>1, <2>2 DEF Pending
  <2>. QED  BY <1>1, <2>1, <2>3 DEF LastSetting
<1>3. ASSUME NEW i \in 1..(n + 1), LastSetting(i)'
      PROVE  /\ down'[i].topic = "detect" /\ down'[i].exact => down'[i].payload = detect
             /\ down'[i].topic = "camera_activity" /\ down'[i].exact.detect
                  => down'[i].detect = detect
  <2>1. CASE i = n + 1
    BY <1>1, <2>1
  <2>2. CASE i \in 1..n
    BY <1>1, <1>2, <1>3, <2>2 DEF SettingInv
  <2>. QED  BY <1>1, <2>1, <2>2
<1>4. exact.detect /\ LastSetting(0)' => wsState.detect = detect
  BY <1>1, <1>2 DEF SettingInv
<1>. QED  BY <1>1, <1>3, <1>4 DEF SettingInv

LEMMA SettingPublish ==
    ASSUME CardInv, SettingInv, NEW m \in DownMsgs, Publish(m),
           UNCHANGED <<ws, detect, exact, wsState>>,
           m.topic # "detect" => UNCHANGED publishing,
           m.topic = "detect" /\ m.exact => m.payload = detect,
           m.topic = "camera_activity" /\ m.exact.detect => m.detect = detect
    PROVE  SettingInv'
<1>1. CASE ws = "open"
  BY <1>1, PublishType, SettingAppend
<1>2. CASE ws # "open"
  BY <1>2, PublishType, SettingEmpty DEF CardInv
<1>. QED  BY <1>1, <1>2

\* A message is taken.
LEMMA SettingHead ==
    ASSUME CardInv, SettingInv, processWsMessage
    PROVE  SettingInv'
<1>. DEFINE m == Head(down)
<1>1. down # <<>> /\ down' = Tail(down) /\ UNCHANGED <<detect, publishing>>
  BY DEF processWsMessage, server
<1>2. /\ Len(down) \in Nat \ {0} /\ Len(down') \in Nat
      /\ \A i \in 1..Len(down') : down'[i] = down[i + 1] /\ i + 1 \in 1..Len(down)
      /\ \A i \in 0..Len(down') : LastSetting(i)' => LastSetting(i + 1)
  BY <1>1, TailFrame DEF Pending
<1>3. ASSUME NEW i \in 1..Len(down'), LastSetting(i)'
      PROVE  /\ down'[i].topic = "detect" /\ down'[i].exact => down'[i].payload = detect
             /\ down'[i].topic = "camera_activity" /\ down'[i].exact.detect
                  => down'[i].detect = detect
  BY <1>2, <1>3 DEF SettingInv
<1>4. LastSetting(0)' => LastSetting(1)
  BY <1>2
<1>5. m = down[1] /\ 1 \in 1..Len(down)
  BY <1>1, <1>2, HeadKinds
<1>6. LastSetting(1) /\ m.topic # "detect" => LastSetting(0)
  BY <1>2, <1>5 DEF LastSetting
<1>7. exact'.detect /\ LastSetting(0)' => wsState'.detect = detect
  <2>1. CASE m.topic = "camera_activity" /\ applyCameraActivity(m)
    <3>1. CASE UNCHANGED <<wsState, exact>>
      BY <1>4, <1>6, <2>1, <3>1 DEF SettingInv
    <3>2. CASE /\ wsState' = [wsState EXCEPT !.activity = m.objects, !.detect = m.detect]
               /\ exact' = [objects |-> mounted /\ m.exact.objects, detect |-> m.exact.detect]
      <4>1. wsState'.detect = m.detect /\ exact'.detect = m.exact.detect
        BY <3>2 DEF CardInv, Stores
      <4>2. LastSetting(1) /\ m.exact.detect => m.detect = detect
        BY <1>5, <2>1 DEF SettingInv
      <4>. QED  BY <1>4, <4>1, <4>2
    <3>. QED  BY <2>1, <3>1, <3>2 DEF applyCameraActivity
  <2>2. CASE /\ m.topic = "events"
             /\ wsState' = [wsState EXCEPT !.events = m]
             /\ UNCHANGED exact
    <3>1. wsState'.detect = wsState.detect
      BY <2>2 DEF CardInv, Stores
    <3>. QED  BY <1>4, <1>6, <2>2, <3>1 DEF SettingInv
  <2>3. CASE /\ m.topic = "detect"
             /\ wsState' = [wsState EXCEPT !.detect = m.payload]
             /\ exact' = [exact EXCEPT !.detect = m.exact]
    <3>1. wsState'.detect = m.payload /\ exact'.detect = m.exact
      BY <2>3 DEF CardInv, Stores, Exactness
    <3>2. LastSetting(1) /\ m.exact => m.payload = detect
      BY <1>5, <2>3 DEF SettingInv
    <3>. QED  BY <1>4, <3>1, <3>2
  <2>. QED  BY <2>1, <2>2, <2>3 DEF processWsMessage
<1>. QED  BY <1>1, <1>3, <1>7 DEF SettingInv

LEMMA NextSetting ==
    ASSUME NullIsNoSetting PROVE CardInv /\ SettingInv /\ [Next]_vars => SettingInv'
<1>. SUFFICES ASSUME CardInv, SettingInv, [Next]_vars PROVE SettingInv'
  OBVIOUS
<1>1. ASSUME NEW o \in Objs, ObjectUpdate(o) PROVE SettingInv'
  <2>1. PICK st \in BOOLEAN :
          /\ Publish(Event(IF phase[o] = "none" THEN "new" ELSE "update", o, st))
          /\ UNCHANGED <<activity, detect, publishing, snap, ws, up, client, exact, asked>>
    BY <1>1 DEF ObjectUpdate
  <2>2. Event(IF phase[o] = "none" THEN "new" ELSE "update", o, st) \in DownMsgs
    BY DEF Event, DownMsgs, EventMsgs
  <2>. QED  BY <2>1, <2>2, SettingPublish DEF client, Event
<1>2. ASSUME NEW o \in Objs, ObjectEnd(o) PROVE SettingInv'
  <2>1. Event("end", o, FALSE) \in DownMsgs
    BY DEF Event, DownMsgs, EventMsgs
  <2>. QED  BY <1>2, <2>1, SettingPublish DEF ObjectEnd, client, Event
<1>3. CASE SendSnapshot
  <2>. DEFINE m == [topic |-> "camera_activity", objects |-> snap.objects,
                    detect |-> snap.detect,
                    exact |-> [objects |-> snap.objects = Live,
                               detect |-> snap.detect = detect]]
  <2>1. m \in DownMsgs
    BY <1>3 DEF SendSnapshot, CardInv, Snapshots, DownMsgs, SnapMsgs, Exactness
  <2>2. Publish(m) /\ UNCHANGED <<publishing, ws, detect, exact, wsState>>
    BY <1>3 DEF SendSnapshot, client
  <2>3. m.exact.detect => m.detect = detect
    OBVIOUS
  <2>4. m.topic = "camera_activity"
    OBVIOUS
  <2>. HIDE DEF m
  <2>. QED  BY <2>1, <2>2, <2>3, <2>4, SettingPublish
<1>4. ASSUME NEW t \in Threads, PublishState(t) PROVE SettingInv'
  <2>1. StateMsg(publishing[t]) \in DownMsgs
    BY <1>4 DEF PublishState, CardInv, StateMsg, DownMsgs, StateMsgs
  <2>. QED  BY <1>4, <2>1, SettingPublish DEF PublishState, StateMsg, client
<1>5. ASSUME NEW t \in Threads, NEW v \in ONOFF, SetToggle(t, v) PROVE SettingInv'
  <2>1. publishing'[t] = v
    BY <1>5 DEF SetToggle, CardInv
  <2>2. Pending'
    BY <2>1 DEF Pending, NullIsNoSetting
  <2>. QED  BY <2>2, SettingPending
<1>6. CASE WsToggle
  <2>1. Head(up) \in UpMsgs /\ Head(up).topic = "detect"
    BY <1>6, TailFacts DEF WsToggle, CardInv
  <2>2. Head(up).payload \in ONOFF
    BY <2>1 DEF UpMsgs
  <2>. QED  BY <1>5, <1>6, <2>2 DEF WsToggle, Threads
<1>7. ASSUME NEW v \in ONOFF, MqttToggle(v) PROVE SettingInv'
  BY <1>5, <1>7 DEF MqttToggle, Threads
<1>8. CASE processWsMessage
  BY <1>8, SettingHead
<1>9. CASE onclose \/ UnmountProvider
  BY <1>9, SettingEmpty DEF onclose, UnmountProvider
<1>10. CASE \/ \E o \in Objs : ObjectFinished(o)
            \/ ReportActivity \/ BuildSnapshot \/ onopen \/ connect \/ MountProvider
            \/ MountCard \/ UnmountCard \/ VisibilityChange
            \/ \E v \in ONOFF : UserToggle(v)
            \/ UNCHANGED vars
  <2>1. UNCHANGED <<down, detect, publishing, wsState>>
    BY <1>10 DEF ObjectFinished, ReportActivity, BuildSnapshot, onopen, connect, MountProvider,
       MountCard, UnmountCard, VisibilityChange, UserToggle, vars, server, client
  <2>2. exact'.detect = exact.detect
    BY <1>10 DEF ObjectFinished, ReportActivity, BuildSnapshot, onopen, connect, MountProvider,
       MountCard, UnmountCard, VisibilityChange, UserToggle, vars, CardInv, Exactness
  <2>. QED  BY <2>1, <2>2, SettingFrame
<1>. QED  BY <1>1, <1>2, <1>3, <1>4, <1>6, <1>7, <1>8, <1>9, <1>10
          DEF Next, ServerStep, SocketStep, CardStep
(***************************************************************************)
(* The user's last flip                                                    *)
(***************************************************************************)
\* Nothing is sent to the server, and no setting made.
LEMMA FlipFrame ==
    ASSUME FlipInv, UNCHANGED <<up, pendingSends, detect, asked>>
    PROVE  FlipInv'
BY DEF FlipInv, LastFlip, NoFlip

\* Nobody's flip is the last.
LEMMA FlipNone == ASSUME asked' = Null PROVE FlipInv'
BY DEF FlipInv

\* A message is taken from the socket: the setting is made when it is a flip.
LEMMA FlipTail ==
    ASSUME CardInv, FlipInv, up # <<>>, up' = Tail(up), UNCHANGED <<pendingSends, asked>>,
           ws = "open",
           IF Head(up).topic = "detect" THEN detect' = Head(up).payload ELSE detect' = detect
    PROVE  FlipInv'
<1>. SUFFICES ASSUME asked # Null PROVE FlipInv'
  BY DEF FlipInv
<1>1. /\ Len(up) \in Nat \ {0} /\ Len(up') = Len(up) - 1 /\ Head(up) = up[1]
      /\ \A i \in 1..Len(up') : up'[i] = up[i + 1]
  BY TailFacts DEF CardInv
<1>2. \A j \in 1..Len(up) : j > 1 => j - 1 \in 1..Len(up') /\ up'[j - 1] = up[j]
  BY <1>1
<1>3. ASSUME NEW i \in 1..Len(up'), LastFlip(i)' PROVE up'[i].payload = asked
  <2>1. i + 1 \in 1..Len(up) /\ LastFlip(i + 1)
    BY <1>1, <1>2, <1>3 DEF LastFlip
  <2>. QED  BY <1>1, <2>1 DEF FlipInv
<1>4. ASSUME NoFlip(up)' PROVE detect' = asked
  <2>1. \A j \in 1..Len(up) : j > 1 => up[j].topic # "detect"
    BY <1>2, <1>4 DEF NoFlip
  <2>2. CASE Head(up).topic = "detect"
    <3>1. LastFlip(1) /\ 1 \in 1..Len(up)
      BY <1>1, <2>1, <2>2 DEF LastFlip
    <3>. QED  BY <1>1, <2>2, <3>1 DEF FlipInv
  <2>3. CASE Head(up).topic # "detect"
    <3>1. NoFlip(up)
      BY <1>1, <2>1, <2>3 DEF NoFlip
    <3>2. NoFlip(pendingSends)
      BY DEF CardInv, NoFlip
    <3>. QED  BY <2>3, <3>1, <3>2 DEF FlipInv
  <2>. QED  BY <2>2, <2>3
<1>. QED  BY <1>3, <1>4 DEF FlipInv, NoFlip

\* A message is sent or buffered, which takes the place of the one buffered
\* under its topic.
LEMMA BufferFacts ==
    ASSUME CardInv, NEW m \in UpMsgs
    PROVE  \/ /\ Len(Buffer(m)) = Len(pendingSends)
              /\ \A i \in 1..Len(pendingSends) :
                   Buffer(m)[i] = IF pendingSends[i].topic = m.topic THEN m
                                  ELSE pendingSends[i]
              /\ \E i \in 1..Len(pendingSends) : pendingSends[i].topic = m.topic
           \/ /\ Buffer(m) = Append(pendingSends, m)
              /\ \A i \in 1..Len(pendingSends) : pendingSends[i].topic # m.topic
<1>1. pendingSends \in Seq(UpMsgs) /\ DOMAIN pendingSends = 1..Len(pendingSends)
  BY DEF CardInv
<1>2. CASE \E i \in DOMAIN pendingSends : pendingSends[i].topic = m.topic
  <2>1. Buffer(m) = [i \in 1..Len(pendingSends) |->
                       IF pendingSends[i].topic = m.topic THEN m ELSE pendingSends[i]]
    BY <1>1, <1>2 DEF Buffer
  <2>2. Len(Buffer(m)) = Len(pendingSends)
    BY <1>1, <2>1
  <2>. QED  BY <1>1, <1>2, <2>1, <2>2
<1>3. CASE ~ \E i \in DOMAIN pendingSends : pendingSends[i].topic = m.topic
  BY <1>1, <1>3 DEF Buffer
<1>. QED  BY <1>2, <1>3

LEMMA FlipSend ==
    ASSUME CardInv, FlipInv, NEW m \in UpMsgs, sendJsonMessage(m), UNCHANGED <<ws, detect>>,
           IF m.topic = "detect" THEN asked' = m.payload ELSE asked' = asked
    PROVE  FlipInv'
<1>. SUFFICES ASSUME asked' # Null PROVE FlipInv'
  BY DEF FlipInv
<1>1. CASE ws = "open"
  <2>. DEFINE n == Len(up)
  <2>1. up' = Append(up, m) /\ pendingSends' = pendingSends /\ pendingSends = <<>>
    BY <1>1 DEF sendJsonMessage, CardInv
  <2>2. /\ Len(up') = n + 1 /\ n \in Nat /\ up'[n + 1] = m
        /\ \A i \in 1..n : up'[i] = up[i]
    BY <2>1, AppendFacts DEF CardInv
  <2>3. CASE m.topic = "detect"
    <3>1. \A i \in 1..(n + 1) : LastFlip(i)' => i = n + 1
      BY <2>2, <2>3 DEF LastFlip
    <3>2. ~NoFlip(up)'
      BY <2>2, <2>3 DEF NoFlip
    <3>. QED  BY <2>1, <2>2, <2>3, <3>1, <3>2 DEF FlipInv, NoFlip
  <2>4. CASE m.topic # "detect"
    <3>1. \A i \in 1..(n + 1) : LastFlip(i)' => i \in 1..n /\ LastFlip(i)
      BY <2>2, <2>4 DEF LastFlip
    <3>2. NoFlip(up)' => NoFlip(up)
      BY <2>2 DEF NoFlip
    <3>. QED  BY <2>1, <2>2, <2>4, <3>1, <3>2 DEF FlipInv, NoFlip
  <2>. QED  BY <2>3, <2>4
<1>2. CASE ws # "open"
  <2>. DEFINE n == Len(pendingSends)
  <2>1. pendingSends' = Buffer(m) /\ up' = up /\ up = <<>> /\ n \in Nat
    BY <1>2 DEF sendJsonMessage, CardInv
  <2>2. CASE /\ Len(Buffer(m)) = n
             /\ \A i \in 1..n : Buffer(m)[i] = IF pendingSends[i].topic = m.topic THEN m
                                              ELSE pendingSends[i]
             /\ \E i \in 1..n : pendingSends[i].topic = m.topic
    <3>1. CASE m.topic = "detect"
      BY <2>1, <2>2, <3>1 DEF FlipInv, NoFlip
    <3>2. CASE m.topic # "detect"
      BY <2>1, <2>2, <3>2 DEF FlipInv, NoFlip
    <3>. QED  BY <3>1, <3>2
  <2>3. CASE /\ Buffer(m) = Append(pendingSends, m)
             /\ \A i \in 1..n : pendingSends[i].topic # m.topic
    <3>1. /\ Len(pendingSends') = n + 1 /\ pendingSends'[n + 1] = m
          /\ \A i \in 1..n : pendingSends'[i] = pendingSends[i]
      BY <2>1, <2>3, AppendFacts DEF CardInv
    <3>2. CASE m.topic = "detect"
      BY <2>1, <2>3, <3>1, <3>2 DEF FlipInv, NoFlip
    <3>3. CASE m.topic # "detect"
      BY <2>1, <2>3, <3>1, <3>3 DEF FlipInv, NoFlip
    <3>. QED  BY <3>2, <3>3
  <2>. QED  BY <2>2, <2>3, BufferFacts
<1>. QED  BY <1>1, <1>2

\* The socket opens: what was buffered goes out behind the question.
LEMMA FlipOpen ==
    ASSUME CardInv, FlipInv, onopen PROVE FlipInv'
<1>. SUFFICES ASSUME asked # Null PROVE FlipInv'
  BY DEF FlipInv, onopen
<1>. DEFINE n == Len(pendingSends)
<1>1. /\ up' = <<OnConnect>> \o pendingSends /\ pendingSends' = <<>>
      /\ UNCHANGED <<detect, asked>> /\ up = <<>>
  BY DEF onopen, CardInv, server
<1>2. /\ Len(up') = n + 1 /\ n \in Nat /\ up'[1] = OnConnect
      /\ \A i \in 1..n : up'[i + 1] = pendingSends[i]
  BY <1>1 DEF CardInv
<1>3. \A i \in 2..(n + 1) : i - 1 \in 1..n /\ up'[i] = pendingSends[i - 1]
  BY <1>2
<1>4. ASSUME NEW i \in 1..(n + 1), LastFlip(i)' PROVE up'[i].payload = asked
  <2>1. up'[i].topic = "detect"
    BY <1>4 DEF LastFlip
  <2>2. i # 1
    BY <1>2, <2>1 DEF OnConnect
  <2>. QED  BY <1>2, <1>3, <2>1, <2>2 DEF FlipInv
<1>5. ASSUME NoFlip(up)' PROVE detect' = asked
  <2>1. NoFlip(pendingSends) /\ NoFlip(up)
    BY <1>1, <1>2, <1>5 DEF NoFlip
  <2>. QED  BY <1>1, <2>1 DEF FlipInv
<1>. QED  BY <1>1, <1>2, <1>4, <1>5 DEF FlipInv

LEMMA NextFlip == CardInv /\ FlipInv /\ [Next]_vars => FlipInv'
<1>. SUFFICES ASSUME CardInv, FlipInv, [Next]_vars PROVE FlipInv'
  OBVIOUS
<1>0. OnConnect \in UpMsgs /\ OnConnect.topic # "detect"
  BY DEF OnConnect, UpMsgs
<1>1. CASE BuildSnapshot
  <2>1. CASE up # <<>> /\ Head(up).topic = "onConnect" /\ up' = Tail(up)
    <3>1. ws = "open" /\ UNCHANGED <<pendingSends, asked, detect>>
      BY <1>1, <2>1 DEF BuildSnapshot, CardInv, client
    <3>. QED  BY <2>1, <3>1, FlipTail
  <2>2. CASE up' = up
    BY <1>1, <2>2, FlipFrame DEF BuildSnapshot, client
  <2>. QED  BY <1>1, <2>1, <2>2 DEF BuildSnapshot
<1>2. CASE WsToggle
  <2>1. /\ up # <<>> /\ Head(up).topic = "detect" /\ up' = Tail(up)
        /\ detect' = Head(up).payload /\ UNCHANGED <<pendingSends, asked>>
    BY <1>2 DEF WsToggle, SetToggle, client
  <2>2. ws = "open"
    BY <2>1 DEF CardInv
  <2>. QED  BY <2>1, <2>2, FlipTail
<1>3. ASSUME NEW v \in ONOFF, MqttToggle(v) PROVE FlipInv'
  BY <1>3, FlipNone DEF MqttToggle
<1>4. CASE onopen
  BY <1>4, FlipOpen
<1>5. CASE onclose
  <2>1. CASE ws = "open"
    BY <1>5, <2>1, FlipNone DEF onclose
  <2>2. CASE ws # "open"
    <3>1. up = <<>> /\ UNCHANGED <<up, pendingSends, detect, asked>>
      BY <1>5, <2>2 DEF onclose, CardInv, server, client
    <3>. QED  BY <3>1, FlipFrame
  <2>. QED  BY <2>1, <2>2
<1>6. CASE UnmountProvider
  BY <1>6, FlipNone DEF UnmountProvider
<1>7. CASE MountCard
  BY <1>0, <1>7, FlipSend DEF MountCard, requestCameraActivityResync, server
<1>8. CASE VisibilityChange
  BY <1>0, <1>8, FlipSend DEF VisibilityChange, requestCameraActivityResync, server
<1>9. ASSUME NEW v \in ONOFF, UserToggle(v) PROVE FlipInv'
  <2>. DEFINE m == [topic |-> "detect", payload |-> v]
  <2>1. m \in UpMsgs /\ m.topic = "detect" /\ m.payload = v
    BY DEF UpMsgs
  <2>2. sendJsonMessage(m) /\ asked' = v /\ UNCHANGED <<ws, detect>>
    BY <1>9 DEF UserToggle, server
  <2>. HIDE DEF m
  <2>. QED  BY <2>1, <2>2, FlipSend
<1>10. CASE \/ \E o \in Objs : ObjectUpdate(o) \/ ObjectEnd(o) \/ ObjectFinished(o)
            \/ ReportActivity \/ SendSnapshot \/ connect \/ MountProvider
            \/ \E t \in Threads : PublishState(t)
            \/ processWsMessage \/ UnmountCard \/ UNCHANGED vars
  <2>1. UNCHANGED <<up, pendingSends, detect, asked>>
    BY <1>10 DEF ObjectUpdate, ObjectEnd, ObjectFinished, ReportActivity, SendSnapshot,
       connect, MountProvider, PublishState, processWsMessage, UnmountCard, vars, server, client
  <2>. QED  BY <2>1, FlipFrame
<1>. QED  BY <1>1, <1>2, <1>3, <1>4, <1>5, <1>6, <1>7, <1>8, <1>9, <1>10
          DEF Next, ServerStep, SocketStep, CardStep

(***************************************************************************)
(* The theorems                                                            *)
(***************************************************************************)
LEMMA NextType == CardInv /\ [Next]_vars => CardInv'
<1>1. CardInv /\ UNCHANGED vars => CardInv'
  BY DEF CardInv, vars, server, client
<1>. QED  BY <1>1, ServerType, SocketType, CardStepType DEF Next

\* The inductive invariant of the theorems below.
CardTruth == CardInv /\ ListInv /\ SettingInv /\ FlipInv

LEMMA InitTruth == Init => CardTruth
<1>1. Init => ListInv /\ SettingInv /\ FlipInv
  BY DEF Init, ListInv, EventsRight, SnapshotsRight, ListRight, SettingInv, FlipInv
<1>. QED  BY <1>1, InitType DEF CardTruth

LEMMA NextTruth == ASSUME NullIsNoSetting PROVE CardTruth /\ [Next]_vars => CardTruth'
BY NextType, NextList, NextSetting, NextFlip DEF CardTruth

\* How much of its bound was used stays within it.
LEMMA NextUsed ==
    ASSUME MaxUses \in Nat PROVE used \in 0..MaxUses /\ [Next]_vars => used' \in 0..MaxUses
<1>1. ASSUME ServerStep PROVE used' = used \/ Use
  <2>1. ASSUME NEW o \in Objs, ObjectUpdate(o) PROVE used' = used \/ Use
    BY <2>1 DEF ObjectUpdate
  <2>2. ASSUME BuildSnapshot PROVE used' = used \/ Use
    BY <2>2 DEF BuildSnapshot
  <2>3. ASSUME NEW o \in Objs, ObjectEnd(o) \/ ObjectFinished(o) PROVE used' = used \/ Use
    BY <2>3 DEF ObjectEnd, ObjectFinished
  <2>4. ASSUME NEW v \in ONOFF, MqttToggle(v) PROVE used' = used \/ Use
    BY <2>4 DEF MqttToggle
  <2>5. ASSUME NEW t \in Threads, PublishState(t) PROVE used' = used \/ Use
    BY <2>5 DEF PublishState
  <2>6. ASSUME ReportActivity \/ SendSnapshot \/ WsToggle PROVE used' = used \/ Use
    BY <2>6 DEF ReportActivity, SendSnapshot, WsToggle
  <2>. QED  BY <1>1, <2>1, <2>2, <2>3, <2>4, <2>5, <2>6 DEF ServerStep
<1>2. ASSUME SocketStep PROVE used' = used \/ Use
  BY <1>2 DEF SocketStep, onopen, onclose, connect, UnmountProvider, MountProvider
<1>3. ASSUME CardStep PROVE used' = used \/ Use
  <2>1. ASSUME NEW v \in ONOFF, UserToggle(v) PROVE used' = used \/ Use
    BY <2>1 DEF UserToggle
  <2>2. ASSUME processWsMessage PROVE used' = used \/ Use
    BY <2>2 DEF processWsMessage
  <2>3. ASSUME MountCard \/ UnmountCard \/ VisibilityChange PROVE used' = used \/ Use
    BY <2>3 DEF MountCard, UnmountCard, VisibilityChange
  <2>. QED  BY <1>3, <2>1, <2>2, <2>3 DEF CardStep
<1>4. UNCHANGED vars => used' = used
  BY DEF vars
<1>5. used \in 0..MaxUses /\ (used' = used \/ Use) => used' \in 0..MaxUses
  BY DEF Use
<1>. QED  BY <1>1, <1>2, <1>3, <1>4, <1>5 DEF Next

LEMMA TypesAgree == CardInv /\ used \in 0..MaxUses => TypeOK
BY DEF CardInv, TypeOK, Phases, Stores, Exactness

\* With nothing under way the last word on every object and on the toggle is
\* what is shown.
LEMMA TruthIsShown ==
    ASSUME CardTruth PROVE ShownIsLive /\ ToggleIsConfigured /\ LastFlipWins
<1>1. ASSUME Quiet, exact.objects
      PROVE  objects \subseteq Live /\ ActiveIn(objects) = ActiveIn(Live)
  <2>1. \A o \in Objs : AgreesOn(o, objects, phase[o])
    <3>1. \A o \in Objs : LastAbout(o, 0)
      BY <1>1 DEF Quiet, LastAbout
    <3>. QED  BY <1>1, <3>1 DEF CardTruth, ListInv, ListRight, Quiet
  <2>2. \A x \in Entry : x.id \in Objs /\ x = [id |-> x.id, stationary |-> x.stationary]
    BY DEF Entry
  <2>3. objects \subseteq Entry
    BY DEF CardTruth, CardInv
  <2>4. ASSUME NEW x \in objects PROVE x \in Live
    <3>1. phase[x.id] \in Known /\ x.stationary = (phase[x.id] = "stationary")
      BY <2>1, <2>2, <2>3 DEF AgreesOn
    <3>2. x = [id |-> x.id, stationary |-> phase[x.id] = "stationary"] /\ x.id \in Objs
      BY <2>2, <2>3, <3>1
    <3>. QED  BY <3>1, <3>2 DEF Live
  <2>5. ASSUME NEW x \in Live, ~x.stationary PROVE x \in objects
    <3>1. PICK o \in Objs : /\ phase[o] \in Known
                            /\ x = [id |-> o, stationary |-> phase[o] = "stationary"]
      BY DEF Live
    <3>2. phase[o] = "active" /\ x = [id |-> o, stationary |-> FALSE]
      BY <2>5, <3>1 DEF Known
    <3>. QED  BY <2>1, <3>2 DEF AgreesOn
  <2>. QED  BY <2>4, <2>5 DEF ActiveIn
<1>2. ASSUME Quiet, exact.detect PROVE wsState.detect = detect
  <2>1. LastSetting(0)
    BY <1>2 DEF Quiet, LastSetting, Pending
  <2>. QED  BY <1>2, <2>1 DEF CardTruth, SettingInv
<1>3. ASSUME Quiet, asked # Null PROVE detect = asked
  <2>1. up = <<>> /\ pendingSends = <<>>
    BY <1>3 DEF Quiet, CardTruth, CardInv
  <2>2. NoFlip(up) /\ NoFlip(pendingSends)
    BY <2>1 DEF NoFlip
  <2>. QED  BY <1>3, <2>2 DEF CardTruth, FlipInv
<1>. QED  BY <1>1, <1>2, <1>3 DEF ShownIsLive, ToggleIsConfigured, LastFlipWins

\* The state of the server, of the socket and of the store keeps its types
\* (WsProvider, api/ws.ts, useCameraActivity).
THEOREM CardTypeCorrect ==
    ASSUME MaxUses \in Nat PROVE Spec => []TypeOK
<1>. DEFINE I == CardInv /\ used \in 0..MaxUses
<1>1. Init => I
  BY InitType DEF Init
<1>2. I /\ [Next]_vars => I'
  BY NextType, NextUsed
<1>3. I => TypeOK
  BY TypesAgree
<1>. HIDE DEF I
<1>. QED  BY <1>1, <1>2, <1>3, PTL DEF Spec

\* Once everything has arrived, the objects a card shows are those of the
\* server and the toggle is the server's, as far as the last message was true
\* when it was sent, and the user's last flip wins: no break, reconnection,
\* remount, repeated snapshot or order of messages is an exception
\* (processWsMessage, applyCameraActivity, sendJsonMessage, onopen).
THEOREM CardShowsTruth ==
    ASSUME NullIsNoSetting
    PROVE  Spec => [](ShownIsLive /\ ToggleIsConfigured /\ LastFlipWins)
<1>1. Spec => []CardTruth
  BY InitTruth, NextTruth, PTL DEF Spec
<1>2. CardTruth => ShownIsLive /\ ToggleIsConfigured /\ LastFlipWins
  BY TruthIsShown
<1>. QED  BY <1>1, <1>2, PTL

=============================================================================
