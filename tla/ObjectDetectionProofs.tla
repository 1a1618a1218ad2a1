------------------------ MODULE ObjectDetectionProofs ------------------------
(* Proofs about ObjectDetection, for every value of its constants.         *)
EXTENDS ObjectDetection, Integers, Sequences, SequenceTheorems, TLAPS

\* A detector works on a request exactly between taking and answering it.
Working(d) == runner[d] \in {"detect", "write", "publish"}

JobInv == \A d \in Detectors : Working(d) => job[d] # None

IdleInv == \A d \in Detectors : ~Working(d) => job[d] = None

TypeInv == TypeOK /\ JobInv /\ IdleInv

LEMMA InitType == Init => TypeInv
<1>. SUFFICES ASSUME Init PROVE TypeInv
  OBVIOUS
<1>1. requests \in Seq(Request)
  BY DEF Init
<1>. QED  BY <1>1, DetectionAssumption DEF Init, TypeInv, TypeOK, Frames, JobInv, IdleInv, Working

LEMMA ClientType == ASSUME TypeInv, NEW c \in Cameras, Client(c) PROVE TypeInv'
<1>. USE DEF TypeInv, TypeOK, JobInv, IdleInv, Working
<1>. USE DetectionAssumption DEF Frames
<1>1. CASE Drain(c)
  <2>1. UNCHANGED <<np_shm, out_shm, proxy, requests, lock, runner, job, found, stopping>>
    BY <1>1 DEF Drain, clientFrame, runnerVars
  <2>2. /\ client' \in [Cameras -> {"idle", "drained", "waiting", "reading"}]
        /\ frame' \in [Cameras -> 0..MaxFrames]
        /\ clean' \in [Cameras -> BOOLEAN]
        /\ signals' \in [Cameras -> Nat]
    BY <1>1 DEF Drain, Drained
  <2>. QED  BY <2>1, <2>2
<1>2. CASE Ask(c)
  <2>1. [cam |-> c, frame |-> frame[c]] \in Request
    BY DEF Request
  <2>2. requests' \in Seq(Request)
    BY <1>2, <2>1, AppendProperties DEF Ask
  <2>. QED  BY <1>2, <2>2 DEF Ask, runnerVars
<1>3. CASE Hear(c)
  BY <1>3 DEF Hear, clientFrame, runnerVars
<1>4. CASE Timeout(c)
  BY <1>4 DEF Timeout, clientFrame, runnerVars
<1>5. CASE Return(c)
  BY <1>5 DEF Return, clientFrame, runnerVars
<1>. QED  BY <1>1, <1>2, <1>3, <1>4, <1>5 DEF Client

LEMMA ForwardType == ASSUME TypeInv, NEW c \in Cameras, Forward(c) PROVE TypeInv'
<1>1. proxy' \in [Cameras -> Nat] /\ signals' \in [Cameras -> Nat]
  BY DEF Forward, TypeInv, TypeOK
<1>. QED  BY <1>1 DEF Forward, TypeInv, TypeOK, JobInv, IdleInv, Working, clientVars, runnerVars

LEMMA RunnerType == ASSUME TypeInv, NEW d \in Detectors, Runner(d) PROVE TypeInv'
<1>. USE DEF TypeInv, TypeOK, JobInv, IdleInv, Working, runnerFrame, clientVars
<1>1. CASE Poll(d)
  BY <1>1 DEF Poll
<1>2. CASE PollFails(d)
  BY <1>2 DEF PollFails, vars, runnerVars
<1>3. CASE QueueEmpty(d)
  BY <1>3 DEF QueueEmpty
<1>4. CASE Take(d)
  <2>1. Head(requests) \in Request /\ requests' \in Seq(Request)
    BY <1>4, HeadTailProperties DEF Take
  <2>2. job' \in [Detectors -> Request \cup {None}] /\ job'[d] # None
        /\ \A e \in Detectors : e # d => job'[e] = job[e]
    BY <1>4, <2>1, RequestAssumption DEF Take
  <2>3. /\ runner' \in [Detectors -> {"idle", "polling", "detect", "write", "publish"}]
        /\ runner'[d] = "detect" /\ lock' = None
        /\ \A e \in Detectors : e # d => runner'[e] = runner[e]
        /\ UNCHANGED <<found, out_shm, proxy, signals, runnerFrame>>
    BY <1>4 DEF Take
  <2>. QED  BY <2>1, <2>2, <2>3
<1>5. CASE Detect(d)
  <2>1. job[d] \in Request
    BY <1>5 DEF Detect
  <2>2. Input(d) \in Frames
    BY <2>1 DEF Input, Request
  <2>. QED  BY <1>5, <2>2 DEF Detect
<1>6. CASE Write(d)
  BY <1>6 DEF Write
<1>7. CASE Publish(d)
  <2>1. proxy' \in [Cameras -> Nat]
    <3>. DEFINE n == [proxy EXCEPT ![job[d].cam] = @ + 1]
    <3>1. proxy' = n
      BY <1>7 DEF Publish
    <3>2. \A c \in Cameras : n[c] \in Nat
      OBVIOUS
    <3>3. n = [c \in Cameras |-> n[c]]
      OBVIOUS
    <3>. HIDE DEF n
    <3>. QED  BY <3>1, <3>2, <3>3
  <2>2. /\ job' \in [Detectors -> Request \cup {None}] /\ job'[d] = None
        /\ \A e \in Detectors : e # d => job'[e] = job[e]
    BY <1>7 DEF Publish
  <2>3. /\ runner' \in [Detectors -> {"idle", "polling", "detect", "write", "publish"}]
        /\ runner'[d] = "idle"
        /\ \A e \in Detectors : e # d => runner'[e] = runner[e]
        /\ UNCHANGED <<found, out_shm, signals, requests, lock, runnerFrame>>
    BY <1>7 DEF Publish
  <2>. QED  BY <2>1, <2>2, <2>3
<1>. QED  BY <1>1, <1>2, <1>3, <1>4, <1>5, <1>6, <1>7 DEF Runner

LEMMA WatchdogType == ASSUME TypeInv, NEW d \in Detectors, Watchdog(d) PROVE TypeInv'
  BY DEF TypeInv, TypeOK, JobInv, IdleInv, Working, clientVars, runnerVars,
     Watchdog, NoticeStuck, Restart

LEMMA NextType == TypeInv /\ [Next]_vars => TypeInv'
<1>1. TypeInv /\ UNCHANGED vars => TypeInv'
  BY DEF vars, clientVars, runnerVars, TypeInv, TypeOK, JobInv, IdleInv, Working
<1>. QED  BY <1>1, ClientType, ForwardType, RunnerType, WatchdogType DEF Next

\* Every variable keeps its type, for any number of cameras and detectors.
THEOREM DetectionTypeCorrect == Spec => []TypeOK
<1>1. Spec => []TypeInv
  BY InitType, NextType, PTL DEF Spec
<1>. QED  BY <1>1, PTL DEF TypeInv

-----------------------------------------------------------------------------
(***************************************************************************)
(* CleanReadsCurrent.  A call that started clean has at most one request   *)
(* under way: queued, worked on or answered; and its answer is one signal, *)
(* in the proxy or in the socket.  Until it is answered there is none for  *)
(* it to hear, and its answer is of its frame.                             *)
(***************************************************************************)
Queued(c) == {i \in DOMAIN requests : requests[i].cam = c}
WorkedOn(c) == {d \in Detectors : job[d] # None /\ job[d].cam = c}

Nothing(c) == Queued(c) = {} /\ WorkedOn(c) = {} /\ proxy[c] = 0 /\ signals[c] = 0

One(c) ==
    /\ \A i, j \in Queued(c) : i = j
    /\ \A d, e \in WorkedOn(c) : d = e
    /\ Queued(c) = {} \/ WorkedOn(c) = {}
    /\ Queued(c) \cup WorkedOn(c) # {} => proxy[c] = 0 /\ signals[c] = 0
    /\ proxy[c] + signals[c] \in {0, 1}

Current(c) ==
    /\ np_shm[c] = frame[c]
    /\ \A d \in WorkedOn(c) :
          /\ runner[d] \in {"write", "publish"} => found[d] = frame[c]
          /\ runner[d] = "publish" => out_shm[c] = frame[c]
    /\ proxy[c] + signals[c] = 1 => out_shm[c] = frame[c]

CleanInv(c) ==
    clean[c] => /\ client[c] = "drained" => Nothing(c)
                /\ client[c] = "waiting" => One(c) /\ Current(c)
                /\ client[c] = "reading" => Nothing(c) /\ out_shm[c] = frame[c]

CleanCalls == \A c \in Cameras : CleanInv(c)

\* What one camera's call does not touch keeps the invariant of another's.
LEMMA OtherCamera ==
    ASSUME NEW c \in Cameras, CleanInv(c),
           UNCHANGED <<client[c], frame[c], clean[c], np_shm[c], out_shm[c], proxy[c], signals[c]>>,
           Queued(c)' = Queued(c),
           WorkedOn(c)' \subseteq WorkedOn(c),
           \A d \in WorkedOn(c)' : UNCHANGED <<runner[d], found[d]>>
    PROVE  CleanInv(c)'
  BY DEF CleanInv, Nothing, One, Current

LEMMA ClientClean ==
    ASSUME TypeInv, CleanCalls, NEW c \in Cameras, Client(c) PROVE CleanCalls'
<1>. SUFFICES ASSUME NEW b \in Cameras PROVE CleanInv(b)'
  BY DEF CleanCalls
<1>0. CleanInv(b) /\ TypeOK
  BY DEF CleanCalls, TypeInv
<1>1. UNCHANGED <<runner, job, found, out_shm>> /\ WorkedOn(b)' = WorkedOn(b)
  BY DEF Client, Drain, Ask, Hear, Timeout, Return, clientFrame, runnerVars, WorkedOn
<1>2. CASE Ask(c)
  <2>. DEFINE r == [cam |-> c, frame |-> frame[c]]
  <2>1. r \in Request /\ requests \in Seq(Request) /\ r.cam = c
    BY <1>0 DEF TypeOK, Request
  <2>2. requests' = Append(requests, r)
    BY <1>2 DEF Ask
  <2>. HIDE DEF r
  <2>3. /\ DOMAIN requests' = (DOMAIN requests) \cup {Len(requests) + 1}
        /\ \A i \in DOMAIN requests : requests'[i] = requests[i]
        /\ requests'[Len(requests) + 1] = r
    BY <2>1, <2>2, AppendProperties
  <2>4. CASE b # c
    <3>1. Queued(b)' = Queued(b)
      BY <2>1, <2>3, <2>4 DEF Queued
    <3>2. UNCHANGED <<client[b], frame[b], clean[b], np_shm[b], proxy[b], signals[b]>>
      BY <1>0, <1>2, <2>4 DEF Ask, TypeOK
    <3>. QED  BY <1>0, <1>1, <3>1, <3>2, OtherCamera
  <2>5. CASE b = c
    <3>1. Queued(c)' = Queued(c) \cup {Len(requests) + 1}
      BY <2>1, <2>3 DEF Queued
    <3>2. /\ client[c] = "drained" /\ client'[c] = "waiting"
          /\ np_shm'[c] = frame[c] /\ UNCHANGED <<frame, clean, proxy, signals>>
      BY <1>0, <1>2 DEF Ask, TypeOK
    <3>3. clean[c] => Nothing(c)
      BY <1>0, <2>5, <3>2 DEF CleanInv
    <3>. QED  BY <1>1, <2>5, <3>1, <3>2, <3>3 DEF CleanInv, Nothing, One, Current
  <2>. QED  BY <2>4, <2>5
<1>3. ASSUME UNCHANGED requests PROVE Queued(b)' = Queued(b)
  BY <1>3 DEF Queued
<1>4. ASSUME Drain(c) \/ Hear(c) \/ Timeout(c) \/ Return(c), b # c PROVE CleanInv(b)'
  <2>1. UNCHANGED <<client[b], frame[b], clean[b], np_shm[b], proxy[b], signals[b], requests>>
    BY <1>0, <1>4 DEF Drain, Hear, Timeout, Return, clientFrame, TypeOK
  <2>. QED  BY <1>0, <1>1, <1>3, <2>1, OtherCamera
<1>5. CASE Drain(c) /\ b = c
  <2>1. /\ client'[c] = "drained" /\ signals'[c] = 0 /\ clean'[c] = ~UnderWay(c)
        /\ proxy[c] \in Nat /\ UNCHANGED <<proxy, requests>>
    BY <1>0, <1>5 DEF Drain, Drained, clientFrame, TypeOK
  <2>2. ~UnderWay(c) => Queued(c) = {} /\ WorkedOn(c) = {} /\ proxy[c] = 0
    BY <2>1 DEF UnderWay, Queued, WorkedOn
  <2>. QED  BY <1>1, <1>3, <1>5, <2>1, <2>2 DEF CleanInv, Nothing
<1>6. CASE Hear(c) /\ b = c
  <2>1. /\ client[c] = "waiting" /\ client'[c] = "reading"
        /\ signals[c] > 0 /\ signals[c] \in Nat /\ signals'[c] = signals[c] - 1
        /\ proxy[c] \in Nat /\ UNCHANGED <<frame, clean, np_shm, proxy, requests>>
    BY <1>0, <1>6 DEF Hear, clientFrame, TypeOK
  <2>2. clean[c] => One(c) /\ Current(c)
    BY <1>0, <1>6, <2>1 DEF CleanInv
  <2>3. clean[c] => Nothing(c)' /\ out_shm'[c] = frame'[c]
    BY <1>1, <1>3, <1>6, <2>1, <2>2 DEF One, Current, Nothing
  <2>. QED  BY <1>6, <2>1, <2>3 DEF CleanInv
<1>7. CASE (Timeout(c) \/ Return(c)) /\ b = c
  <2>1. client'[c] = "idle"
    BY <1>0, <1>7 DEF Timeout, Return, TypeOK
  <2>. QED  BY <1>7, <2>1 DEF CleanInv
<1>. QED  BY <1>2, <1>4, <1>5, <1>6, <1>7 DEF Client

\* A signal that moves from the proxy to the socket is the same answer.
LEMMA ForwardClean ==
    ASSUME TypeInv, CleanCalls, NEW b \in Cameras, Forward(b) PROVE CleanCalls'
<1>. SUFFICES ASSUME NEW c \in Cameras PROVE CleanInv(c)'
  BY DEF CleanCalls
<1>0. CleanInv(c) /\ TypeOK
  BY DEF CleanCalls, TypeInv
<1>1. /\ UNCHANGED <<client, frame, clean, np_shm, out_shm, requests, runner, job, found>>
      /\ Queued(c)' = Queued(c) /\ WorkedOn(c)' = WorkedOn(c)
  BY DEF Forward, clientVars, runnerVars, Queued, WorkedOn
<1>2. CASE b # c
  <2>1. UNCHANGED <<proxy[c], signals[c]>>
    BY <1>0, <1>2 DEF Forward, TypeOK
  <2>. QED  BY <1>0, <1>1, <2>1, OtherCamera
<1>3. CASE b = c
  <2>1. /\ proxy[c] \in Nat /\ signals[c] \in Nat /\ proxy[c] > 0
        /\ proxy'[c] = proxy[c] - 1 /\ signals'[c] = signals[c] + 1
    BY <1>0, <1>3 DEF Forward, TypeOK
  <2>2. ~Nothing(c)
    BY <2>1 DEF Nothing
  <2>3. One(c) => One(c)'
    BY <1>1, <2>1 DEF One
  <2>4. Current(c) => Current(c)'
    BY <1>1, <2>1 DEF Current
  <2>. QED  BY <1>0, <1>1, <2>2, <2>3, <2>4 DEF CleanInv
<1>. QED  BY <1>2, <1>3

LEMMA RunnerClean ==
    ASSUME TypeInv, CleanCalls, NEW d \in Detectors, Runner(d) PROVE CleanCalls'
<1>. SUFFICES ASSUME NEW c \in Cameras PROVE CleanInv(c)'
  BY DEF CleanCalls
<1>0. CleanInv(c) /\ TypeOK /\ JobInv /\ IdleInv
  BY DEF CleanCalls, TypeInv
<1>1. UNCHANGED <<client, frame, clean, np_shm>>
  BY DEF Runner, Poll, PollFails, QueueEmpty, Take, Detect, Write, Publish,
     runnerFrame, clientVars, vars
<1>2. CASE Poll(d) \/ PollFails(d) \/ QueueEmpty(d)
  <2>1. UNCHANGED <<job, found, out_shm, proxy, signals, requests>>
        /\ \A e \in Detectors : e # d => UNCHANGED runner[e]
    BY <1>0, <1>2 DEF Poll, PollFails, QueueEmpty, vars, runnerVars, TypeOK
  <2>2. PollFails(d) \/ job[d] = None
    BY <1>0, <1>2 DEF Poll, QueueEmpty, IdleInv, Working
  <2>3. Queued(c)' = Queued(c) /\ WorkedOn(c)' = WorkedOn(c)
    BY <2>1 DEF Queued, WorkedOn
  <2>4. \A e \in WorkedOn(c)' : UNCHANGED <<runner[e], found[e]>>
    BY <2>1, <2>2, <2>3 DEF WorkedOn, PollFails, vars, runnerVars
  <2>. QED  BY <1>0, <1>1, <2>1, <2>3, <2>4, OtherCamera
<1>3. CASE Take(d)
  <2>1. /\ requests # <<>> /\ requests \in Seq(Request) /\ requests' = Tail(requests)
        /\ Head(requests) \in Request /\ job[d] = None
        /\ job' = [job EXCEPT ![d] = Head(requests)]
        /\ runner'[d] = "detect" /\ \A e \in Detectors : e # d => UNCHANGED runner[e]
        /\ UNCHANGED <<found, out_shm, proxy, signals>>
    BY <1>0, <1>3, HeadTailProperties DEF Take, TypeOK, IdleInv, Working
  <2>2. /\ 1 \in DOMAIN requests /\ requests[1] = Head(requests)
        /\ \A i \in DOMAIN requests' :
              i + 1 \in DOMAIN requests /\ requests'[i] = requests[i + 1]
        /\ \A i \in DOMAIN requests : /\ i \in Nat \ {0}
                                      /\ i # 1 => /\ i - 1 \in DOMAIN requests'
                                                  /\ requests'[i - 1] = requests[i]
    BY <2>1, HeadTailProperties
  <2>3. DOMAIN requests' \subseteq Nat \ {0}
    BY <2>1, HeadTailProperties
  <2>4. \A i \in Queued(c)' : i \in Nat \ {0} /\ i + 1 \in Queued(c)
    BY <2>2, <2>3 DEF Queued
  <2>5. CASE Head(requests).cam = c
    <3>1. 1 \in Queued(c)
      BY <2>2, <2>5 DEF Queued
    <3>2. WorkedOn(c)' = WorkedOn(c) \cup {d}
      BY <1>0, <2>1, <2>5, RequestAssumption DEF WorkedOn, TypeOK
    <3>3. One(c) => Queued(c)' = {} /\ WorkedOn(c)' = {d} /\ proxy[c] = 0 /\ signals[c] = 0
      BY <2>4, <3>1, <3>2 DEF One
    <3>4. Nothing(c) => FALSE
      BY <3>1 DEF Nothing
    <3>5. One(c) /\ Current(c) => One(c)' /\ Current(c)'
      BY <1>1, <2>1, <3>3 DEF One, Current
    <3>. QED  BY <1>0, <1>1, <3>4, <3>5 DEF CleanInv
  <2>6. CASE Head(requests).cam # c
    <3>1. WorkedOn(c)' = WorkedOn(c) /\ d \notin WorkedOn(c)
      BY <1>0, <2>1, <2>6, RequestAssumption DEF WorkedOn, TypeOK
    <3>2. (\A i, j \in Queued(c) : i = j) => \A i, j \in Queued(c)' : i = j
      BY <2>4
    <3>3. Queued(c) = {} <=> Queued(c)' = {}
      <4>1. 1 \notin Queued(c)
        BY <2>2, <2>6 DEF Queued
      <4>2. \A i \in Queued(c) : i - 1 \in Queued(c)'
        BY <2>2, <4>1 DEF Queued
      <4>. QED  BY <2>4, <4>2
    <3>4. \A e \in WorkedOn(c)' : UNCHANGED <<runner[e], found[e]>>
      BY <2>1, <3>1 DEF WorkedOn
    <3>5. (Nothing(c) => Nothing(c)') /\ (One(c) => One(c)') /\ (Current(c) => Current(c)')
      BY <1>1, <2>1, <3>1, <3>2, <3>3, <3>4 DEF Nothing, One, Current
    <3>. QED  BY <1>0, <1>1, <2>1, <3>5 DEF CleanInv
  <2>. QED  BY <2>5, <2>6
<1>4. ASSUME Detect(d) \/ Write(d) \/ Publish(d)
      PROVE  /\ job[d] \in Request /\ job[d].cam \in Cameras /\ UNCHANGED requests
             /\ Queued(c)' = Queued(c)
             /\ \A e \in Detectors : e # d => UNCHANGED <<runner[e], job[e], found[e]>>
  <2>1. job[d] \in Request
    BY <1>0, <1>4 DEF Detect, Write, Publish, JobInv, Working, TypeOK
  <2>2. UNCHANGED requests
        /\ \A e \in Detectors : e # d => UNCHANGED <<runner[e], job[e], found[e]>>
    BY <1>0, <1>4 DEF Detect, Write, Publish, TypeOK
  <2>. QED  BY <2>1, <2>2 DEF Queued, Request
<1>5. CASE Detect(d)
  <2>1. /\ UNCHANGED <<job, out_shm, proxy, signals>> /\ runner'[d] = "write"
        /\ found'[d] = np_shm[job[d].cam]
    BY <1>0, <1>5 DEF Detect, Input, TypeOK
  <2>2. WorkedOn(c)' = WorkedOn(c)
    BY <2>1 DEF WorkedOn
  <2>3. (Nothing(c) => Nothing(c)') /\ (One(c) => One(c)')
    BY <1>4, <1>5, <2>1, <2>2 DEF Nothing, One
  <2>4. Current(c) => Current(c)'
    BY <1>1, <1>4, <1>5, <2>1, <2>2 DEF Current, WorkedOn
  <2>. QED  BY <1>0, <1>1, <2>1, <2>3, <2>4 DEF CleanInv
<1>6. CASE Write(d)
  <2>1. /\ UNCHANGED <<job, found, proxy, signals>> /\ runner[d] = "write" /\ runner'[d] = "publish"
        /\ out_shm' = [out_shm EXCEPT ![job[d].cam] = found[d]]
    BY <1>0, <1>6 DEF Write, TypeOK
  <2>2. WorkedOn(c)' = WorkedOn(c)
    BY <2>1 DEF WorkedOn
  <2>3. (Nothing(c) => Nothing(c)') /\ (One(c) => One(c)')
    BY <1>4, <1>6, <2>1, <2>2 DEF Nothing, One
  <2>4. CASE job[d].cam # c
    <3>1. out_shm'[c] = out_shm[c] /\ d \notin WorkedOn(c)
      BY <1>0, <2>1, <2>4 DEF TypeOK, WorkedOn
    <3>2. Current(c) => Current(c)'
      BY <1>1, <1>4, <1>6, <2>1, <2>2, <3>1 DEF Current, WorkedOn
    <3>. QED  BY <1>0, <1>1, <2>3, <3>1, <3>2 DEF CleanInv
  <2>5. CASE job[d].cam = c
    <3>1. out_shm'[c] = found[d] /\ d \in WorkedOn(c)
      BY <1>0, <1>4, <1>6, <2>1, <2>5, RequestAssumption DEF TypeOK, WorkedOn
    <3>2. ~Nothing(c)
      BY <3>1 DEF Nothing
    <3>3. One(c) /\ Current(c) => Current(c)'
      BY <1>1, <1>4, <1>6, <2>1, <2>2, <3>1 DEF One, Current, WorkedOn
    <3>. QED  BY <1>0, <1>1, <2>3, <3>2, <3>3 DEF CleanInv
  <2>. QED  BY <2>4, <2>5
<1>7. CASE Publish(d)
  <2>1. /\ UNCHANGED <<found, out_shm, signals>> /\ runner[d] = "publish"
        /\ job' = [job EXCEPT ![d] = None]
        /\ proxy' = [proxy EXCEPT ![job[d].cam] = @ + 1]
    BY <1>0, <1>7 DEF Publish, TypeOK
  <2>2. WorkedOn(c)' = WorkedOn(c) \ {d}
    BY <1>0, <1>4, <1>7, <2>1 DEF WorkedOn, TypeOK
  <2>3. CASE job[d].cam # c
    <3>1. proxy'[c] = proxy[c] /\ d \notin WorkedOn(c)
      BY <1>0, <2>1, <2>3 DEF TypeOK, WorkedOn
    <3>2. \A e \in WorkedOn(c)' : UNCHANGED <<runner[e], found[e]>>
      BY <1>4, <1>7, <2>2 DEF WorkedOn
    <3>3. /\ WorkedOn(c)' \subseteq WorkedOn(c) /\ Queued(c)' = Queued(c)
          /\ UNCHANGED <<client[c], frame[c], clean[c], np_shm[c], out_shm[c], proxy[c], signals[c]>>
      BY <1>1, <1>4, <1>7, <2>1, <2>2, <3>1
    <3>. QED  BY <1>0, <3>2, <3>3, OtherCamera
  <2>4. CASE job[d].cam = c
    <3>1. proxy'[c] = proxy[c] + 1 /\ d \in WorkedOn(c)
      BY <1>0, <1>4, <1>7, <2>1, <2>4, RequestAssumption DEF TypeOK, WorkedOn
    <3>2. ~Nothing(c)
      BY <3>1 DEF Nothing
    <3>3. One(c) => WorkedOn(c)' = {} /\ Queued(c)' = {} /\ proxy[c] = 0 /\ signals[c] = 0
      BY <1>4, <1>7, <2>2, <3>1 DEF One
    <3>4. One(c) /\ Current(c) => One(c)' /\ Current(c)'
      BY <1>1, <2>1, <3>1, <3>3 DEF One, Current
    <3>. QED  BY <1>0, <1>1, <3>2, <3>4 DEF CleanInv
  <2>. QED  BY <2>3, <2>4
<1>. QED  BY <1>2, <1>3, <1>5, <1>6, <1>7 DEF Runner

LEMMA WatchdogClean ==
    ASSUME TypeInv, CleanCalls, NEW d \in Detectors, Watchdog(d) PROVE CleanCalls'
<1>. SUFFICES ASSUME NEW c \in Cameras PROVE CleanInv(c)'
  BY DEF CleanCalls
<1>1. CleanInv(c) /\ TypeOK
  BY DEF CleanCalls, TypeInv
<1>2. UNCHANGED <<client, frame, clean, np_shm, out_shm, proxy, signals, requests, found>>
  BY DEF Watchdog, NoticeStuck, Restart, clientVars, runnerVars
<1>3. \A e \in Detectors : UNCHANGED <<runner[e], job[e]>> \/ job'[e] = None
  BY <1>1 DEF Watchdog, NoticeStuck, Restart, runnerVars, TypeOK
<1>4. WorkedOn(c)' \subseteq WorkedOn(c) /\ \A e \in WorkedOn(c)' : UNCHANGED runner[e]
  BY <1>3 DEF WorkedOn
<1>5. Queued(c)' = Queued(c)
  BY <1>2 DEF Queued
<1>. QED  BY <1>1, <1>2, <1>4, <1>5, OtherCamera

\* A call that starts with nothing of an earlier one queued, worked on or in the
\* proxy reads the detections of its own frame: the drain, the shared buffers and
\* the bare signals are enough then, for any number of cameras and detectors, hung,
\* recovering or killed, and however long the proxy keeps a signal.
THEOREM CleanCallsReadCurrent == Spec => []CleanReadsCurrent
<1>1. Init => CleanCalls
  BY DEF Init, CleanCalls, CleanInv
<1>2. CleanCalls /\ UNCHANGED vars => CleanCalls'
  BY DEF CleanCalls, CleanInv, Nothing, One, Current, Queued, WorkedOn, vars,
     clientVars, runnerVars
<1>3. TypeInv /\ CleanCalls /\ [Next]_vars => CleanCalls'
  BY <1>2, ClientClean, ForwardClean, RunnerClean, WatchdogClean DEF Next
<1>4. CleanCalls => CleanReadsCurrent
  BY DEF CleanCalls, CleanInv, CleanReadsCurrent
<1>5. Spec => [](TypeInv /\ CleanCalls)
  BY <1>1, <1>3, InitType, NextType, PTL DEF Spec
<1>. QED  BY <1>4, <1>5, PTL

=============================================================================
