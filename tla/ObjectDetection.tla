--------------------------- MODULE ObjectDetection ---------------------------
(***************************************************************************)
(* How a frame is handed to an object detector and its detections come     *)
(* back (object_detection/base.py, comms/object_detector_signaler.py,      *)
(* watchdog.py).  The detect process of a camera copies its frame into the *)
(* camera's input buffer, queues the camera's name and waits up to five    *)
(* seconds for a signal that the camera's output buffer holds the          *)
(* detections.  The signal is published to a proxy, which passes it on to  *)
(* the camera's socket.  Neither the name in the queue nor the signal says *)
(* which frame it is about.  Any detector process takes any request; the   *)
(* watchdog kills and replaces one that is busy for more than ten seconds. *)
(*                                                                         *)
(* A buffer is the number of the frame it holds, or whose detections it    *)
(* holds; 0 is the frame before the first.                                 *)
(***************************************************************************)
EXTENDS Integers, Sequences

CONSTANTS
    Cameras,      \* one detect process, input and output buffer each
    Detectors,    \* the detector processes
    None,         \* no detector, no request
    Killed,       \* holder of a lock that died with it
    Recovers,     \* a detector that looked stuck may go on until it is killed
    MaxFrames     \* bounds the model: frames of each camera

ASSUME DetectionAssumption ==
    /\ None \notin Detectors /\ Killed \notin Detectors /\ Killed # None
    /\ Recovers \in BOOLEAN
    /\ MaxFrames \in Nat

VARIABLES
    client,       \* where RemoteObjectDetector.detect is, per camera
    frame,        \* the frame it was last called with
    clean,        \* history: no earlier call was under way when it was called
    np_shm,       \* the input buffer
    out_shm,      \* the output buffer
    proxy,        \* published signals the proxy has yet to pass on, per camera
    signals,      \* those in the camera's socket
    requests,     \* detection_queue
    lock,         \* who holds the queue's reader lock
    runner,       \* where DetectorRunner.run is, per detector
    job,          \* the request it works on
    found,        \* the frame it has detections of
    stopping      \* the detector the watchdog waits for before it kills it

clientVars == <<client, frame, clean, np_shm>>
runnerVars == <<runner, job, found>>
vars == <<clientVars, out_shm, proxy, signals, requests, lock, runnerVars, stopping>>

Frames == 0..MaxFrames

\* The queue holds names only; the frame is what the request was made for.
Request == [cam : Cameras, frame : Frames]

ASSUME RequestAssumption == None \notin Request

TypeOK ==
    /\ client \in [Cameras -> {"idle", "drained", "waiting", "reading"}]
    /\ frame \in [Cameras -> Frames]
    /\ clean \in [Cameras -> BOOLEAN]
    /\ np_shm \in [Cameras -> Frames]
    /\ out_shm \in [Cameras -> Frames]
    /\ proxy \in [Cameras -> Nat]
    /\ signals \in [Cameras -> Nat]
    /\ requests \in Seq(Request)
    /\ lock \in Detectors \cup {None, Killed}
    /\ runner \in [Detectors -> {"idle", "polling", "detect", "write", "publish"}]
    /\ job \in [Detectors -> Request \cup {None}]
    /\ found \in [Detectors -> Frames]
    /\ stopping \in Detectors \cup {None}

Init ==
    /\ client = [c \in Cameras |-> "idle"]
    /\ frame = [c \in Cameras |-> 0]
    /\ clean = [c \in Cameras |-> TRUE]
    /\ np_shm = [c \in Cameras |-> 0]
    /\ out_shm = [c \in Cameras |-> 0]
    /\ proxy = [c \in Cameras |-> 0]
    /\ signals = [c \in Cameras |-> 0]
    /\ requests = <<>>
    /\ lock = None
    /\ runner = [d \in Detectors |-> "idle"]
    /\ job = [d \in Detectors |-> None]
    /\ found = [d \in Detectors |-> 0]
    /\ stopping = None

-----------------------------------------------------------------------------
(* RemoteObjectDetector.detect, in the detect process of camera c.         *)

clientFrame == <<proxy, requests, lock, runnerVars, stopping>>

UnderWay(c) ==
    \/ \E i \in DOMAIN requests : requests[i].cam = c
    \/ \E d \in Detectors : job[d] # None /\ job[d].cam = c
    \/ proxy[c] > 0

\* The next frame.  What is in the socket is drained, without waiting: a signal
\* still in the proxy is not.
MutNoDrain(c) == signals[c]
MutDrainTooMany(c) == 0 - signals[c]
Drained(c) == 0

Drain(c) ==
    /\ client[c] = "idle" /\ frame[c] < MaxFrames
    /\ client' = [client EXCEPT ![c] = "drained"]
    /\ frame' = [frame EXCEPT ![c] = @ + 1]
    /\ signals' = [signals EXCEPT ![c] = Drained(c)]
    /\ clean' = [clean EXCEPT ![c] = ~UnderWay(c)]
    /\ UNCHANGED <<np_shm, out_shm, clientFrame>>

Ask(c) ==
    /\ client[c] = "drained"
    /\ np_shm' = [np_shm EXCEPT ![c] = frame[c]]
    /\ requests' = Append(requests, [cam |-> c, frame |-> frame[c]])
    /\ client' = [client EXCEPT ![c] = "waiting"]
    /\ UNCHANGED <<frame, clean, out_shm, proxy, signals, lock, runnerVars, stopping>>

\* check_for_update takes one signal.
Hear(c) ==
    /\ client[c] = "waiting" /\ signals[c] > 0
    /\ signals' = [signals EXCEPT ![c] = @ - 1]
    /\ client' = [client EXCEPT ![c] = "reading"]
    /\ UNCHANGED <<frame, clean, np_shm, out_shm, clientFrame>>

\* No signal in the socket within five seconds: detect returns no detections.
Timeout(c) ==
    /\ client[c] = "waiting" /\ signals[c] = 0
    /\ client' = [client EXCEPT ![c] = "idle"]
    /\ UNCHANGED <<frame, clean, np_shm, out_shm, signals, clientFrame>>

\* The loop over out_np_shm ends; what it read was in the buffer meanwhile.
Return(c) ==
    /\ client[c] = "reading"
    /\ client' = [client EXCEPT ![c] = "idle"]
    /\ UNCHANGED <<frame, clean, np_shm, out_shm, signals, clientFrame>>

Client(c) == Drain(c) \/ Ask(c) \/ Hear(c) \/ Timeout(c) \/ Return(c)

\* The thread of ZmqProxyRunner passes a signal on to the camera's socket.
Forward(c) ==
    /\ proxy[c] > 0
    /\ proxy' = [proxy EXCEPT ![c] = @ - 1]
    /\ signals' = [signals EXCEPT ![c] = @ + 1]
    /\ UNCHANGED <<clientVars, out_shm, requests, lock, runnerVars, stopping>>

-----------------------------------------------------------------------------
(* DetectorRunner.run of detector d.                                       *)

Responsive(d) == stopping = d => Recovers

runnerFrame == <<clientVars, stopping>>

\* Queue.get holds the queue's reader lock while it polls for an item.
Poll(d) ==
    /\ runner[d] = "idle" /\ Responsive(d)
    /\ lock = None
    /\ lock' = d
    /\ runner' = [runner EXCEPT ![d] = "polling"]
    /\ UNCHANGED <<job, found, out_shm, proxy, signals, requests, runnerFrame>>

\* The lock is not free within a second: queue.Empty, like an empty queue.
PollFails(d) ==
    /\ runner[d] = "idle" /\ Responsive(d)
    /\ lock # None
    /\ UNCHANGED vars

QueueEmpty(d) ==
    /\ runner[d] = "polling" /\ Responsive(d)
    /\ requests = <<>>
    /\ lock' = None
    /\ runner' = [runner EXCEPT ![d] = "idle"]
    /\ UNCHANGED <<job, found, out_shm, proxy, signals, requests, runnerFrame>>

Take(d) ==
    /\ runner[d] = "polling" /\ Responsive(d)
    /\ requests # <<>>
    /\ job' = [job EXCEPT ![d] = Head(requests)]
    /\ requests' = Tail(requests)
    /\ lock' = None
    /\ runner' = [runner EXCEPT ![d] = "detect"]
    /\ UNCHANGED <<found, out_shm, proxy, signals, runnerFrame>>

\* detect_raw: the input is the buffer itself, whatever it holds by now.
MutOldInput(d) == found[d]
Input(d) == np_shm[job[d].cam]

Detect(d) ==
    /\ runner[d] = "detect" /\ Responsive(d)
    /\ found' = [found EXCEPT ![d] = Input(d)]
    /\ runner' = [runner EXCEPT ![d] = "write"]
    /\ UNCHANGED <<job, out_shm, proxy, signals, requests, lock, runnerFrame>>

Write(d) ==
    /\ runner[d] = "write" /\ Responsive(d)
    /\ out_shm' = [out_shm EXCEPT ![job[d].cam] = found[d]]
    /\ runner' = [runner EXCEPT ![d] = "publish"]
    /\ UNCHANGED <<job, found, proxy, signals, requests, lock, runnerFrame>>

Publish(d) ==
    /\ runner[d] = "publish" /\ Responsive(d)
    /\ proxy' = [proxy EXCEPT ![job[d].cam] = @ + 1]
    /\ job' = [job EXCEPT ![d] = None]
    /\ runner' = [runner EXCEPT ![d] = "idle"]
    /\ UNCHANGED <<found, out_shm, signals, requests, lock, runnerFrame>>

Runner(d) == \/ Poll(d) \/ PollFails(d) \/ QueueEmpty(d) \/ Take(d)
             \/ Detect(d) \/ Write(d) \/ Publish(d)

-----------------------------------------------------------------------------
(* FrigateWatchdog.run and ObjectDetectProcess.start_or_restart.           *)

\* A detector busy for ten seconds has made its camera wait for five in vain.
MutOverdueWaiting(d) ==
    /\ job[d] # None
    /\ client[job[d].cam] = "waiting" /\ frame[job[d].cam] = job[d].frame
Overdue(d) ==
    /\ job[d] # None
    /\ ~(client[job[d].cam] = "waiting" /\ frame[job[d].cam] = job[d].frame)

NoticeStuck(d) ==
    /\ stopping = None
    /\ Overdue(d)
    /\ stopping' = d
    /\ UNCHANGED <<clientVars, out_shm, proxy, signals, requests, lock, runnerVars>>

\* stop gives the process half a minute to exit, which nothing tells it to do,
\* and kills it; a lock it holds stays taken.  Its successor starts afresh.
Restart(d) ==
    /\ stopping = d
    /\ stopping' = None
    /\ runner' = [runner EXCEPT ![d] = "idle"]
    /\ job' = [job EXCEPT ![d] = None]
    /\ lock' = IF lock = d THEN Killed ELSE lock
    /\ UNCHANGED <<clientVars, out_shm, proxy, signals, requests, found>>

Watchdog(d) == NoticeStuck(d) \/ Restart(d)

-----------------------------------------------------------------------------
Next ==
    \/ \E c \in Cameras : Client(c) \/ Forward(c)
    \/ \E d \in Detectors : Runner(d) \/ Watchdog(d)

\* Calls go on and time out; the proxy's thread runs; some detector gets hold of
\* a free lock; the watchdog runs.  Frames need not come, and inference may hang for ever.
Fairness ==
    /\ \A c \in Cameras :
          /\ WF_vars(Ask(c)) /\ WF_vars(Return(c))
          /\ WF_vars(Hear(c) \/ Timeout(c))
          /\ WF_vars(Forward(c))
    /\ WF_vars(\E d \in Detectors : Poll(d))
    /\ \A d \in Detectors :
          /\ WF_vars(QueueEmpty(d) \/ Take(d))
          /\ WF_vars(Write(d)) /\ WF_vars(Publish(d))
          /\ WF_vars(NoticeStuck(d)) /\ WF_vars(Restart(d))

Spec == Init /\ [][Next]_vars /\ Fairness

-----------------------------------------------------------------------------
\* What a call reads are the detections of the frame it was made with.  Not always:
ReadsCurrent ==
    \A c \in Cameras : client[c] = "reading" => out_shm[c] = frame[c]

\* only when nothing of an earlier call is queued, worked on or in the proxy as the
\* call starts: then draining the socket is all it takes, however many detectors
\* there are and whichever of them are killed.  An answer that comes after the
\* drain is heard as if it were the call's own, and the code cannot tell.
CleanReadsCurrent ==
    \A c \in Cameras :
        client[c] = "reading" /\ clean[c] => out_shm[c] = frame[c]

\* Does not hold: every request is taken by a detector, whatever hangs and is restarted.
RequestsServed == requests # <<>> ~> requests = <<>>

\* Only a detector killed while it polls the queue, with the lock of all readers, can leave
\* requests unserved: not one that hangs, answers late or is killed at work.
ServedUnlessLocked == requests # <<>> ~> (requests = <<>> \/ lock = Killed)

=============================================================================
