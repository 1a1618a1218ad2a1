----------------------------- MODULE DebugReplay -----------------------------
(***************************************************************************)
(* Debug replay: a recording is played back as a camera of its own.  The   *)
(* session of the server (DebugReplayManager and its job), requests of two *)
(* clients, and the page that shows one client how far it is (Replay).     *)
(***************************************************************************)
EXTENDS Naturals, Sequences, FiniteSets

CONSTANTS
    MaxUser,    \* bound: requests of the clients, and visits to the page, with what else is bounded
    MaxFaults   \* bound: clips or cameras that fail

Clients == {"me", "other"}
None == 0

VARIABLES
    session, sessions,   \* the session there is, and how many there were
    runners,             \* threads of the job: session, step, asked to stop
    active,              \* the runner that is known (get_active_runner)
    camera, clip,        \* the session the replay camera and the clip on disk are of
    frames,              \* frames of the camera have come
    reqs,                \* requests under way
    ws, job,             \* messages about the job on their way, and the last that came
    page, status, dialogOpen, isStopping,
    crossed,             \* history: starts that raced, a stop that did not wait long enough
    user, faults

server == <<session, sessions, runners, active, camera, clip, frames>>
client == <<page, status, dialogOpen, isStopping>>
vars == <<server, reqs, ws, job, client, crossed, user, faults>>

Jobs == {"none", "running", "failed", "cancelled", "success"}
TypeOK ==
    /\ {session, sessions, active, camera, clip} \subseteq Nat /\ {frames, dialogOpen, isStopping} \subseteq BOOLEAN
    /\ \A r \in runners : r.of \in Nat /\ r.step \in {"new", "preparing", "starting", "publishing"} /\ r.cancel \in BOOLEAN
    /\ ws \in Seq(Jobs) /\ job \in Jobs /\ page \in {"review", "loading", "replay"} /\ DOMAIN status = {"active", "live_ready"}

Init ==
    /\ session = None /\ sessions = 0 /\ runners = {} /\ active = None /\ camera = None /\ clip = None /\ frames = FALSE
    /\ reqs = {} /\ ws = <<>> /\ job = "none" /\ page = "review" /\ status = [active |-> FALSE, live_ready |-> FALSE]
    /\ dialogOpen = FALSE /\ isStopping = FALSE /\ crossed = {} /\ user = 0 /\ faults = 0

User == user + faults < MaxUser /\ user' = user + 1 /\ UNCHANGED <<server, ws, job, crossed, faults>>
System == UNCHANGED <<user, crossed>>

(***************************************************************************)
(* Starting                                                                *)
(***************************************************************************)
Ask(c, kind) == reqs' = reqs \cup {[of |-> c, kind |-> kind, step |-> "asked"]}
Busy(c) == \E q \in reqs : q.of = c
Step(q, s) == reqs' = (reqs \ {q}) \cup {[q EXCEPT !.step = s]}

handleStart ==
    /\ User /\ page = "review" /\ ~Busy("me") /\ Ask("me", "start") /\ dialogOpen' = TRUE /\ UNCHANGED <<page, status, isStopping>>
OtherStarts == User /\ ~Busy("other") /\ Ask("other", "start") /\ UNCHANGED client

\* The dialog stays open after a refusal; a session that starts is shown.
Answered(q, ok) ==
    /\ reqs' = reqs \ {q}
    /\ IF q.of # "me" THEN UNCHANGED client
       ELSE IF q.kind = "start"
       THEN dialogOpen' = ~ok /\ page' = (IF ok THEN "loading" ELSE page) /\ UNCHANGED <<status, isStopping>>
       ELSE isStopping' = FALSE /\ UNCHANGED <<page, status, dialogOpen>>

\* A session that is there is seen before the recordings are looked for, and then not again.
StartCheck(q) ==
    /\ q.kind = "start" /\ q.step = "asked" /\ System /\ UNCHANGED <<server, ws, job, faults>>
    /\ IF active # None \/ session # None THEN Answered(q, FALSE) ELSE Step(q, "checked") /\ UNCHANGED client
start_debug_replay_job(q) ==
    /\ q.kind = "start" /\ q.step = "checked" /\ Answered(q, TRUE)
    /\ sessions' = sessions + 1 /\ session' = sessions + 1 /\ active' = sessions + 1
    /\ runners' = runners \cup {[of |-> sessions + 1, step |-> "new", cancel |-> FALSE]}
    /\ crossed' = IF session # None THEN crossed \cup {"race"} ELSE crossed
    /\ UNCHANGED <<camera, clip, frames, ws, job, user, faults>>

(***************************************************************************)
(* The job                                                                 *)
(***************************************************************************)
Publish(s) == ws' = Append(ws, s)
To(r, s) == runners' = (runners \ {r}) \cup {[r EXCEPT !.step = s]}
\* Whichever runner is known by then is forgotten.
Ends(r) == runners' = runners \ {r} /\ active' = None

Run(r) ==
    /\ r.step = "new" /\ To(r, "preparing") /\ Publish("running") /\ System
    /\ UNCHANGED <<session, sessions, active, camera, clip, frames, reqs, job, client, faults>>
\* The clip is there; twice it is checked whether to go on.
Prepared(r) ==
    /\ r.step = "preparing" /\ System /\ UNCHANGED <<session, sessions, camera, frames, reqs, job, client, faults>>
    /\ IF r.cancel THEN Ends(r) /\ Publish("cancelled") /\ UNCHANGED clip
       ELSE To(r, "starting") /\ Publish("running") /\ clip' = r.of /\ UNCHANGED active
_finalize_cancelled(r) ==
    /\ r.step = "starting" /\ r.cancel /\ Ends(r) /\ Publish("cancelled") /\ clip' = None /\ System
    /\ UNCHANGED <<session, sessions, camera, frames, reqs, job, client, faults>>
Starting(r) ==
    /\ r.step = "starting" /\ ~r.cancel /\ To(r, "publishing") /\ System
    /\ UNCHANGED <<session, sessions, active, camera, clip, frames, reqs, ws, job, client, faults>>
publish_camera(r) ==
    /\ r.step = "publishing" /\ camera' = r.of /\ frames' = FALSE /\ Publish("success") /\ Ends(r) /\ System
    /\ UNCHANGED <<session, sessions, clip, reqs, job, client, faults>>
JobFails(r) ==
    /\ r.step \in {"preparing", "publishing"} /\ faults < MaxFaults /\ user + faults < MaxUser /\ faults' = faults + 1
    /\ Publish("failed") /\ session' = None /\ clip' = None /\ Ends(r) /\ System
    /\ UNCHANGED <<sessions, camera, frames, reqs, job, client>>
FramesCome == camera # None /\ ~frames /\ frames' = TRUE /\ System /\ UNCHANGED <<session, sessions, runners, active, camera, clip, reqs, ws, job, client, faults>>

(***************************************************************************)
(* Stopping                                                                *)
(***************************************************************************)
handleStop ==
    /\ User /\ page = "replay" /\ ~isStopping /\ ~Busy("me") /\ Ask("me", "stop") /\ isStopping' = TRUE /\ UNCHANGED <<page, status, dialogOpen>>
OtherStops == User /\ ~Busy("other") /\ Ask("other", "stop") /\ UNCHANGED client

cancel_debug_replay_job(q) ==
    /\ q.kind = "stop" /\ q.step = "asked" /\ System /\ UNCHANGED <<session, sessions, active, camera, clip, frames, ws, job, faults>>
    /\ IF session = None THEN Answered(q, FALSE) /\ UNCHANGED runners
       ELSE /\ Step(q, "wait") /\ UNCHANGED client
            /\ runners' = {IF r.of = active THEN [r EXCEPT !.cancel = TRUE] ELSE r : r \in runners}
\* The runner is waited for two seconds at most; a session that failed meanwhile needs nothing.
Teardown(q) ==
    /\ q.kind = "stop" /\ q.step = "wait" /\ Answered(q, TRUE)
    /\ crossed' = IF active # None THEN crossed \cup {"slow"} ELSE crossed
    /\ IF session = None THEN UNCHANGED <<session, camera, clip, ws>>
       ELSE session' = None /\ camera' = None /\ clip' = None /\ Publish("cancelled")
    /\ UNCHANGED <<sessions, runners, active, frames, job, user, faults>>

(***************************************************************************)
(* The page                                                                *)
(***************************************************************************)
Status == [active |-> session # None, live_ready |-> session # None /\ camera # None /\ frames]
Open == User /\ page = "review" /\ ~Busy("me") /\ page' = "loading" /\ UNCHANGED <<reqs, status, dialogOpen, isStopping>>
Leave == User /\ page = "replay" /\ ~Busy("me") /\ page' = "review" /\ UNCHANGED <<reqs, status, dialogOpen, isStopping>>
\* The status is read at once, then every second until the camera is live; later after a stop or
\* when the window is focused.
refreshStatus ==
    /\ page \in {"loading", "replay"}
    /\ page' = "replay" /\ status' = Status /\ <<page, status>> # <<page', status'>>
    /\ System /\ UNCHANGED <<server, reqs, ws, job, dialogOpen, isStopping, faults>>
useJobStatus == ws # <<>> /\ job' = Head(ws) /\ ws' = Tail(ws) /\ System /\ UNCHANGED <<server, reqs, client, faults>>

View ==
    IF page # "replay" THEN page
    ELSE IF job = "failed" /\ status.active THEN "error"
    ELSE IF ~status.active \/ job = "cancelled" THEN "none"
    ELSE IF job = "running" THEN "progress"
    ELSE IF status.live_ready THEN "live" ELSE "waiting"

Next ==
    \/ handleStart \/ OtherStarts \/ handleStop \/ OtherStops \/ Open \/ Leave \/ refreshStatus \/ useJobStatus \/ FramesCome
    \/ \E q \in reqs : StartCheck(q) \/ start_debug_replay_job(q) \/ cancel_debug_replay_job(q) \/ Teardown(q)
    \/ \E r \in runners : Run(r) \/ Prepared(r) \/ _finalize_cancelled(r) \/ Starting(r) \/ publish_camera(r) \/ JobFails(r)

Spec == Init /\ [][Next]_vars

(***************************************************************************)
(* Properties                                                              *)
(***************************************************************************)
Quiet == reqs = {} /\ runners = {} /\ crossed = {}

\* Once nothing is under way there is a replay camera, and its clip, just while there is a
\* session, unless starts raced or a stop ran out of patience (DebugReplayManager).
NothingLeft == Quiet => (camera # None <=> session # None) /\ (session = None => clip = None)

\* A session has a runner until its camera is there, or is being stopped: none is waited for in vain.
SessionProceeds == session # None /\ crossed = {} =>
    camera = session \/ (\E r \in runners : r.of = session) \/ (\E q \in reqs : q.kind = "stop" /\ q.step = "wait")

\* The page says there is no session, or that it failed, just if there is none (Replay).
PageTellsSession ==
    Quiet /\ ws = <<>> /\ page = "replay" /\ (status = Status \/ status.live_ready)
    => (View \in {"none", "error"} <=> session = None)
=============================================================================
