--------------------------- MODULE ToolPagesProofs --------------------------
(***************************************************************************)
(* What the ToolPages run checks of the motion search, of the training     *)
(* library and of live view, proved for any numbers of searches, images,   *)
(* cameras and requests: what the pages show and ask agrees with what the  *)
(* server does.                                                            *)
(***************************************************************************)
EXTENDS MCToolPages, Integers, Sequences, SequenceTheorems, TLAPS

Jobs == Motion!Jobs
Final == Motion!Final
Message == Motion!Message

Post == [n : Jobs, cam : Motion!Cameras, state : {"sent", "ok", "bad"}]
Cancel == [id : Jobs, cam : Motion!Cameras]
Page == [dialog : BOOLEAN, camera : Motion!Cameras, day : DOMAIN Motion!timeRange,
         time : Motion!Hits \cup {"end"}, isSearching : BOOLEAN, hasSearched : BOOLEAN,
         results : Jobs \cup {Null}, jobId : Jobs \cup {Null},
         jobCamera : Motion!Cameras \cup {Null}]

MotionTypes ==
    /\ jobs \in [Jobs -> Motion!Job \cup {Null}]
    /\ motionWire \in Seq(Message) /\ payload \in Message \cup {Null}
    /\ posts \subseteq Post /\ cancels \subseteq Cancel
    /\ ui \in Page /\ mounted \in BOOLEAN /\ late \in BOOLEAN /\ hidden \in BOOLEAN
    /\ motionAsked \in Nat /\ motionOthers \in Nat

\* A message about the job is on the way or was the last one heard.
Says(m, j) == m # Null /\ m.id = j
Over(m, j) == Says(m, j) /\ m.st \in Final
Started(j) == jobs[j] # Null
IsRunning(j) == Started(j) /\ jobs[j].st = "running"

(***************************************************************************)
(* What is told about the jobs: the end of a job is told when it is over,  *)
(* and no progress after it.                                               *)
(***************************************************************************)
ToldInTime ==
    \A j \in Jobs :
        /\ Started(j) => j <= motionAsked
        /\ IsRunning(j) => ~jobs[j].done
        /\ ~Started(j) => ~Says(payload, j) /\ \A i \in DOMAIN motionWire : motionWire[i].id # j
        /\ IsRunning(j) => ~Over(payload, j) /\ \A i \in DOMAIN motionWire : ~Over(motionWire[i], j)

\* Progress is only ever the next message, and its job was not told to be over.
ProgressFirst ==
    \A i \in DOMAIN motionWire : motionWire[i].st = "running" =>
        i = 1 /\ (payload # Null /\ payload.id = motionWire[i].id => payload.st = "running")

EndTold(j) == \E i \in DOMAIN motionWire : Over(motionWire[i], j)

(***************************************************************************)
(* The requests, and what they name.                                       *)
(***************************************************************************)
Posted ==
    \A p \in posts :
        /\ p.n <= motionAsked /\ \A q \in posts : q.n = p.n => q = p
        /\ p.state # "ok" => ~Started(p.n)
        /\ p.state = "ok" => Started(p.n) /\ jobs[p.n].cam = p.cam

\* A job is cancelled with the camera it was started for, whatever camera is shown by then.
Named ==
    /\ ui.jobId # Null => Started(ui.jobId) /\ jobs[ui.jobId].cam = ui.jobCamera
    /\ \A c \in cancels : Started(c.id) /\ jobs[c.id].cam = c.cam

(***************************************************************************)
(* The search of the page, unless one was given up too early: it is being  *)
(* started, or it is the job the page knows.                               *)
(***************************************************************************)
Starting ==
    \A p \in posts :
        /\ p.n = motionAsked
        /\ mounted /\ ui.isSearching /\ ui.jobId = Null /\ ui.results = Null
        /\ p.state = "ok" /\ jobs[p.n].done => EndTold(p.n) \/ Over(payload, p.n) \/ hidden

\* The search the page knows, and its end.
Known ==
    mounted =>
        /\ ui.jobId # Null => ui.jobId = motionAsked /\ ui.isSearching
        /\ ui.isSearching /\ posts = {} =>
              /\ ui.jobId # Null
              /\ ~jobs[ui.jobId].done \/ EndTold(ui.jobId) \/ hidden
        /\ ui.results # Null => ui.results = motionAsked

\* Somebody waits for every job that runs.
Awaited ==
    \A j \in Jobs : IsRunning(j) =>
        \/ mounted /\ ui.jobId = j
        \/ \E c \in cancels : c.id = j
        \/ \E p \in posts : p.n = j

SearchInv ==
    /\ MotionTypes /\ ToldInTime /\ ProgressFirst /\ Posted /\ Named
    /\ ~late => Starting /\ Known /\ Awaited


(***************************************************************************)
(* Steps of one kind                                                       *)
(***************************************************************************)
LEMMA NoneIsNone ==
    /\ Null \notin Jobs /\ Null \notin Motion!Job /\ Null \notin Message
    /\ Jobs \subseteq Nat /\ \A n \in Nat : n + 1 <= MaxSearch => n + 1 \in Jobs
  BY SearchAssumption DEF Jobs, Message, Motion!Jobs

\* The player, the region and the day shown are nobody's search.
LEMMA PageStep ==
    ASSUME SearchInv, ui' \in Page, motionOthers' \in Nat,
           ui'.isSearching = ui.isSearching, ui'.results = ui.results,
           ui'.jobId = ui.jobId, ui'.jobCamera = ui.jobCamera,
           UNCHANGED <<jobs, motionWire, payload, posts, cancels, mounted, motionAsked, late, hidden>>
    PROVE  SearchInv'
<1>1. MotionTypes'
  BY DEF SearchInv, MotionTypes
<1>2. ToldInTime'
  BY DEF SearchInv, ToldInTime, Started, IsRunning, Says, Over
<1>3. ProgressFirst'
  BY DEF SearchInv, ProgressFirst
<1>4. Posted' /\ Named'
  BY DEF SearchInv, Posted, Named, Started
<1>5. ~late' => Starting'
  BY DEF SearchInv, Starting, EndTold, Over, Says
<1>6. ~late' => Known'
  BY DEF SearchInv, Known, EndTold, Over, Says
<1>7. ~late' => Awaited'
  BY DEF SearchInv, Awaited, IsRunning, Started
<1>. QED  BY <1>1, <1>2, <1>3, <1>4, <1>5, <1>6, <1>7 DEF SearchInv

\* The page gives up its search: the job it knows is cancelled.
LEMMA GivenUp ==
    ASSUME SearchInv, mounted, Motion!GiveUp, ui' \in Page, mounted' \in BOOLEAN,
           ui'.jobId = Null, ~ui'.isSearching, ui'.results \in {ui.results, Null}
    PROVE  SearchInv'
<1>. DEFINE withdrawn == IF ui.jobId = Null THEN {} ELSE {[id |-> ui.jobId, cam |-> ui.jobCamera]}
<1>1. /\ cancels' = cancels \cup withdrawn /\ late' = (late \/ posts # {})
      /\ UNCHANGED <<jobs, motionWire, payload, posts, motionAsked, hidden, motionOthers>>
  BY DEF Motion!GiveUp, Motion!cancelMotionSearchJob
<1>2. \A c \in withdrawn : c \in Cancel /\ c.id = ui.jobId /\ Started(c.id) /\ jobs[c.id].cam = c.cam
  BY DEF SearchInv, MotionTypes, Named, Started, Page, Cancel, Motion!Job
<1>3. MotionTypes'
  BY <1>1, <1>2 DEF SearchInv, MotionTypes
<1>4. ToldInTime'
  BY <1>1 DEF SearchInv, ToldInTime, Started, IsRunning, Says, Over
<1>5. ProgressFirst'
  BY <1>1 DEF SearchInv, ProgressFirst
<1>6. Posted' /\ Named'
  BY <1>1, <1>2 DEF SearchInv, Posted, Named, Started
<1>7. ~late' => Starting' /\ Known'
  BY <1>1 DEF SearchInv, Starting, Known
<1>8. ~late' => Awaited'
  <2>. SUFFICES ASSUME ~late', NEW j \in Jobs, IsRunning(j), ui.jobId = j
                PROVE  \E c \in cancels' : c.id = j
    BY <1>1 DEF SearchInv, Awaited, IsRunning, Started
  <2>1. ui.jobId # Null
    BY NoneIsNone
  <2>2. [id |-> ui.jobId, cam |-> ui.jobCamera] \in cancels'
    BY <1>1, <2>1
  <2>. QED  BY <2>2
<1>. QED  BY <1>3, <1>4, <1>5, <1>6, <1>7, <1>8 DEF SearchInv

(***************************************************************************)
(* The requests                                                            *)
(***************************************************************************)
LEMMA PerformKeeps == ASSUME SearchInv, Motion!performSearch PROVE SearchInv'
<1>. DEFINE new == [n |-> motionAsked + 1, cam |-> ui.camera, state |-> "sent"]
<1>1. /\ ~late /\ mounted /\ ~ui.isSearching
      /\ motionAsked + motionOthers < MaxSearch /\ motionAsked' = motionAsked + 1
      /\ posts' = posts \cup {new}
      /\ ui' = [ui EXCEPT !.isSearching = TRUE, !.results = Null, !.hasSearched = TRUE]
      /\ UNCHANGED <<jobs, motionWire, payload, cancels, mounted, late, hidden, motionOthers>>
  BY DEF Motion!performSearch
<1>2. ui \in Page /\ motionAsked \in Nat /\ motionOthers \in Nat
  BY DEF SearchInv, MotionTypes
<1>3. /\ ui' \in Page /\ ui'.isSearching /\ ui'.results = Null
      /\ ui'.jobId = ui.jobId /\ ui'.jobCamera = ui.jobCamera
  BY <1>1, <1>2 DEF Page
<1>4. motionAsked' \in Nat /\ motionAsked' \in Jobs
  BY <1>1, <1>2, NoneIsNone, SearchAssumption
<1>5. new \in Post
  BY <1>1, <1>2, <1>4 DEF Post, Page
<1>6. posts = {} /\ ui.jobId = Null
  BY <1>1 DEF SearchInv, Starting, Known
<1>7. \A j \in Jobs : j \in Nat /\ (Started(j) => j <= motionAsked)
  BY NoneIsNone DEF SearchInv, ToldInTime
<1>8. MotionTypes'
  BY <1>1, <1>3, <1>4, <1>5 DEF SearchInv, MotionTypes
<1>9. ToldInTime'
  <2>1. \A j \in Jobs : Started(j) => j <= motionAsked'
    BY <1>1, <1>2, <1>7
  <2>. QED  BY <1>1, <2>1 DEF SearchInv, ToldInTime, Started, IsRunning, Says, Over
<1>10. ProgressFirst'
  BY <1>1 DEF SearchInv, ProgressFirst
<1>11. Posted'
  BY <1>1, <1>2, <1>4, <1>6, <1>7 DEF Posted, Started
<1>12. Named'
  BY <1>1, <1>3 DEF SearchInv, Named, Started
<1>13. Starting' /\ Known'
  <2>1. posts' = {new} /\ new.n = motionAsked' /\ new.state # "ok"
    BY <1>1, <1>6
  <2>2. Starting'
    BY <1>1, <1>3, <1>6, <2>1 DEF Starting
  <2>3. Known'
    BY <1>3, <1>6, <2>1 DEF Known
  <2>. QED  BY <2>2, <2>3
<1>14. Awaited'
  BY <1>1, <1>3 DEF SearchInv, Awaited, IsRunning, Started
<1>. QED  BY <1>8, <1>9, <1>10, <1>11, <1>12, <1>13, <1>14 DEF SearchInv

\* The server takes the request, and starts the job or refuses.
LEMMA StartKeeps ==
    ASSUME SearchInv, NEW p \in posts, Motion!start_motion_search(p) PROVE SearchInv'
<1>1. PICK ok \in BOOLEAN :
          /\ p.state = "sent"
          /\ posts' = (posts \ {p}) \cup {[p EXCEPT !.state = IF ok THEN "ok" ELSE "bad"]}
          /\ jobs' = IF ok THEN [jobs EXCEPT ![p.n] = [st |-> "running", cam |-> p.cam, cancel |-> FALSE, done |-> FALSE]]
                     ELSE jobs
  BY DEF Motion!start_motion_search
<1>2. UNCHANGED <<motionWire, payload, cancels, ui, mounted, motionAsked, late, hidden, motionOthers>>
  BY DEF Motion!start_motion_search, Motion!view
<1>. DEFINE new == [p EXCEPT !.state = IF ok THEN "ok" ELSE "bad"]
            begun == [st |-> "running", cam |-> p.cam, cancel |-> FALSE, done |-> FALSE]
<1>3. p \in Post /\ jobs \in [Jobs -> Motion!Job \cup {Null}]
  BY DEF SearchInv, MotionTypes
<1>4. new \in Post /\ new.n = p.n /\ new.cam = p.cam /\ new.state = (IF ok THEN "ok" ELSE "bad")
  BY <1>3 DEF Post
<1>5. begun \in Motion!Job /\ begun # Null
  <2>1. begun \in Motion!Job
    BY <1>3 DEF Post, Motion!Job
  <2>. QED  BY <2>1, NoneIsNone
<1>6. /\ p.n \in Jobs /\ ~Started(p.n) /\ p.n <= motionAsked
      /\ \A q \in posts : q.n = p.n => q = p
  BY <1>1, <1>3 DEF SearchInv, Posted, Post
<1>7. /\ jobs' \in [Jobs -> Motion!Job \cup {Null}]
      /\ ok => jobs'[p.n] = begun
      /\ ~ok => jobs'[p.n] = jobs[p.n]
      /\ \A j \in Jobs : j # p.n => jobs'[j] = jobs[j]
  BY <1>1, <1>3, <1>5, <1>6
<1>8. \A j \in Jobs : Started(j) => j # p.n /\ jobs'[j] = jobs[j]
  BY <1>6, <1>7
<1>9. MotionTypes'
  BY <1>1, <1>2, <1>4, <1>7 DEF SearchInv, MotionTypes
<1>10. ToldInTime'
  <2>. SUFFICES ASSUME NEW j \in Jobs
                PROVE  /\ Started(j)' => j <= motionAsked
                       /\ IsRunning(j)' => ~jobs'[j].done
                       /\ ~Started(j)' => ~Says(payload, j) /\ \A i \in DOMAIN motionWire : motionWire[i].id # j
                       /\ IsRunning(j)' => ~Over(payload, j) /\ \A i \in DOMAIN motionWire : ~Over(motionWire[i], j)
    BY <1>2 DEF ToldInTime, Says, Over
  <2>1. CASE j = p.n /\ ok
    <3>1. ~Says(payload, j) /\ \A i \in DOMAIN motionWire : motionWire[i].id # j
      BY <1>6, <2>1 DEF SearchInv, ToldInTime
    <3>. QED  BY <1>5, <1>6, <1>7, <2>1, <3>1 DEF Started, IsRunning, Over, Says
  <2>2. CASE ~(j = p.n /\ ok)
    BY <1>7, <2>2 DEF SearchInv, ToldInTime, Started, IsRunning
  <2>. QED  BY <2>1, <2>2
<1>11. ProgressFirst'
  BY <1>2 DEF SearchInv, ProgressFirst
<1>12. Posted'
  <2>. SUFFICES ASSUME NEW q \in posts'
                PROVE  /\ q.n <= motionAsked /\ \A r \in posts' : r.n = q.n => r = q
                       /\ q.state # "ok" => ~Started(q.n)'
                       /\ q.state = "ok" => Started(q.n)' /\ jobs'[q.n].cam = q.cam
    BY <1>2 DEF Posted
  <2>1. CASE q = new
    BY <1>1, <1>4, <1>5, <1>6, <1>7, <2>1 DEF Started
  <2>2. CASE q # new
    <3>1. q \in posts /\ q # p /\ q.n # p.n /\ q.n \in Jobs
      BY <1>1, <1>6, <2>2 DEF SearchInv, MotionTypes, Post
    <3>. QED  BY <1>1, <1>4, <1>7, <3>1 DEF SearchInv, Posted, Started
  <2>. QED  BY <2>1, <2>2
<1>13. Named'
  BY <1>2, <1>8 DEF SearchInv, Named, MotionTypes, Page, Cancel, Started
<1>14. ~late' => Starting'
  <2>. SUFFICES ASSUME ~late, NEW q \in posts'
                PROVE  /\ q.n = motionAsked
                       /\ mounted /\ ui.isSearching /\ ui.jobId = Null /\ ui.results = Null
                       /\ q.state = "ok" => ~jobs'[q.n].done
    BY <1>2 DEF Starting
  <2>1. q = new
    BY <1>1, <1>6 DEF SearchInv, Starting
  <2>2. /\ p.n = motionAsked
        /\ mounted /\ ui.isSearching /\ ui.jobId = Null /\ ui.results = Null
    BY DEF SearchInv, Starting
  <2>. QED  BY <1>4, <1>7, <2>1, <2>2
<1>15. ~late' => Known'
  BY <1>1, <1>2, <1>8 DEF SearchInv, Known, Starting, Named, MotionTypes, Page
<1>16. ~late' => Awaited'
  <2>. SUFFICES ASSUME ~late, NEW j \in Jobs, IsRunning(j)'
                PROVE  \/ mounted /\ ui.jobId = j
                       \/ \E c \in cancels : c.id = j
                       \/ \E q \in posts' : q.n = j
    BY <1>2 DEF Awaited
  <2>1. CASE j = p.n
    BY <1>1, <1>4, <2>1
  <2>2. CASE j # p.n
    BY <1>1, <1>7, <2>2 DEF SearchInv, Awaited, IsRunning, Started
  <2>. QED  BY <2>1, <2>2
<1>. QED  BY <1>9, <1>10, <1>11, <1>12, <1>13, <1>14, <1>15, <1>16 DEF SearchInv

(***************************************************************************)
(* What is heard of the begun                                                *)
(***************************************************************************)
\* The end of the job the page knows ends its search; nothing else does.
LEMMA Effect ==
    ASSUME NEW u \in Page, NEW m \in Message \cup {Null}
    PROVE  /\ Motion!JobEffect(u, m) \in Page
           /\ Motion!JobEffect(u, m).results \in {u.results, u.jobId}
           /\ IF u.jobId # Null /\ Over(m, u.jobId)
              THEN ~Motion!JobEffect(u, m).isSearching /\ Motion!JobEffect(u, m).jobId = Null
              ELSE /\ Motion!JobEffect(u, m).isSearching = u.isSearching
                   /\ Motion!JobEffect(u, m).jobId = u.jobId
                   /\ Motion!JobEffect(u, m).jobCamera = u.jobCamera
<1>. DEFINE e == Motion!JobEffect(u, m)
<1>1. CASE m = Null \/ u.jobId = Null \/ m.id # u.jobId
  <2>1. e = u
    BY <1>1 DEF Motion!JobEffect
  <2>. QED  BY <1>1, <2>1 DEF Over, Says
<1>2. CASE m # Null /\ u.jobId # Null /\ m.id = u.jobId
  <2>1. m \in Message /\ m.id \in Jobs \cup {Null}
    BY <1>2 DEF Message, Motion!Message, Jobs
  <2>2. CASE m.st = "running"
    <3>1. e = [u EXCEPT !.results = m.id]
      BY <1>2, <2>2 DEF Motion!JobEffect
    <3>2. e \in Page /\ e.results = u.jobId /\ e.isSearching = u.isSearching
          /\ e.jobId = u.jobId /\ e.jobCamera = u.jobCamera
      BY <1>2, <2>1, <3>1 DEF Page
    <3>3. ~Over(m, u.jobId)
      BY <2>2 DEF Over, Final, Motion!Final
    <3>. QED  BY <3>2, <3>3
  <2>3. CASE m.st # "running"
    <3>1. e = [u EXCEPT !.results = IF m.st = "success" THEN m.id ELSE @, !.isSearching = FALSE,
                        !.jobId = Null, !.jobCamera = Null]
      BY <1>2, <2>3 DEF Motion!JobEffect
    <3>2. e \in Page /\ e.results \in {u.results, u.jobId} /\ ~e.isSearching /\ e.jobId = Null
      BY <1>2, <2>1, <3>1 DEF Page
    <3>3. Over(m, u.jobId)
      BY <1>2, <2>1, <2>3 DEF Over, Says, Message, Motion!Message, Final
    <3>. QED  BY <1>2, <3>2, <3>3
  <2>. QED  BY <2>2, <2>3
<1>. QED  BY <1>1, <1>2

\* The answer to a search that was started: the page learns its job, and
\* looks at what was heard of it already.
LEMMA AnswerKeeps ==
    ASSUME SearchInv, NEW p \in posts, Motion!StartAnswer(p) PROVE SearchInv'
<1>. DEFINE u == [ui EXCEPT !.jobId = p.n, !.jobCamera = p.cam, !.dialog = FALSE]
<1>1. /\ p.state # "sent" /\ posts' = posts \ {p}
      /\ ui' = IF ~mounted THEN ui
               ELSE IF p.state = "bad" THEN [ui EXCEPT !.isSearching = FALSE]
               ELSE Motion!JobEffect(u, payload)
      /\ UNCHANGED <<jobs, motionWire, payload, cancels, mounted, motionAsked, late, hidden, motionOthers>>
  BY DEF Motion!StartAnswer
<1>2. p \in Post /\ p.n \in Jobs /\ ui \in Page /\ payload \in Message \cup {Null}
  BY DEF SearchInv, MotionTypes, Post
<1>3. u \in Page /\ u.jobId = p.n /\ u.jobCamera = p.cam /\ u.isSearching = ui.isSearching
      /\ u.results = ui.results
  BY <1>2 DEF Page, Post
<1>4. p.state \in {"ok", "bad"}
  BY <1>1, <1>2 DEF Post
<1>5. p.n # Null
  BY <1>2, NoneIsNone
<1>6. p.state = "ok" => Started(p.n) /\ jobs[p.n].cam = p.cam
  BY DEF SearchInv, Posted
<1>7. /\ ui' \in Page
      /\ ui'.jobId # Null => Started(ui'.jobId) /\ jobs[ui'.jobId].cam = ui'.jobCamera
  <2>1. CASE ~mounted
    BY <1>1, <1>2, <2>1 DEF SearchInv, Named
  <2>2. CASE mounted /\ p.state = "bad"
    <3>1. ui' \in Page /\ ui'.jobId = ui.jobId /\ ui'.jobCamera = ui.jobCamera
      BY <1>1, <1>2, <2>2 DEF Page
    <3>. QED  BY <3>1 DEF SearchInv, Named
  <2>3. CASE mounted /\ p.state = "ok"
    <3>1. ui' = Motion!JobEffect(u, payload)
      BY <1>1, <2>3
    <3>. QED  BY <1>2, <1>3, <1>6, <2>3, <3>1, Effect
  <2>. QED  BY <1>4, <2>1, <2>2, <2>3
<1>8. MotionTypes'
  BY <1>1, <1>7 DEF SearchInv, MotionTypes
<1>9. ToldInTime'
  BY <1>1 DEF SearchInv, ToldInTime, Started, IsRunning, Says, Over
<1>10. ProgressFirst'
  BY <1>1 DEF SearchInv, ProgressFirst
<1>11. Posted' /\ Named'
  BY <1>1, <1>7 DEF SearchInv, Posted, Named, Started
<1>12. ASSUME ~late
       PROVE  /\ p.n = motionAsked /\ posts' = {} /\ mounted
              /\ ui.isSearching /\ ui.jobId = Null /\ ui.results = Null
              /\ p.state = "ok" /\ jobs[p.n].done => EndTold(p.n) \/ Over(payload, p.n) \/ hidden
  BY <1>1, <1>12 DEF SearchInv, Starting, Posted
<1>13. ASSUME ~late, p.state = "bad" PROVE Starting' /\ Known' /\ Awaited'
  <2>1. /\ ui' \in Page /\ ui'.jobId = Null /\ ~ui'.isSearching /\ ui'.results = Null
    BY <1>1, <1>2, <1>12, <1>13 DEF Page
  <2>2. Starting' /\ Known'
    BY <1>12, <1>13, <2>1 DEF Starting, Known
  <2>3. ~Started(p.n)
    BY <1>13 DEF SearchInv, Posted
  <2>4. Awaited'
    BY <1>1, <1>2, <1>12, <1>13, <2>3, NoneIsNone DEF SearchInv, Awaited, IsRunning, Started
  <2>. QED  BY <2>2, <2>4
<1>14. ASSUME ~late, p.state = "ok" PROVE Starting' /\ Known' /\ Awaited'
  <2>1. ui' = Motion!JobEffect(u, payload) /\ mounted' /\ posts' = {}
    BY <1>1, <1>12, <1>14
  <2>2. ui'.results \in {Null, motionAsked}
    BY <1>2, <1>3, <1>12, <1>14, <2>1, Effect
  <2>3. CASE Over(payload, p.n)
    <3>1. ui'.jobId = Null /\ ~ui'.isSearching
      BY <1>2, <1>3, <1>5, <2>1, <2>3, Effect
    <3>2. Known' /\ Starting'
      BY <1>1, <2>1, <2>2, <3>1 DEF Starting, Known
    <3>3. ~IsRunning(p.n)
      BY <1>2, <2>3 DEF SearchInv, ToldInTime
    <3>4. Awaited'
      BY <1>1, <1>2, <1>12, <1>14, <3>3, NoneIsNone DEF SearchInv, Awaited, IsRunning, Started
    <3>. QED  BY <3>2, <3>4
  <2>4. CASE ~Over(payload, p.n)
    <3>1. ui'.jobId = p.n /\ ui'.isSearching
      BY <1>2, <1>3, <1>12, <1>14, <2>1, <2>4, Effect
    <3>2. ~jobs[p.n].done \/ EndTold(p.n)' \/ hidden
      BY <1>1, <1>12, <1>14, <2>4 DEF EndTold
    <3>3. Known' /\ Starting'
      BY <1>1, <1>5, <1>12, <1>14, <2>1, <2>2, <3>1, <3>2 DEF Starting, Known
    <3>4. Awaited'
      BY <1>1, <1>12, <1>14, <2>1, <3>1, NoneIsNone DEF SearchInv, Awaited, IsRunning, Started
    <3>. QED  BY <3>3, <3>4
  <2>. QED  BY <2>3, <2>4
<1>. QED  BY <1>1, <1>4, <1>8, <1>9, <1>10, <1>11, <1>13, <1>14 DEF SearchInv

\* The next message arrives.
LEMMA ReceiveKeeps == ASSUME SearchInv, Motion!Receive PROVE SearchInv'
<1>. DEFINE m == Head(motionWire)
            rest == Tail(motionWire)
            endComes(j) == \E i \in DOMAIN rest : Over(rest[i], j)
<1>1. /\ motionWire # <<>> /\ motionWire' = rest /\ payload' = m
      /\ ui' = IF mounted THEN Motion!JobEffect(ui, m) ELSE ui
      /\ hidden' = (hidden \/ (payload # Null /\ payload.id # Null /\ payload.id # m.id
                                 /\ \E p \in posts : p.n = payload.id))
      /\ UNCHANGED <<jobs, posts, cancels, mounted, motionAsked, late, motionOthers>>
  BY DEF Motion!Receive
<1>2. motionWire \in Seq(Message) /\ ui \in Page /\ payload \in Message \cup {Null}
  BY DEF SearchInv, MotionTypes
<1>3. m \in Message /\ m # Null /\ rest \in Seq(Message) /\ \A i \in DOMAIN rest : i \in Nat \ {0}
  <2>1. m \in Message /\ rest \in Seq(Message)
    BY <1>1, <1>2, HeadTailProperties
  <2>. QED  BY <2>1, NoneIsNone
<1>4. /\ 1 \in DOMAIN motionWire /\ motionWire[1] = m
      /\ \A i \in DOMAIN rest : i + 1 \in DOMAIN motionWire /\ rest[i] = motionWire[i + 1]
      /\ \A i \in DOMAIN motionWire : i # 1 => i - 1 \in DOMAIN rest /\ rest[i - 1] = motionWire[i]
  BY <1>1, <1>2, HeadTailProperties
<1>5. /\ ui' \in Page
      /\ ui'.results \in {ui.results, ui.jobId}
      /\ mounted /\ ui.jobId # Null /\ Over(m, ui.jobId) => ~ui'.isSearching /\ ui'.jobId = Null
      /\ ~(mounted /\ ui.jobId # Null /\ Over(m, ui.jobId)) =>
             /\ ui'.isSearching = ui.isSearching
             /\ ui'.jobId = ui.jobId /\ ui'.jobCamera = ui.jobCamera
  <2>1. CASE mounted
    BY <1>1, <1>2, <1>3, <2>1, Effect
  <2>2. CASE ~mounted
    BY <1>1, <1>2, <2>2
  <2>. QED  BY <2>1, <2>2
<1>6. \A j \in Jobs : EndTold(j) => Over(m, j) \/ endComes(j)
  BY <1>1, <1>4 DEF EndTold
<1>7. hidden' \in BOOLEAN /\ (hidden => hidden')
  BY <1>1 DEF SearchInv, MotionTypes
<1>8. MotionTypes'
  BY <1>1, <1>3, <1>5, <1>7 DEF SearchInv, MotionTypes
<1>9. ToldInTime'
  BY <1>1, <1>4 DEF SearchInv, ToldInTime, Started, IsRunning, Says, Over
<1>10. ProgressFirst'
  <2>. SUFFICES ASSUME NEW i \in DOMAIN rest, rest[i].st = "running" PROVE FALSE
    BY <1>1 DEF ProgressFirst
  <2>1. i + 1 = 1
    BY <1>4 DEF SearchInv, ProgressFirst
  <2>. QED  BY <1>3, <2>1
<1>11. Posted'
  BY <1>1 DEF SearchInv, Posted, Started
<1>12. Named'
  BY <1>1, <1>5 DEF SearchInv, Named, Started
<1>13. ~late' => Starting'
  <2>. SUFFICES ASSUME ~late, NEW p \in posts
                PROVE  /\ p.n = motionAsked
                       /\ mounted /\ ui'.isSearching /\ ui'.jobId = Null /\ ui'.results = Null
                       /\ p.state = "ok" /\ jobs[p.n].done =>
                              endComes(p.n) \/ Over(m, p.n) \/ hidden'
    BY <1>1 DEF Starting, EndTold, Over, Says
  <2>1. /\ p.n = motionAsked /\ mounted /\ ui.isSearching /\ ui.jobId = Null /\ ui.results = Null
        /\ p.state = "ok" /\ jobs[p.n].done => EndTold(p.n) \/ Over(payload, p.n) \/ hidden
    BY DEF SearchInv, Starting
  <2>2. ui'.isSearching /\ ui'.jobId = Null /\ ui'.results = Null
    BY <1>5, <2>1
  <2>3. p.n \in Jobs /\ p.n # Null
    BY NoneIsNone DEF SearchInv, MotionTypes, Post
  <2>4. ASSUME Over(payload, p.n) PROVE Over(m, p.n) \/ hidden'
    <3>1. payload # Null /\ payload.id = p.n /\ payload.st \in Final
      BY <2>4 DEF Over, Says
    <3>2. CASE m.id # p.n
      BY <1>1, <2>3, <3>1, <3>2
    <3>3. CASE m.id = p.n
      <4>1. m.st # "running"
        <5>1. "running" \notin Final
          BY DEF Final, Motion!Final
        <5>. QED  BY <1>4, <3>1, <3>3, <5>1 DEF SearchInv, ProgressFirst
      <4>. QED  BY <1>3, <3>3, <4>1 DEF Over, Says, Message, Motion!Message, Final
    <3>. QED  BY <3>2, <3>3
  <2>. QED  BY <1>6, <1>7, <2>1, <2>2, <2>3, <2>4
<1>14. ~late' => Known'
  <2>. SUFFICES ASSUME ~late, mounted
                PROVE  /\ ui'.jobId # Null => ui'.jobId = motionAsked /\ ui'.isSearching
                       /\ ui'.isSearching /\ posts = {} =>
                             /\ ui'.jobId # Null
                             /\ ~jobs[ui'.jobId].done \/ endComes(ui'.jobId) \/ hidden'
                       /\ ui'.results # Null => ui'.results = motionAsked
    <3>1. Known' = (mounted =>
        /\ ui'.jobId # Null => ui'.jobId = motionAsked /\ ui'.isSearching
        /\ ui'.isSearching /\ posts = {} =>
              /\ ui'.jobId # Null
              /\ ~jobs[ui'.jobId].done \/ endComes(ui'.jobId) \/ hidden'
        /\ ui'.results # Null => ui'.results = motionAsked)
      BY <1>1 DEF Known, EndTold, Over, Says
    <3>. QED  BY <1>1, <3>1
  <2>1. /\ ui.jobId # Null => ui.jobId = motionAsked /\ ui.isSearching
        /\ ui.isSearching /\ posts = {} =>
              ui.jobId # Null /\ (~jobs[ui.jobId].done \/ EndTold(ui.jobId) \/ hidden)
        /\ ui.results # Null => ui.results = motionAsked
    BY DEF SearchInv, Known
  <2>2. CASE ui.jobId # Null /\ Over(m, ui.jobId)
    BY <1>5, <2>1, <2>2
  <2>3. CASE ~(ui.jobId # Null /\ Over(m, ui.jobId))
    <3>1. ui'.isSearching = ui.isSearching /\ ui'.jobId = ui.jobId
      BY <1>5, <2>3
    <3>2. ui.jobId # Null => ui.jobId \in Jobs /\ (EndTold(ui.jobId) => endComes(ui.jobId))
      BY <1>2, <1>6, <2>3 DEF Page
    <3>. QED  BY <1>5, <1>7, <2>1, <3>1, <3>2
  <2>. QED  BY <2>2, <2>3
<1>15. ~late' => Awaited'
  <2>. SUFFICES ASSUME ~late, NEW j \in Jobs, IsRunning(j), mounted, ui.jobId = j PROVE ui'.jobId = j
    BY <1>1 DEF SearchInv, Awaited, IsRunning, Started
  <2>1. ~Over(m, j)
    BY <1>4 DEF SearchInv, ToldInTime
  <2>. QED  BY <1>5, <2>1
<1>. QED  BY <1>8, <1>9, <1>10, <1>11, <1>12, <1>13, <1>14, <1>15 DEF SearchInv

(***************************************************************************)
(* The server: a message is sent behind the others.                        *)
(***************************************************************************)
LEMMA Sent ==
    ASSUME SearchInv, NEW m \in Message, motionWire' = Append(motionWire, m)
    PROVE  /\ motionWire' \in Seq(Message)
           /\ \A i \in DOMAIN motionWire' :
                  motionWire'[i] = m \/ (i \in DOMAIN motionWire /\ motionWire'[i] = motionWire[i])
           /\ \A j \in Jobs : EndTold(j) \/ Over(m, j) => EndTold(j)'
<1>1. motionWire \in Seq(Message)
  BY DEF SearchInv, MotionTypes
<1>2. /\ DOMAIN motionWire' = (DOMAIN motionWire) \cup {Len(motionWire) + 1}
      /\ \A i \in DOMAIN motionWire : motionWire'[i] = motionWire[i]
      /\ motionWire'[Len(motionWire) + 1] = m
  BY <1>1, AppendProperties
<1>3. motionWire' \in Seq(Message)
  BY <1>1
<1>4. \A j \in Jobs : EndTold(j) \/ Over(m, j) => EndTold(j)'
  BY <1>2 DEF EndTold, Over, Says
<1>. QED  BY <1>2, <1>3, <1>4

\* The end of a search is told: a job of this client's is over by then.
LEMMA EndKeeps ==
    ASSUME SearchInv, NEW m \in Message, m.st \in Final, motionWire' = Append(motionWire, m),
           jobs' \in [Jobs -> Motion!Job \cup {Null}],
           \A j \in Jobs : /\ Started(j)' = Started(j)
                           /\ Started(j) => jobs'[j].cam = jobs[j].cam
                           /\ Started(j) /\ jobs'[j].done => jobs[j].done \/ m.id = j
                           /\ IsRunning(j)' => IsRunning(j) /\ m.id # j /\ ~jobs'[j].done,
           m.id # Null => Started(m.id),
           cancels' \subseteq cancels, \A c \in cancels : c \in cancels' \/ ~IsRunning(c.id)',
           motionOthers' \in Nat,
           UNCHANGED <<payload, posts, ui, mounted, motionAsked, late, hidden>>
    PROVE  SearchInv'
<1>1. /\ motionWire' \in Seq(Message)
      /\ \A i \in DOMAIN motionWire' :
             motionWire'[i] = m \/ (i \in DOMAIN motionWire /\ motionWire'[i] = motionWire[i])
      /\ \A j \in Jobs : EndTold(j) \/ Over(m, j) => EndTold(j)'
  BY Sent
<1>2. MotionTypes'
  BY <1>1 DEF SearchInv, MotionTypes
<1>3. /\ \A p \in posts : p.n \in Jobs
      /\ \A c \in cancels : c.id \in Jobs
      /\ ui.jobId # Null => ui.jobId \in Jobs
      /\ \A j \in Jobs : j # Null
  BY NoneIsNone DEF SearchInv, MotionTypes, Post, Cancel, Page
<1>4. ToldInTime'
  <2>. SUFFICES ASSUME NEW j \in Jobs
                PROVE  /\ Started(j)' => j <= motionAsked
                       /\ IsRunning(j)' => ~jobs'[j].done
                       /\ ~Started(j)' => ~Says(payload, j) /\ \A i \in DOMAIN motionWire' : motionWire'[i].id # j
                       /\ IsRunning(j)' => ~Over(payload, j) /\ \A i \in DOMAIN motionWire' : ~Over(motionWire'[i], j)
    BY DEF ToldInTime, Says, Over
  <2>1. /\ Started(j) => j <= motionAsked
        /\ ~Started(j) => ~Says(payload, j) /\ \A i \in DOMAIN motionWire : motionWire[i].id # j
        /\ IsRunning(j) => ~Over(payload, j) /\ \A i \in DOMAIN motionWire : ~Over(motionWire[i], j)
    BY DEF SearchInv, ToldInTime
  <2>2. ~Started(j) => m.id # j
    BY <1>3
  <2>3. m.id # j => ~Over(m, j)
    BY DEF Over, Says
  <2>. QED  BY <1>1, <2>1, <2>2, <2>3
<1>5. ProgressFirst'
  <2>1. m.st # "running"
    BY DEF Final, Motion!Final
  <2>. QED  BY <1>1, <2>1 DEF SearchInv, ProgressFirst
<1>6. Posted'
  BY <1>3 DEF SearchInv, Posted
<1>7. Named'
  BY <1>3 DEF SearchInv, Named
<1>8. \A j \in Jobs : m.id = j => Over(m, j)
  BY NoneIsNone DEF Over, Says
<1>9. ~late' => Starting'
  <2>1. \A p \in posts : p.state = "ok" => Started(p.n)
    BY DEF SearchInv, Posted
  <2>. QED  BY <1>1, <1>3, <1>8, <2>1 DEF SearchInv, Starting, Over, Says
<1>10. ~late' => Known'
  <2>1. ui.jobId # Null => Started(ui.jobId)
    BY DEF SearchInv, Named
  <2>. QED  BY <1>1, <1>3, <1>8, <2>1 DEF SearchInv, Known
<1>11. ~late' => Awaited'
  BY <1>3 DEF SearchInv, Awaited
<1>. QED  BY <1>2, <1>4, <1>5, <1>6, <1>7, <1>9, <1>10, <1>11 DEF SearchInv

\* The thread of a job ends.
LEMMA FinishKeeps == ASSUME SearchInv, NEW j \in Jobs, Motion!Finish(j) PROVE SearchInv'
<1>1. PICK st \in Final :
          /\ jobs' = [jobs EXCEPT ![j].st = st, ![j].done = TRUE]
          /\ motionWire' = Append(motionWire, [id |-> j, st |-> st])
  BY DEF Motion!Finish, Motion!Broadcast, Final, Motion!Final
<1>2. /\ jobs[j] # Null
      /\ UNCHANGED <<payload, posts, cancels, ui, mounted, motionAsked, late, hidden, motionOthers>>
  BY DEF Motion!Finish, Motion!view
<1>. DEFINE m == [id |-> j, st |-> st]
<1>3. m \in Message /\ m.st \in Final /\ m.id = j
  BY DEF Message, Motion!Message, Final, Jobs
<1>4. jobs \in [Jobs -> Motion!Job \cup {Null}] /\ jobs[j] \in Motion!Job /\ motionOthers \in Nat
  BY <1>2 DEF SearchInv, MotionTypes
<1>5. /\ jobs'[j] = [jobs[j] EXCEPT !.st = st, !.done = TRUE]
      /\ \A k \in Jobs : k # j => jobs'[k] = jobs[k]
      /\ jobs' = [jobs EXCEPT ![j] = jobs'[j]]
  BY <1>1, <1>4
<1>6. jobs'[j] \in Motion!Job /\ jobs'[j].cam = jobs[j].cam /\ jobs'[j].st = st
  BY <1>4, <1>5 DEF Motion!Job, Final
<1>7. jobs'[j] # Null /\ st # "running"
  BY <1>6, NoneIsNone DEF Final, Motion!Final
<1>8. jobs' \in [Jobs -> Motion!Job \cup {Null}]
  BY <1>4, <1>5, <1>6
<1>9. \A k \in Jobs : /\ Started(k)' = Started(k)
                      /\ Started(k) => jobs'[k].cam = jobs[k].cam
                      /\ Started(k) /\ jobs'[k].done => jobs[k].done \/ m.id = k
                      /\ IsRunning(k)' => IsRunning(k) /\ m.id # k /\ ~jobs'[k].done
  <2>. SUFFICES ASSUME NEW k \in Jobs
                PROVE  /\ Started(k)' = Started(k)
                       /\ Started(k) => jobs'[k].cam = jobs[k].cam
                       /\ Started(k) /\ jobs'[k].done => jobs[k].done \/ m.id = k
                       /\ IsRunning(k)' => IsRunning(k) /\ m.id # k /\ ~jobs'[k].done
    OBVIOUS
  <2>1. CASE k = j
    BY <1>2, <1>6, <1>7, <2>1 DEF Started, IsRunning
  <2>2. CASE k # j
    <3>1. IsRunning(k) => ~jobs[k].done
      BY DEF SearchInv, ToldInTime
    <3>. QED  BY <1>3, <1>5, <2>2, <3>1 DEF Started, IsRunning
  <2>. QED  BY <2>1, <2>2
<1>. HIDE DEF m
<1>10. motionWire' = Append(motionWire, m)
  BY <1>1 DEF m
<1>11. m.id # Null => Started(m.id)
  BY <1>2, <1>3 DEF Started
<1>. QED  BY <1>2, <1>3, <1>4, <1>8, <1>9, <1>10, <1>11, EndKeeps

\* A running job that is cancelled is over at once, though its thread goes on.
LEMMA CancelKeeps == ASSUME SearchInv, NEW c \in cancels, Motion!CancelJob(c) PROVE SearchInv'
<1>. DEFINE j == c.id
            m == [id |-> j, st |-> "cancelled"]
<1>1. /\ cancels' = cancels \ {c}
      /\ IF jobs[j].cam = c.cam /\ jobs[j].st = "running"
         THEN /\ jobs' = [jobs EXCEPT ![j].st = "cancelled", ![j].cancel = TRUE]
              /\ motionWire' = Append(motionWire, m)
         ELSE UNCHANGED <<jobs, motionWire>>
      /\ UNCHANGED <<payload, posts, ui, mounted, motionAsked, late, hidden, motionOthers>>
  BY DEF Motion!CancelJob, Motion!Active, Motion!Broadcast, Motion!view
<1>2. j \in Jobs /\ Started(j) /\ jobs[j].cam = c.cam
  BY DEF SearchInv, MotionTypes, Named, Cancel
<1>3. m \in Message /\ m.st \in Final /\ m.id = j
  BY <1>2 DEF Message, Motion!Message, Final, Motion!Final, Jobs
<1>4. jobs \in [Jobs -> Motion!Job \cup {Null}] /\ jobs[j] \in Motion!Job /\ motionOthers \in Nat
  BY <1>2 DEF SearchInv, MotionTypes, Started
<1>5. CASE jobs[j].st = "running"
  <2>1. jobs' = [jobs EXCEPT ![j].st = "cancelled", ![j].cancel = TRUE] /\ motionWire' = Append(motionWire, m)
    BY <1>1, <1>2, <1>5
  <2>2. /\ jobs'[j] = [jobs[j] EXCEPT !.st = "cancelled", !.cancel = TRUE]
        /\ \A k \in Jobs : k # j => jobs'[k] = jobs[k]
        /\ jobs' = [jobs EXCEPT ![j] = jobs'[j]]
    BY <1>2, <1>4, <2>1
  <2>3. /\ jobs'[j] \in Motion!Job /\ jobs'[j].cam = jobs[j].cam /\ jobs'[j].st = "cancelled"
        /\ jobs'[j].done = jobs[j].done
    BY <1>4, <2>2 DEF Motion!Job, Motion!Final
  <2>4. jobs'[j] # Null
    BY <2>3, NoneIsNone
  <2>5. jobs' \in [Jobs -> Motion!Job \cup {Null}]
    BY <1>2, <1>4, <2>2, <2>3
  <2>6. \A k \in Jobs : /\ Started(k)' = Started(k)
                        /\ Started(k) => jobs'[k].cam = jobs[k].cam
                        /\ Started(k) /\ jobs'[k].done => jobs[k].done \/ m.id = k
                        /\ IsRunning(k)' => IsRunning(k) /\ m.id # k /\ ~jobs'[k].done
    <3>. SUFFICES ASSUME NEW k \in Jobs
                  PROVE  /\ Started(k)' = Started(k)
                         /\ Started(k) => jobs'[k].cam = jobs[k].cam
                         /\ Started(k) /\ jobs'[k].done => jobs[k].done \/ m.id = k
                         /\ IsRunning(k)' => IsRunning(k) /\ m.id # k /\ ~jobs'[k].done
      OBVIOUS
    <3>1. CASE k = j
      BY <1>2, <2>3, <2>4, <3>1 DEF Started, IsRunning
    <3>2. CASE k # j
      <4>1. IsRunning(k) => ~jobs[k].done
        BY DEF SearchInv, ToldInTime
      <4>. QED  BY <1>3, <2>2, <3>2, <4>1 DEF Started, IsRunning
    <3>. QED  BY <3>1, <3>2
  <2>7. \A d \in cancels : d \in cancels' \/ ~IsRunning(d.id)'
    BY <1>1, <2>3 DEF IsRunning
  <2>. HIDE DEF m
  <2>8. m.id # Null => Started(m.id)
    BY <1>2, <1>3
  <2>. QED  BY <1>1, <1>3, <1>4, <2>1, <2>5, <2>6, <2>7, <2>8, EndKeeps
<1>6. CASE jobs[j].st # "running"
  <2>1. /\ cancels' = cancels \ {c}
        /\ UNCHANGED <<jobs, motionWire, payload, posts, ui, mounted, motionAsked, late, hidden, motionOthers>>
    BY <1>1, <1>6
  <2>2. MotionTypes'
    BY <2>1 DEF SearchInv, MotionTypes
  <2>3. ToldInTime' /\ ProgressFirst'
    BY <2>1 DEF SearchInv, ToldInTime, ProgressFirst, Started, IsRunning, Says, Over
  <2>4. Posted' /\ Named'
    BY <2>1 DEF SearchInv, Posted, Named, Started
  <2>5. ~late' => Starting' /\ Known'
    BY <2>1 DEF SearchInv, Starting, Known, EndTold, Over, Says
  <2>6. ~late' => Awaited'
    BY <1>6, <2>1 DEF SearchInv, Awaited, IsRunning, Started
  <2>. QED  BY <2>2, <2>3, <2>4, <2>5, <2>6 DEF SearchInv
<1>. QED  BY <1>5, <1>6

\* The end of another client's search ends none of this client's.
LEMMA OtherKeeps == ASSUME SearchInv, Motion!OtherSearch PROVE SearchInv'
<1>. DEFINE m == [id |-> Null, st |-> "success"]
<1>1. /\ motionOthers' = motionOthers + 1 /\ motionWire' = Append(motionWire, m)
      /\ UNCHANGED <<jobs, payload, posts, cancels, ui, mounted, motionAsked, late, hidden>>
  BY DEF Motion!OtherSearch, Motion!Broadcast, Motion!view
<1>2. m \in Message /\ m.st \in Final /\ m.id = Null
  BY DEF Message, Motion!Message, Final, Motion!Final
<1>3. jobs \in [Jobs -> Motion!Job \cup {Null}] /\ motionOthers' \in Nat
  BY <1>1 DEF SearchInv, MotionTypes
<1>4. \A k \in Jobs : /\ Started(k)' = Started(k) /\ jobs'[k] = jobs[k]
                      /\ IsRunning(k)' => IsRunning(k) /\ Null # k /\ ~jobs'[k].done
  BY <1>1, NoneIsNone DEF SearchInv, ToldInTime, Started, IsRunning
<1>. HIDE DEF m
<1>. QED  BY <1>1, <1>2, <1>3, <1>4, EndKeeps

\* Progress is told of a job that runs, when nothing else is on the way.
LEMMA ProgressKeeps == ASSUME SearchInv, NEW j \in Jobs, Motion!Progress(j) PROVE SearchInv'
<1>. DEFINE m == [id |-> j, st |-> "running"]
<1>1. /\ jobs[j] # Null /\ jobs[j].st = "running" /\ motionWire = <<>>
      /\ motionWire' = Append(motionWire, m)
      /\ UNCHANGED <<jobs, payload, posts, cancels, ui, mounted, motionAsked, late, hidden, motionOthers>>
  BY DEF Motion!Progress, Motion!Active, Motion!Running, Motion!view
<1>2. m \in Message /\ m.id = j /\ m.st = "running"
  BY DEF Message, Motion!Message, Jobs
<1>3. /\ motionWire' \in Seq(Message)
      /\ \A i \in DOMAIN motionWire' :
             motionWire'[i] = m \/ (i \in DOMAIN motionWire /\ motionWire'[i] = motionWire[i])
      /\ \A k \in Jobs : EndTold(k) => EndTold(k)'
  BY <1>1, <1>2, Sent
<1>4. DOMAIN motionWire' = {1}
  BY <1>1
<1>5. Started(j) /\ IsRunning(j)
  BY <1>1 DEF Started, IsRunning
<1>. HIDE DEF m
<1>6. MotionTypes'
  BY <1>1, <1>3 DEF SearchInv, MotionTypes
<1>7. \A k \in Jobs : ~Over(m, k)
  BY <1>2 DEF Over, Final, Motion!Final
<1>8. ToldInTime'
  BY <1>1, <1>2, <1>3, <1>5, <1>7 DEF SearchInv, ToldInTime, Started, IsRunning, Says, Over
<1>9. ProgressFirst'
  <2>1. ~Over(payload, j) /\ payload \in Message \cup {Null}
    BY <1>5 DEF SearchInv, MotionTypes, ToldInTime
  <2>2. payload # Null /\ payload.id = j => payload.st = "running"
    BY <2>1 DEF Over, Says, Message, Motion!Message, Final
  <2>3. \A i \in DOMAIN motionWire' : i = 1 /\ motionWire'[i] = m
    BY <1>1, <1>3, <1>4
  <2>. QED  BY <1>1, <1>2, <2>2, <2>3 DEF ProgressFirst
<1>10. Posted' /\ Named'
  BY <1>1 DEF SearchInv, Posted, Named, Started
<1>11. ~late' => Starting'
  <2>1. \A p \in posts : p.n \in Jobs
    BY DEF SearchInv, MotionTypes, Post
  <2>. QED  BY <1>1, <1>3, <2>1 DEF SearchInv, Starting, Over, Says
<1>12. ~late' => Known'
  <2>1. ui.jobId # Null => ui.jobId \in Jobs
    BY DEF SearchInv, MotionTypes, Page
  <2>. QED  BY <1>1, <1>3, <2>1 DEF SearchInv, Known
<1>13. ~late' => Awaited'
  BY <1>1 DEF SearchInv, Awaited, IsRunning, Started
<1>. QED  BY <1>6, <1>8, <1>9, <1>10, <1>11, <1>12, <1>13 DEF SearchInv

(***************************************************************************)
(* Every step of the page                                                  *)
(***************************************************************************)
LEMMA SearchInvInit == ASSUME Motion!Init PROVE SearchInv
<1>1. /\ jobs = [j \in Jobs |-> Null] /\ motionWire = <<>> /\ payload = Null
      /\ posts = {} /\ cancels = {} /\ ui = Motion!Fresh /\ mounted = TRUE
      /\ motionAsked = 0 /\ late = FALSE /\ hidden = FALSE /\ motionOthers = 0
  BY DEF Motion!Init, Jobs
<1>2. /\ ui \in Page /\ ui.jobId = Null /\ ui.results = Null /\ ~ui.isSearching
  BY <1>1 DEF Motion!Fresh, Page, Motion!Cameras, Motion!timeRange
<1>3. MotionTypes
  <2>1. jobs \in [Jobs -> Motion!Job \cup {Null}]
    BY <1>1
  <2>2. motionWire \in Seq(Message) /\ payload \in Message \cup {Null}
    BY <1>1
  <2>. QED  BY <1>1, <1>2, <2>1, <2>2 DEF MotionTypes
<1>4. \A j \in Jobs : ~Started(j) /\ ~IsRunning(j)
  BY <1>1 DEF Started, IsRunning
<1>5. ToldInTime
  BY <1>1, <1>4 DEF ToldInTime, Says
<1>6. ProgressFirst /\ Posted /\ Named
  BY <1>1, <1>2 DEF ProgressFirst, Posted, Named
<1>7. Starting /\ Known /\ Awaited
  BY <1>1, <1>2, <1>4 DEF Starting, Known, Awaited
<1>. QED  BY <1>3, <1>5, <1>6, <1>7 DEF SearchInv

LEMMA LeaveKeeps == ASSUME SearchInv, Motion!Leave PROVE SearchInv'
<1>1. mounted /\ Motion!GiveUp /\ mounted' = FALSE /\ ui' = Motion!Fresh
  BY DEF Motion!Leave
<1>2. /\ ui' \in Page /\ ui'.jobId = Null /\ ~ui'.isSearching /\ ui'.results = Null
  BY <1>1 DEF Motion!Fresh, Page, Motion!Cameras, Motion!timeRange
<1>. QED  BY <1>1, <1>2, GivenUp

LEMMA SearchInvNext == ASSUME SearchInv, Motion!Next PROVE SearchInv'
<1>. USE DEF Motion!view
<1>1. ui \in Page /\ motionOthers \in Nat
  BY DEF SearchInv, MotionTypes
<1>2. ASSUME Motion!Draw PROVE SearchInv'
  <2>1. UNCHANGED <<jobs, motionWire, payload, posts, cancels, ui, mounted, motionAsked, late, hidden, motionOthers>>
    BY <1>2 DEF Motion!Draw
  <2>. QED  BY <1>1, <2>1, PageStep
<1>3. CASE Motion!handleMouseDown \/ Motion!handleContextMenu \/ Motion!undoPolygonPoint \/ Motion!resetPolygon
  BY <1>2, <1>3 DEF Motion!handleMouseDown, Motion!handleContextMenu, Motion!undoPolygonPoint, Motion!resetPolygon
<1>4. CASE Motion!performSearch
  BY <1>4, PerformKeeps
<1>5. CASE Motion!handleNewSearch
  <2>1. /\ mounted /\ Motion!GiveUp /\ mounted' = mounted
        /\ ui' = [ui EXCEPT !.results = Null, !.isSearching = FALSE, !.jobId = Null, !.jobCamera = Null,
                            !.hasSearched = FALSE, !.dialog = TRUE]
    BY <1>5 DEF Motion!handleNewSearch
  <2>2. ui' \in Page /\ ui'.jobId = Null /\ ~ui'.isSearching /\ ui'.results = Null
    BY <1>1, <2>1 DEF Page
  <2>. QED  BY <2>1, <2>2, GivenUp
<1>6. CASE Motion!CancelSearch
  <2>1. /\ mounted /\ Motion!GiveUp /\ mounted' = mounted
        /\ ui' = [ui EXCEPT !.isSearching = FALSE, !.jobId = Null, !.jobCamera = Null]
    BY <1>6 DEF Motion!CancelSearch
  <2>2. ui' \in Page /\ ui'.jobId = Null /\ ~ui'.isSearching /\ ui'.results = ui.results
    BY <1>1, <2>1 DEF Page
  <2>. QED  BY <2>1, <2>2, GivenUp
<1>7. CASE Motion!handleBack
  BY <1>7, LeaveKeeps DEF Motion!handleBack
<1>8. CASE Motion!handleSearchDialogOpenChange
  <2>1. CASE ~ui.isSearching /\ ~ui.hasSearched
    BY <1>8, <2>1, LeaveKeeps DEF Motion!handleSearchDialogOpenChange
  <2>2. CASE ui.isSearching \/ ui.hasSearched
    <3>1. /\ ui' = [ui EXCEPT !.dialog = FALSE]
          /\ UNCHANGED <<jobs, motionWire, payload, posts, cancels, mounted, motionAsked, late, hidden, motionOthers>>
      BY <1>8, <2>2 DEF Motion!handleSearchDialogOpenChange
    <3>2. /\ ui' \in Page /\ ui'.isSearching = ui.isSearching /\ ui'.results = ui.results
          /\ ui'.jobId = ui.jobId /\ ui'.jobCamera = ui.jobCamera
      BY <1>1, <3>1 DEF Page
    <3>. QED  BY <1>1, <3>1, <3>2, PageStep
  <2>. QED  BY <2>1, <2>2
<1>9. CASE \E c \in Motion!Cameras : Motion!onCameraSelect(c)
  <2>1. PICK c \in Motion!Cameras : Motion!onCameraSelect(c)
    BY <1>9
  <2>2. /\ ui' = [ui EXCEPT !.camera = c] /\ motionOthers' = motionOthers + 1
        /\ UNCHANGED <<jobs, motionWire, payload, posts, cancels, mounted, motionAsked, late, hidden>>
    BY <2>1 DEF Motion!onCameraSelect
  <2>3. /\ ui' \in Page /\ ui'.isSearching = ui.isSearching /\ ui'.results = ui.results
        /\ ui'.jobId = ui.jobId /\ ui'.jobCamera = ui.jobCamera
    BY <1>1, <2>2 DEF Page
  <2>. QED  BY <1>1, <2>2, <2>3, PageStep
<1>10. CASE \E d \in DOMAIN Motion!timeRange : Motion!onDaySelect(d)
  <2>1. PICK d \in DOMAIN Motion!timeRange : Motion!onDaySelect(d)
    BY <1>10
  <2>2. /\ ui' = [ui EXCEPT !.day = d, !.time = "end"] /\ motionOthers' = motionOthers + 1
        /\ UNCHANGED <<jobs, motionWire, payload, posts, cancels, mounted, motionAsked, late, hidden>>
    BY <2>1 DEF Motion!onDaySelect
  <2>3. /\ ui' \in Page /\ ui'.isSearching = ui.isSearching /\ ui'.results = ui.results
        /\ ui'.jobId = ui.jobId /\ ui'.jobCamera = ui.jobCamera
    BY <1>1, <2>2 DEF Page
  <2>. QED  BY <1>1, <2>2, <2>3, PageStep
<1>11. CASE \E h \in Motion!Hits : Motion!handleResultClick(h)
  <2>1. PICK h \in Motion!Hits : Motion!handleResultClick(h)
    BY <1>11
  <2>. DEFINE day == CHOOSE d \in {"d1", "d2"} : h \in Motion!timeRange[d]
  <2>2. /\ ui' = [ui EXCEPT !.time = h, !.day = IF h \in Motion!timeRange[@] THEN @ ELSE day]
        /\ motionOthers' = motionOthers + 1
        /\ UNCHANGED <<jobs, motionWire, payload, posts, cancels, mounted, motionAsked, late, hidden>>
    BY <2>1 DEF Motion!handleResultClick
  <2>3. day \in DOMAIN Motion!timeRange
    <3>1. \E d \in {"d1", "d2"} : h \in Motion!timeRange[d]
      BY DEF Motion!timeRange, Motion!Hits
    <3>2. day \in {"d1", "d2"}
      BY <3>1
    <3>. QED  BY <3>2 DEF Motion!timeRange
  <2>. HIDE DEF day
  <2>4. /\ ui' \in Page /\ ui'.isSearching = ui.isSearching /\ ui'.results = ui.results
        /\ ui'.jobId = ui.jobId /\ ui'.jobCamera = ui.jobCamera
    BY <1>1, <2>2, <2>3 DEF Page
  <2>. QED  BY <1>1, <2>2, <2>4, PageStep
<1>12. CASE \E p \in posts : Motion!start_motion_search(p) \/ Motion!StartAnswer(p)
  BY <1>12, StartKeeps, AnswerKeeps
<1>13. CASE \E j \in Jobs : Motion!Progress(j) \/ Motion!Finish(j)
  BY <1>13, ProgressKeeps, FinishKeeps
<1>14. CASE \E c \in cancels : Motion!CancelJob(c)
  BY <1>14, CancelKeeps
<1>15. CASE Motion!Receive \/ Motion!OtherSearch
  BY <1>15, ReceiveKeeps, OtherKeeps
<1>. QED  BY <1>3, <1>4, <1>5, <1>6, <1>7, <1>8, <1>9, <1>10, <1>11, <1>12, <1>13, <1>14, <1>15
          DEF Motion!Next, Jobs

LEMMA SearchInvOwn ==
    ASSUME SearchInv PROVE Motion!ResultsAreOfSearch /\ Motion!SearchingIsReal /\ Motion!NoOrphan
<1>1. Motion!ResultsAreOfSearch
  BY DEF SearchInv, Known, Motion!ResultsAreOfSearch
<1>2. Motion!SearchingIsReal
  <2>. SUFFICES ASSUME mounted, ui.isSearching, ~late, ~hidden, ~\E p \in posts : p.n = motionAsked
                PROVE  /\ ui.jobId = motionAsked
                       /\ \/ ~jobs[motionAsked].done
                          \/ \E i \in DOMAIN motionWire : motionWire[i].id = motionAsked /\ motionWire[i].st \in Motion!Final
    BY DEF Motion!SearchingIsReal
  <2>1. posts = {}
    BY DEF SearchInv, Starting
  <2>2. ui.jobId # Null /\ ui.jobId = motionAsked /\ (~jobs[ui.jobId].done \/ EndTold(ui.jobId))
    BY <2>1 DEF SearchInv, Known
  <2>. QED  BY <2>2 DEF EndTold, Over, Says, Final
<1>3. Motion!NoOrphan
  BY DEF SearchInv, Awaited, IsRunning, Started, Motion!NoOrphan, Motion!Active, Jobs
<1>. QED  BY <1>1, <1>2, <1>3

\* What holds of the motion search while it is what is shown.
SearchInForce == shown = "motion" => SearchInv

LEMMA OtherPages == ASSUME SearchInv, UNCHANGED motionVars PROVE SearchInv'
<1>1. UNCHANGED <<jobs, motionWire, payload, posts, cancels, ui, mounted, motionAsked, late, hidden, motionOthers>>
  BY DEF motionVars
<1>2. ui \in Page /\ motionOthers \in Nat
  BY DEF SearchInv, MotionTypes
<1>. QED  BY <1>1, <1>2, PageStep

\* The hits listed are those of the last search, a search shown as running is one, and the
\* server runs no search nobody waits for: the page of the motion search, the jobs of the
\* server and all that passes between them, for any number of searches.
THEOREM SearchesAreOwn == Spec => []SearchIsOwn
<1>1. Init => SearchInForce
  BY SearchInvInit DEF Init, SearchInForce
<1>2. SearchInForce /\ [Next]_vars => SearchInForce'
  <2>. SUFFICES ASSUME SearchInForce, [Next]_vars, shown' = "motion" PROVE SearchInv'
    BY DEF SearchInForce
  <2>1. shown' = shown
    BY DEF Next, vars
  <2>2. SearchInv
    BY <2>1 DEF SearchInForce
  <2>3. Motion!Next \/ UNCHANGED motionVars
    BY <2>1 DEF Next, vars
  <2>. QED  BY <2>2, <2>3, SearchInvNext, OtherPages
<1>3. SearchInForce => SearchIsOwn
  BY SearchInvOwn DEF SearchInForce, SearchIsOwn
<1>. QED  BY <1>1, <1>2, <1>3, PTL DEF Spec

(***************************************************************************)
(* The training library: the images shown, the requests about them, what   *)
(* recognition adds to them and the model that is trained, for any images, *)
(* any categories and any number of requests under way.                    *)
(***************************************************************************)
Stage == {"asked", "taken", "failed"}
Deleting == [kind : {"delete"}, stage : Stage, category : Library!Pages, ids : SUBSET Images,
             page : Library!Pages, alone : BOOLEAN]
Renaming == [kind : {"rename"}, stage : Stage, category : Categories, new : Categories]
Moving == [kind : {"move"}, stage : Stage, image : Images, from : Library!Pages, category : Categories]
Training == [kind : {"train"}, stage : {"asked"}]
Request == Deleting \cup Renaming \cup Moving \cup Training
ModelState == {"complete", "training", "failed"}
\* Some of the pages, or all; there is always one for the images that wait.
Part(P) == {f \in [P -> (SUBSET Images) \cup {Null}] : "train" \in P => f["train"] # Null}
Shelves == Part(Library!Pages)

ListTypes ==
    /\ library \in {"faces", "model"} /\ files \in Shelves /\ data \in Shelves
    /\ libraryAsked \subseteq Library!Keys /\ answers = [k \in Library!Keys |-> answers[k]]
    /\ \A k \in Library!Keys : answers[k] # Null => k \in libraryAsked /\ answers[k] \in Part(Library!PagesOf(k))
PageTypes ==
    /\ libraryPage \in Library!Pages /\ librarySelected \subseteq Images
    /\ deleteDialog \in [name : Library!Pages, ids : SUBSET Images] \cup {Null}
    /\ libraryRequests \in Seq(Request)
    /\ state \in ModelState /\ modelState \in ModelState /\ told \in Seq(ModelState)
    /\ wasTraining \in BOOLEAN

\* What is deleted was given up; waiting images of a model are deleted from their page; and
\* only a model is trained.
Proper(r) ==
    /\ r.kind = "delete" => r.ids \subseteq given /\ (r.category = "train" => library = "faces" \/ r.page = "train")
    /\ r.kind = "train" => library = "model"
AllProper ==
    /\ \A i \in DOMAIN libraryRequests : Proper(libraryRequests[i])
    /\ wasTraining => library = "model"

\* What is shown of a list, or on its way to be, is the server's but for the news of it; or the
\* list will be read again, or the answer that would have had it read was lost.
Owed(k) == \E i \in DOMAIN libraryRequests :
               libraryRequests[i].stage = "taken" /\ k \in Library!Refreshed(libraryRequests[i])
Fits(m, k) ==
    \A p \in Library!PagesOf(k) :
        IF p = "train" THEN m[p] \ files[p] \subseteq news /\ files[p] \ m[p] \subseteq news ELSE m[p] = files[p]
Latest(k) == IF answers[k] # Null THEN answers[k] ELSE data
Current(k) ==
    \/ k \in missed
    \/ k \in libraryAsked /\ answers[k] = Null
    \/ Owed(k)
    \/ Fits(Latest(k), k)
AllCurrent == \A k \in Library!Keys : Current(k)

\* The last state told is the state of the model.
LastTold == told # <<>> => told[Len(told)] = state

LibraryInv ==
    /\ ListTypes /\ PageTypes /\ AllProper /\ AllCurrent /\ Library!OnlyGivenUp
    /\ LastTold /\ Library!EndIsTold

(***************************************************************************)
(* The lists and their pages                                               *)
(***************************************************************************)
LEMMA Apart ==
    ASSUME library \in {"faces", "model"}
    PROVE  /\ \A k \in Library!Keys : Library!PagesOf(k) \subseteq Library!Pages
           /\ \A k, m \in Library!Keys : \A p \in Library!PagesOf(k) : p \in Library!PagesOf(m) => k = m
           /\ \A r : Library!Refreshed(r) \subseteq Library!Keys
<1>1. CASE library = "faces"
  BY <1>1 DEF Library!Keys, Library!PagesOf, Library!Refreshed
<1>2. CASE library = "model"
  BY <1>2, LibraryAssumption DEF Library!Keys, Library!PagesOf, Library!Pages, Library!Refreshed
<1>. QED  BY <1>1, <1>2

\* Nothing about the lists has changed and no answer under way is forgotten.
LEMMA CurrentStays ==
    ASSUME AllCurrent, UNCHANGED <<library, files, data, libraryAsked, answers, news>>, missed \subseteq missed',
           \A k \in Library!Keys : Owed(k) => Owed(k)' \/ k \in missed'
    PROVE  AllCurrent'
<1>. SUFFICES ASSUME NEW k \in Library!Keys PROVE Current(k)'
  BY DEF AllCurrent, Library!Keys
<1>1. Current(k)
  BY DEF AllCurrent
<1>2. Fits(Latest(k), k) => Fits(Latest(k), k)'
  BY DEF Fits, Latest, Library!PagesOf, Library!Pages
<1>. QED  BY <1>1, <1>2 DEF Current

LEMMA TypesStay ==
    ASSUME ListTypes, UNCHANGED <<library, files, data, libraryAsked, answers>> PROVE ListTypes'
  BY DEF ListTypes, Shelves, Part, Library!Keys, Library!PagesOf, Library!Pages

\* Lists are read again.
LEMMA ReadAgain ==
    ASSUME ListTypes, AllCurrent, NEW K \in SUBSET Library!Keys, Library!Ask(K),
           UNCHANGED <<library, files, data, news, missed>>,
           \A k \in Library!Keys \ K : Owed(k) => Owed(k)'
    PROVE  ListTypes' /\ AllCurrent'
<1>1. /\ libraryAsked' = libraryAsked \cup K
      /\ answers' = [k \in Library!Keys |-> IF k \in K THEN Null ELSE answers[k]]
  BY DEF Library!Ask
<1>2. Library!Keys' = Library!Keys /\ \A k : Library!PagesOf(k)' = Library!PagesOf(k)
  BY DEF Library!Keys, Library!PagesOf, Library!Pages
<1>3. ListTypes'
  <2>1. library' \in {"faces", "model"} /\ files' \in Shelves /\ data' \in Shelves
    BY DEF ListTypes
  <2>2. libraryAsked' \subseteq Library!Keys /\ answers' = [k \in Library!Keys |-> answers'[k]]
    BY <1>1 DEF ListTypes
  <2>3. \A k \in Library!Keys : answers'[k] # Null => k \in libraryAsked' /\ answers'[k] \in Part(Library!PagesOf(k))
    BY <1>1 DEF ListTypes
  <2>. QED  BY <1>2, <2>1, <2>2, <2>3 DEF ListTypes, Shelves, Part, Library!Pages
<1>4. AllCurrent'
  <2>. SUFFICES ASSUME NEW k \in Library!Keys PROVE Current(k)'
    BY <1>2 DEF AllCurrent
  <2>1. CASE k \in K
    BY <1>1, <2>1 DEF Current
  <2>2. CASE k \notin K
    <3>1. answers'[k] = answers[k] /\ (k \in libraryAsked => k \in libraryAsked') /\ Current(k)
      BY <1>1, <2>2 DEF AllCurrent
    <3>2. Fits(Latest(k), k) => Fits(Latest(k), k)'
      BY <3>1 DEF Fits, Latest, Library!PagesOf, Library!Pages
    <3>. QED  BY <2>2, <3>1, <3>2 DEF Current
  <2>. QED  BY <2>1, <2>2
<1>. QED  BY <1>3, <1>4

LEMMA Removed ==
    ASSUME NEW S, NEW q \in Seq(S), NEW i \in DOMAIN q
    PROVE  /\ Library!RemoveAt(q, i) \in Seq(S)
           /\ \A j \in DOMAIN Library!RemoveAt(q, i) : \E k \in DOMAIN q : Library!RemoveAt(q, i)[j] = q[k]
           /\ \A k \in DOMAIN q \ {i} : \E j \in DOMAIN Library!RemoveAt(q, i) : Library!RemoveAt(q, i)[j] = q[k]
<1>. DEFINE a == SubSeq(q, 1, i - 1)
            b == SubSeq(q, i + 1, Len(q))
            r == a \o b
<1>1. i \in 1..Len(q) /\ Len(q) \in Nat /\ DOMAIN q = 1..Len(q)
  OBVIOUS
<1>2. a \in Seq(S) /\ Len(a) = i - 1 /\ \A j \in 1..(i - 1) : a[j] = q[j]
  BY <1>1, SubSeqProperties
<1>3. b \in Seq(S) /\ Len(b) = Len(q) - i /\ \A j \in 1..(Len(q) - i) : b[j] = q[i + j]
  BY <1>1, SubSeqProperties
<1>4. /\ r \in Seq(S) /\ Len(r) = Len(a) + Len(b)
      /\ \A j \in 1..(Len(a) + Len(b)) : r[j] = IF j <= Len(a) THEN a[j] ELSE b[j - Len(a)]
  <2>1. \A x, y \in Seq(S) : x \o y \in Seq(S) /\ Len(x \o y) = Len(x) + Len(y)
    BY ConcatProperties
  <2>2. \A x, y \in Seq(S) : \A j \in 1..(Len(x) + Len(y)) :
            (x \o y)[j] = IF j <= Len(x) THEN x[j] ELSE y[j - Len(x)]
    BY ConcatProperties
  <2>. QED  BY <1>2, <1>3, <2>1, <2>2
<1>6. Library!RemoveAt(q, i) = r
  BY DEF Library!RemoveAt
<1>. HIDE DEF a, b, r
<1>5. Len(r) = Len(q) - 1 /\ \A j \in 1..(Len(q) - 1) : r[j] = IF j < i THEN q[j] ELSE q[j + 1]
  <2>. SUFFICES ASSUME NEW j \in 1..(Len(q) - 1) PROVE r[j] = IF j < i THEN q[j] ELSE q[j + 1]
    BY <1>1, <1>2, <1>3, <1>4
  <2>1. CASE j < i
    <3>1. r[j] = a[j]
      BY <1>1, <1>2, <1>3, <1>4, <2>1
    <3>. QED  BY <1>1, <1>2, <2>1, <3>1
  <2>2. CASE ~(j < i)
    <3>1. r[j] = b[j - (i - 1)]
      BY <1>1, <1>2, <1>3, <1>4, <2>2
    <3>2. j - (i - 1) \in 1..(Len(q) - i) /\ i + (j - (i - 1)) = j + 1
      BY <1>1, <2>2
    <3>3. b[j - (i - 1)] = q[i + (j - (i - 1))]
      BY <1>3, <3>2
    <3>. QED  BY <2>2, <3>1, <3>2, <3>3
  <2>. QED  BY <2>1, <2>2
<1>7. DOMAIN r = 1..(Len(q) - 1)
  BY <1>4, <1>5
<1>8. \A j \in DOMAIN r : \E k \in DOMAIN q : r[j] = q[k]
  <2>. SUFFICES ASSUME NEW j \in 1..(Len(q) - 1) PROVE \E k \in DOMAIN q : r[j] = q[k]
    BY <1>7
  <2>1. CASE j < i
    BY <2>1, <1>1, <1>5
  <2>2. CASE ~(j < i)
    BY <2>2, <1>1, <1>5
  <2>. QED  BY <2>1, <2>2
<1>9. \A k \in DOMAIN q \ {i} : \E j \in DOMAIN r : r[j] = q[k]
  <2>. SUFFICES ASSUME NEW k \in DOMAIN q, k # i PROVE \E j \in 1..(Len(q) - 1) : r[j] = q[k]
    BY <1>7
  <2>1. CASE k < i
    BY <2>1, <1>1, <1>5
  <2>2. CASE k > i
    <3>1. k - 1 \in 1..(Len(q) - 1) /\ ~(k - 1 < i) /\ (k - 1) + 1 = k
      BY <2>2, <1>1
    <3>. QED  BY <3>1, <1>5
  <2>. QED  BY <2>1, <2>2, <1>1
<1>. QED  BY <1>4, <1>6, <1>8, <1>9

\* A request moves on from one stage to the next.
LEMMA NextStage ==
    ASSUME NEW r \in Request, r.kind # "train", NEW s \in Stage
    PROVE  /\ [r EXCEPT !.stage = s] \in Request /\ [r EXCEPT !.stage = s].stage = s
           /\ Proper(r) => Proper([r EXCEPT !.stage = s])
           /\ Library!Refreshed([r EXCEPT !.stage = s]) = Library!Refreshed(r)
<1>1. CASE r \in Deleting
  BY <1>1 DEF Request, Deleting, Proper, Library!Refreshed
<1>2. CASE r \in Renaming
  BY <1>2 DEF Request, Renaming, Proper, Library!Refreshed
<1>3. CASE r \in Moving
  BY <1>3 DEF Request, Moving, Proper, Library!Refreshed
<1>. QED  BY <1>1, <1>2, <1>3 DEF Request, Training

\* What the kind of a request says of it.
LEMMA Kinds ==
    ASSUME NEW r \in Request
    PROVE  /\ r.kind = "delete" => r \in Deleting
           /\ r.kind = "rename" => r \in Renaming
           /\ r.kind = "train" => r.stage = "asked"
           /\ r.kind \notin {"delete", "rename", "train"} => r \in Moving
  BY DEF Request, Deleting, Renaming, Moving, Training

LEMMA Asked ==
    ASSUME libraryRequests \in Seq(Request), AllProper, NEW r \in Request, Library!Request(r), Proper(r)',
           library' = library, given \subseteq given', wasTraining' = wasTraining
    PROVE  libraryRequests' \in Seq(Request) /\ AllProper' /\ \A k : Owed(k) => Owed(k)'
<1>1. /\ libraryRequests' \in Seq(Request)
      /\ DOMAIN libraryRequests' = (DOMAIN libraryRequests) \cup {Len(libraryRequests) + 1}
      /\ \A i \in DOMAIN libraryRequests : libraryRequests'[i] = libraryRequests[i]
      /\ libraryRequests'[Len(libraryRequests) + 1] = r
  BY AppendProperties DEF Library!Request
<1>2. \A i \in DOMAIN libraryRequests : Proper(libraryRequests[i])'
  <2>. SUFFICES ASSUME NEW i \in DOMAIN libraryRequests PROVE Proper(libraryRequests[i])'
    OBVIOUS
  <2>1. Proper(libraryRequests[i])
    BY DEF AllProper
  <2>. QED  BY <2>1, <1>1 DEF Proper
<1>3. AllProper'
  BY <1>1, <1>2 DEF AllProper, Proper
<1>4. \A k : Owed(k) => Owed(k)'
  BY <1>1 DEF Owed, Library!Refreshed, Library!Keys
<1>. QED  BY <1>1, <1>3, <1>4

LEMMA Answered ==
    ASSUME libraryRequests \in Seq(Request), AllProper, NEW i \in DOMAIN libraryRequests,
           libraryRequests' = Library!RemoveAt(libraryRequests, i),
           library' = library, given \subseteq given', wasTraining' => library = "model"
    PROVE  /\ libraryRequests' \in Seq(Request) /\ AllProper'
           /\ \A k : Owed(k) =>
                  Owed(k)' \/ (libraryRequests[i].stage = "taken" /\ k \in Library!Refreshed(libraryRequests[i]))
<1>1. /\ libraryRequests' \in Seq(Request)
      /\ \A j \in DOMAIN libraryRequests' : \E k \in DOMAIN libraryRequests : libraryRequests'[j] = libraryRequests[k]
      /\ \A k \in DOMAIN libraryRequests \ {i} : \E j \in DOMAIN libraryRequests' : libraryRequests'[j] = libraryRequests[k]
  BY Removed
<1>2. AllProper'
  <2>1. ASSUME NEW j \in DOMAIN libraryRequests' PROVE Proper(libraryRequests[j])'
    <3>1. PICK k \in DOMAIN libraryRequests : libraryRequests'[j] = libraryRequests[k]
      BY <1>1
    <3>2. Proper(libraryRequests[k])
      BY DEF AllProper
    <3>. QED  BY <3>1, <3>2 DEF Proper
  <2>. QED  BY <2>1 DEF AllProper
<1>3. ASSUME NEW k, Owed(k)
      PROVE  Owed(k)' \/ (libraryRequests[i].stage = "taken" /\ k \in Library!Refreshed(libraryRequests[i]))
  <2>1. PICK n \in DOMAIN libraryRequests :
            libraryRequests[n].stage = "taken" /\ k \in Library!Refreshed(libraryRequests[n])
    BY <1>3 DEF Owed
  <2>2. CASE n # i
    <3>1. PICK j \in DOMAIN libraryRequests' : libraryRequests'[j] = libraryRequests[n]
      BY <1>1, <2>2
    <3>. QED  BY <2>1, <3>1 DEF Owed, Library!Refreshed, Library!Keys
  <2>. QED  BY <2>1, <2>2
<1>. QED  BY <1>1, <1>2, <1>3

(***************************************************************************)
(* Steps of one kind                                                       *)
(***************************************************************************)
\* Nothing was lost, as nothing was removed.
LEMMA NoneGone ==
    ASSUME Library!OnlyGivenUp, UNCHANGED <<files, came>>, given \subseteq given'
    PROVE  Library!OnlyGivenUp'
  BY DEF Library!OnlyGivenUp, Library!Saved, Library!On, Library!Pages

\* What the user looks at, selects or is asked to confirm concerns no request and no list.
LEMMA LookStep ==
    ASSUME LibraryInv,
           libraryPage' \in Library!Pages, librarySelected' \subseteq Images,
           deleteDialog' \in [name : Library!Pages, ids : SUBSET Images] \cup {Null},
           UNCHANGED <<library, files, data, libraryAsked, answers, libraryRequests, state, told, modelState,
                       wasTraining, came, news, given, missed, early>>
    PROVE  LibraryInv'
<1>1. ListTypes'
  BY TypesStay DEF LibraryInv
<1>2. PageTypes'
  BY DEF LibraryInv, PageTypes, Library!Pages
<1>3. AllProper'
  BY DEF LibraryInv, AllProper, Proper
<1>4. AllCurrent'
  <2>1. \A k \in Library!Keys : Owed(k) => Owed(k)'
    BY DEF Owed, Library!Refreshed, Library!Keys
  <2>. QED  BY <2>1, CurrentStays DEF LibraryInv
<1>5. Library!OnlyGivenUp' /\ LastTold' /\ Library!EndIsTold'
  BY NoneGone DEF LibraryInv, LastTold, Library!EndIsTold
<1>. QED  BY <1>1, <1>2, <1>3, <1>4, <1>5 DEF LibraryInv

\* A request about images is made.
LEMMA AskStep ==
    ASSUME LibraryInv, NEW r \in Request, Library!Request(r), Proper(r)',
           libraryPage' \in Library!Pages, librarySelected' \subseteq Images, deleteDialog' \in {deleteDialog, Null},
           given \subseteq given',
           UNCHANGED <<library, files, data, libraryAsked, answers, state, told, modelState, wasTraining, came, news,
                       missed, early>>
    PROVE  LibraryInv'
<1>1. libraryRequests' \in Seq(Request) /\ AllProper' /\ \A k : Owed(k) => Owed(k)'
  BY Asked DEF LibraryInv, PageTypes
<1>2. ListTypes'
  BY TypesStay DEF LibraryInv
<1>3. PageTypes'
  BY <1>1 DEF LibraryInv, PageTypes, Library!Pages
<1>4. AllCurrent'
  BY <1>1, CurrentStays DEF LibraryInv
<1>5. Library!OnlyGivenUp' /\ LastTold' /\ Library!EndIsTold'
  BY NoneGone DEF LibraryInv, LastTold, Library!EndIsTold
<1>. QED  BY <1>1, <1>2, <1>3, <1>4, <1>5 DEF LibraryInv

LEMMA Turned ==
    ASSUME PageTypes, NEW p \in Library!Pages, Library!Turn(p)
    PROVE  libraryPage' \in Library!Pages /\ librarySelected' \subseteq Images
  BY DEF PageTypes, Library!Turn

LEMMA Selection ==
    ASSUME NEW f \in Shelves, NEW p \in Library!Pages
    PROVE  /\ Library!On(f, p) \subseteq Images
           /\ f[p] # Null => f[p] \subseteq Images
  BY DEF Shelves, Part, Library!On

LEMMA LookKeeps ==
    ASSUME LibraryInv,
           \/ Library!SelectAll \/ Library!OpenDelete \/ Library!CloseDelete
           \/ \E p \in Library!Pages : Library!setPageToggle(p)
           \/ \E i \in Images : Library!onClickImages(i)
    PROVE  LibraryInv'
<1>1. PageTypes
  BY DEF LibraryInv
<1>2. Library!On(data, libraryPage) \subseteq Images
  BY <1>1, Selection DEF LibraryInv, ListTypes, PageTypes
<1>3. CASE Library!SelectAll
  <2>1. librarySelected' \subseteq Images
    BY <1>2, <1>3 DEF Library!SelectAll
  <2>. QED  BY <1>1, <1>3, <2>1, LookStep
            DEF Library!SelectAll, Library!Lists, Library!Model, Library!Unseen, PageTypes
<1>4. CASE Library!OpenDelete
  <2>1. deleteDialog' \in [name : Library!Pages, ids : SUBSET Images] \cup {Null}
    BY <1>1, <1>4 DEF Library!OpenDelete, PageTypes
  <2>. QED  BY <1>1, <1>4, <2>1, LookStep
            DEF Library!OpenDelete, Library!Lists, Library!Model, Library!Unseen, PageTypes
<1>5. CASE Library!CloseDelete
  BY <1>1, <1>5, LookStep DEF Library!CloseDelete, Library!Lists, Library!Model, Library!Unseen, PageTypes
<1>6. CASE \E p \in Library!Pages : Library!setPageToggle(p)
  <2>1. PICK p \in Library!Pages : Library!setPageToggle(p)
    BY <1>6
  <2>2. libraryPage' \in Library!Pages /\ librarySelected' \subseteq Images
    BY <1>1, <2>1, Turned DEF Library!setPageToggle
  <2>. QED  BY <1>1, <2>1, <2>2, LookStep
            DEF Library!setPageToggle, Library!Lists, Library!Model, Library!Unseen, PageTypes
<1>7. CASE \E i \in Images : Library!onClickImages(i)
  <2>1. PICK i \in Images : Library!onClickImages(i)
    BY <1>7
  <2>2. librarySelected' \subseteq Images
    BY <1>1, <2>1 DEF Library!onClickImages, PageTypes
  <2>. QED  BY <1>1, <2>1, <2>2, LookStep
            DEF Library!onClickImages, Library!Lists, Library!Model, Library!Unseen, PageTypes
<1>. QED  BY <1>3, <1>4, <1>5, <1>6, <1>7

LEMMA AskKeeps ==
    ASSUME LibraryInv,
           \/ Library!onDelete
           \/ \E c \in Categories : Library!handleDeleteCategory(c) \/ \E d \in Categories : Library!onRename(c, d)
           \/ \E i \in Images : \E c \in Categories : Library!onTrainAttempt(i, c) \/ Library!onReclassify(i, c)
    PROVE  LibraryInv'
<1>1. PageTypes /\ library \in {"faces", "model"}
  BY DEF LibraryInv, ListTypes
<1>2. "train" \in Library!Pages /\ \A c \in Categories : c \in Library!Pages /\ c # "train"
  BY LibraryAssumption DEF Library!Pages
<1>3. \A c \in Library!Pages : \A ids \in SUBSET Images :
          /\ Library!Deletion(c, ids) \in Request /\ Library!Deletion(c, ids).kind = "delete"
          /\ Library!Deletion(c, ids).category = c /\ Library!Deletion(c, ids).ids = ids
          /\ Library!Deletion(c, ids).page = libraryPage
  BY <1>1 DEF Library!Deletion, Request, Deleting, Stage, PageTypes
<1>4. CASE Library!onDelete
  <2>1. deleteDialog \in [name : Library!Pages, ids : SUBSET Images]
    BY <1>1, <1>4 DEF PageTypes, Library!onDelete
  <2>2. Library!TargetCategory \in Library!Pages
    BY <1>1, <2>1 DEF Library!TargetCategory, PageTypes
  <2>3. PICK r \in Request : /\ Library!Request(r) /\ r.kind = "delete" /\ r.category = Library!TargetCategory
                             /\ r.ids = deleteDialog.ids /\ r.page = libraryPage
    BY <1>3, <1>4, <2>1, <2>2 DEF Library!onDelete
  <2>4. /\ deleteDialog' = Null /\ given' = given \cup deleteDialog.ids
        /\ UNCHANGED <<library, files, data, libraryAsked, answers, libraryPage, librarySelected, state, told,
                       modelState, wasTraining, came, news, missed, early>>
    BY <1>4 DEF Library!onDelete, Library!Lists, Library!Model, Library!Unseen
  <2>5. Proper(r)'
    BY <1>1, <2>3, <2>4 DEF Proper, Library!TargetCategory
  <2>6. libraryPage' \in Library!Pages /\ librarySelected' \subseteq Images
    BY <1>1, <2>4 DEF PageTypes
  <2>. QED  BY <2>3, <2>4, <2>5, <2>6, AskStep
<1>5. CASE \E c \in Categories : Library!handleDeleteCategory(c)
  <2>1. PICK c \in Categories : Library!handleDeleteCategory(c)
    BY <1>5
  <2>2. data[c] \in SUBSET Images
    BY <1>2, <2>1, Selection DEF Library!handleDeleteCategory, LibraryInv, ListTypes
  <2>3. PICK r \in Request : Library!Request(r) /\ r.kind = "delete" /\ r.category = c /\ r.ids = data[c]
    BY <1>2, <1>3, <2>1, <2>2 DEF Library!handleDeleteCategory
  <2>4. /\ given' = given \cup data[c]
        /\ UNCHANGED <<library, files, data, libraryAsked, answers, deleteDialog, state, told, modelState, wasTraining,
                       came, news, missed, early>>
    BY <2>1 DEF Library!handleDeleteCategory, Library!Lists, Library!Model, Library!Unseen
  <2>5. Proper(r)'
    BY <1>2, <2>3, <2>4 DEF Proper
  <2>6. libraryPage' \in Library!Pages /\ librarySelected' \subseteq Images
    BY <1>1, <1>2, <2>1, Turned DEF Library!handleDeleteCategory
  <2>. QED  BY <2>3, <2>4, <2>5, <2>6, AskStep
<1>6. CASE \E c, d \in Categories : Library!onRename(c, d)
  <2>1. PICK c \in Categories, d \in Categories : Library!onRename(c, d)
    BY <1>6
  <2>. DEFINE r == [kind |-> "rename", stage |-> "asked", category |-> c, new |-> d]
  <2>2. r \in Request /\ Proper(r)'
    BY DEF Request, Renaming, Stage, Proper
  <2>3. /\ Library!Request(r)
        /\ UNCHANGED <<library, files, data, libraryAsked, answers, libraryPage, librarySelected, deleteDialog, state,
                       told, modelState, wasTraining, came, news, given, missed, early>>
    BY <2>1 DEF Library!onRename, Library!Lists, Library!Model, Library!Unseen
  <2>. HIDE DEF r
  <2>. QED  BY <1>1, <2>2, <2>3, AskStep DEF PageTypes
<1>7. CASE \E i \in Images, c \in Categories : Library!onTrainAttempt(i, c) \/ Library!onReclassify(i, c)
  <2>1. PICK i \in Images, c \in Categories : Library!onTrainAttempt(i, c) \/ Library!onReclassify(i, c)
    BY <1>7
  <2>. DEFINE r == [kind |-> "move", stage |-> "asked", image |-> i, from |-> libraryPage, category |-> c]
  <2>2. r \in Request /\ r.kind = "move"
    BY <1>1 DEF Request, Moving, Stage, PageTypes
  <2>3. /\ Library!Request(r)
        /\ UNCHANGED <<library, files, data, libraryAsked, answers, libraryPage, librarySelected, deleteDialog, state,
                       told, modelState, wasTraining, came, news, given, missed, early>>
    BY <2>1 DEF Library!onTrainAttempt, Library!onReclassify, Library!Move, Library!Lists, Library!Model, Library!Unseen
  <2>4. PICK m \in Request : m = r
    BY <2>2
  <2>. HIDE DEF r
  <2>5. Proper(m)'
    BY <2>2, <2>4 DEF Proper
  <2>. QED  BY <1>1, <2>3, <2>4, <2>5, AskStep DEF PageTypes
<1>. QED  BY <1>4, <1>5, <1>6, <1>7

(***************************************************************************)
(* What the server carries out                                             *)
(***************************************************************************)
\* What is left of a page when images are taken from it.
LEMMA Left ==
    ASSUME files \in Shelves, NEW p \in Library!Pages, NEW S
    PROVE  /\ Library!Without(p, S) \in (SUBSET Images) \cup {Null}
           /\ p = "train" => Library!Without(p, S) # Null
           /\ \A x \in Library!On(files, p) \ S : Library!Without(p, S) # Null /\ x \in Library!Without(p, S)
<1>1. files[p] \in (SUBSET Images) \cup {Null} /\ (p = "train" => files[p] # Null)
  BY DEF Shelves, Part
<1>2. CASE files[p] = Null
  BY <1>1, <1>2 DEF Library!Without, Library!On
<1>3. CASE files[p] # Null /\ p = "train"
  <2>1. Library!Without(p, S) = files[p] \ S /\ files[p] \ S \in SUBSET Images
    BY <1>1, <1>3 DEF Library!Without
  <2>. QED  BY <1>3, <2>1, LibraryAssumption DEF Library!On
<1>4. CASE files[p] # Null /\ p # "train"
  <2>. DEFINE rest == files[p] \ S
  <2>1. rest \in SUBSET Images
    BY <1>1, <1>4
  <2>2. Library!Without(p, S) = Library!Kept(p, rest)
    BY <1>4 DEF Library!Without
  <2>3. \/ Library!Without(p, S) = Null /\ rest = {}
        \/ Library!Without(p, S) = rest
    BY <2>2 DEF Library!Kept
  <2>4. \A x \in Library!On(files, p) \ S : x \in rest
    BY <1>4 DEF Library!On
  <2>. HIDE DEF rest
  <2>5. rest # Null
    BY <2>1, LibraryAssumption
  <2>. QED  BY <1>4, <2>1, <2>3, <2>4, <2>5
<1>. QED  BY <1>2, <1>3, <1>4

LEMMA AppliedTypes ==
    ASSUME files \in Shelves, NEW r \in Request, r.kind # "train" PROVE Library!Applied(r) \in Shelves
<1>1. \A c \in Categories : c \in Library!Pages /\ c # "train"
  BY LibraryAssumption DEF Library!Pages
<1>2. \A p \in Library!Pages : files[p] \in (SUBSET Images) \cup {Null} /\ Library!On(files, p) \subseteq Images
  BY Selection DEF Shelves, Part
<1>3. CASE r.kind = "delete"
  <2>1. r.category \in Library!Pages
    BY <1>3, Kinds DEF Deleting
  <2>2. Library!Applied(r) = [files EXCEPT ![r.category] = Library!Without(r.category, r.ids)]
    BY <1>3 DEF Library!Applied
  <2>3. /\ Library!Without(r.category, r.ids) \in (SUBSET Images) \cup {Null}
        /\ r.category = "train" => Library!Without(r.category, r.ids) # Null
    BY <2>1, Left
  <2>. QED  BY <1>2, <2>1, <2>2, <2>3 DEF Shelves, Part
<1>4. CASE r.kind = "rename"
  <2>1. r.category \in Categories /\ r.new \in Categories
    BY <1>4, Kinds DEF Renaming
  <2>2. Library!Applied(r) = [files EXCEPT ![r.category] = Null, ![r.new] = files[r.category]]
    BY <1>4 DEF Library!Applied
  <2>. QED  BY <1>1, <1>2, <2>1, <2>2 DEF Shelves, Part
<1>5. CASE r.kind \notin {"delete", "rename"}
  <2>1. r.from \in Library!Pages /\ r.category \in Categories /\ r.image \in Images
    BY <1>5, Kinds DEF Moving
  <2>. DEFINE left == Library!Without(r.from, {r.image})
              more == Library!On(files, r.category) \cup {r.image}
  <2>2. Library!Applied(r) = [files EXCEPT ![r.from] = left, ![r.category] = more]
    BY <1>5 DEF Library!Applied
  <2>3. left \in (SUBSET Images) \cup {Null} /\ (r.from = "train" => left # Null)
    BY <2>1, Left
  <2>4. more \in SUBSET Images
    BY <1>1, <1>2, <2>1
  <2>. HIDE DEF left, more
  <2>. QED  BY <1>1, <1>2, <2>1, <2>2, <2>3, <2>4 DEF Shelves, Part
<1>. QED  BY <1>3, <1>4, <1>5

\* A request changes no list but those its answer has read again.
LEMMA Elsewhere ==
    ASSUME ListTypes, NEW r \in Request, r.kind # "train", Proper(r),
           NEW k \in Library!Keys \ Library!Refreshed(r), NEW p \in Library!PagesOf(k)
    PROVE  Library!Applied(r)[p] = files[p]
<1>1. library = "model" /\ k = "train" /\ p = "train"
  BY DEF ListTypes, Library!Keys, Library!Refreshed, Library!PagesOf
<1>2. ~(r.kind = "delete" /\ r.page = "train") /\ ~(r.kind = "move" /\ r.from = "train")
  BY <1>1 DEF Library!Refreshed
<1>3. DOMAIN files = Library!Pages /\ "train" \in Library!Pages /\ \A c \in Categories : c \in Library!Pages /\ c # "train"
  BY LibraryAssumption DEF ListTypes, Shelves, Part, Library!Pages
<1>4. CASE r.kind = "delete"
  <2>1. r.category # "train"
    BY <1>1, <1>2, <1>4 DEF Proper
  <2>2. Library!Applied(r) = [files EXCEPT ![r.category] = Library!Without(r.category, r.ids)]
    BY <1>4 DEF Library!Applied
  <2>. QED  BY <1>1, <1>3, <2>1, <2>2
<1>5. CASE r.kind = "rename"
  <2>1. r.category # "train" /\ r.new # "train"
    BY <1>3, <1>5, Kinds DEF Renaming
  <2>2. Library!Applied(r) = [files EXCEPT ![r.category] = Null, ![r.new] = files[r.category]]
    BY <1>5 DEF Library!Applied
  <2>. QED  BY <1>1, <1>3, <2>1, <2>2
<1>6. CASE r.kind \notin {"delete", "rename"}
  <2>1. r.from # "train" /\ r.category # "train"
    BY <1>2, <1>3, <1>6, Kinds DEF Moving
  <2>. DEFINE left == Library!Without(r.from, {r.image})
              more == Library!On(files, r.category) \cup {r.image}
  <2>2. Library!Applied(r) = [files EXCEPT ![r.from] = left, ![r.category] = more]
    BY <1>6 DEF Library!Applied
  <2>. HIDE DEF left, more
  <2>. QED  BY <1>1, <1>3, <2>1, <2>2
<1>. QED  BY <1>4, <1>5, <1>6

\* What a request takes from the library was given up.
LEMMA NoneLost ==
    ASSUME files \in Shelves, NEW r \in Request, r.kind # "train", Proper(r), Library!Served(r),
           NEW x \in Library!Saved(files)
    PROVE  x \in Library!Saved(Library!Applied(r)) \/ x \in given
<1>. DEFINE f == Library!Applied(r)
<1>1. x \in Images /\ DOMAIN files = Library!Pages /\ \A c \in Categories : c \in Library!Pages
  BY DEF Library!Saved, Shelves, Part, Library!Pages
<1>2. PICK p \in Library!Pages : x \in Library!On(files, p)
  BY DEF Library!Saved
<1>3. SUFFICES ASSUME x \notin given PROVE \E q \in Library!Pages : f[q] # Null /\ x \in f[q]
  BY <1>1 DEF Library!Saved, Library!On
<1>4. files[p] # Null /\ x \in files[p]
  BY <1>2 DEF Library!On
<1>5. CASE r.kind = "delete"
  <2>1. r.category \in Library!Pages /\ r.ids \subseteq given
    BY <1>5, Kinds DEF Deleting, Proper
  <2>2. f = [files EXCEPT ![r.category] = Library!Without(r.category, r.ids)]
    BY <1>5 DEF Library!Applied
  <2>3. CASE p = r.category
    <3>1. Library!Without(p, r.ids) # Null /\ x \in Library!Without(p, r.ids)
      BY <1>2, <1>3, <2>1, Left
    <3>2. f[p] = Library!Without(p, r.ids)
      BY <1>1, <2>2, <2>3
    <3>. QED  BY <3>1, <3>2
  <2>4. CASE p # r.category
    <3>1. f[p] = files[p]
      BY <1>1, <2>2, <2>4
    <3>. QED  BY <1>4, <3>1
  <2>. QED  BY <2>3, <2>4
<1>6. CASE r.kind = "rename"
  <2>1. r.category \in Library!Pages /\ r.new \in Library!Pages /\ files[r.new] = Null
    BY <1>1, <1>6, Kinds DEF Renaming, Library!Served
  <2>2. f = [files EXCEPT ![r.category] = Null, ![r.new] = files[r.category]]
    BY <1>6 DEF Library!Applied
  <2>3. p # r.new
    BY <1>4, <2>1
  <2>4. CASE p = r.category
    <3>1. f[r.new] = files[p]
      BY <1>1, <2>1, <2>2, <2>4
    <3>. QED  BY <1>4, <2>1, <3>1
  <2>5. CASE p # r.category
    <3>1. f[p] = files[p]
      BY <1>1, <2>2, <2>3, <2>5
    <3>. QED  BY <1>4, <3>1
  <2>. QED  BY <2>4, <2>5
<1>7. CASE r.kind \notin {"delete", "rename"}
  <2>1. r.from \in Library!Pages /\ r.category \in Library!Pages /\ r.image \in Images
    BY <1>1, <1>7, Kinds DEF Moving
  <2>. DEFINE left == Library!Without(r.from, {r.image})
              more == Library!On(files, r.category) \cup {r.image}
  <2>2. f = [files EXCEPT ![r.from] = left, ![r.category] = more]
    BY <1>7 DEF Library!Applied
  <2>3. more \in SUBSET Images /\ r.image \in more
    BY <2>1, Selection
  <2>4. more # Null
    BY <2>3, LibraryAssumption
  <2>5. x \in Library!On(files, p) \ {r.image} /\ p = r.from => left # Null /\ x \in left
    BY <2>1, Left
  <2>6. p = r.category => x \in more
    BY <1>2
  <2>. HIDE DEF left, more
  <2>7. f[r.category] = more /\ (p # r.category /\ p = r.from => f[p] = left)
        /\ (p # r.category /\ p # r.from => f[p] = files[p])
    BY <1>1, <2>1, <2>2
  <2>8. CASE p = r.category \/ x = r.image
    BY <2>1, <2>3, <2>4, <2>6, <2>7, <2>8
  <2>9. CASE p # r.category /\ x # r.image
    BY <1>2, <1>4, <2>5, <2>7, <2>9
  <2>. QED  BY <2>8, <2>9
<1>. QED  BY <1>5, <1>6, <1>7

LEMMA ServeKeeps ==
    ASSUME LibraryInv, NEW i \in DOMAIN libraryRequests, Library!Serve(i) PROVE LibraryInv'
<1>. DEFINE r == libraryRequests[i]
<1>1. ListTypes /\ PageTypes /\ AllProper /\ files \in Shelves
  BY DEF LibraryInv, ListTypes
<1>2. libraryRequests \in Seq(Request) /\ r \in Request /\ r.kind # "train" /\ r.stage = "asked" /\ Proper(r)
  BY <1>1 DEF PageTypes, AllProper, Library!Serve
<1>3. PICK s \in Stage : /\ libraryRequests' = [libraryRequests EXCEPT ![i].stage = s]
                         /\ \/ s = "taken" /\ files' = Library!Applied(r) /\ Library!Served(r)
                            \/ s = "failed" /\ files' = files
  <2>1. CASE Library!Served(r)
    BY <2>1 DEF Library!Serve, Stage
  <2>2. CASE ~Library!Served(r)
    BY <2>2 DEF Library!Serve, Stage
  <2>. QED  BY <2>1, <2>2
<1>4. UNCHANGED <<library, data, libraryAsked, answers, libraryPage, librarySelected, deleteDialog, state, told,
                  modelState, wasTraining, came, news, given, missed, early>>
  BY DEF Library!Serve, Library!Lists, Library!Model, Library!Unseen
<1>5. /\ [r EXCEPT !.stage = s] \in Request /\ [r EXCEPT !.stage = s].stage = s /\ Proper([r EXCEPT !.stage = s])
      /\ Library!Refreshed([r EXCEPT !.stage = s]) = Library!Refreshed(r)
  BY <1>2, NextStage
<1>6. /\ libraryRequests' \in Seq(Request) /\ DOMAIN libraryRequests' = DOMAIN libraryRequests
      /\ libraryRequests'[i] = [r EXCEPT !.stage = s]
      /\ \A j \in DOMAIN libraryRequests \ {i} : libraryRequests'[j] = libraryRequests[j]
  BY <1>2, <1>3, <1>5
<1>. HIDE DEF r
<1>7. \A q : Library!Refreshed(q)' = Library!Refreshed(q)
  BY <1>4 DEF Library!Refreshed, Library!Keys
<1>8. ListTypes'
  <2>1. files' \in Shelves
    BY <1>1, <1>2, <1>3, AppliedTypes
  <2>. QED  BY <1>1, <1>4, <2>1 DEF ListTypes, Shelves, Part, Library!Keys, Library!PagesOf, Library!Pages
<1>9. PageTypes'
  BY <1>1, <1>4, <1>6 DEF PageTypes, Library!Pages
<1>10. AllProper'
  <2>1. ASSUME NEW j \in DOMAIN libraryRequests PROVE Proper(libraryRequests[j])'
    <3>1. CASE j = i
      BY <1>4, <1>5, <1>6, <3>1 DEF Proper
    <3>2. CASE j # i
      <4>1. Proper(libraryRequests[j]) /\ libraryRequests'[j] = libraryRequests[j]
        BY <1>1, <1>6, <3>2 DEF AllProper
      <4>. QED  BY <1>4, <4>1 DEF Proper
    <3>. QED  BY <3>1, <3>2
  <2>. QED  BY <1>1, <1>4, <1>6, <2>1 DEF AllProper
<1>11. \A k : Owed(k) => Owed(k)'
  <2>. SUFFICES ASSUME NEW k, NEW j \in DOMAIN libraryRequests, libraryRequests[j].stage = "taken",
                       k \in Library!Refreshed(libraryRequests[j])
                PROVE  Owed(k)'
    BY DEF Owed
  <2>1. j # i
    BY <1>2 DEF r
  <2>2. libraryRequests'[j] = libraryRequests[j] /\ j \in DOMAIN libraryRequests'
    BY <1>6, <2>1
  <2>. QED  BY <1>4, <2>2 DEF Owed, Library!Refreshed, Library!Keys
<1>12. AllCurrent'
  <2>1. CASE s = "failed"
    <3>1. files' = files
      BY <1>3, <2>1
    <3>. QED  BY <1>4, <1>11, <3>1, CurrentStays DEF LibraryInv
  <2>2. CASE s # "failed"
    <3>1. s = "taken" /\ files' = Library!Applied(r)
      BY <1>3, <2>2
    <3>. SUFFICES ASSUME NEW k \in Library!Keys PROVE Current(k)'
      BY <1>4 DEF AllCurrent, Library!Keys
    <3>2. CASE k \in Library!Refreshed(r)
      <4>1. Owed(k)'
        BY <1>4, <1>5, <1>6, <3>1, <3>2 DEF Owed, Library!Refreshed, Library!Keys
      <4>. QED  BY <4>1 DEF Current
    <3>3. CASE k \notin Library!Refreshed(r)
      <4>1. \A p \in Library!PagesOf(k) : files'[p] = files[p]
        BY <1>1, <1>2, <3>1, <3>3, Elsewhere
      <4>2. Fits(Latest(k), k) => Fits(Latest(k), k)'
        BY <1>4, <4>1 DEF Fits, Latest, Library!PagesOf, Library!Pages
      <4>3. Current(k)
        BY DEF LibraryInv, AllCurrent
      <4>. QED  BY <1>4, <1>11, <4>2, <4>3 DEF Current
    <3>. QED  BY <3>2, <3>3
  <2>. QED  BY <2>1, <2>2
<1>13. Library!OnlyGivenUp'
  <2>1. CASE files' = files
    BY <1>4, <2>1, NoneGone DEF LibraryInv
  <2>2. CASE files' # files
    <3>1. files' = Library!Applied(r) /\ Library!Served(r)
      BY <1>3, <2>2
    <3>2. \A x \in Library!Saved(files) : x \in Library!Saved(Library!Applied(r)) \/ x \in given
      BY <1>1, <1>2, <3>1, NoneLost
    <3>3. Library!Saved(files)' = Library!Saved(Library!Applied(r))
      BY <3>1 DEF Library!Saved, Library!On, Library!Pages
    <3>. QED  BY <1>4, <3>2, <3>3 DEF LibraryInv, Library!OnlyGivenUp
  <2>. QED  BY <2>1, <2>2
<1>14. LastTold' /\ Library!EndIsTold'
  BY <1>4 DEF LibraryInv, LastTold, Library!EndIsTold
<1>. QED  BY <1>8, <1>9, <1>10, <1>12, <1>13, <1>14 DEF LibraryInv

(***************************************************************************)
(* Answers, errors, and what recognition saves                             *)
(***************************************************************************)
\* An answer: the client reads again what it knows to have changed.
LEMMA AnswerKeepsLists ==
    ASSUME LibraryInv, NEW i \in DOMAIN libraryRequests, Library!Answer(i) PROVE LibraryInv'
<1>. DEFINE r == libraryRequests[i]
<1>1. ListTypes /\ PageTypes /\ AllProper /\ AllCurrent /\ libraryRequests \in Seq(Request)
  BY DEF LibraryInv, PageTypes
<1>2. r \in Request /\ r.stage = "taken"
  BY <1>1 DEF Library!Answer
<1>3. /\ libraryRequests' = Library!RemoveAt(libraryRequests, i) /\ Library!Ask(Library!Refreshed(r))
      /\ UNCHANGED <<library, files, data, deleteDialog, state, told, modelState, wasTraining, came, news, given, missed,
                     early>>
  BY DEF Library!Answer, Library!Model, Library!Unseen
<1>4. /\ libraryRequests' \in Seq(Request) /\ AllProper'
      /\ \A k : Owed(k) => Owed(k)' \/ k \in Library!Refreshed(r)
  <2>1. wasTraining' => library = "model"
    BY <1>1, <1>3 DEF AllProper
  <2>. QED  BY <1>1, <1>3, <2>1, Answered
<1>5. "train" \in Library!Pages /\ \A c \in Categories : c \in Library!Pages
  BY DEF Library!Pages
<1>6. libraryPage' \in Library!Pages /\ librarySelected' \subseteq Images
  <2>1. CASE r.kind = "rename"
    <3>1. r.new \in Library!Pages
      BY <1>2, <1>5, <2>1, Kinds DEF Renaming
    <3>2. Library!Turn(IF library = "faces" THEN "train" ELSE r.new)
      BY <2>1 DEF Library!Answer
    <3>. QED  BY <1>1, <1>5, <3>1, <3>2, Turned
  <2>2. CASE r.kind = "delete"
    <3>1. libraryPage' = (IF library = "faces" /\ r.alone THEN "train" ELSE libraryPage) /\ librarySelected' = {}
      BY <2>2 DEF Library!Answer
    <3>. QED  BY <1>1, <1>5, <3>1 DEF PageTypes
  <2>3. CASE r.kind \notin {"rename", "delete"}
    <3>1. UNCHANGED <<libraryPage, librarySelected>>
      BY <2>3 DEF Library!Answer
    <3>. QED  BY <1>1, <3>1 DEF PageTypes
  <2>. QED  BY <2>1, <2>2, <2>3
<1>7. Library!Refreshed(r) \in SUBSET Library!Keys
  BY <1>1, Apart DEF ListTypes
<1>. HIDE DEF r
<1>8. ListTypes' /\ AllCurrent'
  BY <1>1, <1>3, <1>4, <1>7, ReadAgain
<1>9. PageTypes'
  BY <1>1, <1>3, <1>4, <1>6 DEF PageTypes, Library!Pages
<1>10. Library!OnlyGivenUp' /\ LastTold' /\ Library!EndIsTold'
  BY <1>3, NoneGone DEF LibraryInv, LastTold, Library!EndIsTold
<1>. QED  BY <1>4, <1>8, <1>9, <1>10 DEF LibraryInv

\* An error: if the request was carried out, that is remembered of what its answer would have
\* read again.
LEMMA FailsKeeps ==
    ASSUME LibraryInv, NEW i \in DOMAIN libraryRequests, Library!Fails(i) PROVE LibraryInv'
<1>. DEFINE r == libraryRequests[i]
<1>1. ListTypes /\ PageTypes /\ AllProper /\ AllCurrent /\ libraryRequests \in Seq(Request)
  BY DEF LibraryInv, PageTypes
<1>2. /\ libraryRequests' = Library!RemoveAt(libraryRequests, i)
      /\ missed \subseteq missed' /\ (r.stage = "taken" => Library!Refreshed(r) \subseteq missed')
      /\ UNCHANGED <<library, files, data, libraryAsked, answers, libraryPage, librarySelected, deleteDialog, state, told,
                     modelState, wasTraining, came, news, given, early>>
  BY DEF Library!Fails, Library!Lists, Library!Model, Library!Unseen
<1>3. /\ libraryRequests' \in Seq(Request) /\ AllProper'
      /\ \A k : Owed(k) => Owed(k)' \/ (r.stage = "taken" /\ k \in Library!Refreshed(r))
  <2>1. wasTraining' => library = "model"
    BY <1>1, <1>2 DEF AllProper
  <2>. QED  BY <1>1, <1>2, <2>1, Answered
<1>. HIDE DEF r
<1>4. ListTypes' /\ PageTypes'
  BY <1>1, <1>2, <1>3, TypesStay DEF PageTypes, Library!Pages
<1>5. AllCurrent'
  <2>1. \A k \in Library!Keys : Owed(k) => Owed(k)' \/ k \in missed'
    BY <1>2, <1>3
  <2>. QED  BY <1>1, <1>2, <2>1, CurrentStays
<1>6. Library!OnlyGivenUp' /\ LastTold' /\ Library!EndIsTold'
  BY <1>2, NoneGone DEF LibraryInv, LastTold, Library!EndIsTold
<1>. QED  BY <1>3, <1>4, <1>5, <1>6 DEF LibraryInv

\* Recognition saves an image, and may drop one: both are news.
LEMMA RecognizedKeeps ==
    ASSUME LibraryInv, NEW i \in Coming, Library!Recognized(i) PROVE LibraryInv'
<1>1. ListTypes /\ PageTypes /\ AllProper /\ AllCurrent /\ files \in Shelves
  BY DEF LibraryInv, ListTypes
<1>2. PICK old \in SUBSET files["train"] :
          /\ files' = [files EXCEPT !["train"] = (@ \ old) \cup {i}]
          /\ news' = (news \cup old) \cup {i} /\ given' = given \cup old
  BY DEF Library!Recognized
<1>3. /\ came' = came \cup {i}
      /\ UNCHANGED <<library, data, libraryAsked, answers, libraryRequests, libraryPage, librarySelected, deleteDialog,
                     state, told, modelState, wasTraining, missed, early>>
  BY DEF Library!Recognized, Library!Lists, Library!Model
<1>4. "train" \in Library!Pages /\ files["train"] \in SUBSET Images /\ i \in Images /\ DOMAIN files = Library!Pages
  BY <1>1, LibraryAssumption DEF Shelves, Part, Library!Pages
<1>5. /\ files'["train"] = (files["train"] \ old) \cup {i} /\ files'["train"] \in SUBSET Images /\ files'["train"] # Null
      /\ \A p \in Library!Pages : p # "train" => files'[p] = files[p]
  <2>1. files'["train"] = (files["train"] \ old) \cup {i} /\ \A p \in Library!Pages : p # "train" => files'[p] = files[p]
    BY <1>2, <1>4
  <2>2. files'["train"] \in SUBSET Images
    BY <1>4, <2>1
  <2>. QED  BY <2>1, <2>2, LibraryAssumption
<1>6. ListTypes'
  <2>1. files' \in Shelves
    BY <1>1, <1>2, <1>5 DEF Shelves, Part
  <2>. QED  BY <1>1, <1>3, <2>1 DEF ListTypes, Shelves, Part, Library!Keys, Library!PagesOf, Library!Pages
<1>7. PageTypes'
  BY <1>1, <1>3 DEF PageTypes, Library!Pages
<1>8. AllProper'
  BY <1>1, <1>2, <1>3 DEF AllProper, Proper
<1>9. AllCurrent'
  <2>. SUFFICES ASSUME NEW k \in Library!Keys PROVE Current(k)'
    BY <1>3 DEF AllCurrent, Library!Keys
  <2>1. Current(k) /\ Library!PagesOf(k) \subseteq Library!Pages
    BY <1>1, Apart DEF AllCurrent, ListTypes
  <2>2. Owed(k) => Owed(k)'
    BY <1>3 DEF Owed, Library!Refreshed, Library!Keys
  <2>3. Fits(Latest(k), k) => Fits(Latest(k), k)'
    <3>. DEFINE m == Latest(k)
    <3>1. ASSUME NEW p \in Library!PagesOf(k), Fits(m, k)
          PROVE  IF p = "train" THEN m[p] \ files'[p] \subseteq news' /\ files'[p] \ m[p] \subseteq news'
                                ELSE m[p] = files'[p]
      <4>1. IF p = "train" THEN m[p] \ files[p] \subseteq news /\ files[p] \ m[p] \subseteq news ELSE m[p] = files[p]
        BY <3>1 DEF Fits
      <4>. HIDE DEF m
      <4>2. CASE p = "train"
        BY <1>2, <1>5, <4>1, <4>2
      <4>3. CASE p # "train"
        BY <1>5, <2>1, <4>1, <4>3
      <4>. QED  BY <4>2, <4>3
    <3>2. m = Latest(k)'
      BY <1>3 DEF Latest
    <3>. HIDE DEF m
    <3>3. Fits(m, k) => \A p \in Library!PagesOf(k) :
              IF p = "train" THEN m[p] \ files'[p] \subseteq news' /\ files'[p] \ m[p] \subseteq news'
                             ELSE m[p] = files'[p]
      BY <3>1
    <3>4. Latest(k)' = m
      BY <3>2
    <3>. QED  BY <3>3, <3>4 DEF Fits, m, Library!PagesOf, Library!Pages
  <2>. QED  BY <1>3, <2>1, <2>2, <2>3 DEF Current
<1>10. Library!OnlyGivenUp'
  <2>1. ASSUME NEW x \in Library!Saved(files) PROVE x \in Library!Saved(files)' \/ x \in given'
    <3>1. x \in Images
      BY DEF Library!Saved
    <3>2. PICK p \in Library!Pages : files[p] # Null /\ x \in files[p]
      BY DEF Library!Saved, Library!On
    <3>3. CASE x \in old
      BY <1>2, <3>3
    <3>4. CASE x \notin old
      <4>1. files'[p] # Null /\ x \in files'[p]
        BY <1>5, <3>2, <3>4
      <4>. QED  BY <3>1, <4>1 DEF Library!Saved, Library!On, Library!Pages
    <3>. QED  BY <3>3, <3>4
  <2>2. i \in Library!Saved(files)'
    BY <1>4, <1>5 DEF Library!Saved, Library!On, Library!Pages
  <2>. QED  BY <1>2, <1>3, <2>1, <2>2 DEF LibraryInv, Library!OnlyGivenUp
<1>11. LastTold' /\ Library!EndIsTold'
  BY <1>3 DEF LibraryInv, LastTold, Library!EndIsTold
<1>. QED  BY <1>6, <1>7, <1>8, <1>9, <1>10, <1>11 DEF LibraryInv

(***************************************************************************)
(* The lists are read again                                                *)
(***************************************************************************)
LEMMA FocusKeeps ==
    ASSUME LibraryInv, NEW K \in SUBSET Library!Keys, Library!onFocus(K) PROVE LibraryInv'
<1>1. /\ Library!Ask(K)
      /\ UNCHANGED <<library, files, data, libraryPage, librarySelected, deleteDialog, libraryRequests, state, told,
                     modelState, wasTraining, came, news, given, missed, early>>
  BY DEF Library!onFocus, Library!Model, Library!Unseen
<1>2. \A k : Owed(k) => Owed(k)'
  BY <1>1 DEF Owed, Library!Refreshed, Library!Keys
<1>3. ListTypes' /\ AllCurrent'
  BY <1>1, <1>2, ReadAgain DEF LibraryInv
<1>4. PageTypes' /\ AllProper'
  BY <1>1 DEF LibraryInv, PageTypes, AllProper, Proper, Library!Pages
<1>5. Library!OnlyGivenUp' /\ LastTold' /\ Library!EndIsTold'
  BY <1>1, NoneGone DEF LibraryInv, LastTold, Library!EndIsTold
<1>. QED  BY <1>3, <1>4, <1>5 DEF LibraryInv

\* The server reads a list as it is: nothing of it is news.
LEMMA ReadKeeps ==
    ASSUME LibraryInv, NEW k \in Library!Keys, Library!getImages(k) PROVE LibraryInv'
<1>1. /\ k \in libraryAsked /\ answers' = [answers EXCEPT ![k] = Library!Read(k)] /\ missed' = missed \ {k}
      /\ news' = IF "train" \in Library!PagesOf(k) THEN {} ELSE news
      /\ UNCHANGED <<library, files, data, libraryAsked, libraryPage, librarySelected, deleteDialog, libraryRequests,
                     state, told, modelState, wasTraining, came, given, early>>
  BY DEF Library!getImages, Library!Model
<1>2. ListTypes /\ AllCurrent /\ Library!PagesOf(k) \subseteq Library!Pages
  BY Apart DEF LibraryInv, ListTypes
<1>3. /\ answers' = [n \in Library!Keys |-> IF n = k THEN Library!Read(k) ELSE answers[n]]
  BY <1>1, <1>2 DEF ListTypes
<1>4. Library!Read(k) \in Part(Library!PagesOf(k)) /\ Library!Read(k) # Null
  <2>1. Library!Read(k) \in [Library!PagesOf(k) -> (SUBSET Images) \cup {Null}]
    BY <1>2 DEF Library!Read, ListTypes, Shelves, Part
  <2>2. "train" \in Library!PagesOf(k) => Library!Read(k)["train"] # Null
    BY <1>2 DEF Library!Read, ListTypes, Shelves, Part
  <2>3. Null \notin [Library!PagesOf(k) -> (SUBSET Images) \cup {Null}]
    BY <1>2, LibraryAssumption
  <2>. QED  BY <2>1, <2>2, <2>3 DEF Part
<1>5. Library!Keys' = Library!Keys /\ \A n : Library!PagesOf(n)' = Library!PagesOf(n)
  BY <1>1 DEF Library!Keys, Library!PagesOf, Library!Pages
<1>6. ListTypes'
  <2>1. library' \in {"faces", "model"} /\ files' \in Shelves /\ data' \in Shelves
    BY <1>1, <1>2 DEF ListTypes
  <2>2. libraryAsked' \subseteq Library!Keys /\ answers' = [n \in Library!Keys |-> answers'[n]]
    BY <1>1, <1>2, <1>3 DEF ListTypes
  <2>3. \A n \in Library!Keys : answers'[n] # Null => n \in libraryAsked' /\ answers'[n] \in Part(Library!PagesOf(n))
    BY <1>1, <1>2, <1>3, <1>4 DEF ListTypes
  <2>. QED  BY <1>5, <2>1, <2>2, <2>3 DEF ListTypes, Shelves, Part, Library!Pages
<1>7. AllCurrent'
  <2>. SUFFICES ASSUME NEW n \in Library!Keys PROVE Current(n)'
    BY <1>5 DEF AllCurrent
  <2>1. CASE n = k
    <3>1. Latest(n)' = Library!Read(k)
      BY <1>3, <1>4, <2>1 DEF Latest
    <3>2. \A p \in Library!PagesOf(k) : Library!Read(k)[p] = files[p]
      BY DEF Library!Read
    <3>3. \A p \in Library!PagesOf(n)' : Latest(n)'[p] = files'[p]
      BY <1>1, <1>5, <2>1, <3>1, <3>2
    <3>4. Fits(Latest(n), n)'
      BY <3>3 DEF Fits
    <3>. QED  BY <3>4 DEF Current
  <2>2. CASE n # k
    <3>1. answers'[n] = answers[n] /\ (n \in missed => n \in missed') /\ Current(n)
      BY <1>1, <1>2, <1>3, <2>2 DEF AllCurrent
    <3>2. "train" \in Library!PagesOf(n) => news' = news
      BY <1>1, <1>2, <2>2, Apart DEF ListTypes
    <3>3. Fits(Latest(n), n) => Fits(Latest(n), n)'
      BY <1>1, <3>1, <3>2 DEF Fits, Latest, Library!PagesOf, Library!Pages
    <3>4. Owed(n) => Owed(n)'
      BY <1>1 DEF Owed, Library!Refreshed, Library!Keys
    <3>. QED  BY <1>1, <3>1, <3>3, <3>4 DEF Current
  <2>. QED  BY <2>1, <2>2
<1>8. PageTypes' /\ AllProper'
  BY <1>1 DEF LibraryInv, PageTypes, AllProper, Proper, Library!Pages
<1>9. Library!OnlyGivenUp' /\ LastTold' /\ Library!EndIsTold'
  BY <1>1, NoneGone DEF LibraryInv, LastTold, Library!EndIsTold
<1>. QED  BY <1>6, <1>7, <1>8, <1>9 DEF LibraryInv

\* The client shows what the server has read.
LEMMA ArrivesKeeps ==
    ASSUME LibraryInv, NEW k \in Library!Keys, Library!Arrives(k) PROVE LibraryInv'
<1>1. /\ answers[k] # Null /\ libraryAsked' = libraryAsked \ {k} /\ answers' = [answers EXCEPT ![k] = Null]
      /\ data' = [p \in Library!Pages |-> IF p \in Library!PagesOf(k) THEN answers[k][p] ELSE data[p]]
      /\ UNCHANGED <<library, files, libraryPage, librarySelected, deleteDialog, libraryRequests, state, told,
                     modelState, wasTraining, came, news, given, missed, early>>
  BY DEF Library!Arrives, Library!Model, Library!Unseen
<1>2. ListTypes /\ AllCurrent /\ Library!PagesOf(k) \subseteq Library!Pages /\ answers[k] \in Part(Library!PagesOf(k))
  BY <1>1, Apart DEF LibraryInv, ListTypes
<1>3. answers' = [n \in Library!Keys |-> IF n = k THEN Null ELSE answers[n]]
  BY <1>1, <1>2 DEF ListTypes
<1>4. Library!Keys' = Library!Keys /\ \A n : Library!PagesOf(n)' = Library!PagesOf(n)
  BY <1>1 DEF Library!Keys, Library!PagesOf, Library!Pages
<1>5. ListTypes'
  <2>1. data' \in Shelves
    BY <1>1, <1>2 DEF ListTypes, Shelves, Part
  <2>2. library' \in {"faces", "model"} /\ files' \in Shelves
    BY <1>1, <1>2 DEF ListTypes
  <2>3. libraryAsked' \subseteq Library!Keys /\ answers' = [n \in Library!Keys |-> answers'[n]]
    BY <1>1, <1>2, <1>3 DEF ListTypes
  <2>4. \A n \in Library!Keys : answers'[n] # Null => n \in libraryAsked' /\ answers'[n] \in Part(Library!PagesOf(n))
    BY <1>1, <1>2, <1>3 DEF ListTypes
  <2>. QED  BY <1>4, <2>1, <2>2, <2>3, <2>4 DEF ListTypes, Shelves, Part, Library!Pages
<1>6. AllCurrent'
  <2>. SUFFICES ASSUME NEW n \in Library!Keys PROVE Current(n)'
    BY <1>4 DEF AllCurrent
  <2>1. Current(n) /\ (Owed(n) => Owed(n)') /\ Library!PagesOf(n) \subseteq Library!Pages
    <3>1. Owed(n) => Owed(n)'
      BY <1>1 DEF Owed, Library!Refreshed, Library!Keys
    <3>. QED  BY <1>2, <3>1, Apart DEF AllCurrent, ListTypes
  <2>2. n \in missed \/ (n \in libraryAsked' /\ answers'[n] = Null) \/ Owed(n) \/ Fits(Latest(n), n)
    <3>1. n \in libraryAsked /\ answers[n] = Null => n \in libraryAsked' /\ answers'[n] = Null
      BY <1>1, <1>3
    <3>. QED  BY <2>1, <3>1 DEF Current
  <2>3. \A p \in Library!PagesOf(n) : data'[p] = Latest(n)[p] \/ (n # k /\ answers[n] # Null)
    BY <1>1, <1>2, <2>1, Apart DEF Latest, ListTypes
  <2>4. \A p \in Library!PagesOf(n) : Latest(n)'[p] = Latest(n)[p]
    <3>1. CASE n # k /\ answers[n] # Null
      BY <1>1, <1>3, <3>1 DEF Latest
    <3>2. CASE ~(n # k /\ answers[n] # Null)
      <4>1. Latest(n)' = data'
        BY <1>1, <1>3, <3>2 DEF Latest
      <4>. QED  BY <2>3, <3>2, <4>1
    <3>. QED  BY <3>1, <3>2
  <2>5. Fits(Latest(n), n) => Fits(Latest(n), n)'
    <3>1. ASSUME Fits(Latest(n), n), NEW p \in Library!PagesOf(n)
          PROVE  IF p = "train" THEN Latest(n)'[p] \ files'[p] \subseteq news' /\ files'[p] \ Latest(n)'[p] \subseteq news'
                                ELSE Latest(n)'[p] = files'[p]
      BY <1>1, <2>4, <3>1 DEF Fits
    <3>. QED  BY <1>4, <3>1 DEF Fits
  <2>. QED  BY <1>1, <2>1, <2>2, <2>5 DEF Current
<1>7. PageTypes' /\ AllProper'
  BY <1>1 DEF LibraryInv, PageTypes, AllProper, Proper, Library!Pages
<1>8. Library!OnlyGivenUp' /\ LastTold' /\ Library!EndIsTold'
  BY <1>1, NoneGone DEF LibraryInv, LastTold, Library!EndIsTold
<1>. QED  BY <1>5, <1>6, <1>7, <1>8 DEF LibraryInv

(***************************************************************************)
(* The training of a model                                                 *)
(***************************************************************************)
LEMMA Told ==
    ASSUME PageTypes, NEW s \in ModelState, told' = Append(told, s), state' = s
    PROVE  told' \in Seq(ModelState) /\ told' # <<>> /\ LastTold'
<1>1. told \in Seq(ModelState)
  BY DEF PageTypes
<1>2. told' \in Seq(ModelState) /\ Len(told') = Len(told) + 1 /\ told'[Len(told) + 1] = s
  BY <1>1, AppendProperties
<1>3. told' # <<>>
  BY <1>1, <1>2
<1>. QED  BY <1>2, <1>3 DEF LastTold

LEMMA TrainKeeps == ASSUME LibraryInv, Library!trainModel PROVE LibraryInv'
<1>1. PageTypes /\ AllProper /\ ListTypes
  BY DEF LibraryInv
<1>. DEFINE r == [kind |-> "train", stage |-> "asked"]
<1>2. /\ Library!Request(r) /\ state' = "training" /\ told' = Append(told, "training") /\ library = "model"
      /\ UNCHANGED <<library, files, data, libraryAsked, answers, libraryPage, librarySelected, deleteDialog, modelState,
                     wasTraining, came, news, given, missed, early>>
  BY DEF Library!trainModel, Library!Lists, Library!Unseen
<1>3. r \in Request /\ Proper(r)'
  BY <1>2 DEF Request, Training, Proper
<1>. HIDE DEF r
<1>4. libraryRequests' \in Seq(Request) /\ AllProper' /\ \A k : Owed(k) => Owed(k)'
  BY <1>1, <1>2, <1>3, Asked DEF PageTypes
<1>5. told' \in Seq(ModelState) /\ told' # <<>> /\ LastTold'
  BY <1>1, <1>2, Told DEF ModelState
<1>6. ListTypes'
  BY <1>1, <1>2, TypesStay
<1>7. PageTypes'
  BY <1>1, <1>2, <1>4, <1>5 DEF PageTypes, ModelState, Library!Pages
<1>8. AllCurrent'
  BY <1>2, <1>4, CurrentStays DEF LibraryInv
<1>9. Library!OnlyGivenUp' /\ Library!EndIsTold'
  BY <1>2, <1>5, NoneGone DEF LibraryInv, Library!EndIsTold
<1>. QED  BY <1>4, <1>5, <1>6, <1>7, <1>8, <1>9 DEF LibraryInv

LEMMA TrainAnswerKeeps ==
    ASSUME LibraryInv, NEW i \in DOMAIN libraryRequests, Library!TrainAnswer(i) PROVE LibraryInv'
<1>1. PageTypes /\ AllProper /\ ListTypes
  BY DEF LibraryInv
<1>2. /\ libraryRequests[i].kind = "train" /\ libraryRequests' = Library!RemoveAt(libraryRequests, i)
      /\ wasTraining' = TRUE /\ early' = (early \/ (state # "training" /\ told = <<>>))
      /\ UNCHANGED <<library, files, data, libraryAsked, answers, libraryPage, librarySelected, deleteDialog, state, told,
                     modelState, came, news, given, missed>>
  BY DEF Library!TrainAnswer, Library!Lists, Library!Unseen
<1>3. libraryRequests[i].stage # "taken" /\ library = "model"
  <2>1. libraryRequests[i] \in Request /\ Proper(libraryRequests[i])
    BY <1>1 DEF PageTypes, AllProper
  <2>. QED  BY <1>2, <2>1, Kinds DEF Proper
<1>4. libraryRequests' \in Seq(Request) /\ AllProper' /\ \A k : Owed(k) => Owed(k)'
  BY <1>1, <1>2, <1>3, Answered DEF PageTypes
<1>5. ListTypes'
  BY <1>1, <1>2, TypesStay
<1>6. PageTypes'
  BY <1>1, <1>2, <1>4 DEF PageTypes, Library!Pages
<1>7. AllCurrent'
  BY <1>2, <1>4, CurrentStays DEF LibraryInv
<1>8. Library!OnlyGivenUp' /\ LastTold' /\ Library!EndIsTold'
  BY <1>2, NoneGone DEF LibraryInv, LastTold, Library!EndIsTold
<1>. QED  BY <1>4, <1>5, <1>6, <1>7, <1>8 DEF LibraryInv

LEMMA EndsKeeps ==
    ASSUME LibraryInv, NEW s \in {"complete", "failed"}, Library!TrainingEnds(s) PROVE LibraryInv'
<1>1. PageTypes /\ AllProper /\ ListTypes
  BY DEF LibraryInv
<1>2. /\ state' = s /\ told' = Append(told, s)
      /\ UNCHANGED <<library, files, data, libraryAsked, answers, libraryPage, librarySelected, deleteDialog,
                     libraryRequests, modelState, wasTraining, came, news, given, missed, early>>
  BY DEF Library!TrainingEnds, Library!Lists, Library!Unseen
<1>3. s \in ModelState
  BY DEF ModelState
<1>4. told' \in Seq(ModelState) /\ told' # <<>> /\ LastTold'
  BY <1>1, <1>2, <1>3, Told
<1>5. ListTypes' /\ AllProper'
  BY <1>1, <1>2, TypesStay DEF AllProper, Proper
<1>6. PageTypes'
  BY <1>1, <1>2, <1>3, <1>4 DEF PageTypes, Library!Pages
<1>7. AllCurrent'
  <2>1. \A k \in Library!Keys : Owed(k) => Owed(k)'
    BY <1>2 DEF Owed, Library!Refreshed, Library!Keys
  <2>. QED  BY <1>2, <2>1, CurrentStays DEF LibraryInv
<1>8. Library!OnlyGivenUp' /\ Library!EndIsTold'
  BY <1>2, <1>4, NoneGone DEF LibraryInv, Library!EndIsTold
<1>. QED  BY <1>4, <1>5, <1>6, <1>7, <1>8 DEF LibraryInv

\* What is heard last is what the model does: if nothing more is told, it is still trained.
LEMMA StateArrivesKeeps == ASSUME LibraryInv, Library!StateArrives PROVE LibraryInv'
<1>1. PageTypes /\ AllProper /\ ListTypes /\ AllCurrent /\ LastTold
  BY DEF LibraryInv
<1>2. /\ told # <<>> /\ told' = Tail(told) /\ modelState' = Head(told)
      /\ wasTraining' = (wasTraining /\ Head(told) = "training")
      /\ early' = (early \/ (Head(told) # "training" /\ ~wasTraining))
      /\ \/ wasTraining /\ Library!Ask({"dataset"})
         \/ UNCHANGED <<libraryAsked, answers>>
      /\ UNCHANGED <<library, files, data, libraryPage, librarySelected, deleteDialog, libraryRequests, state,
                     came, news, given, missed>>
  BY DEF Library!StateArrives, Library!Unseen
<1>3. told \in Seq(ModelState) /\ wasTraining \in BOOLEAN
  BY <1>1 DEF PageTypes
<1>4. /\ Head(told) \in ModelState /\ told' \in Seq(ModelState) /\ Len(told') = Len(told) - 1
      /\ Head(told) = told[1] /\ \A i \in 1..Len(told') : told'[i] = told[i + 1]
  BY <1>2, <1>3, HeadTailProperties
<1>5. PageTypes'
  BY <1>1, <1>2, <1>3, <1>4 DEF PageTypes, Library!Pages
<1>6. AllProper'
  BY <1>1, <1>2 DEF AllProper, Proper
<1>7. \A k : Owed(k) => Owed(k)'
  BY <1>2 DEF Owed, Library!Refreshed, Library!Keys
<1>8. ListTypes' /\ AllCurrent'
  <2>1. CASE wasTraining /\ Library!Ask({"dataset"})
    <3>1. {"dataset"} \in SUBSET Library!Keys
      BY <1>1, <2>1 DEF AllProper, Library!Keys
    <3>. QED  BY <1>1, <1>2, <1>7, <2>1, <3>1, ReadAgain
  <2>2. CASE UNCHANGED <<libraryAsked, answers>>
    BY <1>1, <1>2, <1>7, <2>2, TypesStay, CurrentStays
  <2>. QED  BY <1>2, <2>1, <2>2
<1>9. LastTold'
  <2>. SUFFICES ASSUME told' # <<>> PROVE told'[Len(told')] = state'
    BY DEF LastTold
  <2>1. Len(told') \in 1..Len(told') /\ Len(told') + 1 = Len(told)
    BY <1>3, <1>4
  <2>2. told'[Len(told')] = told[Len(told)]
    BY <1>4, <2>1
  <2>. QED  BY <1>1, <1>2, <2>2 DEF LastTold
<1>10. Library!EndIsTold'
  <2>. SUFFICES ASSUME wasTraining', told' = <<>> PROVE state' = "training"
    BY DEF Library!EndIsTold
  <2>1. Len(told) = 1
    BY <1>3, <1>4
  <2>. QED  BY <1>1, <1>2, <1>4, <2>1 DEF LastTold
<1>11. Library!OnlyGivenUp'
  BY <1>2, NoneGone DEF LibraryInv
<1>. QED  BY <1>5, <1>6, <1>8, <1>9, <1>10, <1>11 DEF LibraryInv

(***************************************************************************)
(* All steps                                                               *)
(***************************************************************************)
LEMMA LibraryInvInit == Library!Init => LibraryInv
<1>. SUFFICES ASSUME Library!Init PROVE LibraryInv
  OBVIOUS
<1>1. files \in Shelves
  <2>1. \A c, S : S \in SUBSET Images => Library!Kept(c, S) \in (SUBSET Images) \cup {Null}
    BY DEF Library!Kept
  <2>2. \A p \in Library!Pages : files[p] \in (SUBSET Images) \cup {Null} /\ (p = "train" => files[p] # Null)
    BY <2>1, LibraryAssumption DEF Library!Init
  <2>3. files \in [Library!Pages -> (SUBSET Images) \cup {Null}]
    BY <2>2 DEF Library!Init
  <2>. QED  BY <2>2, <2>3 DEF Shelves, Part, Library!Pages
<1>2. ListTypes
  <2>1. library \in {"faces", "model"} /\ data = files /\ libraryAsked = {} /\ answers = [k \in Library!Keys |-> Null]
    BY DEF Library!Init
  <2>. QED  BY <1>1, <2>1 DEF ListTypes
<1>3. PageTypes
  <2>1. \A S : <<>> \in Seq(S)
    OBVIOUS
  <2>2. libraryRequests \in Seq(Request) /\ told \in Seq(ModelState)
    BY <2>1 DEF Library!Init
  <2>3. deleteDialog \in [name : Library!Pages, ids : SUBSET Images] \cup {Null}
    BY DEF Library!Init
  <2>4. /\ libraryPage = "train" /\ librarySelected = {} /\ state = "complete" /\ modelState = "complete"
        /\ wasTraining = FALSE
    BY DEF Library!Init
  <2>. QED  BY <2>2, <2>3, <2>4 DEF PageTypes, ModelState, Library!Pages
<1>4. AllProper /\ LastTold /\ Library!EndIsTold
  BY DEF Library!Init, AllProper, LastTold, Library!EndIsTold
<1>5. AllCurrent
  <2>1. \A k \in Library!Keys : answers[k] = Null /\ \A p \in Library!PagesOf(k) : data[p] = files[p]
    BY DEF Library!Init
  <2>. QED  BY <2>1 DEF AllCurrent, Current, Latest, Fits
<1>6. Library!OnlyGivenUp
  <2>. SUFFICES ASSUME NEW x \in Images, x \notin Coming PROVE x \in Library!Saved(files)
    BY DEF Library!Init, Library!OnlyGivenUp
  <2>1. \A S : x \in S => Library!Kept(First, S) = S
    BY DEF Library!Kept
  <2>2. CASE x \in Waiting
    <3>1. files["train"] = Waiting /\ "train" \in Library!Pages
      BY DEF Library!Init, Library!Pages
    <3>. QED  BY <2>2, <3>1, LibraryAssumption DEF Library!Saved, Library!On
  <2>3. CASE x \notin Waiting
    <3>. DEFINE rest == Images \ (Waiting \cup Coming)
    <3>1. x \in rest /\ rest \in SUBSET Images
      BY <2>3
    <3>. HIDE DEF rest
    <3>2. files[First] = Library!Kept(First, rest) /\ First \in Library!Pages
      BY LibraryAssumption DEF Library!Init, Library!Pages, rest
    <3>3. files[First] = rest /\ rest # Null
      BY <2>1, <3>1, <3>2, LibraryAssumption
    <3>. QED  BY <3>1, <3>2, <3>3 DEF Library!Saved, Library!On
  <2>. QED  BY <2>2, <2>3
<1>. QED  BY <1>2, <1>3, <1>4, <1>5, <1>6 DEF LibraryInv

LEMMA LibraryInvNext == ASSUME LibraryInv, Library!Next PROVE LibraryInv'
  BY LookKeeps, AskKeeps, ServeKeeps, AnswerKeepsLists, FailsKeeps, RecognizedKeeps, FocusKeeps, ReadKeeps,
     ArrivesKeeps, TrainKeeps, TrainAnswerKeeps, EndsKeeps, StateArrivesKeeps DEF Library!Next

LEMMA LibraryInvOwn ==
    ASSUME LibraryInv PROVE Library!OnlyGivenUp /\ Library!ListIsCurrent /\ Library!EndIsTold
<1>1. Library!ListIsCurrent
  <2>. SUFFICES ASSUME libraryRequests = <<>>, libraryAsked = {}, NEW k \in Library!Keys \ missed,
                       NEW p \in Library!Pages, p \in Library!PagesOf(k)
                PROVE  IF p = "train" THEN data[p] \ files[p] \subseteq news /\ files[p] \ data[p] \subseteq news
                                      ELSE data[p] = files[p]
    BY DEF Library!ListIsCurrent
  <2>1. ~Owed(k)
    BY DEF Owed
  <2>2. answers[k] = Null /\ Fits(Latest(k), k)
    BY <2>1 DEF LibraryInv, ListTypes, AllCurrent, Current
  <2>3. Fits(data, k)
    BY <2>2 DEF Latest
  <2>. QED  BY <2>3 DEF Fits
<1>. QED  BY <1>1 DEF LibraryInv

\* What holds of the library while it is what is shown.
LibraryInForce == shown = "library" => LibraryInv

LEMMA LibraryHidden == ASSUME LibraryInv, UNCHANGED libraryVars PROVE LibraryInv'
<1>1. UNCHANGED <<library, files, data, libraryAsked, answers, libraryPage, librarySelected, deleteDialog,
                  libraryRequests, state, told, modelState, wasTraining, came, news, given, missed, early>>
  BY DEF libraryVars
<1>. QED  BY <1>1, LookStep DEF LibraryInv, PageTypes

\* A training image leaves the library only if the user gave it up or recognition dropped it for
\* a newer one, whatever is moved, renamed or deleted meanwhile and whichever page a deletion is
\* asked of; the lists shown are the server's once nothing is under way, but for what recognition
\* has done since they were read and for a change whose answer was lost; and the end of a training
\* that was started here is told: for any images and categories, and any number of requests.
THEOREM LibraryIsOwn == Spec => []LibraryAgrees
<1>1. Init => LibraryInForce
  BY LibraryInvInit DEF Init, LibraryInForce
<1>2. LibraryInForce /\ [Next]_vars => LibraryInForce'
  <2>. SUFFICES ASSUME LibraryInForce, [Next]_vars, shown' = "library" PROVE LibraryInv'
    BY DEF LibraryInForce
  <2>1. shown' = shown
    BY DEF Next, vars
  <2>2. LibraryInv
    BY <2>1 DEF LibraryInForce
  <2>3. Library!Next \/ UNCHANGED libraryVars
    BY <2>1 DEF Next, vars
  <2>. QED  BY <2>2, <2>3, LibraryInvNext, LibraryHidden
<1>3. LibraryInForce => LibraryAgrees
  BY LibraryInvOwn DEF LibraryInForce, LibraryAgrees
<1>. QED  BY <1>1, <1>2, <1>3, PTL DEF Spec

(***************************************************************************)
(* The live dashboard                                                      *)
(***************************************************************************)
Dialog == [of : Live!Groups \cup {Null}, name : Live!Groups, cameras : SUBSET LiveCameras,
           settings : Live!Settings \cup {Null}]
Members == [Live!Groups -> (SUBSET LiveCameras) \cup {Null}]
AllSettings == [Live!Groups -> Live!Settings \cup {Null}]

DashboardTypes ==
    /\ groups \in Members /\ dashboardConfig \in Members
    /\ group \in Live!Groups \cup {"default"} /\ allSettings \in AllSettings
    /\ dialog \in Dialog \cup {Null} /\ request \in Live!Write \cup {Null}
    /\ request # Null => IF request.kind = "save" THEN request.settings \in AllSettings ELSE request.of = request.name

\* A layout made in a group; there may be none.
Own(l, g) == l # Null => \A c \in LiveCameras : l[c] \in {"none", "auto", g}
Op == [kind : {"get", "set", "vain"}, group : Live!Groups, value : Live!Layouts \cup {Null}, left : Nat]
OwnOp == {o \in Op : o.kind = "set" => Own(o.value, o.group)}

\* What is kept, or on its way to be, was made in its group; and what is shown once a layout was
\* loaded belongs to the group it was loaded for, whichever is shown by then.
LayoutsInv ==
    /\ loadedKey \in Live!Groups \cup {Null} /\ stored \in [Live!Groups -> Live!Layouts \cup {Null}] /\ ops \in Seq(OwnOp)
    /\ gridLayout \in Live!Layouts \cup {Null} /\ currentGridLayout \in Live!Layouts \cup {Null}
    /\ \A g \in Live!Groups : Own(stored[g], g)
    /\ loadedKey # Null => Own(gridLayout, loadedKey) /\ Own(currentGridLayout, loadedKey)
    /\ isLoaded => loadedKey # Null /\ currentGridLayout # Null

\* What is heard is what the settings say, but for the cameras that have none or two.
HeardAsSet == \A c \in LiveCameras : c \in unheard \/ audioStates[c] = Live!FromSettings(allSettings)[c]
SoundInv ==
    /\ DOMAIN audioStates = LiveCameras /\ DOMAIN chosen = LiveCameras
    /\ HeardAsSet /\ Live!HeardIsChosen

\* The client's copy is the server's, or will be read again.
WillRead == dashboardConfig = groups \/ reading \/ (request # Null /\ request.stage = "taken")
\* A write that was taken and whose answer leaves the group, or renames it.
Departs(g) ==
    /\ request # Null /\ request.stage = "taken"
    /\ \/ request.kind = "delete" /\ request.name = g
       \/ request.kind = "save" /\ request.of \notin {Null, request.name}
GroupKept ==
    /\ request # Null => request.active = group
    /\ group \in Live!Groups => groups[group] # Null \/ Departs(group)
GroupsInv == WillRead /\ (~crossed => GroupKept)

DashboardInv == DashboardTypes /\ LayoutsInv /\ SoundInv /\ GroupsInv

LEMMA NoLayoutIsNull == Null \notin Live!Layouts /\ Null \notin Live!Groups
  BY LiveAssumption

\* What is generated from a layout of a group is one of that group.
LEMMA LayoutMade ==
    ASSUME NEW base \in Live!Layouts \cup {Null}, NEW cs
    PROVE  /\ Live!generateLayout(base, cs) \in Live!Layouts /\ Live!generateLayout(base, cs) # Null
           /\ \A g : Own(base, g) => Own(Live!generateLayout(base, cs), g)
<1>. DEFINE made == Live!generateLayout(base, cs)
<1>1. made = [c \in LiveCameras |-> IF c \notin cs THEN "none" ELSE IF base = Null \/ base[c] = "none" THEN "auto" ELSE base[c]]
  BY DEF Live!generateLayout
<1>2. ASSUME NEW c \in LiveCameras PROVE made[c] \in {"none", "auto"} \/ (base # Null /\ made[c] = base[c])
  BY <1>1
<1>. HIDE DEF made
<1>3. made \in Live!Layouts
  <2>1. ASSUME NEW c \in LiveCameras PROVE made[c] \in Live!Places
    <3>1. base # Null => base[c] \in Live!Places
      BY DEF Live!Layouts
    <3>. QED  BY <1>2, <3>1 DEF Live!Places
  <2>. QED  BY <1>1, <2>1 DEF Live!Layouts
<1>4. ASSUME NEW g, Own(base, g) PROVE Own(made, g)
  BY <1>2, <1>4 DEF Own
<1>. QED  BY <1>3, <1>4, NoLayoutIsNull DEF made

LEMMA SetIsOwn ==
    ASSUME NEW layout \in Live!Layouts, NEW g \in Live!Groups, Own(layout, g)
    PROVE  [kind |-> "set", group |-> g, value |-> layout, left |-> 0] \in OwnOp
  BY DEF OwnOp, Op

LEMMA LoadIsOwn ==
    ASSUME NEW g \in Live!Groups, NEW n \in Nat
    PROVE  [kind |-> "get", group |-> g, value |-> Null, left |-> n] \in OwnOp
  BY DEF OwnOp, Op

\* The queue of the browser's storage.
LEMMA HeadIsOwn ==
    ASSUME ops \in Seq(OwnOp), ops # <<>>
    PROVE  Head(ops) \in OwnOp /\ Tail(ops) \in Seq(OwnOp)
  BY HeadTailProperties

LEMMA SoughtInVain == ASSUME ops \in Seq(OwnOp) PROVE Live!InVain \in Seq(OwnOp)
<1>1. ASSUME NEW o \in OwnOp PROVE (IF o.kind = "get" THEN [o EXCEPT !.kind = "vain"] ELSE o) \in OwnOp
  BY DEF OwnOp, Op
<1>2. DOMAIN ops = 1..Len(ops) /\ Len(ops) \in Nat /\ \A i \in 1..Len(ops) : ops[i] \in OwnOp
  BY LenProperties, ElementOfSeq
<1>3. Live!InVain \in [1..Len(ops) -> OwnOp]
  BY <1>1, <1>2 DEF Live!InVain
<1>. QED  BY <1>2, <1>3, SeqDef

\* The effect on a layout of one group, whichever is shown.
LEMMA ShowKeeps ==
    ASSUME NEW value \in Live!Layouts \cup {Null}, NEW key \in Live!Groups \cup {Null}, NEW queue \in Seq(OwnOp), NEW cs,
           key # Null => Own(value, key)
    PROVE  /\ Live!generateLayout(value, cs) \in Live!Layouts /\ Live!generateLayout(value, cs) # Null
           /\ key # Null => Own(Live!generateLayout(value, cs), key)
           /\ key # Null => Append(queue, [kind |-> "set", group |-> key, value |-> Live!generateLayout(value, cs), left |-> 0]) \in Seq(OwnOp)
<1>1. /\ Live!generateLayout(value, cs) \in Live!Layouts /\ Live!generateLayout(value, cs) # Null
      /\ key # Null => Own(Live!generateLayout(value, cs), key)
  BY LayoutMade
<1>. QED  BY <1>1, SetIsOwn, AppendProperties

LEMMA TurnKeeps == ASSUME LayoutsInv, NEW g \in Live!Groups \cup {"default"}, Live!Turn(g) PROVE LayoutsInv'
<1>. DEFINE load == [kind |-> "get", group |-> g, value |-> Null, left |-> IF stored[g] = Null /\ g \notin migrated THEN 2 ELSE 1]
<1>1. /\ isLoaded' = FALSE /\ loadedKey' = Null /\ UNCHANGED stored /\ group' = g
  BY DEF Live!Turn
<1>2. CASE g = "default"
  <2>1. ops' = Live!InVain /\ gridLayout' = Null /\ currentGridLayout' = Null
    BY <1>2 DEF Live!Turn
  <2>. QED  BY <1>1, <2>1, SoughtInVain DEF LayoutsInv
<1>3. CASE g \in Live!Groups
  <2>1. load \in OwnOp
    BY <1>3, LoadIsOwn
  <2>. DEFINE queue == Append(ops, load)
  <2>2. queue \in Seq(OwnOp)
    BY <2>1, AppendProperties DEF LayoutsInv
  <2>3. \/ ops' = queue /\ gridLayout' = Null /\ currentGridLayout' = Null
        \/ isLoaded /\ Live!Show(gridLayout, loadedKey', queue, dashboardConfig)
        \/ ops' = queue /\ currentGridLayout' = Null /\ UNCHANGED gridLayout
    BY <1>3 DEF Live!Turn, Live!Groups
  <2>. HIDE DEF queue
  <2>4. CASE Live!Show(gridLayout, loadedKey', queue, dashboardConfig)
    <3>1. ~Live!MayWrite(loadedKey')
      BY <1>1, <1>3, NoLayoutIsNull DEF Live!MayWrite
    <3>2. /\ currentGridLayout' = Live!generateLayout(gridLayout, Live!CamerasOf(dashboardConfig, group'))
          /\ gridLayout' = gridLayout /\ ops' = queue
      BY <2>4, <3>1 DEF Live!Show
    <3>3. currentGridLayout' \in Live!Layouts
      BY <3>2, LayoutMade DEF LayoutsInv
    <3>. QED  BY <1>1, <2>2, <3>2, <3>3 DEF LayoutsInv
  <2>. QED  BY <1>1, <2>2, <2>3, <2>4 DEF LayoutsInv
<1>. QED  BY <1>2, <1>3

LEMMA SetKeeps == ASSUME LayoutsInv, Live!ServeSet PROVE LayoutsInv'
<1>1. /\ ops # <<>> /\ Head(ops).kind = "set" /\ ops' = Tail(ops)
      /\ stored' = [stored EXCEPT ![Head(ops).group] = Head(ops).value]
      /\ UNCHANGED <<loadedKey, gridLayout, currentGridLayout, isLoaded>>
  BY DEF Live!ServeSet
<1>2. Head(ops) \in OwnOp /\ ops' \in Seq(OwnOp)
  BY <1>1, HeadIsOwn DEF LayoutsInv
<1>3. Head(ops).value \in Live!Layouts \cup {Null} /\ Head(ops).group \in Live!Groups /\ Own(Head(ops).value, Head(ops).group)
  BY <1>1, <1>2 DEF OwnOp, Op
<1>. QED  BY <1>1, <1>2, <1>3 DEF LayoutsInv

LEMMA OneLess ==
    ASSUME NEW o \in OwnOp, o.kind # "set", o.left > 0
    PROVE  [o EXCEPT !.left = @ - 1] \in OwnOp
<1>. DEFINE p == [o EXCEPT !.left = @ - 1]
<1>1. o \in Op /\ o.left - 1 \in Nat
  BY DEF OwnOp, Op
<1>2. p = [kind |-> o.kind, group |-> o.group, value |-> o.value, left |-> o.left - 1]
  BY <1>1 DEF Op
<1>. HIDE DEF p
<1>3. p \in Op /\ p.kind # "set"
  BY <1>1, <1>2 DEF Op
<1>4. p \in OwnOp
  BY <1>3 DEF OwnOp
<1>. QED  BY <1>4 DEF p

LEMMA LoadKeeps == ASSUME LayoutsInv, Live!loadWithMigration PROVE LayoutsInv'
<1>. DEFINE o == [Head(ops) EXCEPT !.left = @ - 1]
<1>1. /\ ops # <<>> /\ Head(ops).kind # "set" /\ Head(ops).left > 0 /\ ops' = Append(Tail(ops), o)
      /\ UNCHANGED <<stored, loadedKey, gridLayout, currentGridLayout, isLoaded>>
  BY DEF Live!loadWithMigration
<1>2. Head(ops) \in OwnOp /\ Tail(ops) \in Seq(OwnOp)
  BY <1>1, HeadIsOwn DEF LayoutsInv
<1>3. o \in OwnOp
  BY <1>1, <1>2, OneLess
<1>4. ops' \in Seq(OwnOp)
  BY <1>1, <1>2, <1>3, AppendProperties
<1>. QED  BY <1>1, <1>4 DEF LayoutsInv

LEMMA LoadedKeeps == ASSUME LayoutsInv, Live!Loaded PROVE LayoutsInv'
<1>. DEFINE key == Head(ops).group
            cs == Live!CamerasOf(dashboardConfig, group')
            layout == Live!generateLayout(stored[key], cs)
            queue == Tail(ops)
<1>1. /\ ops # <<>> /\ loadedKey' = key /\ isLoaded' = TRUE /\ UNCHANGED stored
      /\ Live!Show(stored[key], key, queue, dashboardConfig)
  BY DEF Live!Loaded
<1>2. key \in Live!Groups /\ queue \in Seq(OwnOp)
  BY <1>1, HeadIsOwn DEF LayoutsInv, OwnOp, Op
<1>3. stored[key] \in Live!Layouts \cup {Null} /\ Own(stored[key], key) /\ key # Null
  BY <1>2, NoLayoutIsNull DEF LayoutsInv
<1>4. /\ currentGridLayout' = layout
      /\ \/ gridLayout' = layout /\ ops' = Append(queue, [kind |-> "set", group |-> key, value |-> layout, left |-> 0])
         \/ gridLayout' = stored[key] /\ ops' = queue
  BY <1>1 DEF Live!Show, Live!MayWrite
<1>5. /\ layout \in Live!Layouts /\ layout # Null /\ Own(layout, key)
      /\ Append(queue, [kind |-> "set", group |-> key, value |-> layout, left |-> 0]) \in Seq(OwnOp)
  BY <1>2, <1>3, ShowKeeps
<1>. HIDE DEF key, layout, queue
<1>. QED  BY <1>1, <1>2, <1>3, <1>4, <1>5 DEF LayoutsInv

LEMMA VainKeeps == ASSUME LayoutsInv, Live!LoadedInVain PROVE LayoutsInv'
<1>1. /\ ops # <<>> /\ ops' = Tail(ops) /\ UNCHANGED <<stored, loadedKey, gridLayout, currentGridLayout, isLoaded>>
  BY DEF Live!LoadedInVain
<1>. QED  BY <1>1, HeadIsOwn DEF LayoutsInv

LEMMA ConfigKeeps == ASSUME LayoutsInv, Live!updateConfig PROVE LayoutsInv'
<1>1. /\ UNCHANGED <<stored, loadedKey, isLoaded>>
      /\ \/ isLoaded /\ Live!Show(currentGridLayout, loadedKey, ops, groups)
         \/ UNCHANGED <<ops, gridLayout, currentGridLayout>>
  BY DEF Live!updateConfig
<1>2. CASE UNCHANGED <<ops, gridLayout, currentGridLayout>>
  BY <1>1, <1>2 DEF LayoutsInv
<1>3. CASE isLoaded /\ Live!Show(currentGridLayout, loadedKey, ops, groups)
  <2>. DEFINE layout == Live!generateLayout(currentGridLayout, Live!CamerasOf(groups, group'))
  <2>1. /\ currentGridLayout' = layout
        /\ \/ gridLayout' = layout /\ ops' = Append(ops, [kind |-> "set", group |-> loadedKey, value |-> layout, left |-> 0])
           \/ gridLayout' = currentGridLayout /\ ops' = ops
    BY <1>3 DEF Live!Show, Live!MayWrite
  <2>2. /\ layout \in Live!Layouts /\ layout # Null /\ Own(layout, loadedKey)
        /\ Append(ops, [kind |-> "set", group |-> loadedKey, value |-> layout, left |-> 0]) \in Seq(OwnOp)
    BY <1>3, ShowKeeps DEF LayoutsInv
  <2>. HIDE DEF layout
  <2>. QED  BY <1>1, <1>3, <2>1, <2>2 DEF LayoutsInv
<1>. QED  BY <1>1, <1>2, <1>3

LEMMA MoveKeeps == ASSUME LayoutsInv, NEW c \in LiveCameras, Live!handleLayoutChange(c) PROVE LayoutsInv'
<1>1. /\ isLoaded /\ gridLayout = currentGridLayout /\ loadedKey = group
      /\ gridLayout' = [gridLayout EXCEPT ![c] = group] /\ currentGridLayout' = gridLayout'
      /\ ops' = Append(ops, [kind |-> "set", group |-> group, value |-> gridLayout', left |-> 0])
      /\ UNCHANGED <<stored, loadedKey, isLoaded>>
  BY DEF Live!handleLayoutChange, Live!MayWrite
<1>2. gridLayout \in Live!Layouts /\ loadedKey \in Live!Groups /\ Own(gridLayout, loadedKey) /\ gridLayout # Null
  BY <1>1 DEF LayoutsInv
<1>3. gridLayout' \in Live!Layouts
  BY <1>1, <1>2 DEF Live!Layouts, Live!Places
<1>4. Own(gridLayout', loadedKey)
  BY <1>1, <1>2 DEF Own, Live!Layouts
<1>5. ops' \in Seq(OwnOp)
  BY <1>1, <1>2, <1>3, <1>4, SetIsOwn, AppendProperties DEF LayoutsInv
<1>. QED  BY <1>1, <1>2, <1>3, <1>4, <1>5, NoLayoutIsNull DEF LayoutsInv

LEMMA LayoutsHidden ==
    ASSUME LayoutsInv, UNCHANGED <<stored, loadedKey, isLoaded, ops, gridLayout, currentGridLayout>> PROVE LayoutsInv'
  BY DEF LayoutsInv

LEMMA LayoutsNext == ASSUME DashboardTypes, LayoutsInv, Live!DashboardNext PROVE LayoutsInv'
<1>1. CASE Live!ServeSet \/ Live!loadWithMigration \/ Live!Loaded \/ Live!LoadedInVain \/ Live!updateConfig
  BY <1>1, SetKeeps, LoadKeeps, LoadedKeeps, VainKeeps, ConfigKeeps
<1>2. CASE Live!setIsEditMode \/ Live!onCancel \/ Live!onSubmit \/ Live!Fails
  BY <1>2, LayoutsHidden DEF Live!setIsEditMode, Live!onCancel, Live!onSubmit, Live!Fails, Live!Layout
<1>3. CASE Live!Answer
  <2>1. CASE Live!LeavesGroup
    BY <1>3, <2>1, TurnKeeps DEF Live!Answer
  <2>2. CASE ~Live!LeavesGroup
    BY <1>3, <2>2, LayoutsHidden DEF Live!Answer, Live!Layout
  <2>. QED  BY <2>1, <2>2
<1>4. CASE \E g \in Live!Groups \cup {"default"} : Live!setGroup(g)
  BY <1>4, TurnKeeps DEF Live!setGroup
<1>5. CASE \E c \in LiveCameras : Live!handleLayoutChange(c)
  BY <1>5, MoveKeeps
<1>6. CASE \E c \in LiveCameras : Live!handleOpenChange(c) \/ Live!onCheckedChange(c) \/ Live!handleSave(c)
  BY <1>6, LayoutsHidden DEF Live!handleOpenChange, Live!onCheckedChange, Live!handleSave, Live!Layout
<1>7. CASE \E b \in BOOLEAN : Live!onSaveMuting(b) \/ Live!Serve(b)
  BY <1>7, LayoutsHidden DEF Live!onSaveMuting, Live!Serve, Live!Layout
<1>8. CASE \E g \in Live!Groups : Live!onEditGroup(g) \/ Live!TypeName(g) \/ Live!OtherClient(g)
  BY <1>8, LayoutsHidden DEF Live!onEditGroup, Live!TypeName, Live!OtherClient, Live!Layout
<1>9. CASE \E g \in Live!Groups : Live!onDeleteGroup(g)
  <2>1. /\ stored' = IF group = "default" THEN stored ELSE [stored EXCEPT ![group] = Null]
        /\ UNCHANGED <<loadedKey, isLoaded, ops, gridLayout, currentGridLayout>>
    BY <1>9 DEF Live!onDeleteGroup
  <2>2. stored' \in [Live!Groups -> Live!Layouts \cup {Null}] /\ \A g \in Live!Groups : stored'[g] \in {stored[g], Null}
    BY <2>1 DEF DashboardTypes, LayoutsInv
  <2>. QED  BY <2>1, <2>2 DEF LayoutsInv, Own
<1>. QED  BY <1>1, <1>2, <1>3, <1>4, <1>5, <1>6, <1>7, <1>8, <1>9 DEF Live!DashboardNext

(***************************************************************************)
(* The groups, their dialog and what is written of them                    *)
(***************************************************************************)
LEMMA TypesHidden ==
    ASSUME DashboardTypes, UNCHANGED <<groups, dashboardConfig, group, allSettings, dialog, request>> PROVE DashboardTypes'
  BY DEF DashboardTypes

\* The sound of a camera that is switched is kept as a setting, and the others' stay.
LEMMA WithSoundIs ==
    ASSUME allSettings \in AllSettings, group \in Live!Groups, allSettings[group] # Null, NEW c \in LiveCameras
    PROVE  /\ Live!WithSound(c) \in AllSettings
           /\ \A g \in Live!Groups : g # group => Live!WithSound(c)[g] = allSettings[g]
           /\ Live!WithSound(c)[group] # Null
           /\ \A d \in LiveCameras : d # c => Live!WithSound(c)[group][d] = allSettings[group][d]
           /\ Live!WithSound(c)[group][c] # Null /\ Live!WithSound(c)[group][c].audio = ~audioStates[c]
<1>. DEFINE s == Live!WithAudio(group, c)
<1>1. allSettings[group] \in Live!Settings /\ Null \notin Live!Settings /\ Null \notin Live!Setting
  BY LiveAssumption DEF AllSettings
<1>2. allSettings[group][c] \in Live!Setting \cup {Null}
  BY <1>1 DEF Live!Settings
<1>3. s \in Live!Setting /\ s.audio = ~audioStates[c]
  <2>. DEFINE b == ~audioStates[c]
  <2>1. b \in BOOLEAN
    OBVIOUS
  <2>2. s = IF allSettings[group][c] = Null THEN [type |-> "smart", audio |-> b] ELSE [allSettings[group][c] EXCEPT !.audio = b]
    BY DEF Live!WithAudio
  <2>. HIDE DEF b, s
  <2>3. s \in Live!Setting /\ s.audio = b
    BY <1>2, <2>1, <2>2 DEF Live!Setting
  <2>. QED  BY <2>3 DEF b
<1>. HIDE DEF s
<1>. DEFINE t == [allSettings[group] EXCEPT ![c] = s]
<1>4. t \in Live!Settings /\ t[c] = s /\ \A d \in LiveCameras : d # c => t[d] = allSettings[group][d]
  BY <1>1, <1>3 DEF Live!Settings
<1>5. Live!WithSound(c) = [allSettings EXCEPT ![group] = t]
  BY DEF Live!WithSound, s
<1>. HIDE DEF t
<1>6. Live!WithSound(c) \in AllSettings /\ Live!WithSound(c)[group] = t /\ \A g \in Live!Groups : g # group => Live!WithSound(c)[g] = allSettings[g]
  BY <1>4, <1>5 DEF AllSettings
<1>. QED  BY <1>1, <1>3, <1>4, <1>6

\* All cameras of a group at once.
LEMMA MutedIs ==
    ASSUME allSettings \in AllSettings, NEW g \in Live!Groups, NEW b \in BOOLEAN
    PROVE  /\ Live!Muted(g, b) \in Live!Settings
           /\ \A c \in LiveCameras : Live!Muted(g, b)[c] # Null =>
                  /\ allSettings[g] # Null /\ allSettings[g][c] # Null
                  /\ Live!Muted(g, b)[c].audio = b
<1>1. allSettings[g] \in Live!Settings \cup {Null} /\ Null \notin Live!Setting
  BY LiveAssumption DEF AllSettings
<1>2. ASSUME NEW c \in LiveCameras, allSettings[g] # Null, allSettings[g][c] # Null
      PROVE  [allSettings[g][c] EXCEPT !.audio = b] \in Live!Setting /\ [allSettings[g][c] EXCEPT !.audio = b].audio = b
  <2>1. allSettings[g][c] \in Live!Setting
    BY <1>1, <1>2 DEF Live!Settings
  <2>. QED  BY <2>1 DEF Live!Setting
<1>3. Live!Muted(g, b) = [c \in LiveCameras |-> IF allSettings[g] = Null \/ allSettings[g][c] = Null THEN Null ELSE [allSettings[g][c] EXCEPT !.audio = b]]
  BY DEF Live!Muted
<1>4. Live!Muted(g, b) \in Live!Settings
  BY <1>2, <1>3 DEF Live!Settings
<1>. QED  BY <1>2, <1>3, <1>4

LEMMA AppliedIs ==
    ASSUME groups \in Members, NEW r \in Live!Write, r.kind = "delete" => r.of = r.name
    PROVE  /\ Live!Applied(r) \in Members
           /\ \A g \in Live!Groups : groups[g] # Null =>
                  \/ Live!Applied(r)[g] # Null
                  \/ r.kind = "delete" /\ r.name = g
                  \/ r.kind = "save" /\ r.of \notin {Null, r.name}
<1>. DEFINE gone == IF r.kind = "delete" \/ r.of # r.name THEN r.of ELSE Null
            renamed == Live!Without(groups, gone)
<1>1. /\ r.kind \in {"save", "delete"} /\ r.of \in Live!Groups \cup {Null} /\ r.name \in Live!Groups /\ r.cameras \in SUBSET LiveCameras
      /\ r.cameras # Null
  BY LiveAssumption DEF Live!Write
<1>2. renamed \in Members /\ \A g \in Live!Groups : g # gone => renamed[g] = groups[g]
  BY <1>1 DEF Live!Without, Members
<1>3. Live!Applied(r) = IF r.kind = "delete" THEN renamed
                        ELSE [renamed EXCEPT ![r.name] = IF r.cameras = {} /\ renamed[r.name] # Null THEN renamed[r.name] ELSE r.cameras]
  BY DEF Live!Applied
<1>. HIDE DEF renamed
<1>4. CASE r.kind = "delete"
  BY <1>1, <1>2, <1>3, <1>4
<1>5. CASE r.kind = "save"
  <2>. DEFINE cs == IF r.cameras = {} /\ renamed[r.name] # Null THEN renamed[r.name] ELSE r.cameras
  <2>1. cs \in SUBSET LiveCameras /\ cs # Null
    BY <1>1, <1>2 DEF Members
  <2>. HIDE DEF cs
  <2>2. Live!Applied(r) = [renamed EXCEPT ![r.name] = cs]
    BY <1>3, <1>5 DEF cs
  <2>3. Live!Applied(r) \in Members
    BY <1>1, <1>2, <2>1, <2>2 DEF Members
  <2>4. ASSUME NEW g \in Live!Groups, groups[g] # Null, Live!Applied(r)[g] = Null PROVE r.of \notin {Null, r.name}
    <3>1. g # r.name
      BY <1>1, <1>2, <2>1, <2>2, <2>4 DEF Members
    <3>2. renamed[g] = Null
      BY <1>1, <1>2, <2>2, <2>4, <3>1 DEF Members
    <3>. QED  BY <1>2, <1>5, <2>4, <3>1, <3>2, NoLayoutIsNull
  <2>. QED  BY <1>5, <2>3, <2>4
<1>. QED  BY <1>1, <1>4, <1>5

LEMMA AskedIsWrite ==
    ASSUME dialog \in Dialog, allSettings \in AllSettings, group \in Live!Groups \cup {"default"}, Live!onSubmit
    PROVE  request' \in Live!Write /\ request' # Null /\ request'.kind = "save" /\ request'.settings \in AllSettings
<1>. DEFINE all == [g \in Live!Groups |-> IF g = dialog.name THEN dialog.settings ELSE IF g = dialog.of THEN Null ELSE allSettings[g]]
<1>1. request' = [kind |-> "save", of |-> dialog.of, name |-> dialog.name, cameras |-> dialog.cameras, stage |-> "asked", active |-> group,
                  settings |-> all]
  BY DEF Live!onSubmit
<1>2. all \in AllSettings
  BY DEF AllSettings, Dialog
<1>. HIDE DEF all
<1>3. request' \in Live!Write
  BY <1>1, <1>2 DEF Live!Write, Dialog, AllSettings
<1>. QED  BY <1>1, <1>2, <1>3, LiveAssumption

LEMMA ServedIsWrite ==
    ASSUME NEW r \in Live!Write, NEW s \in {"taken", "failed"}
    PROVE  LET q == [r EXCEPT !.stage = s] IN
           /\ q \in Live!Write /\ q.stage = s
           /\ q.kind = r.kind /\ q.of = r.of /\ q.name = r.name /\ q.active = r.active /\ q.settings = r.settings
<1>. DEFINE q == [r EXCEPT !.stage = s]
<1>1. q = [kind |-> r.kind, of |-> r.of, name |-> r.name, cameras |-> r.cameras, stage |-> s, active |-> r.active, settings |-> r.settings]
  BY DEF Live!Write
<1>. HIDE DEF q
<1>2. q \in Live!Write
  BY <1>1 DEF Live!Write
<1>3. q.stage = s /\ q.kind = r.kind /\ q.of = r.of /\ q.name = r.name /\ q.active = r.active /\ q.settings = r.settings
  BY <1>1
<1>. QED  BY <1>2, <1>3 DEF q

LEMMA DialogKeeps ==
    ASSUME DashboardTypes, dialog' \in Dialog \cup {Null}, UNCHANGED <<groups, dashboardConfig, group, allSettings, request>>
    PROVE  DashboardTypes'
  BY DEF DashboardTypes

LEMMA TypesNext == ASSUME DashboardTypes, Live!DashboardNext PROVE DashboardTypes'
<1>1. CASE Live!ServeSet \/ Live!loadWithMigration \/ Live!Loaded \/ Live!LoadedInVain \/ Live!setIsEditMode
  BY <1>1, TypesHidden
     DEF Live!ServeSet, Live!loadWithMigration, Live!Loaded, Live!LoadedInVain, Live!setIsEditMode, Live!Config, Live!Sound
<1>2. CASE \E c \in LiveCameras : Live!handleLayoutChange(c)
  BY <1>2, TypesHidden DEF Live!handleLayoutChange, Live!Config, Live!Sound
<1>3. CASE Live!onCancel
  BY <1>3 DEF DashboardTypes, Live!onCancel, Live!Config, Live!Sound
<1>4. CASE Live!onSubmit
  <2>1. dialog \in Dialog /\ UNCHANGED <<groups, dashboardConfig, group, allSettings, dialog>>
    BY <1>4 DEF DashboardTypes, Live!onSubmit, Live!Config, Live!Sound
  <2>. QED  BY <1>4, <2>1, AskedIsWrite DEF DashboardTypes
<1>5. CASE Live!Answer
  <2>1. /\ request # Null /\ request' = Null /\ group' \in {group, "default"} /\ UNCHANGED <<groups, dashboardConfig>>
        /\ \/ request.kind = "save" /\ allSettings' = request.settings /\ dialog' = Null
           \/ UNCHANGED <<allSettings, dialog>>
    BY <1>5 DEF Live!Answer, Live!Turn, Live!setAllSettings
  <2>. QED  BY <2>1 DEF DashboardTypes
<1>6. CASE Live!Fails
  BY <1>6 DEF DashboardTypes, Live!Fails, Live!Config, Live!Sound
<1>7. CASE Live!updateConfig
  BY <1>7 DEF DashboardTypes, Live!updateConfig, Live!Sound
<1>8. CASE \E g \in Live!Groups \cup {"default"} : Live!setGroup(g)
  BY <1>8 DEF DashboardTypes, Live!setGroup, Live!Turn, Live!Config
<1>9. ASSUME NEW c \in LiveCameras, Live!handleOpenChange(c) PROVE DashboardTypes'
  <2>1. /\ group # "default" /\ UNCHANGED <<groups, dashboardConfig, group, dialog, request>>
        /\ \/ allSettings[group] = Null /\ UNCHANGED allSettings
           \/ allSettings[group] # Null /\ allSettings' = Live!WithSound(c)
    BY <1>9 DEF Live!handleOpenChange, Live!setAllSettings, Live!Config
  <2>2. allSettings' \in AllSettings
    BY <2>1, WithSoundIs DEF DashboardTypes
  <2>. QED  BY <2>1, <2>2 DEF DashboardTypes
<1>10. ASSUME NEW c \in LiveCameras, Live!onCheckedChange(c) PROVE DashboardTypes'
  <2>1. /\ dialog # Null /\ UNCHANGED <<groups, dashboardConfig, group, allSettings, request>>
        /\ dialog' = [dialog EXCEPT !.cameras = IF c \in @ THEN @ \ {c} ELSE @ \cup {c}]
    BY <1>10 DEF Live!onCheckedChange, Live!Config, Live!Sound
  <2>2. dialog' \in Dialog
    BY <2>1 DEF DashboardTypes, Dialog
  <2>. QED  BY <2>1, <2>2, DialogKeeps
<1>11. ASSUME NEW c \in LiveCameras, Live!handleSave(c) PROVE DashboardTypes'
  <2>. DEFINE s == IF dialog.settings = Null THEN Live!NoSettings ELSE dialog.settings
              t == [s EXCEPT ![c] = [type |-> "continuous", audio |-> s[c] # Null /\ s[c].audio]]
  <2>1. /\ dialog # Null /\ UNCHANGED <<groups, dashboardConfig, group, allSettings, request>>
        /\ dialog' = [dialog EXCEPT !.settings = t]
    BY <1>11 DEF Live!handleSave, Live!Config, Live!Sound
  <2>2. s \in Live!Settings
    BY <2>1 DEF DashboardTypes, Dialog, Live!NoSettings, Live!Settings
  <2>3. [type |-> "continuous", audio |-> s[c] # Null /\ s[c].audio] \in Live!Setting
    BY DEF Live!Setting
  <2>4. t \in Live!Settings
    BY <2>2, <2>3 DEF Live!Settings
  <2>. HIDE DEF t
  <2>5. dialog' \in Dialog
    BY <2>1, <2>4 DEF DashboardTypes, Dialog
  <2>. QED  BY <2>1, <2>5, DialogKeeps
<1>12. ASSUME NEW b \in BOOLEAN, Live!onSaveMuting(b) PROVE DashboardTypes'
  <2>1. /\ group # "default" /\ UNCHANGED <<groups, dashboardConfig, group, dialog, request>>
        /\ allSettings' = [allSettings EXCEPT ![group] = Live!Muted(group, b)]
    BY <1>12 DEF Live!onSaveMuting, Live!setAllSettings, Live!Config
  <2>2. Live!Muted(group, b) \in Live!Settings
    BY <2>1, MutedIs DEF DashboardTypes
  <2>. QED  BY <2>1, <2>2 DEF DashboardTypes, AllSettings
<1>13. ASSUME NEW b \in BOOLEAN, Live!Serve(b) PROVE DashboardTypes'
  <2>1. /\ request \in Live!Write /\ UNCHANGED <<dashboardConfig, group, allSettings, dialog>>
        /\ \/ groups' = Live!Applied(request) /\ request' = [request EXCEPT !.stage = "taken"]
           \/ UNCHANGED groups /\ request' = [request EXCEPT !.stage = "failed"]
    BY <1>13 DEF DashboardTypes, Live!Serve, Live!Config, Live!Sound
  <2>2. groups' \in Members
    BY <2>1, AppliedIs, LiveAssumption DEF DashboardTypes
  <2>3. request' \in Live!Write /\ request'.kind = request.kind /\ request'.of = request.of /\ request'.name = request.name
        /\ request'.settings = request.settings
    BY <2>1, ServedIsWrite
  <2>. QED  BY <2>1, <2>2, <2>3, LiveAssumption DEF DashboardTypes
<1>14. ASSUME NEW g \in Live!Groups, Live!onEditGroup(g) PROVE DashboardTypes'
  <2>1. /\ UNCHANGED <<groups, dashboardConfig, group, allSettings, request>>
        /\ dialog' = [of |-> IF dashboardConfig[g] = Null THEN Null ELSE g, name |-> g,
                      cameras |-> IF dashboardConfig[g] = Null THEN {} ELSE dashboardConfig[g],
                      settings |-> IF dashboardConfig[g] = Null THEN Null ELSE allSettings[g]]
    BY <1>14 DEF Live!onEditGroup, Live!Config, Live!Sound
  <2>2. dialog' \in Dialog
    BY <2>1 DEF DashboardTypes, Dialog, Members, AllSettings
  <2>. QED  BY <2>1, <2>2, DialogKeeps
<1>15. ASSUME NEW g \in Live!Groups, Live!TypeName(g) PROVE DashboardTypes'
  <2>1. dialog # Null /\ dialog' = [dialog EXCEPT !.name = g] /\ UNCHANGED <<groups, dashboardConfig, group, allSettings, request>>
    BY <1>15 DEF Live!TypeName, Live!Config, Live!Sound
  <2>2. dialog' \in Dialog
    BY <2>1 DEF DashboardTypes, Dialog
  <2>. QED  BY <2>1, <2>2, DialogKeeps
<1>16. ASSUME NEW g \in Live!Groups, Live!onDeleteGroup(g) PROVE DashboardTypes'
  <2>1. /\ UNCHANGED <<groups, dashboardConfig, group, allSettings, dialog>>
        /\ request' = [kind |-> "delete", of |-> g, name |-> g, cameras |-> {}, stage |-> "asked", active |-> group, settings |-> Null]
    BY <1>16 DEF Live!onDeleteGroup, Live!Config, Live!Sound
  <2>2. request' \in Live!Write
    BY <2>1 DEF DashboardTypes, Live!Write
  <2>. QED  BY <2>1, <2>2 DEF DashboardTypes
<1>17. ASSUME NEW g \in Live!Groups, Live!OtherClient(g) PROVE DashboardTypes'
  <2>1. groups' = [groups EXCEPT ![g] = Null] /\ UNCHANGED <<dashboardConfig, group, allSettings, dialog, request>>
    BY <1>17 DEF Live!OtherClient, Live!Sound
  <2>. QED  BY <2>1 DEF DashboardTypes, Members
<1>. QED  BY <1>1, <1>2, <1>3, <1>4, <1>5, <1>6, <1>7, <1>8, <1>9, <1>10, <1>11, <1>12, <1>13, <1>14, <1>15, <1>16, <1>17 DEF Live!DashboardNext

(***************************************************************************)
(* What is heard                                                           *)
(***************************************************************************)
LEMMA SoundHidden == ASSUME SoundInv, UNCHANGED <<allSettings, audioStates, chosen, unheard>> PROVE SoundInv'
<1>1. Live!FromSettings(allSettings)' = Live!FromSettings(allSettings)
  BY DEF Live!FromSettings
<1>. QED  BY <1>1 DEF SoundInv, HeardAsSet, Live!HeardIsChosen

\* What a camera sounds like depends on its own settings.
LEMMA HeardOf ==
    ASSUME NEW all \in AllSettings, NEW c \in LiveCameras, NEW g \in Live!Groups, NEW b \in BOOLEAN,
           all[g] # Null, all[g][c] # Null, all[g][c].audio = b, g = "g" => all["h"] = Null \/ all["h"][c] = Null
    PROVE  Live!FromSettings(all)[c] = b
<1>1. Live!FromSettings(all)[c] = IF all["h"] # Null /\ all["h"][c] # Null THEN all["h"][c].audio
                                  ELSE all["g"] # Null /\ all["g"][c] # Null /\ all["g"][c].audio
  BY DEF Live!FromSettings
<1>2. CASE g = "h"
  BY <1>1, <1>2
<1>3. CASE g = "g"
  <2>1. Live!FromSettings(all)[c] = (all["g"] # Null /\ all["g"][c] # Null /\ all["g"][c].audio)
    BY <1>1, <1>3
  <2>2. (all["g"] # Null /\ all["g"][c] # Null /\ all["g"][c].audio) = b
    BY <1>3
  <2>. QED  BY <2>1, <2>2
<1>. QED  BY <1>2, <1>3 DEF Live!Groups

LEMMA HeardAlike ==
    ASSUME NEW all \in AllSettings, NEW new \in AllSettings, NEW c \in LiveCameras,
           \A g \in Live!Groups : (all[g] = Null <=> new[g] = Null) /\ (all[g] # Null => all[g][c] = new[g][c])
    PROVE  Live!FromSettings(all)[c] = Live!FromSettings(new)[c]
  BY DEF Live!FromSettings, Live!Groups

LEMMA NothingChosen == ASSUME SoundInv, chosen' = [c \in LiveCameras |-> Null], UNCHANGED <<allSettings, audioStates, unheard>> PROVE SoundInv'
<1>1. Live!FromSettings(allSettings)' = Live!FromSettings(allSettings)
  BY DEF Live!FromSettings
<1>. QED  BY <1>1 DEF SoundInv, HeardAsSet, Live!HeardIsChosen

LEMMA SwitchKeeps == ASSUME DashboardTypes, SoundInv, NEW c \in LiveCameras, Live!handleOpenChange(c) PROVE SoundInv'
<1>1. /\ group \in Live!Groups /\ chosen' = [chosen EXCEPT ![c] = ~audioStates[c]]
      /\ \/ /\ allSettings[group] = Null /\ audioStates' = [audioStates EXCEPT ![c] = ~@] /\ unheard' = unheard \cup {c}
            /\ UNCHANGED allSettings
         \/ /\ allSettings[group] # Null /\ allSettings' = Live!WithSound(c)
            /\ audioStates' = Live!FromSettings(Live!WithSound(c))
            /\ unheard' = IF Live!InTwo(Live!WithSound(c), c) THEN unheard \cup {c} ELSE unheard
  BY DEF DashboardTypes, Live!handleOpenChange, Live!setAllSettings
<1>2. chosen'[c] = ~audioStates[c] /\ DOMAIN chosen' = LiveCameras /\ \A d \in LiveCameras : d # c => chosen'[d] = chosen[d]
  BY <1>1 DEF SoundInv
<1>3. CASE /\ allSettings[group] = Null /\ audioStates' = [audioStates EXCEPT ![c] = ~@] /\ unheard' = unheard \cup {c}
           /\ UNCHANGED allSettings
  <2>1. Live!FromSettings(allSettings)' = Live!FromSettings(allSettings)
    BY <1>3 DEF Live!FromSettings
  <2>2. DOMAIN audioStates' = LiveCameras /\ \A d \in LiveCameras : d # c => audioStates'[d] = audioStates[d]
    BY <1>3 DEF SoundInv
  <2>. QED  BY <1>2, <1>3, <2>1, <2>2 DEF SoundInv, HeardAsSet, Live!HeardIsChosen
<1>4. CASE /\ allSettings[group] # Null /\ allSettings' = Live!WithSound(c)
           /\ audioStates' = Live!FromSettings(Live!WithSound(c))
           /\ unheard' = IF Live!InTwo(Live!WithSound(c), c) THEN unheard \cup {c} ELSE unheard
  <2>. DEFINE new == Live!WithSound(c)
  <2>1. /\ new \in AllSettings /\ \A g \in Live!Groups : g # group => new[g] = allSettings[g]
        /\ new[group] # Null /\ \A d \in LiveCameras : d # c => new[group][d] = allSettings[group][d]
        /\ new[group][c] # Null /\ new[group][c].audio = ~audioStates[c]
    BY <1>1, <1>4, WithSoundIs DEF DashboardTypes
  <2>. HIDE DEF new
  <2>2. Live!FromSettings(allSettings)' = Live!FromSettings(new) /\ audioStates' = Live!FromSettings(new) /\ DOMAIN audioStates' = LiveCameras
    BY <1>4 DEF Live!FromSettings, new
  <2>3. ASSUME NEW d \in LiveCameras, d # c PROVE Live!FromSettings(new)[d] = Live!FromSettings(allSettings)[d]
    BY <1>1, <1>4, <2>1, <2>3, HeardAlike DEF DashboardTypes
  <2>4. c \in unheard' \/ Live!FromSettings(new)[c] = ~audioStates[c]
    <3>1. CASE Live!InTwo(new, c)
      BY <1>4, <3>1 DEF new
    <3>2. CASE ~Live!InTwo(new, c)
      <4>1. group = "g" => new["h"] = Null \/ new["h"][c] = Null
        BY <2>1, <3>2 DEF Live!InTwo, Live!Groups
      <4>2. (~audioStates[c]) \in BOOLEAN
        OBVIOUS
      <4>. QED  BY <1>1, <2>1, <4>1, <4>2, HeardOf
    <3>. QED  BY <3>1, <3>2
  <2>5. unheard \subseteq unheard'
    BY <1>4
  <2>6. ASSUME NEW d \in LiveCameras, chosen'[d] # Null PROVE chosen'[d] = audioStates'[d] \/ d \in unheard'
    BY <1>2, <2>2, <2>3, <2>4, <2>5, <2>6 DEF SoundInv, HeardAsSet, Live!HeardIsChosen
  <2>. QED  BY <1>2, <2>2, <2>6 DEF SoundInv, HeardAsSet, Live!HeardIsChosen
<1>. QED  BY <1>1, <1>3, <1>4

LEMMA MutingKeeps == ASSUME DashboardTypes, SoundInv, NEW b \in BOOLEAN, Live!onSaveMuting(b) PROVE SoundInv'
<1>. DEFINE muted == Live!Muted(group, b)
            new == [allSettings EXCEPT ![group] = muted]
<1>1. /\ group \in Live!Groups /\ allSettings' = new /\ audioStates' = Live!FromSettings(new)
      /\ chosen' = [c \in LiveCameras |-> IF c \in Live!CamerasOf(dashboardConfig, group) THEN b ELSE Null]
      /\ unheard' = unheard \cup {c \in LiveCameras : muted[c] = Null \/ Live!InTwo(allSettings, c)}
  BY DEF DashboardTypes, Live!onSaveMuting, Live!setAllSettings
<1>2. /\ muted \in Live!Settings
      /\ \A c \in LiveCameras : muted[c] # Null => allSettings[group] # Null /\ allSettings[group][c] # Null /\ muted[c].audio = b
  BY <1>1, MutedIs DEF DashboardTypes
<1>. HIDE DEF muted
<1>3. new \in AllSettings /\ new[group] = muted /\ muted # Null /\ \A g \in Live!Groups : g # group => new[g] = allSettings[g]
  BY <1>1, <1>2, LiveAssumption DEF DashboardTypes, AllSettings
<1>. HIDE DEF new
<1>4. Live!FromSettings(allSettings)' = Live!FromSettings(new) /\ DOMAIN audioStates' = LiveCameras /\ DOMAIN chosen' = LiveCameras
  BY <1>1 DEF Live!FromSettings
<1>5. ASSUME NEW c \in LiveCameras, c \notin unheard' PROVE Live!FromSettings(new)[c] = b
  <2>1. muted[c] # Null /\ ~Live!InTwo(allSettings, c)
    BY <1>1, <1>5
  <2>2. muted[c].audio = b /\ allSettings[group] # Null /\ allSettings[group][c] # Null
    BY <1>2, <2>1
  <2>3. group = "g" => new["h"] = Null \/ new["h"][c] = Null
    BY <1>3, <2>1, <2>2 DEF Live!InTwo, Live!Groups
  <2>. QED  BY <1>1, <1>3, <2>1, <2>2, <2>3, HeardOf
<1>. QED  BY <1>1, <1>4, <1>5 DEF SoundInv, HeardAsSet, Live!HeardIsChosen

LEMMA SoundNext == ASSUME DashboardTypes, SoundInv, Live!DashboardNext PROVE SoundInv'
<1>1. CASE Live!ServeSet \/ Live!loadWithMigration \/ Live!Loaded \/ Live!LoadedInVain \/ Live!setIsEditMode \/ Live!onCancel
  BY <1>1, SoundHidden
     DEF Live!ServeSet, Live!loadWithMigration, Live!Loaded, Live!LoadedInVain, Live!setIsEditMode, Live!onCancel, Live!Sound
<1>2. CASE Live!onSubmit \/ Live!Fails \/ Live!updateConfig
  BY <1>2, SoundHidden DEF Live!onSubmit, Live!Fails, Live!updateConfig, Live!Sound
<1>3. CASE Live!Answer
  <2>1. CASE request.kind = "save"
    <3>1. /\ chosen' = [c \in LiveCameras |-> Null] /\ allSettings' = request.settings
          /\ audioStates' = Live!FromSettings(request.settings)
      BY <1>3, <2>1 DEF Live!Answer, Live!setAllSettings, Live!LeavesGroup
    <3>2. Live!FromSettings(allSettings)' = audioStates' /\ DOMAIN audioStates' = LiveCameras
      BY <3>1 DEF Live!FromSettings
    <3>. QED  BY <3>1, <3>2 DEF SoundInv, HeardAsSet, Live!HeardIsChosen
  <2>2. CASE request.kind # "save"
    BY <1>3, <2>2, NothingChosen, SoundHidden DEF Live!Answer
  <2>. QED  BY <2>1, <2>2
<1>4. CASE \E g \in Live!Groups \cup {"default"} : Live!setGroup(g)
  BY <1>4, NothingChosen DEF Live!setGroup
<1>5. CASE \E c \in LiveCameras : Live!handleLayoutChange(c) \/ Live!onCheckedChange(c) \/ Live!handleSave(c)
  BY <1>5, SoundHidden DEF Live!handleLayoutChange, Live!onCheckedChange, Live!handleSave, Live!Sound
<1>6. CASE \E c \in LiveCameras : Live!handleOpenChange(c)
  BY <1>6, SwitchKeeps
<1>7. CASE \E b \in BOOLEAN : Live!onSaveMuting(b)
  BY <1>7, MutingKeeps
<1>8. CASE \E b \in BOOLEAN : Live!Serve(b)
  BY <1>8, SoundHidden DEF Live!Serve, Live!Sound
<1>9. CASE \E g \in Live!Groups : Live!onEditGroup(g) \/ Live!TypeName(g) \/ Live!onDeleteGroup(g) \/ Live!OtherClient(g)
  BY <1>9, SoundHidden DEF Live!onEditGroup, Live!TypeName, Live!onDeleteGroup, Live!OtherClient, Live!Sound
<1>. QED  BY <1>1, <1>2, <1>3, <1>4, <1>5, <1>6, <1>7, <1>8, <1>9 DEF Live!DashboardNext

(***************************************************************************)
(* The group shown                                                         *)
(***************************************************************************)
LEMMA GroupsHidden ==
    ASSUME GroupsInv, UNCHANGED <<groups, dashboardConfig, reading, group, request, crossed>> PROVE GroupsInv'
  BY DEF GroupsInv, WillRead, GroupKept, Departs

LEMMA ChosenKeeps == ASSUME DashboardTypes, GroupsInv, NEW g \in Live!Groups \cup {"default"}, Live!setGroup(g) PROVE GroupsInv'
<1>1. /\ g \in Live!Groups => dashboardConfig[g] # Null
      /\ group' = g /\ crossed' = (crossed \/ reading \/ request # Null)
      /\ UNCHANGED <<groups, dashboardConfig, reading, request>>
  BY DEF Live!setGroup, Live!Turn, Live!Config
<1>. QED  BY <1>1 DEF GroupsInv, WillRead, GroupKept, Departs

LEMMA WriteAskKeeps ==
    ASSUME GroupsInv, request = Null, request' # Null, request'.stage = "asked", request'.active = group,
           UNCHANGED <<groups, dashboardConfig, reading, group, crossed>>
    PROVE  GroupsInv'
  BY DEF GroupsInv, WillRead, GroupKept, Departs

LEMMA WriteServeKeeps == ASSUME DashboardTypes, GroupsInv, NEW b \in BOOLEAN, Live!Serve(b) PROVE GroupsInv'
<1>1. /\ request \in Live!Write /\ request # Null /\ request.stage = "asked"
      /\ request.kind = "delete" => request.of = request.name
      /\ UNCHANGED <<dashboardConfig, reading, group, crossed>>
      /\ \/ groups' = Live!Applied(request) /\ request' = [request EXCEPT !.stage = "taken"]
         \/ UNCHANGED groups /\ request' = [request EXCEPT !.stage = "failed"]
  BY DEF DashboardTypes, Live!Serve
<1>2. /\ request' # Null /\ request'.kind = request.kind /\ request'.of = request.of /\ request'.name = request.name
      /\ request'.active = request.active
  <2>1. ASSUME NEW s \in {"taken", "failed"}, request' = [request EXCEPT !.stage = s]
        PROVE  /\ request' \in Live!Write /\ request'.kind = request.kind /\ request'.of = request.of
               /\ request'.name = request.name /\ request'.active = request.active
    BY <1>1, <2>1, ServedIsWrite
  <2>2. \E s \in {"taken", "failed"} : request' = [request EXCEPT !.stage = s]
    BY <1>1
  <2>. QED  BY <2>1, <2>2, LiveAssumption
<1>3. ASSUME ~crossed, group \in Live!Groups PROVE groups[group] # Null /\ request.active = group
  BY <1>1, <1>3 DEF GroupsInv, GroupKept, Departs
<1>4. CASE UNCHANGED groups /\ request' = [request EXCEPT !.stage = "failed"]
  BY <1>1, <1>2, <1>3, <1>4 DEF GroupsInv, WillRead, GroupKept, Departs
<1>5. CASE groups' = Live!Applied(request) /\ request' = [request EXCEPT !.stage = "taken"]
  <2>1. request'.stage = "taken"
    BY <1>1, <1>5, ServedIsWrite
  <2>2. WillRead'
    BY <1>2, <2>1 DEF WillRead
  <2>3. ASSUME ~crossed, group \in Live!Groups PROVE groups'[group] # Null \/ Departs(group)'
    <3>1. \/ groups'[group] # Null
          \/ request.kind = "delete" /\ request.name = group
          \/ request.kind = "save" /\ request.of \notin {Null, request.name}
      BY <1>1, <1>3, <1>5, <2>3, AppliedIs DEF DashboardTypes
    <3>. QED  BY <1>1, <1>2, <2>1, <3>1 DEF Departs
  <2>4. ~crossed' => GroupKept'
    BY <1>1, <1>2, <2>3 DEF GroupsInv, GroupKept, Departs
  <2>. QED  BY <2>2, <2>4 DEF GroupsInv
<1>. QED  BY <1>1, <1>4, <1>5

LEMMA WriteAnswerKeeps == ASSUME DashboardTypes, GroupsInv, Live!Answer PROVE GroupsInv'
<1>1. /\ request \in Live!Write /\ request # Null /\ request' = Null /\ reading' = TRUE /\ UNCHANGED groups
      /\ IF Live!LeavesGroup THEN group' = "default" ELSE group' = group
      /\ IF request.kind = "save" THEN crossed' = (crossed \/ request.of \notin {Null, request.name})
         ELSE crossed' = (crossed \/ group # request.active)
  BY DEF DashboardTypes, Live!Answer, Live!Turn
<1>2. ASSUME ~crossed', group' \in Live!Groups PROVE groups[group'] # Null
  <2>1. group' = group /\ ~Live!LeavesGroup
    BY <1>1, <1>2 DEF Live!Groups
  <2>2. ~Departs(group)
    BY <1>1, <1>2, <2>1 DEF Departs, Live!LeavesGroup
  <2>. QED  BY <1>1, <1>2, <2>1, <2>2 DEF GroupsInv, GroupKept
<1>. QED  BY <1>1, <1>2 DEF GroupsInv, WillRead, GroupKept

LEMMA GroupsNext == ASSUME DashboardTypes, GroupsInv, Live!DashboardNext PROVE GroupsInv'
<1>1. CASE Live!ServeSet \/ Live!loadWithMigration \/ Live!Loaded \/ Live!LoadedInVain \/ Live!setIsEditMode \/ Live!onCancel
  BY <1>1, GroupsHidden
     DEF Live!ServeSet, Live!loadWithMigration, Live!Loaded, Live!LoadedInVain, Live!setIsEditMode, Live!onCancel, Live!Config
<1>2. CASE Live!onSubmit
  <2>1. dialog \in Dialog
    BY <1>2 DEF DashboardTypes, Live!onSubmit
  <2>2. request' # Null
    BY <1>2, <2>1, AskedIsWrite DEF DashboardTypes
  <2>. QED  BY <1>2, <2>2, WriteAskKeeps DEF Live!onSubmit, Live!Config
<1>3. CASE Live!Fails
  BY <1>3 DEF Live!Fails, Live!Config, GroupsInv, WillRead, GroupKept, Departs
<1>4. CASE Live!updateConfig
  BY <1>4 DEF Live!updateConfig, GroupsInv, WillRead, GroupKept, Departs
<1>5. CASE \E g \in Live!Groups \cup {"default"} : Live!setGroup(g)
  BY <1>5, ChosenKeeps
<1>6. CASE \E c \in LiveCameras : Live!handleLayoutChange(c) \/ Live!handleOpenChange(c) \/ Live!onCheckedChange(c) \/ Live!handleSave(c)
  BY <1>6, GroupsHidden
     DEF Live!handleLayoutChange, Live!handleOpenChange, Live!onCheckedChange, Live!handleSave, Live!Config
<1>7. CASE \E b \in BOOLEAN : Live!onSaveMuting(b)
  BY <1>7, GroupsHidden DEF Live!onSaveMuting, Live!Config
<1>8. CASE \E b \in BOOLEAN : Live!Serve(b)
  BY <1>8, WriteServeKeeps
<1>9. CASE \E g \in Live!Groups : Live!onEditGroup(g) \/ Live!TypeName(g)
  BY <1>9, GroupsHidden DEF Live!onEditGroup, Live!TypeName, Live!Config
<1>10. ASSUME NEW g \in Live!Groups, Live!onDeleteGroup(g) PROVE GroupsInv'
  <2>1. /\ request = Null /\ UNCHANGED <<groups, dashboardConfig, reading, group, crossed>>
        /\ request' = [kind |-> "delete", of |-> g, name |-> g, cameras |-> {}, stage |-> "asked", active |-> group, settings |-> Null]
    BY <1>10 DEF Live!onDeleteGroup, Live!Config
  <2>2. request' \in Live!Write
    BY <2>1 DEF DashboardTypes, Live!Write
  <2>. QED  BY <2>1, <2>2, WriteAskKeeps, LiveAssumption
<1>11. CASE \E g \in Live!Groups : Live!OtherClient(g)
  BY <1>11 DEF Live!OtherClient, GroupsInv, WillRead
<1>. QED  BY <1>1, <1>2, <1>3, <1>4, <1>5, <1>6, <1>7, <1>8, <1>9, <1>10, <1>11, WriteAnswerKeeps DEF Live!DashboardNext

LEMMA DashboardInvInit == ASSUME Live!DashboardInit PROVE DashboardInv
<1>1. FirstCamera \in LiveCameras /\ Null \notin Live!Groups
  BY LiveAssumption
<1>. DEFINE set == [Live!NoSettings EXCEPT ![FirstCamera] = [type |-> "smart", audio |-> FALSE]]
<1>2. set \in Live!Settings /\ \A c \in LiveCameras : set[c] # Null => set[c].audio = FALSE
  <2>1. [type |-> "smart", audio |-> FALSE] \in Live!Setting
    BY DEF Live!Setting
  <2>2. Live!NoSettings \in Live!Settings
    BY DEF Live!NoSettings, Live!Settings
  <2>. QED  BY <1>1, <2>1, <2>2 DEF Live!Settings, Live!NoSettings
<1>3. \E s \in {Null, set} : allSettings = [g \in Live!Groups |-> IF g = "g" THEN set ELSE s]
  BY DEF Live!DashboardInit
<1>. HIDE DEF set
<1>4. allSettings \in AllSettings
  BY <1>2, <1>3 DEF AllSettings
<1>5. groups \in Members /\ \A g \in Live!Groups : groups[g] # Null
  BY <1>1, LiveAssumption DEF Live!DashboardInit, Members
<1>6. DashboardTypes
  BY <1>4, <1>5 DEF Live!DashboardInit, DashboardTypes
<1>7. LayoutsInv
  BY DEF Live!DashboardInit, LayoutsInv, Own
<1>8. HeardAsSet
  <2>1. ASSUME NEW c \in LiveCameras PROVE Live!FromSettings(allSettings)[c] = FALSE
    BY <1>2, <1>3 DEF Live!FromSettings, Live!Groups
  <2>. QED  BY <2>1 DEF Live!DashboardInit, HeardAsSet
<1>9. SoundInv
  BY <1>8 DEF Live!DashboardInit, SoundInv, Live!HeardIsChosen
<1>10. GroupsInv
  BY <1>5 DEF Live!DashboardInit, GroupsInv, WillRead, GroupKept, Live!Groups
<1>. QED  BY <1>6, <1>7, <1>9, <1>10 DEF DashboardInv

LEMMA DashboardInvNext == ASSUME DashboardInv, Live!DashboardNext PROVE DashboardInv'
  BY TypesNext, LayoutsNext, SoundNext, GroupsNext DEF DashboardInv

LEMMA DashboardHidden == ASSUME DashboardInv, UNCHANGED dashboardVars PROVE DashboardInv'
<1>1. UNCHANGED <<groups, dashboardConfig, reading, group, stored, ops, gridLayout, loadedKey, isLoaded, currentGridLayout,
                  allSettings, audioStates, dialog, request, chosen, unheard, crossed>>
  BY DEF dashboardVars
<1>. QED  BY <1>1, TypesHidden, LayoutsHidden, SoundHidden, GroupsHidden DEF DashboardInv

LEMMA DashboardOwn == ASSUME DashboardInv PROVE Live!StoredIsOwn /\ Live!HeardIsChosen /\ Live!GroupExists
  BY DEF DashboardInv, LayoutsInv, Own, SoundInv, GroupsInv, GroupKept, Departs, Live!StoredIsOwn, Live!GroupExists

(***************************************************************************)
(* The page of one camera                                                  *)
(***************************************************************************)
\* An event that is being made is not yet open nor ended, and nothing is known of it; while it
\* is, another one is only known or made if both are stray.
MadeOnce ==
    \A r \in Live!Creations :
        /\ r.id \in Live!Ids /\ r.id \notin events /\ r.id # recordingEventId
        /\ \A q \in viewRequests : q.id = r.id => q = r
        /\ recordingEventId = 0 \/ recordingEventId \in stray
        /\ \A q \in Live!Creations : q # r => r.id \in stray
\* While the page is open its button tells whether it knows an event.
ButtonTells == viewPage = "open" => (isRecording <=> recordingEventId # 0)
EventsInv ==
    /\ events \subseteq Live!Ids /\ recordingEventId \in Live!Ids \cup {0} /\ viewRequests \subseteq Live!Request
    /\ viewPage \in {"open", "left", "unloaded"} /\ isRecording \in BOOLEAN
    /\ MadeOnce /\ ButtonTells /\ Live!OpenIsOwn

\* A player that failed was left for a later one.
LeftBehind ==
    /\ "webrtc" \in failedModes => ~webRTC /\ lowBandwidth
    /\ "mse" \in failedModes => webRTC \/ lowBandwidth
ModesInv ==
    /\ {mic, webRTC, lowBandwidth, restreamed, candidates} \subseteq BOOLEAN /\ failedModes \subseteq {"mse", "webrtc"}
    /\ LeftBehind

TextsInv == transcription \in Live!States /\ Live!LastAskWins
ViewInv == EventsInv /\ ModesInv /\ TextsInv /\ Live!CameraObeys

(***************************************************************************)
(* The manual event                                                        *)
(***************************************************************************)
LEMMA NewIsFree ==
    ASSUME NEW i \in Live!Ids, Live!Free(i)
    PROVE  /\ i # 0 /\ i \notin events /\ i \notin stray /\ i # recordingEventId
           /\ \A r \in viewRequests : r.id # i
  BY DEF Live!Free, Live!Seen, Live!Ids

LEMMA CreateKeeps == ASSUME EventsInv, Live!createEvent PROVE EventsInv'
<1>. PICK i \in Live!Ids :
        /\ Live!Free(i)
        /\ viewRequests' = viewRequests \cup {[kind |-> "create", id |-> i]}
        /\ stray' = IF Live!Creations = {} THEN stray ELSE stray \cup {i} \cup {r.id : r \in Live!Creations}
  BY DEF Live!createEvent
<1>1. /\ viewPage = "open" /\ ~isRecording
      /\ UNCHANGED <<viewPage, events, recordingEventId, isRecording>>
  BY DEF Live!createEvent, Live!Acts
<1>2. recordingEventId = 0
  BY <1>1 DEF EventsInv, ButtonTells
<1>. DEFINE n == [kind |-> "create", id |-> i]
<1>3. /\ n \in Live!Request /\ n.id = i /\ n.kind = "create"
      /\ Live!Creations' = Live!Creations \cup {n}
  BY DEF Live!Request, Live!Creations
<1>4. /\ \A r \in Live!Creations : r \in viewRequests /\ r.id # i
      /\ \A r \in Live!Creations : r.id \in stray' /\ i \in stray'
      /\ stray \subseteq stray'
  BY NewIsFree DEF Live!Creations
<1>. HIDE DEF n
<1>5. MadeOnce'
  <2>. SUFFICES ASSUME NEW r \in Live!Creations'
                PROVE  /\ r.id \in Live!Ids /\ r.id \notin events /\ r.id # recordingEventId
                       /\ \A q \in viewRequests' : q.id = r.id => q = r
                       /\ \A q \in Live!Creations' : q # r => r.id \in stray'
    BY <1>1, <1>2 DEF MadeOnce
  <2>1. viewRequests' = viewRequests \cup {n}
    BY DEF n
  <2>2. CASE r = n
    BY <1>3, <1>4, <2>1, <2>2, NewIsFree
  <2>3. CASE r \in Live!Creations
    BY <1>3, <1>4, <2>1, <2>3 DEF EventsInv, MadeOnce
  <2>. QED  BY <1>3, <2>2, <2>3
<1>6. Live!OpenIsOwn'
  BY <1>1, <1>4 DEF EventsInv, Live!OpenIsOwn
<1>7. ButtonTells' /\ viewRequests' \subseteq Live!Request
  BY <1>1, <1>3 DEF EventsInv, ButtonTells, n
<1>. QED  BY <1>1, <1>5, <1>6, <1>7 DEF EventsInv

\* The end that is sent is of an event that is known, which is not one under way.
LEMMA EndIsSent ==
    ASSUME EventsInv, viewRequests' = Live!EndSent(recordingEventId), recordingEventId' = 0,
           UNCHANGED <<events, stray>>, viewPage = "open"
    PROVE  viewRequests' \subseteq Live!Request /\ MadeOnce' /\ Live!OpenIsOwn'
<1>. DEFINE n == [kind |-> "end", id |-> recordingEventId]
<1>1. n \in Live!Request /\ n.kind = "end" /\ n.id = recordingEventId
  BY DEF EventsInv, Live!Request
<1>2. viewRequests' = IF recordingEventId = 0 THEN viewRequests ELSE viewRequests \cup {n}
  BY DEF Live!EndSent
<1>3. recordingEventId # 0 => n \in viewRequests'
  BY <1>2
<1>. HIDE DEF n
<1>4. Live!Creations' = Live!Creations
  BY <1>1, <1>2 DEF Live!Creations
<1>5. MadeOnce'
  <2>. SUFFICES ASSUME NEW r \in Live!Creations
                PROVE  /\ r.id \in Live!Ids /\ r.id \notin events /\ r.id # 0
                       /\ \A q \in viewRequests' : q.id = r.id => q = r
                       /\ \A q \in Live!Creations : q # r => r.id \in stray
    BY <1>4 DEF MadeOnce
  <2>. QED  BY <1>1, <1>2 DEF EventsInv, MadeOnce, Live!Ids
<1>6. Live!OpenIsOwn'
  <2>. SUFFICES ASSUME NEW i \in events \ stray PROVE [kind |-> "end", id |-> i] \in viewRequests'
    BY DEF Live!OpenIsOwn
  <2>1. CASE recordingEventId = i
    <3>1. i # 0
      BY DEF EventsInv, Live!Ids
    <3>. QED  BY <1>3, <2>1, <3>1 DEF n
  <2>2. CASE [kind |-> "end", id |-> i] \in viewRequests
    BY <1>2, <2>2
  <2>. QED  BY <2>1, <2>2 DEF EventsInv, Live!OpenIsOwn
<1>. QED  BY <1>1, <1>2, <1>5, <1>6 DEF EventsInv

LEMMA EndEventKeeps == ASSUME EventsInv, Live!endEvent PROVE EventsInv'
<1>1. /\ viewPage = "open" /\ viewRequests' = Live!EndSent(recordingEventId) /\ recordingEventId' = 0
      /\ isRecording' = FALSE /\ UNCHANGED <<viewPage, events, stray>>
  BY DEF Live!endEvent, Live!Acts
<1>. QED  BY <1>1, EndIsSent DEF EventsInv, ButtonTells

LEMMA LeaveViewKeeps == ASSUME EventsInv, Live!Leave PROVE EventsInv'
<1>1. /\ viewPage = "open" /\ viewRequests' = Live!EndSent(recordingEventId) /\ recordingEventId' = 0
      /\ viewPage' = "left" /\ UNCHANGED <<isRecording, events, stray>>
  BY DEF Live!Leave, Live!EndOnLeave, Live!Acts
<1>. QED  BY <1>1, EndIsSent DEF EventsInv, ButtonTells

LEMMA BeaconKeeps == ASSUME EventsInv, Live!endEventViaBeacon PROVE EventsInv'
<1>1. /\ viewPage = "open" /\ viewPage' = "unloaded" /\ events' = events \ {recordingEventId}
      /\ recordingEventId' = 0 /\ UNCHANGED <<isRecording, viewRequests, stray>>
  BY DEF Live!endEventViaBeacon, Live!Acts
<1>2. Live!Creations' = Live!Creations
  BY <1>1 DEF Live!Creations
<1>3. MadeOnce'
  BY <1>1, <1>2 DEF EventsInv, MadeOnce, Live!Ids
<1>4. Live!OpenIsOwn'
  BY <1>1 DEF EventsInv, Live!OpenIsOwn
<1>. QED  BY <1>1, <1>3, <1>4 DEF EventsInv, ButtonTells

\* A request that is gone takes nothing with it.
LEMMA Fewer ==
    ASSUME EventsInv, NEW r \in viewRequests, viewRequests' = viewRequests \ {r}
    PROVE  viewRequests' \subseteq Live!Request /\ Live!Creations' = Live!Creations \ {r}
  BY DEF EventsInv, Live!Creations

LEMMA CreateAnswerKeeps == ASSUME EventsInv, NEW r, Live!CreateAnswer(r) PROVE EventsInv'
<1>1. /\ r \in viewRequests /\ r.kind = "create" /\ viewPage # "unloaded"
      /\ events' = events \cup {r.id} /\ viewRequests' = viewRequests \ {r}
      /\ recordingEventId' = r.id /\ isRecording' = (viewPage = "open")
      /\ stray' = IF viewPage = "open" THEN stray ELSE stray \cup {r.id}
      /\ viewPage' = viewPage
  BY DEF Live!CreateAnswer, Live!Quiet
<1>2. r \in Live!Creations
  BY <1>1 DEF Live!Creations
<1>3. /\ r.id \in Live!Ids /\ r.id # 0 /\ r.id # recordingEventId
      /\ \A q \in viewRequests : q.id = r.id => q = r
      /\ \A q \in Live!Creations : q # r => r.id \in stray /\ q.id \in stray
      /\ recordingEventId = 0 \/ recordingEventId \in stray
  BY <1>2 DEF EventsInv, MadeOnce, Live!Ids
<1>4. viewRequests' \subseteq Live!Request /\ Live!Creations' = Live!Creations \ {r}
  BY <1>1, Fewer
<1>5. stray \subseteq stray'
  BY <1>1
<1>6. MadeOnce'
  <2>. SUFFICES ASSUME NEW q \in Live!Creations \ {r}
                PROVE  /\ q.id \in Live!Ids /\ q.id \notin events' /\ q.id # r.id
                       /\ \A p \in viewRequests' : p.id = q.id => p = q
                       /\ r.id \in stray'
                       /\ \A p \in Live!Creations \ {r} : p # q => q.id \in stray'
    BY <1>1, <1>4 DEF MadeOnce
  <2>1. q \in viewRequests /\ q.id # r.id
    BY <1>3 DEF Live!Creations
  <2>. QED  BY <1>1, <1>3, <1>5, <2>1 DEF EventsInv, MadeOnce
<1>7. Live!OpenIsOwn'
  <2>. SUFFICES ASSUME NEW i \in events' \ stray'
                PROVE  \/ viewPage = "open" /\ r.id = i
                       \/ [kind |-> "end", id |-> i] \in viewRequests'
    BY <1>1 DEF Live!OpenIsOwn
  <2>1. CASE i = r.id
    BY <1>1, <2>1
  <2>2. CASE i \in events \ stray
    <3>1. i # recordingEventId
      BY <1>3, <2>2 DEF EventsInv, Live!Ids
    <3>2. [kind |-> "end", id |-> i] \in viewRequests
      BY <2>2, <3>1 DEF EventsInv, Live!OpenIsOwn
    <3>. QED  BY <1>1, <3>2
  <2>. QED  BY <1>1, <1>5, <2>1, <2>2
<1>. QED  BY <1>1, <1>3, <1>4, <1>6, <1>7 DEF EventsInv, ButtonTells

LEMMA ServerAloneKeeps == ASSUME EventsInv, NEW r, Live!ServerAlone(r) PROVE EventsInv'
<1>1. /\ r \in viewRequests /\ viewPage = "unloaded" /\ viewRequests' = viewRequests \ {r}
      /\ events' = IF r.kind = "create" THEN events \cup {r.id} ELSE events \ {r.id}
      /\ stray' = IF r.kind = "create" THEN stray \cup {r.id} ELSE stray
      /\ UNCHANGED <<viewPage, recordingEventId, isRecording>>
  BY DEF Live!ServerAlone, Live!Quiet
<1>2. viewRequests' \subseteq Live!Request /\ Live!Creations' = Live!Creations \ {r}
  BY <1>1, Fewer
<1>3. \A q \in Live!Creations \ {r} : q \in viewRequests /\ q.id # r.id
  BY <1>1 DEF EventsInv, MadeOnce, Live!Creations
<1>4. r.kind = "create" => r.id \in Live!Ids
  BY <1>1 DEF EventsInv, MadeOnce, Live!Creations
<1>5. MadeOnce'
  <2>. SUFFICES ASSUME NEW q \in Live!Creations \ {r}
                PROVE  /\ q.id \in Live!Ids /\ q.id \notin events' /\ q.id # recordingEventId
                       /\ \A p \in viewRequests' : p.id = q.id => p = q
                       /\ recordingEventId = 0 \/ recordingEventId \in stray'
                       /\ \A p \in Live!Creations \ {r} : p # q => q.id \in stray'
    BY <1>1, <1>2 DEF MadeOnce
  <2>. QED  BY <1>1, <1>3 DEF EventsInv, MadeOnce
<1>6. Live!OpenIsOwn'
  <2>. SUFFICES ASSUME NEW i \in events' \ stray' PROVE [kind |-> "end", id |-> i] \in viewRequests'
    BY DEF Live!OpenIsOwn
  <2>1. i \in events \ stray /\ i # r.id
    BY <1>1
  <2>2. [kind |-> "end", id |-> i] \in viewRequests
    BY <1>1, <2>1 DEF EventsInv, Live!OpenIsOwn
  <2>. QED  BY <1>1, <2>1, <2>2
<1>. QED  BY <1>1, <1>2, <1>4, <1>5, <1>6 DEF EventsInv, ButtonTells

LEMMA EndDoneKeeps == ASSUME EventsInv, NEW r, Live!EndDone(r) PROVE EventsInv'
<1>1. /\ r \in viewRequests /\ r.kind = "end" /\ viewRequests' = viewRequests \ {r} /\ events' = events \ {r.id}
      /\ UNCHANGED <<viewPage, recordingEventId, isRecording, stray>>
  BY DEF Live!EndDone, Live!Quiet
<1>2. viewRequests' \subseteq Live!Request /\ Live!Creations' = Live!Creations
  BY <1>1, Fewer DEF Live!Creations
<1>3. MadeOnce'
  BY <1>1, <1>2 DEF EventsInv, MadeOnce
<1>4. Live!OpenIsOwn'
  <2>. SUFFICES ASSUME NEW i \in events' \ stray
                PROVE  \/ viewPage = "open" /\ isRecording /\ recordingEventId = i
                       \/ [kind |-> "end", id |-> i] \in viewRequests'
    BY <1>1 DEF Live!OpenIsOwn
  <2>1. i \in events \ stray /\ i # r.id
    BY <1>1
  <2>. QED  BY <1>1, <2>1 DEF EventsInv, Live!OpenIsOwn
<1>. QED  BY <1>1, <1>2, <1>3, <1>4 DEF EventsInv, ButtonTells

LEMMA RequestFailsKeeps == ASSUME EventsInv, NEW r, Live!RequestFails(r) PROVE EventsInv'
<1>1. /\ r \in viewRequests /\ viewRequests' = viewRequests \ {r}
      /\ stray' = IF r.kind = "end" THEN stray \cup {r.id} ELSE stray
      /\ UNCHANGED <<viewPage, events, recordingEventId, isRecording>>
  BY DEF Live!RequestFails, Live!Quiet
<1>2. viewRequests' \subseteq Live!Request /\ Live!Creations' = Live!Creations \ {r} /\ stray \subseteq stray'
  BY <1>1, Fewer
<1>3. MadeOnce'
  <2>. SUFFICES ASSUME NEW q \in Live!Creations \ {r}
                PROVE  /\ q.id \in Live!Ids /\ q.id \notin events /\ q.id # recordingEventId
                       /\ \A p \in viewRequests' : p.id = q.id => p = q
                       /\ recordingEventId = 0 \/ recordingEventId \in stray'
                       /\ \A p \in Live!Creations \ {r} : p # q => q.id \in stray'
    BY <1>1, <1>2 DEF MadeOnce
  <2>. QED  BY <1>1, <1>2 DEF EventsInv, MadeOnce
<1>4. Live!OpenIsOwn'
  <2>. SUFFICES ASSUME NEW i \in events \ stray'
                PROVE  \/ viewPage = "open" /\ isRecording /\ recordingEventId = i
                       \/ [kind |-> "end", id |-> i] \in viewRequests'
    BY <1>1 DEF Live!OpenIsOwn
  <2>1. i \in events \ stray /\ r # [kind |-> "end", id |-> i]
    BY <1>1
  <2>. QED  BY <1>1, <2>1 DEF EventsInv, Live!OpenIsOwn
<1>. QED  BY <1>1, <1>2, <1>3, <1>4 DEF EventsInv, ButtonTells

LEMMA EventsHidden ==
    ASSUME EventsInv, UNCHANGED <<viewPage, events, recordingEventId, isRecording, viewRequests, stray>>
    PROVE  EventsInv'
<1>1. Live!Creations' = Live!Creations
  BY DEF Live!Creations
<1>. QED  BY <1>1 DEF EventsInv, MadeOnce, ButtonTells, Live!OpenIsOwn

LEMMA EventsNext == ASSUME EventsInv, Live!ViewNext PROVE EventsInv'
<1>1. CASE Live!createEvent \/ Live!endEvent \/ Live!Leave \/ Live!endEventViaBeacon
  BY <1>1, CreateKeeps, EndEventKeeps, LeaveViewKeeps, BeaconKeeps
<1>2. CASE \E r \in viewRequests : Live!CreateAnswer(r) \/ Live!ServerAlone(r) \/ Live!EndDone(r) \/ Live!RequestFails(r)
  BY <1>2, CreateAnswerKeeps, ServerAloneKeeps, EndDoneKeeps, RequestFailsKeeps
<1>3. CASE Live!handleError \/ Live!ResetLowBandwidth \/ Live!ToggleMic \/ (\E s \in Live!Streams : Live!SelectStream(s)) \/ Live!ToggleDebug
  BY <1>3, EventsHidden
     DEF Live!handleError, Live!ResetLowBandwidth, Live!ToggleMic, Live!SelectStream, Live!ToggleDebug, Live!Acts, Live!eventVars
<1>4. CASE Live!sendTranscription \/ (\E s \in Live!States : Live!OtherSends(s)) \/ Live!TranscriptionTold
  BY <1>4, EventsHidden DEF Live!sendTranscription, Live!OtherSends, Live!TranscriptionTold, Live!Acts, Live!Quiet, Live!eventVars
<1>5. CASE (\E k \in Live!Keys \cup {"1", "button"} : Live!Press(k) \/ Live!Release(k)) \/ Live!ReleaseElsewhere
  BY <1>5, EventsHidden DEF Live!Press, Live!Release, Live!ReleaseElsewhere, Live!Acts, Live!Quiet, Live!eventVars
<1>. QED  BY <1>1, <1>2, <1>3, <1>4, <1>5 DEF Live!ViewNext

(***************************************************************************)
(* The player                                                              *)
(***************************************************************************)
LEMMA ErrorKeeps == ASSUME ModesInv, Live!handleError PROVE ModesInv'
<1>1. /\ Live!preferredLiveMode # "jsmpeg" /\ Live!Fallback
      /\ failedModes' = IF mic THEN {} ELSE failedModes \cup {Live!preferredLiveMode}
      /\ UNCHANGED <<mic, restreamed, candidates>>
  BY DEF Live!handleError, Live!viewConfig
<1>2. {webRTC', lowBandwidth'} \subseteq BOOLEAN
  BY <1>1 DEF Live!Fallback, ModesInv
<1>3. CASE mic
  BY <1>1, <1>2, <1>3 DEF ModesInv, LeftBehind
<1>4. CASE ~mic /\ webRTC
  <2>1. Live!preferredLiveMode = "webrtc" /\ ~webRTC' /\ lowBandwidth'
    BY <1>1, <1>4 DEF Live!preferredLiveMode, Live!Fallback
  <2>. QED  BY <1>1, <1>2, <1>4, <2>1 DEF ModesInv, LeftBehind
<1>5. CASE ~mic /\ ~webRTC
  <2>1. Live!preferredLiveMode = "mse" /\ ~lowBandwidth
    BY <1>1, <1>5 DEF Live!preferredLiveMode
  <2>2. webRTC' \/ lowBandwidth'
    BY <1>1 DEF Live!Fallback
  <2>3. "webrtc" \notin failedModes'
    BY <1>1, <1>5, <2>1 DEF ModesInv, LeftBehind
  <2>. QED  BY <1>1, <1>2, <1>5, <2>1, <2>2, <2>3 DEF ModesInv, LeftBehind
<1>. QED  BY <1>3, <1>4, <1>5 DEF ModesInv

LEMMA ModesHidden == ASSUME ModesInv, UNCHANGED <<webRTC, lowBandwidth, restreamed, candidates, failedModes>>, mic' \in BOOLEAN PROVE ModesInv'
  BY DEF ModesInv, LeftBehind

LEMMA ModesNext == ASSUME ModesInv, Live!ViewNext PROVE ModesInv'
<1>1. CASE Live!createEvent \/ Live!endEvent \/ Live!Leave \/ Live!endEventViaBeacon
  BY <1>1, ModesHidden
     DEF Live!createEvent, Live!endEvent, Live!Leave, Live!endEventViaBeacon, Live!Acts, Live!modeVars, Live!viewConfig, ModesInv
<1>2. CASE \E r \in viewRequests : Live!CreateAnswer(r) \/ Live!ServerAlone(r) \/ Live!EndDone(r) \/ Live!RequestFails(r)
  BY <1>2, ModesHidden
     DEF Live!CreateAnswer, Live!ServerAlone, Live!EndDone, Live!RequestFails, Live!Quiet, Live!modeVars, Live!viewConfig, ModesInv
<1>3. CASE Live!ResetLowBandwidth
  <2>1. lowBandwidth' = FALSE /\ failedModes' = {} /\ UNCHANGED <<mic, webRTC, restreamed, candidates>>
    BY <1>3 DEF Live!ResetLowBandwidth, Live!Acts, Live!viewConfig
  <2>. QED  BY <2>1 DEF ModesInv, LeftBehind
<1>4. CASE Live!ToggleMic
  <2>1. mic' = ~mic /\ UNCHANGED <<webRTC, lowBandwidth, failedModes, restreamed, candidates>>
    BY <1>4 DEF Live!ToggleMic, Live!Acts, Live!viewConfig
  <2>. QED  BY <2>1, ModesHidden
<1>5. CASE (\E s \in Live!Streams : Live!SelectStream(s)) \/ Live!ToggleDebug
  BY <1>5, ModesHidden DEF Live!SelectStream, Live!ToggleDebug, Live!Acts, Live!modeVars, Live!viewConfig, ModesInv
<1>6. CASE Live!sendTranscription \/ (\E s \in Live!States : Live!OtherSends(s)) \/ Live!TranscriptionTold
  BY <1>6, ModesHidden
     DEF Live!sendTranscription, Live!OtherSends, Live!TranscriptionTold, Live!Acts, Live!Quiet, Live!modeVars, Live!viewConfig, ModesInv
<1>7. CASE (\E k \in Live!Keys \cup {"1", "button"} : Live!Press(k) \/ Live!Release(k)) \/ Live!ReleaseElsewhere
  BY <1>7, ModesHidden DEF Live!Press, Live!Release, Live!ReleaseElsewhere, Live!Acts, Live!Quiet, Live!modeVars, Live!viewConfig, ModesInv
<1>. QED  BY <1>1, <1>2, <1>3, <1>4, <1>5, <1>6, <1>7, ErrorKeeps DEF Live!ViewNext

\* A player that failed is not one to fall back to.
LEMMA LeftIsLeft == ASSUME ModesInv PROVE Live!FailedIsLeft
  BY DEF ModesInv, LeftBehind, Live!FailedIsLeft, Live!preferredLiveMode

(***************************************************************************)
(* The transcription and the camera                                        *)
(***************************************************************************)
LEMMA TextsNext == ASSUME TextsInv, Live!ViewNext PROVE TextsInv'
<1>. USE DEF TextsInv, Live!LastAskWins
<1>1. CASE Live!Leave
  BY <1>1 DEF Live!Leave, Live!States
<1>2. CASE Live!createEvent \/ Live!endEvent \/ Live!endEventViaBeacon
  BY <1>2 DEF Live!createEvent, Live!endEvent, Live!endEventViaBeacon, Live!textVars
<1>3. CASE \E r \in viewRequests : Live!CreateAnswer(r) \/ Live!ServerAlone(r) \/ Live!EndDone(r) \/ Live!RequestFails(r)
  BY <1>3 DEF Live!CreateAnswer, Live!ServerAlone, Live!EndDone, Live!RequestFails, Live!textVars
<1>4. CASE Live!handleError \/ Live!ResetLowBandwidth \/ Live!ToggleMic \/ (\E s \in Live!Streams : Live!SelectStream(s)) \/ Live!ToggleDebug
  BY <1>4 DEF Live!handleError, Live!ResetLowBandwidth, Live!ToggleMic, Live!SelectStream, Live!ToggleDebug, Live!textVars
<1>5. CASE Live!sendTranscription \/ (\E s \in Live!States : Live!OtherSends(s))
  BY <1>5 DEF Live!sendTranscription, Live!OtherSends, Live!Set, Live!States
<1>6. CASE Live!TranscriptionTold
  BY <1>6 DEF Live!TranscriptionTold, Live!WasOn, Live!States
<1>7. CASE (\E k \in Live!Keys \cup {"1", "button"} : Live!Press(k) \/ Live!Release(k)) \/ Live!ReleaseElsewhere
  BY <1>7 DEF Live!Press, Live!Release, Live!ReleaseElsewhere, Live!textVars
<1>. QED  BY <1>1, <1>2, <1>3, <1>4, <1>5, <1>6, <1>7 DEF Live!ViewNext

LEMMA MovesNext == ASSUME Live!CameraObeys, Live!ViewNext PROVE Live!CameraObeys'
<1>. USE DEF Live!CameraObeys
<1>1. CASE Live!createEvent \/ Live!endEvent \/ Live!Leave \/ Live!endEventViaBeacon
  BY <1>1 DEF Live!createEvent, Live!endEvent, Live!Leave, Live!endEventViaBeacon, Live!ptzVars
<1>2. CASE \E r \in viewRequests : Live!CreateAnswer(r) \/ Live!ServerAlone(r) \/ Live!EndDone(r) \/ Live!RequestFails(r)
  BY <1>2 DEF Live!CreateAnswer, Live!ServerAlone, Live!EndDone, Live!RequestFails, Live!ptzVars
<1>3. CASE Live!handleError \/ Live!ResetLowBandwidth \/ Live!ToggleMic \/ (\E s \in Live!Streams : Live!SelectStream(s)) \/ Live!ToggleDebug
  BY <1>3 DEF Live!handleError, Live!ResetLowBandwidth, Live!ToggleMic, Live!SelectStream, Live!ToggleDebug, Live!ptzVars
<1>4. CASE Live!sendTranscription \/ (\E s \in Live!States : Live!OtherSends(s)) \/ Live!TranscriptionTold
  BY <1>4 DEF Live!sendTranscription, Live!OtherSends, Live!TranscriptionTold, Live!ptzVars
<1>5. CASE (\E k \in Live!Keys \cup {"1", "button"} : Live!Press(k) \/ Live!Release(k)) \/ Live!ReleaseElsewhere
  BY <1>5 DEF Live!Press, Live!Release, Live!ReleaseElsewhere, Live!Send, Live!StopFor
<1>. QED  BY <1>1, <1>2, <1>3, <1>4, <1>5 DEF Live!ViewNext

LEMMA ViewInvInit == ASSUME Live!ViewInit PROVE ViewInv
<1>1. EventsInv
  BY DEF Live!ViewInit, EventsInv, MadeOnce, ButtonTells, Live!OpenIsOwn, Live!Creations
<1>2. ModesInv
  BY DEF Live!ViewInit, ModesInv, LeftBehind
<1>. QED  BY <1>1, <1>2 DEF Live!ViewInit, ViewInv, TextsInv, Live!LastAskWins, Live!CameraObeys

LEMMA ViewInvNext == ASSUME ViewInv, Live!ViewNext PROVE ViewInv'
  BY EventsNext, ModesNext, TextsNext, MovesNext DEF ViewInv

LEMMA ViewHidden == ASSUME ViewInv, UNCHANGED viewVars PROVE ViewInv'
<1>1. UNCHANGED <<restreamed, candidates, viewPage, events, recordingEventId, isRecording, viewRequests, stray, mic, webRTC,
                  lowBandwidth, failedModes, transcription, viewAsked, moving, aim>>
  BY DEF viewVars
<1>2. EventsInv'
  BY <1>1, EventsHidden DEF ViewInv
<1>3. ModesInv'
  BY <1>1, ModesHidden DEF ViewInv, ModesInv
<1>. QED  BY <1>1, <1>2, <1>3 DEF ViewInv, TextsInv, Live!LastAskWins, Live!CameraObeys

DashboardInForce == (shown = "dashboard" => DashboardInv) /\ (shown = "view" => ViewInv)

\* What the browser keeps of a dashboard was made in the group it is kept for, whichever group was
\* shown while it loaded; what is heard was chosen last; the group shown exists.  On the page of a
\* camera no event is left open, no player that failed is taken again, the transcription is what
\* was asked for last and the camera does what the last key says.  Each but for the cases named in
\* LiveDashboard and CameraView, for any cameras, and any number of actions.
THEOREM DashboardsAreOwn == Spec => []DashboardAgrees
<1>1. Init => DashboardInForce
  BY DashboardInvInit, ViewInvInit DEF Init, DashboardInForce
<1>2. DashboardInForce /\ [Next]_vars => DashboardInForce'
  <2>. SUFFICES ASSUME DashboardInForce, [Next]_vars PROVE DashboardInForce'
    OBVIOUS
  <2>1. shown' = shown
    BY DEF Next, vars
  <2>2. ASSUME shown = "dashboard" PROVE DashboardInv'
    <3>1. Live!DashboardNext \/ UNCHANGED dashboardVars
      BY <2>2 DEF Next, vars
    <3>. QED  BY <2>2, <3>1, DashboardInvNext, DashboardHidden DEF DashboardInForce
  <2>3. ASSUME shown = "view" PROVE ViewInv'
    <3>1. Live!ViewNext \/ UNCHANGED viewVars
      BY <2>3 DEF Next, vars
    <3>. QED  BY <2>3, <3>1, ViewInvNext, ViewHidden DEF DashboardInForce
  <2>. QED  BY <2>1, <2>2, <2>3 DEF DashboardInForce
<1>3. DashboardInForce => DashboardAgrees
  BY DashboardOwn, LeftIsLeft DEF DashboardInForce, DashboardAgrees, ViewInv, EventsInv, TextsInv
<1>. QED  BY <1>1, <1>2, <1>3, PTL DEF Spec
=============================================================================
