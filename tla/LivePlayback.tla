---------------------------- MODULE LivePlayback ----------------------------
(***************************************************************************)
(* One live camera on screen: LivePlayer decides whether a stream plays,   *)
(* one of three players (MSE, WebRTC, JSMpeg) plays it, and the view above *)
(* (dashboard or single camera) falls back to another player on errors.    *)
(*                                                                         *)
(* A browser event runs to its end with the renders and effects it causes, *)
(* as one step.  What is left of the order inside a step matters only      *)
(* where a callback keeps values of an older render; those places carry a  *)
(* comment.  Durations are left out: a timer is armed or not.              *)
(***************************************************************************)
EXTENDS Naturals, FiniteSets

CONSTANTS
    MaxFaults,   \* bound: failed or broken connections and media errors
    MaxUses      \* bound: changes made by the user, the camera or the config

VARIABLES
    setup,   \* what does not change: view, browser and configuration
    card,    \* LivePlayer and the state of the view that concerns the camera
    visible, \* document.visibilityState
    mse,     \* refs, state and timers of MSEPlayer
    rtc,     \* refs and timers of WebRTCPlayer, and what became of its connections
    js,      \* JSMpegPlayer
    faults, uses

vars == <<setup, card, visible, mse, rtc, js, faults, uses>>

Modes == {"mse", "webrtc", "jsmpeg"}
Errors == {"startup", "stalled", "mse-decode"}

Setups == [view : {"dashboard", "single"}, restreamed : BOOLEAN,
           mseSupported : BOOLEAN, safari : BOOLEAN, candidates : BOOLEAN]

NoMse == [sock |-> "none", opening |-> "none", startTimer |-> FALSE,
          answered |-> FALSE, stall |-> "none", playing |-> FALSE, errors |-> 0]
NoRtc == [prep |-> FALSE, stale |-> 0, cur |-> "none", loadTimer |-> FALSE, stall |-> FALSE,
          gone |-> 0, lost |-> 0, overtaken |-> 0]

TypeOK ==
    /\ setup \in Setups
    /\ card \in [on : BOOLEAN, activity : BOOLEAN, mode : Modes, key : {0, 1},
                 liveReady : BOOLEAN, mic : BOOLEAN, webRTC : BOOLEAN,
                 lowBandwidth : BOOLEAN, metadata : BOOLEAN]
    /\ visible \in BOOLEAN
    /\ mse \in [sock : {"none", "connecting", "open", "dead"},
                opening : {"none", "own", "old"}, startTimer : BOOLEAN,
                answered : BOOLEAN, stall : {"none", "own", "old"},
                playing : BOOLEAN, errors : 0..4]
    /\ rtc \in [prep : BOOLEAN, stale : Nat, cur : {"none", "own", "stale"},
                loadTimer : BOOLEAN, stall : BOOLEAN,
                gone : Nat, lost : Nat, overtaken : Nat]
    /\ js \in {"none", "init", "on"}
    /\ faults \in 0..MaxFaults /\ uses \in 0..MaxUses

(***************************************************************************)
(* The view and LivePlayer                                                 *)
(***************************************************************************)
\* useCameraLiveMode: the mode a dashboard starts a camera with.
DefaultMode ==
    IF ~setup.restreamed THEN "jsmpeg"
    ELSE IF setup.mseSupported THEN "mse" ELSE "webrtc"

\* LiveCameraView: preferredLiveMode.
SingleMode(c) ==
    IF c.mic THEN "webrtc"
    ELSE IF c.webRTC THEN IF setup.restreamed THEN "webrtc" ELSE "jsmpeg"
    ELSE IF c.lowBandwidth THEN "jsmpeg"
    ELSE IF ~setup.mseSupported THEN "webrtc"
    ELSE DefaultMode

ModeOf(c) == IF setup.view = "dashboard" THEN c.mode ELSE SingleMode(c)

\* The single view shows the stream whatever happens in front of the camera.
CameraActive(c, v) == setup.view = "single" \/ (v /\ c.activity)

\* playbackEnabled, and which player the card renders under which key.
Enabled(c, v) == CameraActive(c, v) \/ c.liveReady
Kind(c) == IF c.on THEN ModeOf(c) ELSE "none"
Player(c) == <<Kind(c), c.key>>

\* mutant: the error taken for the mode
MutErrorAsMode(c, error) == [c EXCEPT !.mode = error]

\* handleError of the dashboard and of the single view.
handleError(c, error) ==
    IF setup.view = "dashboard"
    THEN [c EXCEPT !.mode = IF error = "mse-decode" THEN "webrtc" ELSE "jsmpeg"]
    ELSE IF ~c.webRTC /\ setup.candidates
    THEN [c EXCEPT !.webRTC = TRUE]
    ELSE [c EXCEPT !.webRTC = FALSE, !.lowBandwidth = TRUE]

\* mutant
MutNoReset(c) == c

resetPreferredLiveMode(c) ==
    IF setup.view = "dashboard" THEN [c EXCEPT !.mode = DefaultMode] ELSE c

(***************************************************************************)
(* MSEPlayer: functions of its refs                                        *)
(***************************************************************************)
onConnect(m) ==
    IF m.sock # "none" THEN m ELSE [m EXCEPT !.sock = "connecting"]

\* onDisconnect as called with the current render's bufferTimeout.
onDisconnect(m) ==
    [m EXCEPT !.sock = "none", !.startTimer = FALSE, !.playing = FALSE,
              !.stall = "none",
              !.opening = IF @ = "none" THEN @ ELSE "old"]

\* mutant: the socket stays
MutKeepsSocket(m) == [m EXCEPT !.startTimer = FALSE, !.playing = FALSE]

\* onDisconnect of an older render (the cleanup of the playbackEnabled effect,
\* the catch of sendWithTimeout): bufferTimeout is not the timer that is armed
\* now, which stays and from here on times a connection that is gone.
onDisconnectOld(m) ==
    [onDisconnect(m) EXCEPT !.stall = IF m.stall = "none" THEN "none" ELSE "old"]

\* Unmounting: the timers find no video element any more; only a source that
\* is just opening still calls back.
MseUnmounted(m) == [NoMse EXCEPT !.opening = onDisconnect(m).opening]

\* What the effects do when the card goes from c to d.
MseAfter(m, c, d, v, w) ==
    IF Player(c) # Player(d)
    THEN IF Kind(d) = "mse" /\ Enabled(d, w)
         THEN onConnect(MseUnmounted(m)) ELSE MseUnmounted(m)
    ELSE IF Kind(d) # "mse" \/ Enabled(c, v) = Enabled(d, w) THEN m
    ELSE IF Enabled(d, w) THEN onConnect(m) ELSE onDisconnectOld(m)

(***************************************************************************)
(* WebRTCPlayer: the peer connection is prepared before the socket exists  *)
(***************************************************************************)
RtcConnect(r) == [r EXCEPT !.prep = TRUE]

\* The cleanup closes what the refs hold; a preparation goes on without it
\* (overtaken counts these) and will still set the refs.
Going(r) == IF r.prep THEN 1 ELSE 0
RtcCleanup(r) ==
    [r EXCEPT !.cur = "none", !.prep = FALSE,
              !.stale = @ + Going(r), !.overtaken = @ + Going(r)]

\* Unmounting: preparations that go on set refs nobody looks at any more.
RtcUnmounted(r) ==
    [NoRtc EXCEPT !.gone = r.gone + r.stale + Going(r),
                  !.lost = r.lost, !.overtaken = r.overtaken + Going(r)]

RtcMounted(r, enabled) ==
    LET fresh == [RtcUnmounted(r) EXCEPT !.loadTimer = TRUE]
    IN  IF enabled THEN RtcConnect(fresh) ELSE fresh

RtcAfter(r, c, d, v, w) ==
    IF Player(c) # Player(d)
    THEN IF Kind(d) = "webrtc" THEN RtcMounted(r, Enabled(d, w))
         ELSE RtcUnmounted(r)
    ELSE IF Kind(d) # "webrtc" THEN r
    ELSE IF Enabled(d, w) # Enabled(c, v)
    THEN IF Enabled(d, w) THEN RtcConnect(r) ELSE RtcCleanup(r)
    \* the effect also depends on microphoneEnabled
    ELSE IF c.mic # d.mic /\ Enabled(d, w) THEN RtcConnect(RtcCleanup(r))
    ELSE r

\* JSMpegPlayer is rendered only while enabled, and starts after a timeout.
JsAfter(j, c, d, v, w) ==
    IF Kind(d) # "jsmpeg" \/ ~Enabled(d, w) THEN "none"
    ELSE IF Player(c) = Player(d) /\ Enabled(c, v) THEN j ELSE "init"

\* The card renders as d, with the refs m and r the event left behind.  A new
\* mode takes liveReady back in an effect, after the new player has mounted.
Render(m, r, d, w) ==
    LET e == IF ModeOf(d) # ModeOf(card) THEN [d EXCEPT !.liveReady = FALSE] ELSE d
    IN  /\ card' = e
        /\ mse' = MseAfter(MseAfter(m, card, d, visible, w), d, e, w, w)
        /\ rtc' = RtcAfter(RtcAfter(r, card, d, visible, w), d, e, w, w)
        /\ js' = JsAfter(JsAfter(js, card, d, visible, w), d, e, w, w)
        /\ visible' = w

Show(d) == Render(mse, rtc, d, visible)
Fault == faults < MaxFaults /\ faults' = faults + 1
Use == uses < MaxUses /\ uses' = uses + 1

Init ==
    /\ setup \in Setups
    /\ card = [on |-> TRUE, activity |-> FALSE, mode |-> DefaultMode, key |-> 0,
               liveReady |-> FALSE, mic |-> FALSE, webRTC |-> FALSE,
               lowBandwidth |-> FALSE, metadata |-> FALSE]
    /\ visible = TRUE
    /\ LET enabled == setup.view = "single"
           is(mode) == ModeOf(card) = mode
       IN  /\ mse = IF enabled /\ is("mse") THEN onConnect(NoMse) ELSE NoMse
           /\ rtc = IF is("webrtc") THEN RtcMounted(NoRtc, enabled) ELSE NoRtc
           /\ js = IF enabled /\ is("jsmpeg") THEN "init" ELSE "none"
    /\ faults = 0 /\ uses = 0

(***************************************************************************)
(* What happens around the player                                          *)
(***************************************************************************)
ActivityChange ==
    /\ setup.view = "dashboard" /\ Use
    /\ Show([card EXCEPT !.activity = ~@])
    /\ UNCHANGED <<setup, faults>>

\* 500 ms without activity: the still image comes back, the mode is reset.
IdleTimeout ==
    /\ card.on /\ card.liveReady /\ ~CameraActive(card, visible)
    /\ Show(resetPreferredLiveMode([card EXCEPT !.liveReady = FALSE]))
    /\ UNCHANGED <<setup, faults, uses>>

\* The tab is hidden or shown: the MSE player's listener first, then the
\* dashboard's, whose windowVisible makes useCameraLiveMode start afresh.
VisibilityChange ==
    /\ Use
    /\ LET listening == Kind(card) = "mse" /\ Enabled(card, visible)
           m == IF ~listening THEN mse
                ELSE IF visible THEN onDisconnect(mse) ELSE onConnect(mse)
       IN  Render(m, rtc, resetPreferredLiveMode(card), ~visible)
    /\ UNCHANGED <<setup, faults>>

\* The metadata of the streams arrives late, once: useCameraLiveMode again.
MetadataLoaded ==
    /\ setup.restreamed /\ ~card.metadata
    /\ Show(resetPreferredLiveMode([card EXCEPT !.metadata = TRUE]))
    /\ UNCHANGED <<setup, faults, uses>>

\* Another stream is picked (a new key, and new activeStreams), or the camera
\* is turned off or on.
StreamChange ==
    /\ visible /\ Use
    /\ Show(resetPreferredLiveMode([card EXCEPT !.key = 1 - @, !.liveReady = FALSE]))
    /\ UNCHANGED <<setup, faults>>

CameraEnabledChange ==
    /\ Use
    /\ Show([card EXCEPT !.on = ~@, !.key = 1 - @, !.liveReady = FALSE])
    /\ UNCHANGED <<setup, faults>>

\* The microphone button of the single view.
MicToggle ==
    /\ setup.view = "single" /\ setup.restreamed /\ visible /\ Use
    /\ Show([card EXCEPT !.mic = ~@])
    /\ UNCHANGED <<setup, faults>>

\* The reset button of the single view, and of the dashboard's menu.
ResetMode ==
    /\ visible /\ Use
    /\ Show(resetPreferredLiveMode([card EXCEPT !.webRTC = FALSE, !.lowBandwidth = FALSE]))
    /\ UNCHANGED <<setup, faults>>

(***************************************************************************)
(* MSEPlayer: events                                                       *)
(***************************************************************************)
Quietly(m) == mse' = m /\ UNCHANGED <<setup, card, visible, rtc, js, uses>>
Fail(m, error) ==
    /\ Render(m, rtc, handleError(card, error), visible)
    /\ UNCHANGED <<setup, uses>>

\* onOpen: a new MediaSource, attached by onMse.
MseOpen ==
    /\ mse.sock = "connecting"
    /\ Quietly([mse EXCEPT !.sock = "open", !.opening = "own", !.answered = FALSE])
    /\ UNCHANGED faults

\* The socket fails or is closed.  onClose was handed to the socket by the
\* onConnect of the first render, whose wsState is CLOSED: it returns.
MseClosed ==
    /\ mse.sock \in {"connecting", "open"} /\ Fault
    /\ Quietly([mse EXCEPT !.sock = "dead"])

\* mutant: the codecs are sent without a timeout
MutNoStartTimer ==
    /\ mse.opening # "none"
    /\ Quietly([mse EXCEPT !.opening = "none"])
    /\ UNCHANGED faults

\* sourceopen of this or an earlier connection: sendWithTimeout.
SourceOpen ==
    /\ mse.opening # "none"
    /\ LET m == [mse EXCEPT !.opening = "none"]
           error == IF setup.safari THEN "mse-decode" ELSE "startup"
       IN  IF mse.sock = "open"
           THEN Quietly([m EXCEPT !.startTimer = ~mse.answered])
           \* rejected: on Safari reported even without a connection
           ELSE IF mse.sock # "none" \/ setup.safari
           THEN Fail(onDisconnectOld(m), error)
           ELSE Quietly(m)
    /\ UNCHANGED faults

\* The answer to the codecs; adding the source buffer may fail on Safari.
MseAnswer ==
    /\ mse.sock = "open" /\ mse.startTimer
    /\ LET m == [mse EXCEPT !.answered = TRUE, !.startTimer = FALSE]
       IN  \/ Quietly(m) /\ UNCHANGED faults
           \/ setup.safari /\ Fault /\ Fail(onDisconnectOld(m), "mse-decode")

StartTimeout ==
    /\ mse.startTimer
    /\ Fail(onDisconnectOld(mse), IF setup.safari THEN "mse-decode" ELSE "startup")
    /\ UNCHANGED faults

\* onLoadedData, or onProgress with more than 3 seconds buffered.
MsePlaying ==
    /\ mse.sock = "open" /\ mse.answered /\ Enabled(card, visible)
    /\ ~mse.playing
    /\ Render([mse EXCEPT !.playing = TRUE], rtc, [card EXCEPT !.liveReady = TRUE], visible)
    /\ UNCHANGED <<setup, faults, uses>>

\* onProgress clears the timer it knows of and arms it again.
MseProgress ==
    /\ mse.sock = "open" /\ mse.answered /\ mse.stall # "own"
    /\ Quietly([mse EXCEPT !.stall = "own"])
    /\ UNCHANGED faults

\* onProgress with more than 10 seconds buffered.
MseOverrun ==
    /\ mse.sock = "open" /\ mse.playing /\ Enabled(card, visible) /\ Fault
    /\ Fail(onDisconnect(mse), "stalled")

\* mutant: only an open socket is given up
MutStallOpenOnly ==
    /\ mse.stall # "none"
    /\ IF visible /\ mse.sock = "open"
       THEN Fail(onDisconnect(mse), "stalled")
       ELSE Quietly([mse EXCEPT !.stall = "none"])
    /\ UNCHANGED faults

\* The buffer timer: nothing was loaded for a while, or the timer is older
\* than the connection.
StallTimeout ==
    /\ mse.stall # "none"
    /\ IF visible /\ mse.sock # "none"
       THEN Fail(onDisconnect(mse), "stalled")
       ELSE Quietly([mse EXCEPT !.stall = "none"])
    /\ UNCHANGED faults

\* onError of the video element.  After the first cases the socket is gone;
\* in the last onDisconnect has marked the disconnect as intended, so that
\* reconnect(5000) returns at once.
MseMediaError(kind) ==
    /\ Kind(card) = "mse" /\ mse.answered /\ Fault
    /\ LET m == [onDisconnect(mse) EXCEPT !.errors = IF @ < 4 THEN @ + 1 ELSE @]
       IN  IF kind = "network" THEN Fail(m, "startup")
           ELSE IF setup.safari THEN Fail(m, "mse-decode")
           ELSE IF mse.sock = "none" \/ mse.errors < 3 THEN Quietly(m)
           ELSE Fail(m, "startup")

(***************************************************************************)
(* WebRTCPlayer and JSMpegPlayer: events                                   *)
(***************************************************************************)
RtcQuietly(r) == rtc' = r /\ UNCHANGED <<setup, card, visible, mse, js, faults, uses>>
RtcFail(r) ==
    /\ Render(mse, r, handleError(card, "stalled"), visible)
    /\ UNCHANGED <<setup, faults, uses>>

\* await aPc ends: the refs and the socket are set, whoever waited for them, and
\* what the refs held is lost without being closed.  With the microphone, the
\* preparation of a player that is gone fails on its video element instead.
Replaced == [rtc EXCEPT !.lost = IF rtc.cur = "none" THEN @ ELSE @ + 1]
RtcPrepared ==
    \/ rtc.prep /\ RtcQuietly([Replaced EXCEPT !.prep = FALSE, !.cur = "own"])
    \/ rtc.stale > 0 /\ RtcQuietly([Replaced EXCEPT !.stale = @ - 1, !.cur = "stale"])
    \/ rtc.gone > 0 /\ \E opened \in {0, 1} :
          RtcQuietly([rtc EXCEPT !.gone = @ - 1, !.lost = @ + opened])

RtcLoaded ==
    /\ rtc.cur # "none" /\ Enabled(card, visible) /\ ~card.liveReady
    /\ Render(mse, [rtc EXCEPT !.loadTimer = FALSE], [card EXCEPT !.liveReady = TRUE], visible)
    /\ UNCHANGED <<setup, faults, uses>>

RtcProgress ==
    /\ rtc.cur # "none" /\ ~rtc.stall
    /\ RtcQuietly([rtc EXCEPT !.stall = TRUE])

\* The load timer runs from the mount on, enabled or not.
RtcLoadTimeout == rtc.loadTimer /\ RtcFail([rtc EXCEPT !.loadTimer = FALSE])

RtcStallTimeout ==
    /\ rtc.stall
    /\ IF visible /\ rtc.cur # "none"
       THEN RtcFail([rtc EXCEPT !.stall = FALSE])
       ELSE RtcQuietly([rtc EXCEPT !.stall = FALSE])

JsStart ==
    /\ js = "init" /\ js' = "on"
    /\ UNCHANGED <<setup, card, visible, mse, rtc, faults, uses>>

\* onVideoDecode: the first picture.
JsDecode ==
    /\ js = "on" /\ ~card.liveReady
    /\ Show([card EXCEPT !.liveReady = TRUE])
    /\ UNCHANGED <<setup, faults, uses>>

(***************************************************************************)
Around ==
    \/ ActivityChange \/ IdleTimeout \/ VisibilityChange \/ MetadataLoaded
    \/ StreamChange \/ CameraEnabledChange \/ MicToggle \/ ResetMode
MseStep ==
    \/ MseOpen \/ MseClosed \/ SourceOpen \/ MseAnswer \/ StartTimeout
    \/ MsePlaying \/ MseProgress \/ MseOverrun \/ StallTimeout
    \/ \E kind \in {"network", "decode"} : MseMediaError(kind)
OtherStep ==
    \/ RtcPrepared \/ RtcLoaded \/ RtcProgress \/ RtcLoadTimeout
    \/ RtcStallTimeout \/ JsStart \/ JsDecode
Next == Around \/ MseStep \/ OtherStep

\* Timers fire and the browser opens the source it was given.
Fairness ==
    /\ WF_vars(IdleTimeout) /\ WF_vars(SourceOpen)
    /\ WF_vars(StartTimeout) /\ WF_vars(StallTimeout)

Spec == Init /\ [][Next]_vars /\ Fairness

(***************************************************************************)
(* Properties                                                              *)
(***************************************************************************)
\* WebRTC connections that are open with no enabled player: those no ref holds
\* any more, and the one in the refs of a player that is not enabled.
Watched(c, v) == Kind(c) = "webrtc" /\ Enabled(c, v)
Unwatched ==
    rtc.lost + (IF rtc.cur # "none" /\ ~Watched(card, visible) THEN 1 ELSE 0)

\* An MSE socket is only open in an enabled MSE player, on a dashboard of a visible
\* tab; JSMpeg only runs in an enabled JSMpeg player.  (JSMpeg and WebRTC may
\* play on behind a hidden dashboard until the card goes idle.)  WebRTC does leak:
\* a preparation overtaken by its cleanup opens a connection later, which nobody
\* closes.  But each overtaken preparation leaves one connection at most, and
\* nothing else leaves any, however preparations, renders and cleanups cross.
NoLeak ==
    /\ mse.sock # "none" => /\ Kind(card) = "mse" /\ Enabled(card, visible)
                            /\ setup.view = "dashboard" => visible
    /\ js # "none" => Kind(card) = "jsmpeg" /\ Enabled(card, visible)
    /\ Unwatched <= rtc.overtaken

\* A stream that played and whose connection died is given up, unless the tab
\* is hidden when its timer fires.
Died == mse.sock = "dead" /\ mse.stall = "own"
GivenUp == mse.sock # "dead" \/ ~visible
DeadFallsBack == Died ~> GivenUp

\* On a dashboard the fallback to JSMpeg ends when activity does, once it has
\* played.  (A WebRTC fallback may end in JSMpeg instead when it stalls within
\* the idle time; liveReady is taken back and no reset follows.)
FallenBack ==
    setup.view = "dashboard" /\ card.mode = "jsmpeg" /\ DefaultMode # "jsmpeg"
FallbackDone == FallenBack /\ card.on /\ card.liveReady /\ ~CameraActive(card, visible)
FallbackLeft == ~FallenBack \/ ~card.on \/ CameraActive(card, visible)
FallbackEnds == FallbackDone ~> FallbackLeft
=============================================================================
