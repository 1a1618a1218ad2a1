------------------------- MODULE LivePlaybackProofs -------------------------
(***************************************************************************)
(* Which streams of a live camera may be left running behind a player that *)
(* is gone or disabled: none but one for each WebRTC preparation overtaken *)
(* by its cleanup.  This is what LivePlayback.NoLeak says, for any number  *)
(* of faults and of changes by the user.                                   *)
(***************************************************************************)
EXTENDS LivePlayback, TLAPS

\* The bounds of an instance are numbers.
BoundsAreNumbers == MaxFaults \in Nat /\ MaxUses \in Nat

Cards ==
    [on : BOOLEAN, activity : BOOLEAN, mode : Modes, key : {0, 1},
     liveReady : BOOLEAN, mic : BOOLEAN, webRTC : BOOLEAN,
     lowBandwidth : BOOLEAN, metadata : BOOLEAN]
Mses ==
    [sock : {"none", "connecting", "open", "dead"}, opening : {"none", "own", "old"},
     startTimer : BOOLEAN, answered : BOOLEAN, stall : {"none", "own", "old"},
     playing : BOOLEAN, errors : 0..4]
Rtcs ==
    [prep : BOOLEAN, stale : Nat, cur : {"none", "own", "stale"},
     loadTimer : BOOLEAN, stall : BOOLEAN, gone : Nat, lost : Nat, overtaken : Nat]
PlayerTypes == card \in Cards /\ visible \in BOOLEAN /\ mse \in Mses /\ rtc \in Rtcs
               /\ js \in {"none", "init", "on"}

\* What the refs hold of an overtaken preparation while no enabled player is there
\* to watch it, or while the next one is on its way to take its place.
Adrift(r, c, v) == r.cur = "stale" /\ (r.prep \/ ~Watched(c, v))
Budgeted(r, c, v) ==
    r.lost + r.stale + r.gone + (IF Adrift(r, c, v) THEN 1 ELSE 0) <= r.overtaken

\* A socket, a peer connection or its preparation, and a JSMpeg player belong
\* to the player the card c renders, which is enabled; every overtaken preparation
\* is to come, or adrift, or lost, once.
SocketHeld(m, c, v) == m.sock # "none" => Kind(c) = "mse" /\ Enabled(c, v)
PeerHeld(r, c, v) ==
    /\ r.prep \/ r.cur = "own" => Watched(c, v)
    /\ ~(r.prep /\ r.cur = "own")
    /\ Budgeted(r, c, v)
JsHeld(j, c, v) == j # "none" => Kind(c) = "jsmpeg" /\ Enabled(c, v)

\* A hidden dashboard has closed its sockets.
HiddenIsClosed == setup.view = "dashboard" /\ ~visible => mse.sock = "none"

HeldInv ==
    /\ SocketHeld(mse, card, visible)
    /\ PeerHeld(rtc, card, visible)
    /\ JsHeld(js, card, visible)
    /\ HiddenIsClosed

(***************************************************************************)
(* What the effects of a render do to the players                          *)
(***************************************************************************)
\* The refs of the MSE player stay refs whatever is called on them.
LEMMA MseRefs ==
    ASSUME NEW m \in Mses
    PROVE  /\ NoMse \in Mses /\ MseUnmounted(m) \in Mses
           /\ onConnect(m) \in Mses /\ onConnect(m).sock # "none"
           /\ onDisconnect(m) \in Mses /\ onDisconnect(m).sock = "none"
           /\ onDisconnectOld(m) \in Mses /\ onDisconnectOld(m).sock = "none"
           /\ MseUnmounted(m).sock = "none" /\ onConnect(MseUnmounted(m)) \in Mses
<1>1. NoMse \in Mses
  BY DEF NoMse, Mses
<1>2. onDisconnect(m) \in Mses /\ onDisconnect(m).sock = "none"
  BY DEF onDisconnect, Mses
<1>3. onDisconnectOld(m) \in Mses /\ onDisconnectOld(m).sock = "none"
  BY <1>2 DEF onDisconnectOld, Mses
<1>4. MseUnmounted(m) \in Mses /\ MseUnmounted(m).sock = "none"
  BY <1>1, <1>2 DEF MseUnmounted, NoMse, Mses
<1>5. \A n \in Mses : onConnect(n) \in Mses /\ onConnect(n).sock # "none"
  BY DEF onConnect, Mses
<1>. QED  BY <1>1, <1>2, <1>3, <1>4, <1>5

\* After a render the socket belongs to the player that is on screen then.
LEMMA SocketFollows ==
    ASSUME NEW m \in Mses, NEW c \in Cards, NEW d \in Cards,
           NEW v \in BOOLEAN, NEW w \in BOOLEAN, SocketHeld(m, c, v)
    PROVE  MseAfter(m, c, d, v, w) \in Mses /\ SocketHeld(MseAfter(m, c, d, v, w), d, w)
<1>1. CASE Player(c) # Player(d)
  BY <1>1, MseRefs DEF MseAfter, SocketHeld
<1>2. CASE Player(c) = Player(d)
  <2>1. Kind(c) = Kind(d)
    BY <1>2 DEF Player
  <2>. QED  BY <1>2, <2>1, MseRefs DEF MseAfter, SocketHeld
<1>. QED  BY <1>1, <1>2

\* What connecting, cleaning up and unmounting do to the count.
LEMMA PeerRefs ==
    ASSUME NEW r \in Rtcs, NEW c, NEW v, PeerHeld(r, c, v)
    PROVE  /\ RtcCleanup(r) \in Rtcs /\ RtcUnmounted(r) \in Rtcs
           /\ \A s \in {RtcCleanup(r), RtcUnmounted(r)} :
                ~s.prep /\ s.cur = "none" /\ s.lost + s.stale + s.gone <= s.overtaken
           /\ \A s \in Rtcs : /\ RtcConnect(s) \in Rtcs
                              /\ RtcConnect(s) = [s EXCEPT !.prep = TRUE]
<1>1. /\ r.stale \in Nat /\ r.gone \in Nat /\ r.lost \in Nat /\ r.overtaken \in Nat
      /\ Going(r) \in {0, 1}
      /\ r.stale + Going(r) \in Nat /\ r.overtaken + Going(r) \in Nat
      /\ r.gone + r.stale + Going(r) \in Nat
  BY DEF Rtcs, Going
<1>2. r.lost + r.stale + r.gone <= r.overtaken
  BY <1>1 DEF PeerHeld, Budgeted
<1>3. RtcCleanup(r) = [r EXCEPT !.cur = "none", !.prep = FALSE,
                          !.stale = r.stale + Going(r), !.overtaken = r.overtaken + Going(r)]
  BY DEF RtcCleanup
<1>. DEFINE s == RtcCleanup(r)
            u == RtcUnmounted(r)
<1>5. s \in Rtcs /\ ~s.prep /\ s.cur = "none" /\ s.lost = r.lost /\ s.gone = r.gone
      /\ s.stale = r.stale + Going(r) /\ s.overtaken = r.overtaken + Going(r)
  BY <1>1, <1>3 DEF Rtcs
<1>6. u \in Rtcs /\ ~u.prep /\ u.cur = "none" /\ u.lost = r.lost /\ u.stale = 0
      /\ u.gone = r.gone + r.stale + Going(r) /\ u.overtaken = r.overtaken + Going(r)
  BY <1>1 DEF RtcUnmounted, NoRtc, Rtcs
<1>. HIDE DEF s, u
<1>7. s.lost + s.stale + s.gone <= s.overtaken /\ u.lost + u.stale + u.gone <= u.overtaken
  BY <1>1, <1>2, <1>5, <1>6
<1>8. ASSUME NEW t \in Rtcs
      PROVE  RtcConnect(t) \in Rtcs /\ RtcConnect(t) = [t EXCEPT !.prep = TRUE]
  BY DEF RtcConnect, Rtcs
<1>. QED  BY <1>5, <1>6, <1>7, <1>8 DEF s, u

\* A player that mounts has empty refs, and prepares a connection if enabled.
LEMMA MountedRefs ==
    ASSUME NEW r \in Rtcs, NEW c, NEW v, PeerHeld(r, c, v), NEW e \in BOOLEAN
    PROVE  LET s == RtcMounted(r, e)
           IN  /\ s \in Rtcs /\ s.prep = e /\ s.cur = "none"
               /\ s.lost + s.stale + s.gone <= s.overtaken
<1>. DEFINE u == RtcUnmounted(r)
            fresh == [u EXCEPT !.loadTimer = TRUE]
<1>1. u \in Rtcs /\ ~u.prep /\ u.cur = "none" /\ u.lost + u.stale + u.gone <= u.overtaken
  BY PeerRefs
<1>. HIDE DEF u
<1>2. /\ fresh \in Rtcs /\ fresh.prep = FALSE /\ fresh.cur = "none"
      /\ fresh.lost + fresh.stale + fresh.gone <= fresh.overtaken
  BY <1>1 DEF Rtcs
<1>3. RtcMounted(r, e) = IF e THEN RtcConnect(fresh) ELSE fresh
  BY DEF RtcMounted, u
<1>. HIDE DEF fresh
<1>. QED  BY <1>2, <1>3 DEF RtcConnect, Rtcs

\* With nothing in the refs, nothing is adrift.
LEMMA EmptyHeld ==
    ASSUME NEW s \in Rtcs, NEW c, NEW v, s.cur = "none",
           s.lost + s.stale + s.gone <= s.overtaken, s.prep => Watched(c, v)
    PROVE  PeerHeld(s, c, v)
<1>1. s.lost + s.stale + s.gone + 0 = s.lost + s.stale + s.gone
  BY DEF Rtcs
<1>. QED  BY <1>1 DEF PeerHeld, Budgeted, Adrift

\* After a render the peer connection belongs to the player on screen as well.
LEMMA PeerFollows ==
    ASSUME NEW r \in Rtcs, NEW c \in Cards, NEW d \in Cards,
           NEW v \in BOOLEAN, NEW w \in BOOLEAN, PeerHeld(r, c, v)
    PROVE  RtcAfter(r, c, d, v, w) \in Rtcs /\ PeerHeld(RtcAfter(r, c, d, v, w), d, w)
<1>1. PeerHeld(RtcCleanup(r), d, w) /\ PeerHeld(RtcUnmounted(r), d, w)
  BY PeerRefs, EmptyHeld
<1>2. ASSUME NEW s \in Rtcs, s.cur = "none", PeerHeld(s, d, w), Watched(d, w)
      PROVE  RtcConnect(s) \in Rtcs /\ PeerHeld(RtcConnect(s), d, w)
  <2>1. RtcConnect(s) = [s EXCEPT !.prep = TRUE] /\ RtcConnect(s) \in Rtcs
    BY PeerRefs
  <2>2. RtcConnect(s).cur = "none" /\ RtcConnect(s).lost = s.lost /\ RtcConnect(s).gone = s.gone
        /\ RtcConnect(s).stale = s.stale /\ RtcConnect(s).overtaken = s.overtaken
    BY <1>2, <2>1 DEF Rtcs
  <2>3. s.lost + s.stale + s.gone <= s.overtaken
    BY <1>2 DEF PeerHeld, Budgeted, Adrift, Rtcs
  <2>. QED  BY <1>2, <2>1, <2>2, <2>3, EmptyHeld
<1>3. CASE Player(c) # Player(d)
  <2>1. CASE Kind(d) # "webrtc"
    BY <1>1, <1>3, <2>1, PeerRefs DEF RtcAfter
  <2>2. CASE Kind(d) = "webrtc"
    <3>1. RtcAfter(r, c, d, v, w) = RtcMounted(r, Enabled(d, w)) /\ Enabled(d, w) \in BOOLEAN
      BY <1>3, <2>2 DEF RtcAfter, Enabled, CameraActive, Cards
    <3>. QED  BY <2>2, <3>1, MountedRefs, EmptyHeld DEF Watched
  <2>. QED  BY <2>1, <2>2
<1>4. CASE Player(c) = Player(d)
  <2>1. Kind(c) = Kind(d)
    BY <1>4 DEF Player
  <2>3. CASE Kind(d) # "webrtc"
    <3>1. RtcAfter(r, c, d, v, w) = r /\ ~Watched(c, v) /\ ~Watched(d, w)
      BY <1>4, <2>1, <2>3 DEF RtcAfter, Watched
    <3>. QED  BY <3>1 DEF PeerHeld, Budgeted, Adrift
  <2>4. CASE Kind(d) = "webrtc" /\ Enabled(d, w) /\ ~Enabled(c, v)
    <3>1. RtcAfter(r, c, d, v, w) = RtcConnect(r) /\ ~Watched(c, v) /\ Watched(d, w)
      BY <1>4, <2>1, <2>4 DEF RtcAfter, Watched
    <3>2. RtcConnect(r) = [r EXCEPT !.prep = TRUE] /\ RtcConnect(r) \in Rtcs
      BY PeerRefs
    <3>3. /\ RtcConnect(r).prep /\ RtcConnect(r).cur = r.cur /\ RtcConnect(r).lost = r.lost
          /\ RtcConnect(r).gone = r.gone /\ RtcConnect(r).stale = r.stale
          /\ RtcConnect(r).overtaken = r.overtaken
      BY <3>2 DEF Rtcs
    <3>4. Adrift(r, c, v) <=> Adrift(RtcConnect(r), d, w)
      BY <3>1, <3>3 DEF Adrift
    <3>. QED  BY <3>1, <3>2, <3>3, <3>4 DEF PeerHeld, Budgeted
  <2>5. CASE Kind(d) = "webrtc" /\ ~Enabled(d, w) /\ Enabled(c, v)
    <3>1. RtcAfter(r, c, d, v, w) = RtcCleanup(r)
      BY <1>4, <2>5 DEF RtcAfter
    <3>. QED  BY <1>1, <3>1, PeerRefs
  <2>6. CASE Kind(d) = "webrtc" /\ (Enabled(d, w) <=> Enabled(c, v))
    <3>0. Enabled(d, w) = Enabled(c, v)
      BY <2>6 DEF Enabled, CameraActive, Cards
    <3>1. CASE c.mic # d.mic /\ Enabled(d, w)
      <4>1. RtcAfter(r, c, d, v, w) = RtcConnect(RtcCleanup(r)) /\ Watched(d, w)
        BY <1>4, <2>6, <3>0, <3>1 DEF RtcAfter, Watched
      <4>. QED  BY <1>1, <1>2, <4>1, PeerRefs
    <3>2. CASE ~(c.mic # d.mic /\ Enabled(d, w))
      <4>1. RtcAfter(r, c, d, v, w) = r
        BY <1>4, <2>6, <3>0, <3>2 DEF RtcAfter
      <4>2. Watched(c, v) <=> Watched(d, w)
        BY <2>1, <3>0 DEF Watched
      <4>. QED  BY <4>1, <4>2 DEF PeerHeld, Budgeted, Adrift
    <3>. QED  BY <3>1, <3>2
  <2>. QED  BY <2>3, <2>4, <2>5, <2>6
<1>. QED  BY <1>3, <1>4

\* A JSMpeg player is only rendered enabled.
LEMMA JsFollows ==
    ASSUME NEW j \in {"none", "init", "on"}, NEW c, NEW d, NEW v, NEW w
    PROVE  JsAfter(j, c, d, v, w) \in {"none", "init", "on"}
           /\ JsHeld(JsAfter(j, c, d, v, w), d, w)
BY DEF JsAfter, JsHeld
(***************************************************************************)
(* A render, with all its effects                                          *)
(***************************************************************************)
\* The card renders as d with the refs m and r; a hidden dashboard loads
\* nothing it did not load before.
LEMMA RenderHolds ==
    ASSUME PlayerTypes, NEW m \in Mses, NEW r \in Rtcs, NEW d \in Cards, NEW w \in BOOLEAN,
           SocketHeld(m, card, visible), PeerHeld(r, card, visible),
           setup.view = "dashboard" /\ ~w =>
               /\ m.sock = "none"
               /\ d.liveReady => card.liveReady /\ d.on = card.on /\ d.key = card.key,
           Render(m, r, d, w), setup' = setup
    PROVE  PlayerTypes' /\ HeldInv'
<1>. DEFINE e == IF ModeOf(d) # ModeOf(card) THEN [d EXCEPT !.liveReady = FALSE] ELSE d
            m1 == MseAfter(m, card, d, visible, w)
            r1 == RtcAfter(r, card, d, visible, w)
            j1 == JsAfter(js, card, d, visible, w)
<1>1. /\ card' = e /\ visible' = w
      /\ mse' = MseAfter(m1, d, e, w, w)
      /\ rtc' = RtcAfter(r1, d, e, w, w)
      /\ js' = JsAfter(j1, d, e, w, w)
  BY DEF Render
<1>2. e \in Cards
  BY DEF Cards
<1>3. m1 \in Mses /\ SocketHeld(m1, d, w)
  BY SocketFollows DEF PlayerTypes
<1>4. r1 \in Rtcs /\ PeerHeld(r1, d, w)
  BY PeerFollows DEF PlayerTypes
<1>5. j1 \in {"none", "init", "on"}
  BY JsFollows DEF PlayerTypes
<1>6. setup.view = "dashboard" /\ ~w => MseAfter(m1, d, e, w, w).sock = "none"
  <2>. SUFFICES ASSUME setup.view = "dashboard", ~w,
                       SocketHeld(MseAfter(m1, d, e, w, w), e, w),
                       MseAfter(m1, d, e, w, w).sock # "none"
                PROVE  FALSE
    BY <1>2, <1>3, SocketFollows
  <2>1. e.liveReady
    BY DEF SocketHeld, Enabled, CameraActive
  <2>2. e = d /\ ModeOf(d) = ModeOf(card)
    BY <2>1 DEF Cards
  <2>3. MseAfter(m1, d, e, w, w) = m1
    BY <2>2 DEF MseAfter
  <2>4. d.liveReady /\ card.liveReady /\ d.on = card.on /\ d.key = card.key /\ m.sock = "none"
    BY <2>1, <2>2
  <2>5. Player(d) = Player(card)
    BY <2>2, <2>4 DEF Player, Kind
  <2>6. Enabled(d, w) = Enabled(card, visible)
    BY <2>4 DEF Enabled, PlayerTypes, Cards
  <2>7. m1 = m
    BY <2>5, <2>6 DEF MseAfter
  <2>. QED  BY <2>3, <2>4, <2>7
<1>. HIDE DEF e, m1, r1, j1
<1>7. SocketHeld(mse', e, w) /\ mse' \in Mses
  BY <1>1, <1>2, <1>3, SocketFollows
<1>8. PeerHeld(rtc', e, w) /\ rtc' \in Rtcs
  BY <1>1, <1>2, <1>4, PeerFollows
<1>9. JsHeld(js', e, w) /\ js' \in {"none", "init", "on"}
  BY <1>1, <1>5, JsFollows
<1>10. PlayerTypes'
  BY <1>1, <1>2, <1>7, <1>8, <1>9 DEF PlayerTypes
<1>11. HeldInv'
  BY <1>1, <1>6, <1>7, <1>8, <1>9
     DEF HeldInv, SocketHeld, PeerHeld, Budgeted, Adrift, Watched, JsHeld, HiddenIsClosed,
         Kind, ModeOf, SingleMode, DefaultMode, Enabled, CameraActive
<1>. QED  BY <1>10, <1>11
LiveInv == setup \in Setups /\ PlayerTypes /\ HeldInv

\* Nothing but a picture that plays makes a card ready, and what it becomes on
\* an error or at a reset is a card again.
LEMMA CardsStayCards ==
    ASSUME setup \in Setups, NEW c \in Cards
    PROVE  /\ DefaultMode \in Modes
           /\ resetPreferredLiveMode(c) \in Cards
           /\ resetPreferredLiveMode(c).liveReady = c.liveReady
           /\ resetPreferredLiveMode(c).on = c.on
           /\ resetPreferredLiveMode(c).key = c.key
           /\ \A error \in Errors :
                /\ handleError(c, error) \in Cards
                /\ handleError(c, error).liveReady = c.liveReady
                /\ handleError(c, error).on = c.on
                /\ handleError(c, error).key = c.key
<1>1. DefaultMode \in Modes
  BY DEF DefaultMode, Modes
<1>2. /\ resetPreferredLiveMode(c) \in Cards
      /\ resetPreferredLiveMode(c).liveReady = c.liveReady
      /\ resetPreferredLiveMode(c).on = c.on
      /\ resetPreferredLiveMode(c).key = c.key
  BY <1>1 DEF resetPreferredLiveMode, Cards
<1>3. ASSUME NEW error \in Errors
      PROVE  /\ handleError(c, error) \in Cards
             /\ handleError(c, error).liveReady = c.liveReady
             /\ handleError(c, error).on = c.on
             /\ handleError(c, error).key = c.key
  <2>. DEFINE next == IF error = "mse-decode" THEN "webrtc" ELSE "jsmpeg"
  <2>1. next \in Modes
    BY DEF Modes
  <2>. HIDE DEF next
  <2>2. CASE setup.view = "dashboard"
    <3>1. handleError(c, error) = [c EXCEPT !.mode = next]
      BY <2>2 DEF handleError, next
    <3>. QED  BY <3>1, <2>1 DEF Cards
  <2>3. CASE setup.view # "dashboard"
    BY <2>3 DEF handleError, Cards
  <2>. QED  BY <2>2, <2>3
<1>. QED  BY <1>1, <1>2, <1>3

\* A render with the socket and the peer connection kept or given up, in which
\* a hidden dashboard shows no new picture.
LEMMA KeepsHeld ==
    ASSUME LiveInv, NEW m \in Mses, m.sock \in {"none", mse.sock},
           NEW r \in Rtcs, r = rtc \/ PeerHeld(r, card, visible),
           NEW d \in Cards,
           d.liveReady => \/ visible \/ setup.view # "dashboard"
                          \/ card.liveReady /\ d.on = card.on /\ d.key = card.key,
           Render(m, r, d, visible), setup' = setup
    PROVE  LiveInv'
<1>1. visible \in BOOLEAN
  BY DEF LiveInv, PlayerTypes
<1>2. SocketHeld(m, card, visible) /\ PeerHeld(r, card, visible)
  BY DEF LiveInv, HeldInv, SocketHeld
<1>3. setup.view = "dashboard" /\ ~visible =>
        /\ m.sock = "none"
        /\ d.liveReady => card.liveReady /\ d.on = card.on /\ d.key = card.key
  BY DEF LiveInv, HeldInv, HiddenIsClosed
<1>. QED  BY <1>1, <1>2, <1>3, RenderHolds DEF LiveInv

\* An error a player reports: the view falls back, the refs keep or drop what
\* they hold.
LEMMA FailHolds ==
    ASSUME LiveInv, NEW m \in Mses, m.sock \in {"none", mse.sock},
           NEW r \in Rtcs, r = rtc \/ PeerHeld(r, card, visible),
           NEW error \in Errors,
           Render(m, r, handleError(card, error), visible), setup' = setup
    PROVE  LiveInv'
BY KeepsHeld, CardsStayCards DEF LiveInv, PlayerTypes

\* The refs of the MSE player change and nothing is rendered.
LEMMA QuietHolds ==
    ASSUME LiveInv, NEW m \in Mses, Quietly(m),
           m.sock # "none" => mse.sock # "none"
    PROVE  LiveInv'
BY DEF LiveInv, PlayerTypes, HeldInv, Quietly, SocketHeld, PeerHeld, Budgeted, Adrift, Watched, JsHeld,
       HiddenIsClosed, Kind, ModeOf, SingleMode, DefaultMode, Enabled, CameraActive

\* The refs of the WebRTC player change and nothing is rendered.
LEMMA RtcQuietHolds ==
    ASSUME LiveInv, NEW r \in Rtcs, RtcQuietly(r), PeerHeld(r, card, visible)
    PROVE  LiveInv'
BY DEF LiveInv, PlayerTypes, HeldInv, RtcQuietly, SocketHeld, PeerHeld, Budgeted, Adrift, Watched, JsHeld,
       HiddenIsClosed, Kind, ModeOf, SingleMode, DefaultMode, Enabled, CameraActive

(***************************************************************************)
(* What happens around the player                                          *)
(***************************************************************************)
LEMMA InitHolds == Init => LiveInv
<1>. SUFFICES ASSUME Init PROVE LiveInv
  OBVIOUS
<1>1. card \in Cards /\ setup \in Setups /\ visible = TRUE
  <2>1. DefaultMode \in Modes
    BY DEF DefaultMode, Modes
  <2>. QED  BY <2>1 DEF Init, Cards
<1>2. NoMse \in Mses /\ onConnect(NoMse) \in Mses /\ NoMse.sock = "none"
  <2>1. NoMse \in Mses /\ NoMse.sock = "none"
    BY DEF NoMse, Mses
  <2>. QED  BY <2>1, MseRefs
<1>3. /\ NoRtc \in Rtcs /\ ~NoRtc.prep /\ NoRtc.cur = "none"
      /\ NoRtc.lost + NoRtc.stale + NoRtc.gone <= NoRtc.overtaken
  BY DEF NoRtc, Rtcs
<1>4. ASSUME NEW e \in BOOLEAN
      PROVE  LET r == RtcMounted(NoRtc, e)
             IN  /\ r \in Rtcs /\ r.prep = e /\ r.cur = "none"
                 /\ r.lost + r.stale + r.gone <= r.overtaken
  BY <1>3, EmptyHeld, MountedRefs
<1>. DEFINE enabled == setup.view = "single"
<1>5. /\ mse = IF enabled /\ ModeOf(card) = "mse" THEN onConnect(NoMse) ELSE NoMse
      /\ rtc = IF ModeOf(card) = "webrtc" THEN RtcMounted(NoRtc, enabled) ELSE NoRtc
      /\ js = IF enabled /\ ModeOf(card) = "jsmpeg" THEN "init" ELSE "none"
  BY DEF Init
<1>6. /\ Kind(card) = ModeOf(card)
      /\ enabled => Enabled(card, visible)
  BY DEF Init, Kind, Enabled, CameraActive
<1>7. enabled \in BOOLEAN
  OBVIOUS
<1>8. PlayerTypes
  BY <1>1, <1>2, <1>3, <1>4, <1>5, <1>7 DEF PlayerTypes
<1>9. SocketHeld(mse, card, visible) /\ JsHeld(js, card, visible)
  BY <1>2, <1>5, <1>6 DEF SocketHeld, JsHeld
<1>10. PeerHeld(rtc, card, visible)
  BY <1>3, <1>4, <1>5, <1>6, <1>7, EmptyHeld DEF Watched
<1>11. HiddenIsClosed
  BY <1>1 DEF HiddenIsClosed
<1>. QED  BY <1>1, <1>8, <1>9, <1>10, <1>11 DEF LiveInv, HeldInv

\* The tab is hidden or shown: the listener of the player closes the socket
\* before the dashboard renders.
LEMMA VisibilityHolds == LiveInv /\ VisibilityChange => LiveInv'
<1>. SUFFICES ASSUME LiveInv, VisibilityChange PROVE LiveInv'
  OBVIOUS
<1>. DEFINE listening == Kind(card) = "mse" /\ Enabled(card, visible)
            m == IF ~listening THEN mse
                 ELSE IF visible THEN onDisconnect(mse) ELSE onConnect(mse)
            d == resetPreferredLiveMode(card)
<1>1. Render(m, rtc, d, ~visible) /\ setup' = setup
  BY DEF VisibilityChange
<1>2. mse \in Mses /\ rtc \in Rtcs /\ card \in Cards /\ visible \in BOOLEAN /\ PlayerTypes
  BY DEF LiveInv, PlayerTypes
<1>3. m \in Mses
  BY <1>2, MseRefs
<1>4. SocketHeld(m, card, visible)
  BY <1>2, MseRefs DEF SocketHeld, LiveInv, HeldInv
<1>5. PeerHeld(rtc, card, visible)
  BY DEF LiveInv, HeldInv
<1>6. d \in Cards /\ d.liveReady = card.liveReady /\ d.on = card.on /\ d.key = card.key
  BY <1>2, CardsStayCards DEF LiveInv
<1>7. visible => m.sock = "none"
  BY <1>2, MseRefs DEF LiveInv, HeldInv, SocketHeld
<1>8. (~visible) \in BOOLEAN
  BY <1>2
<1>. HIDE DEF m, d
<1>9. PlayerTypes' /\ HeldInv'
  BY <1>1, <1>2, <1>3, <1>4, <1>5, <1>6, <1>7, <1>8, RenderHolds
<1>. QED  BY <1>1, <1>9 DEF LiveInv

LEMMA AroundHolds == LiveInv /\ Around => LiveInv'
<1>. SUFFICES ASSUME LiveInv, Around PROVE LiveInv'
  OBVIOUS
<1>0. mse \in Mses /\ rtc \in Rtcs /\ card \in Cards /\ visible \in BOOLEAN /\ setup \in Setups
  BY DEF LiveInv, PlayerTypes
<1>1. CASE ActivityChange
  <2>1. [card EXCEPT !.activity = ~@] \in Cards
    BY <1>0 DEF Cards
  <2>. QED  BY <1>0, <1>1, <2>1, KeepsHeld DEF ActivityChange, Show, Cards
<1>2. CASE IdleTimeout
  <2>. DEFINE c == [card EXCEPT !.liveReady = FALSE]
  <2>1. c \in Cards /\ ~c.liveReady
    BY <1>0 DEF Cards
  <2>2. Render(mse, rtc, resetPreferredLiveMode(c), visible) /\ setup' = setup
    BY <1>2 DEF IdleTimeout, Show
  <2>. HIDE DEF c
  <2>. QED  BY <1>0, <2>1, <2>2, KeepsHeld, CardsStayCards
<1>3. CASE VisibilityChange
  BY <1>3, VisibilityHolds
<1>4. CASE MetadataLoaded
  <2>. DEFINE c == [card EXCEPT !.metadata = TRUE]
  <2>1. c \in Cards /\ c.liveReady = card.liveReady /\ c.on = card.on /\ c.key = card.key
    BY <1>0 DEF Cards
  <2>2. Render(mse, rtc, resetPreferredLiveMode(c), visible) /\ setup' = setup
    BY <1>4 DEF MetadataLoaded, Show
  <2>. HIDE DEF c
  <2>. QED  BY <1>0, <2>1, <2>2, KeepsHeld, CardsStayCards
<1>5. CASE StreamChange
  <2>. DEFINE c == [card EXCEPT !.key = 1 - @, !.liveReady = FALSE]
  <2>0. 1 - card.key \in {0, 1}
    BY <1>0 DEF Cards
  <2>1. c \in Cards
    BY <1>0, <2>0 DEF Cards
  <2>2. Render(mse, rtc, resetPreferredLiveMode(c), visible) /\ setup' = setup /\ visible
    BY <1>5 DEF StreamChange, Show
  <2>. HIDE DEF c
  <2>. QED  BY <1>0, <2>1, <2>2, KeepsHeld, CardsStayCards
<1>6. CASE CameraEnabledChange
  <2>. DEFINE c == [card EXCEPT !.on = ~@, !.key = 1 - @, !.liveReady = FALSE]
  <2>0. 1 - card.key \in {0, 1}
    BY <1>0 DEF Cards
  <2>1. c \in Cards /\ ~c.liveReady
    BY <1>0, <2>0 DEF Cards
  <2>2. Render(mse, rtc, c, visible) /\ setup' = setup
    BY <1>6 DEF CameraEnabledChange, Show
  <2>. HIDE DEF c
  <2>. QED  BY <1>0, <2>1, <2>2, KeepsHeld
<1>7. CASE MicToggle
  <2>. DEFINE c == [card EXCEPT !.mic = ~@]
  <2>1. c \in Cards
    BY <1>0 DEF Cards
  <2>2. Render(mse, rtc, c, visible) /\ setup' = setup /\ visible
    BY <1>7 DEF MicToggle, Show
  <2>. HIDE DEF c
  <2>. QED  BY <1>0, <2>1, <2>2, KeepsHeld
<1>8. CASE ResetMode
  <2>. DEFINE c == [card EXCEPT !.webRTC = FALSE, !.lowBandwidth = FALSE]
  <2>1. c \in Cards
    BY <1>0 DEF Cards
  <2>2. Render(mse, rtc, resetPreferredLiveMode(c), visible) /\ setup' = setup /\ visible
    BY <1>8 DEF ResetMode, Show
  <2>. HIDE DEF c
  <2>. QED  BY <1>0, <2>1, <2>2, KeepsHeld, CardsStayCards
<1>. QED  BY <1>1, <1>2, <1>3, <1>4, <1>5, <1>6, <1>7, <1>8 DEF Around
(***************************************************************************)
(* The players' events                                                     *)
(***************************************************************************)
LEMMA MseStepHolds == LiveInv /\ MseStep => LiveInv'
<1>. SUFFICES ASSUME LiveInv, MseStep PROVE LiveInv'
  OBVIOUS
<1>0. mse \in Mses /\ rtc \in Rtcs /\ card \in Cards /\ visible \in BOOLEAN /\ setup \in Setups
  BY DEF LiveInv, PlayerTypes
<1>1. CASE MseOpen
  <2>. DEFINE m == [mse EXCEPT !.sock = "open", !.opening = "own", !.answered = FALSE]
  <2>1. m \in Mses /\ Quietly(m) /\ mse.sock # "none"
    BY <1>0, <1>1 DEF MseOpen, Mses
  <2>. QED  BY <2>1, QuietHolds
<1>2. CASE MseClosed
  <2>. DEFINE m == [mse EXCEPT !.sock = "dead"]
  <2>1. m \in Mses /\ Quietly(m) /\ mse.sock # "none"
    BY <1>0, <1>2 DEF MseClosed, Mses
  <2>. QED  BY <2>1, QuietHolds
<1>3. CASE SourceOpen
  <2>. DEFINE m == [mse EXCEPT !.opening = "none"]
              n == [m EXCEPT !.startTimer = ~mse.answered]
              error == IF setup.safari THEN "mse-decode" ELSE "startup"
  <2>1. m \in Mses /\ m.sock = mse.sock
    BY <1>0 DEF Mses
  <2>2. n \in Mses /\ n.sock = mse.sock
    BY <1>0, <2>1 DEF Mses
  <2>3. error \in Errors
    BY DEF Errors
  <2>4. onDisconnectOld(m) \in Mses /\ onDisconnectOld(m).sock = "none"
    BY <2>1, MseRefs
  <2>5. Quietly(n) \/ Fail(onDisconnectOld(m), error) \/ Quietly(m)
    BY <1>3 DEF SourceOpen
  <2>. HIDE DEF m, n, error
  <2>6. CASE Quietly(n)
    BY <2>2, <2>6, QuietHolds
  <2>7. CASE Quietly(m)
    BY <2>1, <2>7, QuietHolds
  <2>8. CASE Fail(onDisconnectOld(m), error)
    BY <1>0, <2>3, <2>4, <2>8, FailHolds DEF Fail
  <2>. QED  BY <2>5, <2>6, <2>7, <2>8
<1>4. CASE MseAnswer
  <2>. DEFINE m == [mse EXCEPT !.answered = TRUE, !.startTimer = FALSE]
  <2>1. m \in Mses /\ m.sock = mse.sock
    BY <1>0 DEF Mses
  <2>2. onDisconnectOld(m) \in Mses /\ onDisconnectOld(m).sock = "none"
    BY <2>1, MseRefs
  <2>3. Quietly(m) \/ Fail(onDisconnectOld(m), "mse-decode")
    BY <1>4 DEF MseAnswer
  <2>. HIDE DEF m
  <2>4. CASE Quietly(m)
    BY <2>1, <2>4, QuietHolds
  <2>5. CASE Fail(onDisconnectOld(m), "mse-decode")
    BY <1>0, <2>2, <2>5, FailHolds DEF Fail, Errors
  <2>. QED  BY <2>3, <2>4, <2>5
<1>5. CASE StartTimeout
  <2>. DEFINE error == IF setup.safari THEN "mse-decode" ELSE "startup"
  <2>1. error \in Errors
    BY DEF Errors
  <2>2. Fail(onDisconnectOld(mse), error)
    BY <1>5 DEF StartTimeout
  <2>. HIDE DEF error
  <2>. QED  BY <1>0, <2>1, <2>2, MseRefs, FailHolds DEF Fail
<1>6. CASE MsePlaying
  <2>. DEFINE m == [mse EXCEPT !.playing = TRUE]
              c == [card EXCEPT !.liveReady = TRUE]
  <2>1. m \in Mses /\ m.sock = mse.sock
    BY <1>0 DEF Mses
  <2>2. c \in Cards
    BY <1>0 DEF Cards
  <2>3. visible \/ setup.view # "dashboard"
    BY <1>6 DEF MsePlaying, LiveInv, HeldInv, HiddenIsClosed
  <2>4. Render(m, rtc, c, visible) /\ setup' = setup
    BY <1>6 DEF MsePlaying
  <2>. HIDE DEF m, c
  <2>. QED  BY <1>0, <2>1, <2>2, <2>3, <2>4, KeepsHeld
<1>7. CASE MseProgress
  <2>. DEFINE m == [mse EXCEPT !.stall = "own"]
  <2>1. m \in Mses /\ m.sock = mse.sock /\ Quietly(m)
    BY <1>0, <1>7 DEF MseProgress, Mses
  <2>. QED  BY <2>1, QuietHolds
<1>8. CASE MseOverrun
  BY <1>0, <1>8, MseRefs, FailHolds DEF MseOverrun, Fail, Errors
<1>9. CASE StallTimeout
  <2>. DEFINE m == [mse EXCEPT !.stall = "none"]
  <2>1. m \in Mses /\ m.sock = mse.sock
    BY <1>0 DEF Mses
  <2>2. Fail(onDisconnect(mse), "stalled") \/ Quietly(m)
    BY <1>9 DEF StallTimeout
  <2>. HIDE DEF m
  <2>3. CASE Fail(onDisconnect(mse), "stalled")
    BY <1>0, <2>3, MseRefs, FailHolds DEF Fail, Errors
  <2>4. CASE Quietly(m)
    BY <2>1, <2>4, QuietHolds
  <2>. QED  BY <2>2, <2>3, <2>4
<1>10. ASSUME NEW kind \in {"network", "decode"}, MseMediaError(kind)
       PROVE  LiveInv'
  <2>. DEFINE m == [onDisconnect(mse) EXCEPT !.errors = IF @ < 4 THEN @ + 1 ELSE @]
  <2>1. m \in Mses /\ m.sock = "none"
    <3>1. onDisconnect(mse) \in Mses /\ onDisconnect(mse).sock = "none"
      BY <1>0, MseRefs
    <3>2. (IF onDisconnect(mse).errors < 4 THEN onDisconnect(mse).errors + 1
           ELSE onDisconnect(mse).errors) \in 0..4
      BY <3>1 DEF Mses
    <3>. QED  BY <3>1, <3>2 DEF Mses
  <2>2. Fail(m, "startup") \/ Fail(m, "mse-decode") \/ Quietly(m)
    BY <1>10 DEF MseMediaError
  <2>. HIDE DEF m
  <2>3. ASSUME NEW error \in Errors, Fail(m, error) PROVE LiveInv'
    BY <1>0, <2>1, <2>3, FailHolds DEF Fail
  <2>4. CASE Quietly(m)
    BY <2>1, <2>4, QuietHolds
  <2>. QED  BY <2>2, <2>3, <2>4 DEF Errors
<1>. QED  BY <1>1, <1>2, <1>3, <1>4, <1>5, <1>6, <1>7, <1>8, <1>9, <1>10 DEF MseStep

LEMMA OtherStepHolds == LiveInv /\ OtherStep => LiveInv'
<1>. SUFFICES ASSUME LiveInv, OtherStep PROVE LiveInv'
  OBVIOUS
<1>0. mse \in Mses /\ rtc \in Rtcs /\ card \in Cards /\ visible \in BOOLEAN /\ setup \in Setups
  BY DEF LiveInv, PlayerTypes
<1>1. PeerHeld(rtc, card, visible)
  BY DEF LiveInv, HeldInv
<1>2. CASE RtcPrepared
  <2>0. /\ rtc.stale \in Nat /\ rtc.gone \in Nat /\ rtc.lost \in Nat /\ rtc.overtaken \in Nat
        /\ rtc.cur \in {"none", "own", "stale"} /\ rtc.prep \in BOOLEAN
    BY <1>0 DEF Rtcs
  <2>. DEFINE left == IF rtc.cur = "none" THEN rtc.lost ELSE rtc.lost + 1
              fewer == rtc.stale - 1
              rest == rtc.gone - 1
              more(n) == rtc.lost + n
              own == [rtc EXCEPT !.lost = left, !.prep = FALSE, !.cur = "own"]
              old == [rtc EXCEPT !.lost = left, !.stale = fewer, !.cur = "stale"]
              past(n) == [rtc EXCEPT !.gone = rest, !.lost = more(n)]
  <2>1. \/ rtc.prep /\ RtcQuietly(own)
        \/ rtc.stale > 0 /\ RtcQuietly(old)
        \/ rtc.gone > 0 /\ \E n \in {0, 1} : RtcQuietly(past(n))
    BY <1>0, <1>2 DEF RtcPrepared, Replaced, Rtcs
  <2>2. left \in Nat
    BY <2>0
  <2>3. CASE rtc.prep /\ RtcQuietly(own)
    <3>1. /\ own \in Rtcs /\ ~own.prep /\ own.cur = "own" /\ own.lost = left
          /\ own.stale = rtc.stale /\ own.gone = rtc.gone /\ own.overtaken = rtc.overtaken
      BY <1>0, <2>2 DEF Rtcs
    <3>2. Watched(card, visible) /\ rtc.cur # "own"
      BY <1>1, <2>3 DEF PeerHeld
    <3>3. Adrift(rtc, card, visible) <=> rtc.cur = "stale"
      BY <2>3 DEF Adrift
    <3>. HIDE DEF own
    <3>4. ~Adrift(own, card, visible)
      BY <3>1 DEF Adrift
    <3>5. left = rtc.lost + (IF Adrift(rtc, card, visible) THEN 1 ELSE 0)
      BY <2>0, <3>2, <3>3
    <3>6. Budgeted(rtc, card, visible)
      BY <1>1 DEF PeerHeld
    <3>. HIDE DEF left
    <3>7. Budgeted(own, card, visible)
      BY <2>0, <2>2, <3>1, <3>4, <3>5, <3>6 DEF Budgeted
    <3>. QED  BY <2>3, <3>1, <3>2, <3>7, RtcQuietHolds DEF PeerHeld
  <2>4. CASE rtc.stale > 0 /\ RtcQuietly(old)
    <3>0. fewer \in Nat /\ fewer + 1 = rtc.stale
      BY <2>0, <2>4
    <3>. HIDE DEF fewer, left
    <3>1. /\ old \in Rtcs /\ old.prep = rtc.prep /\ old.cur = "stale" /\ old.lost = left
          /\ old.stale = fewer /\ old.gone = rtc.gone /\ old.overtaken = rtc.overtaken
      BY <1>0, <2>2, <3>0 DEF Rtcs
    <3>2. rtc.cur = "stale" => (Adrift(rtc, card, visible) <=> Adrift(old, card, visible))
      BY <3>1 DEF Adrift
    <3>3. rtc.cur = "own" => ~Adrift(old, card, visible)
      BY <1>1, <3>1 DEF PeerHeld, Adrift
    <3>. HIDE DEF old
    <3>4. rtc.cur # "stale" => ~Adrift(rtc, card, visible)
      BY DEF Adrift
    <3>5. left + (IF Adrift(old, card, visible) THEN 1 ELSE 0)
            <= rtc.lost + (IF Adrift(rtc, card, visible) THEN 1 ELSE 0) + 1
      BY <2>0, <3>2, <3>3, <3>4 DEF left
    <3>6. Budgeted(rtc, card, visible)
      BY <1>1 DEF PeerHeld
    <3>7. Budgeted(old, card, visible)
      BY <2>0, <2>2, <3>0, <3>1, <3>5, <3>6 DEF Budgeted
    <3>. QED  BY <1>1, <2>4, <3>1, <3>7, RtcQuietHolds DEF PeerHeld
  <2>5. ASSUME rtc.gone > 0, NEW n \in {0, 1}, RtcQuietly(past(n)) PROVE LiveInv'
    <3>0. rest \in Nat /\ rest + 1 = rtc.gone /\ more(n) \in Nat /\ more(n) <= rtc.lost + 1
      BY <2>0, <2>5
    <3>. HIDE DEF rest, more
    <3>1. /\ past(n) \in Rtcs /\ past(n).prep = rtc.prep /\ past(n).cur = rtc.cur
          /\ past(n).lost = more(n) /\ past(n).stale = rtc.stale
          /\ past(n).gone = rest /\ past(n).overtaken = rtc.overtaken
      BY <1>0, <3>0 DEF Rtcs
    <3>. HIDE DEF past
    <3>2. Adrift(rtc, card, visible) <=> Adrift(past(n), card, visible)
      BY <3>1 DEF Adrift
    <3>3. PeerHeld(past(n), card, visible)
      BY <1>1, <2>0, <3>0, <3>1, <3>2 DEF PeerHeld, Budgeted
    <3>. QED  BY <2>5, <3>1, <3>3, RtcQuietHolds
  <2>. HIDE DEF past
  <2>. QED  BY <2>1, <2>3, <2>4, <2>5
<1>3. CASE RtcLoaded
  <2>. DEFINE r == [rtc EXCEPT !.loadTimer = FALSE]
              c == [card EXCEPT !.liveReady = TRUE]
  <2>1. r \in Rtcs /\ PeerHeld(r, card, visible)
    BY <1>0, <1>1 DEF Rtcs, PeerHeld, Budgeted, Adrift
  <2>2. c \in Cards
    BY <1>0 DEF Cards
  <2>3. visible \/ setup.view # "dashboard"
    BY <1>3 DEF RtcLoaded, Enabled, CameraActive
  <2>4. Render(mse, r, c, visible) /\ setup' = setup
    BY <1>3 DEF RtcLoaded
  <2>. HIDE DEF r, c
  <2>. QED  BY <1>0, <2>1, <2>2, <2>3, <2>4, KeepsHeld
<1>4. CASE RtcProgress
  <2>. DEFINE r == [rtc EXCEPT !.stall = TRUE]
  <2>1. r \in Rtcs /\ PeerHeld(r, card, visible) /\ RtcQuietly(r)
    BY <1>0, <1>1, <1>4 DEF RtcProgress, Rtcs, PeerHeld, Budgeted, Adrift
  <2>. QED  BY <2>1, RtcQuietHolds
<1>5. ASSUME NEW r \in Rtcs, PeerHeld(r, card, visible), RtcFail(r)
      PROVE  LiveInv'
  BY <1>0, <1>5, FailHolds DEF RtcFail, Errors
<1>6. CASE RtcLoadTimeout
  <2>1. [rtc EXCEPT !.loadTimer = FALSE] \in Rtcs
    BY <1>0 DEF Rtcs
  <2>2. PeerHeld([rtc EXCEPT !.loadTimer = FALSE], card, visible)
    BY <1>0, <1>1 DEF Rtcs, PeerHeld, Budgeted, Adrift
  <2>. QED  BY <1>5, <1>6, <2>1, <2>2 DEF RtcLoadTimeout
<1>7. CASE RtcStallTimeout
  <2>. DEFINE r == [rtc EXCEPT !.stall = FALSE]
  <2>1. r \in Rtcs /\ PeerHeld(r, card, visible)
    BY <1>0, <1>1 DEF Rtcs, PeerHeld, Budgeted, Adrift
  <2>2. RtcFail(r) \/ RtcQuietly(r)
    BY <1>7 DEF RtcStallTimeout
  <2>. HIDE DEF r
  <2>3. CASE RtcFail(r)
    BY <1>5, <2>1, <2>3
  <2>4. CASE RtcQuietly(r)
    BY <2>1, <2>4, RtcQuietHolds
  <2>. QED  BY <2>2, <2>3, <2>4
<1>8. CASE JsStart
  BY <1>8 DEF JsStart, LiveInv, PlayerTypes, HeldInv, SocketHeld, PeerHeld, Budgeted, Adrift, Watched,
     JsHeld, HiddenIsClosed, Kind, ModeOf, SingleMode, DefaultMode, Enabled, CameraActive
<1>9. CASE JsDecode
  <2>. DEFINE c == [card EXCEPT !.liveReady = TRUE]
  <2>1. c \in Cards
    BY <1>0 DEF Cards
  <2>2. visible \/ setup.view # "dashboard"
    BY <1>9 DEF JsDecode, LiveInv, HeldInv, JsHeld, Enabled, CameraActive
  <2>3. Render(mse, rtc, c, visible) /\ setup' = setup
    BY <1>9 DEF JsDecode, Show
  <2>. HIDE DEF c
  <2>. QED  BY <1>0, <2>1, <2>2, <2>3, KeepsHeld
<1>. QED  BY <1>2, <1>3, <1>4, <1>6, <1>7, <1>8, <1>9 DEF OtherStep

(***************************************************************************)
(* The theorems                                                            *)
(***************************************************************************)
\* What users and the network may still do stays within the bounds.
Counted == faults \in 0..MaxFaults /\ uses \in 0..MaxUses

LEMMA NextCounted ==
    ASSUME BoundsAreNumbers PROVE Counted /\ [Next]_vars => Counted'
BY DEF BoundsAreNumbers, Counted, Next, Around, MseStep, OtherStep, vars, Fault, Use,
   ActivityChange, IdleTimeout, VisibilityChange, MetadataLoaded, StreamChange,
   CameraEnabledChange, MicToggle, ResetMode, MseOpen, MseClosed, SourceOpen, MseAnswer,
   StartTimeout, MsePlaying, MseProgress, MseOverrun, StallTimeout, MseMediaError, RtcPrepared,
   RtcLoaded, RtcProgress, RtcLoadTimeout, RtcStallTimeout, JsStart, JsDecode, Quietly, Fail,
   RtcQuietly, RtcFail

\* The invariant holds at first and every step keeps it, whatever the bounds.
LEMMA NextHolds == LiveInv /\ [Next]_vars => LiveInv'
<1>1. LiveInv /\ UNCHANGED vars => LiveInv'
  BY DEF LiveInv, PlayerTypes, HeldInv, SocketHeld, PeerHeld, Budgeted, Adrift, Watched,
     JsHeld, HiddenIsClosed, vars, Kind, ModeOf, SingleMode, DefaultMode, Enabled, CameraActive
<1>. QED  BY <1>1, AroundHolds, MseStepHolds, OtherStepHolds DEF Next

LEMMA HeldIsNoLeak == LiveInv => NoLeak
<1>. SUFFICES ASSUME LiveInv PROVE NoLeak
  OBVIOUS
<1>1. /\ rtc.stale \in Nat /\ rtc.gone \in Nat /\ rtc.lost \in Nat /\ rtc.overtaken \in Nat
      /\ rtc.cur \in {"none", "own", "stale"}
  BY DEF LiveInv, PlayerTypes, Rtcs
<1>2. PeerHeld(rtc, card, visible)
  BY DEF LiveInv, HeldInv
<1>3. rtc.cur # "none" /\ ~Watched(card, visible) => Adrift(rtc, card, visible)
  BY <1>1, <1>2 DEF PeerHeld, Adrift
<1>4. Unwatched <= rtc.overtaken
  BY <1>1, <1>2, <1>3 DEF PeerHeld, Budgeted, Unwatched
<1>. QED  BY <1>4 DEF LiveInv, HeldInv, SocketHeld, JsHeld, HiddenIsClosed, NoLeak

LEMMA TypesAgree == LiveInv /\ Counted => TypeOK
BY DEF LiveInv, Counted, PlayerTypes, TypeOK, Cards, Mses, Rtcs

\* The refs, timers and states of a live camera and of its three players keep
\* their types, for any bounds (LivePlayer.tsx, MSEPlayer.tsx,
\* WebRTCPlayer.tsx).
THEOREM LiveTypeCorrect ==
    ASSUME BoundsAreNumbers PROVE Spec => []TypeOK
<1>. DEFINE I == LiveInv /\ Counted
<1>1. Init => I
  BY InitHolds DEF Init, Counted, BoundsAreNumbers
<1>2. I /\ [Next]_vars => I'
  BY NextHolds, NextCounted
<1>3. I => TypeOK
  BY TypesAgree
<1>. HIDE DEF I
<1>. QED  BY <1>1, <1>2, <1>3, PTL DEF Spec

\* An MSE socket belongs to a player that is on screen and enabled, and a hidden
\* dashboard has none; JSMpeg runs in an enabled player only; and at most one WebRTC
\* connection is left open without a player for each preparation its cleanup has
\* overtaken, none otherwise: whatever fails, stalls, falls back or is switched, and
\* however many preparations end in whatever order (MSEPlayer.tsx, JSMpegPlayer.tsx,
\* WebRTCPlayer.tsx, useCameraLiveMode).
THEOREM OnlyOvertakenLeak == Spec => []NoLeak
<1>1. Spec => []LiveInv
  BY InitHolds, NextHolds, PTL DEF Spec
<1>. QED  BY <1>1, HeldIsNoLeak, PTL

=============================================================================
