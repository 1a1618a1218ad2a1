--------------------------- MODULE PlayersProofs ----------------------------
(***************************************************************************)
(* What the Players run checks of the live cards and players on screen,    *)
(* proved: the invariants of each module hold while it is the one shown.   *)
(* The instances of MCPlayers are instances of the modules with the        *)
(* proofs, whose lemmas are cited here under the names of the instances.   *)
(***************************************************************************)
EXTENDS MCPlayers, Naturals, TLAPS

OneIsShown == shown \in {"card", "live", "preview"}

(***************************************************************************)
(* The preview, whose type is inductive as it stands                       *)
(***************************************************************************)
PreviewBounds ==
    /\ kind \in {"video", "frames"}
    /\ timeToSeek \in 0..2 /\ pos \in 0..2 /\ previewAsked \in 0..2 \cup {Null}
    /\ late \in BOOLEAN /\ newPreviewLoaded \in BOOLEAN /\ seeking \in BOOLEAN
    /\ busy \in BOOLEAN /\ due \in BOOLEAN /\ lost \in BOOLEAN
    /\ due => late

LEMMA BoundsAreTypes == PreviewBounds => Preview!TypeOK
BY DEF PreviewBounds, Preview!TypeOK, Preview!Positions

LEMMA PreviewStarts == Preview!Init => PreviewBounds
<1>. SUFFICES ASSUME Preview!Init PROVE PreviewBounds
  OBVIOUS
<1>1. newPreviewLoaded \in BOOLEAN /\ busy \in BOOLEAN
  BY DEF Preview!Init
<1>2. /\ kind \in {"video", "frames"} /\ late \in BOOLEAN
      /\ timeToSeek = 0 /\ pos = 0 /\ previewAsked = Null
      /\ seeking = FALSE /\ due = FALSE /\ lost = FALSE
  BY DEF Preview!Init
<1>3. timeToSeek \in 0..2 /\ pos \in 0..2 /\ previewAsked \in 0..2 \cup {Null}
  BY <1>2
<1>4. seeking \in BOOLEAN /\ due \in BOOLEAN /\ lost \in BOOLEAN /\ (due => late)
  BY <1>2
<1>. QED  BY <1>1, <1>2, <1>3, <1>4 DEF PreviewBounds

LEMMA PreviewSteps == PreviewBounds /\ Preview!Next => PreviewBounds'
<1>. SUFFICES ASSUME PreviewBounds, Preview!Next PROVE PreviewBounds'
  OBVIOUS
<1>. USE DEF PreviewBounds
<1>1. ASSUME NEW t \in 0..2, Preview!scrubToTimestamp(t) PROVE PreviewBounds'
  <2>1. CASE seeking = TRUE
    BY <1>1, <2>1 DEF Preview!scrubToTimestamp
  <2>2. CASE seeking = FALSE
    BY <1>1, <2>2 DEF Preview!scrubToTimestamp
  <2>. QED  BY <2>1, <2>2
<1>2. ASSUME Preview!finishedSeeking
      PROVE  /\ seeking' \in BOOLEAN /\ busy' \in BOOLEAN
             /\ timeToSeek' \in 0..2 /\ pos' \in 0..2
  <2>1. CASE timeToSeek # 0 /\ timeToSeek # pos
    BY <1>2, <2>1 DEF Preview!finishedSeeking
  <2>2. CASE ~(timeToSeek # 0 /\ timeToSeek # pos)
    <3>1. seeking' = FALSE /\ busy' = FALSE /\ timeToSeek' = 0 /\ pos' = pos
      BY <1>2, <2>2 DEF Preview!finishedSeeking
    <3>2. seeking' \in BOOLEAN /\ busy' \in BOOLEAN
      BY <3>1, Zenon
    <3>3. timeToSeek' \in 0..2 /\ pos' \in 0..2
      BY <3>1
    <3>. QED  BY <3>2, <3>3
  <2>. QED  BY <2>1, <2>2
<1>3. ASSUME Preview!onSeeked PROVE PreviewBounds'
  <2>1. CASE late = TRUE
    BY <1>3, <2>1 DEF Preview!onSeeked
  <2>2. CASE late = FALSE
    BY <1>2, <1>3, <2>2 DEF Preview!onSeeked
  <2>. QED  BY <2>1, <2>2
<1>4. ASSUME Preview!Delayed PROVE PreviewBounds'
  BY <1>2, <1>4 DEF Preview!Delayed
<1>5. ASSUME Preview!ImageError PROVE PreviewBounds'
  BY <1>5 DEF Preview!ImageError
<1>6. ASSUME Preview!newPlayback PROVE PreviewBounds'
  BY <1>6 DEF Preview!newPlayback
<1>7. ASSUME Preview!previewReady PROVE PreviewBounds'
  BY <1>7 DEF Preview!previewReady, Preview!Positions
<1>. QED  BY <1>1, <1>3, <1>4, <1>5, <1>6, <1>7 DEF Preview!Next, Preview!Positions

(***************************************************************************)
(* One module at a time                                                    *)
(***************************************************************************)
CardSound == Card!CardInv /\ used \in 0..2
LiveSound == Live!LiveInv /\ Live!Counted

LEMMA CardSteps == CardSound /\ [Card!Next]_cardVars => CardSound'
<1>1. Card!CardInv /\ [Card!Next]_(Card!vars) => Card!CardInv'
  BY Card!NextType
<1>2. used \in 0..2 /\ [Card!Next]_(Card!vars) => used' \in 0..2
  BY Card!NextUsed
<1>. QED  BY <1>1, <1>2 DEF CardSound, cardVars, Card!vars, Card!server, Card!client

LEMMA LiveSteps == LiveSound /\ [Live!Next]_liveVars => LiveSound'
<1>1. Live!LiveInv /\ [Live!Next]_(Live!vars) => Live!LiveInv'
  BY Live!NextHolds
<1>2. Live!Counted /\ [Live!Next]_(Live!vars) => Live!Counted'
  BY Live!NextCounted DEF Live!BoundsAreNumbers
<1>. QED  BY <1>1, <1>2 DEF LiveSound, liveVars, Live!vars

\* The inductive invariant: what is shown is sound, and nothing is claimed of
\* what is not mounted.
Inv ==
    /\ OneIsShown
    /\ shown = "card" => CardSound
    /\ shown = "live" => LiveSound
    /\ shown = "preview" => PreviewBounds

LEMMA InitInv == Init => Inv
<1>1. Card!Init => CardSound
  BY Card!InitType DEF CardSound, Card!Init
<1>2. Live!Init => LiveSound
  <2>1. Live!Init => Live!Counted
    BY DEF Live!Init, Live!Counted
  <2>. QED  BY <2>1, Live!InitHolds DEF LiveSound
<1>. QED  BY <1>1, <1>2, PreviewStarts DEF Init, Inv, OneIsShown

LEMMA NextInv == Inv /\ [Next]_vars => Inv'
<1>. SUFFICES ASSUME Inv, [Next]_vars PROVE Inv'
  OBVIOUS
<1>1. CASE shown = "card" /\ Card!Next /\ UNCHANGED <<shown, liveVars, previewVars>>
  BY <1>1, CardSteps DEF Inv, OneIsShown
<1>2. CASE shown = "live" /\ Live!Next /\ UNCHANGED <<shown, cardVars, previewVars>>
  BY <1>2, LiveSteps DEF Inv, OneIsShown
<1>3. CASE shown = "preview" /\ Preview!Next /\ UNCHANGED <<shown, cardVars, liveVars>>
  BY <1>3, PreviewSteps DEF Inv, OneIsShown
<1>4. CASE UNCHANGED vars
  <2>1. shown' = shown /\ cardVars' = cardVars /\ liveVars' = liveVars
    BY <1>4 DEF vars
  <2>2. PreviewBounds => PreviewBounds'
    BY <1>4 DEF vars, previewVars, PreviewBounds
  <2>. QED  BY <2>1, <2>2, CardSteps, LiveSteps DEF Inv, OneIsShown
<1>. QED  BY <1>1, <1>2, <1>3, <1>4 DEF Next

(***************************************************************************)
(* The theorems                                                            *)
(***************************************************************************)
\* Every variable of the card or player on screen has its type.
THEOREM PlayersTypeCorrect == Spec => []TypeOK
<1>1. CardSound => Card!TypeOK
  BY Card!TypesAgree DEF CardSound
<1>2. LiveSound => Live!TypeOK
  BY Live!TypesAgree DEF LiveSound
<1>3. Inv => TypeOK
  BY <1>1, <1>2, BoundsAreTypes DEF Inv, TypeOK
<1>. QED  BY InitInv, NextInv, <1>3, PTL DEF Spec

\* A live stream that is loaded has someone to watch it, but for one WebRTC
\* connection at most for each preparation its cleanup has overtaken
\* (LivePlayer and its three players).
THEOREM OnlyOvertakenLeaks == Spec => []NoLeak
<1>1. Inv => NoLeak
  BY Live!HeldIsNoLeak DEF Inv, LiveSound, NoLeak
<1>. QED  BY InitInv, NextInv, <1>1, PTL DEF Spec

CardInForce == OneIsShown /\ (shown = "card" => Card!CardTruth)

\* The objects and the toggles a live card shows are those of the server, and
\* the user's last flip wins, as far as what was published last was true
\* (WsProvider, api/ws.ts, useCameraActivity).
THEOREM CardsAreTruthful == Spec => []CardIsTruthful
<1>. USE DEF CardInForce, OneIsShown
<1>1. Card!NullIsNoSetting
  BY NullAssumption DEF Card!NullIsNoSetting, Card!ONOFF
<1>2. Init => CardInForce
  BY Card!InitTruth DEF Init
<1>3. CardInForce /\ [Next]_vars => CardInForce'
  <2>1. Card!CardTruth /\ [Card!Next]_(Card!vars) => Card!CardTruth'
    BY <1>1, Card!NextTruth
  <2>2. Card!vars' = Card!vars <=> cardVars' = cardVars
    BY DEF cardVars, Card!vars, Card!server, Card!client
  <2>3. [Next]_vars => \/ shown' = shown /\ shown = "card" /\ Card!Next
                       \/ shown' = shown /\ shown # "card"
                       \/ shown' = shown /\ cardVars' = cardVars
    BY DEF Next, vars
  <2>. QED  BY <2>1, <2>2, <2>3
<1>4. CardInForce => CardIsTruthful
  BY Card!TruthIsShown DEF CardIsTruthful
<1>. QED  BY <1>2, <1>3, <1>4, PTL DEF Spec
=============================================================================
