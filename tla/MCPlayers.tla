----------------------------- MODULE MCPlayers ------------------------------
(***************************************************************************)
(* The live cards and the players of the client in one TLC run: a card     *)
(* fed by the websocket, a live stream, and the preview that is dragged    *)
(* through.  The first two are instances of the modules with their proofs, *)
(* which extend the models: PlayersProofs cites their lemmas.              *)
(***************************************************************************)
CONSTANT Null

\* No toggle has the value that stands for none.
ASSUME NullAssumption == Null \notin {"ON", "OFF"}

VARIABLES
    shown,  \* the live card or player on screen
    phase, activity, detect, publishing, snap, ws, up, down, pendingSends, wsState,
    lastCameraActivityPayload, mounted, objects, exact, cardAsked, used,
    setup, card, visible, mse, rtc, js, faults, uses,
    kind, late, newPreviewLoaded, seeking, timeToSeek, pos, busy, due, previewAsked, lost,
    scrubs, hours

cardVars == <<phase, activity, detect, publishing, snap, ws, up, down, pendingSends, wsState,
    lastCameraActivityPayload, mounted, objects, exact, cardAsked, used>>
liveVars == <<setup, card, visible, mse, rtc, js, faults, uses>>
previewVars == <<kind, late, newPreviewLoaded, seeking, timeToSeek, pos, busy, due,
    previewAsked, lost, scrubs, hours>>

Card == INSTANCE ClientActivityProofs WITH Objs <- {"o1"}, MaxUses <- 2, MaxWire <- 1,
    asked <- cardAsked
Live == INSTANCE LivePlaybackProofs WITH MaxFaults <- 2, MaxUses <- 3
Preview == INSTANCE PreviewScrub WITH MaxScrubs <- 4, MaxHours <- 2, asked <- previewAsked

NoCard == phase = Null /\ activity = Null /\ detect = Null /\ publishing = Null /\
    snap = Null /\ ws = Null /\ up = Null /\ down = Null /\ pendingSends = Null /\
    wsState = Null /\ lastCameraActivityPayload = Null /\ mounted = Null /\ objects = Null /\
    exact = Null /\ cardAsked = Null /\ used = Null
NoLive == setup = Null /\ card = Null /\ visible = Null /\ mse = Null /\ rtc = Null /\
    js = Null /\ faults = Null /\ uses = Null
NoPreview == kind = Null /\ late = Null /\ newPreviewLoaded = Null /\ seeking = Null /\
    timeToSeek = Null /\ pos = Null /\ busy = Null /\ due = Null /\ previewAsked = Null /\
    lost = Null /\ scrubs = Null /\ hours = Null

\* The live card or player on screen: the others are not mounted.
Init ==
    \/ shown = "card" /\ Card!Init /\ NoLive /\ NoPreview
    \/ shown = "live" /\ Live!Init /\ NoCard /\ NoPreview
    \/ shown = "preview" /\ Preview!Init /\ NoCard /\ NoLive

Next ==
    \/ shown = "card" /\ Card!Next /\ UNCHANGED <<shown, liveVars, previewVars>>
    \/ shown = "live" /\ Live!Next /\ UNCHANGED <<shown, cardVars, previewVars>>
    \/ shown = "preview" /\ Preview!Next /\ UNCHANGED <<shown, cardVars, liveVars>>

vars == <<shown, cardVars, liveVars, previewVars>>

\* The fairness of each module, while it is the one shown.
Fairness ==
    /\ WF_cardVars(shown = "card" /\ Card!onopen)
    /\ WF_cardVars(shown = "card" /\ Card!connect)
    /\ WF_cardVars(shown = "card" /\ Card!processWsMessage)
    /\ WF_cardVars(shown = "card" /\ Card!SendSnapshot)
    /\ WF_cardVars(shown = "card" /\ Card!WsToggle)
    /\ WF_cardVars(shown = "card" /\ up # <<>> /\ Card!BuildSnapshot)
    /\ \A t \in Card!Threads : WF_cardVars(shown = "card" /\ Card!PublishState(t))
    /\ WF_liveVars(shown = "live" /\ Live!IdleTimeout)
    /\ WF_liveVars(shown = "live" /\ Live!SourceOpen)
    /\ WF_liveVars(shown = "live" /\ Live!StartTimeout)
    /\ WF_liveVars(shown = "live" /\ Live!StallTimeout)
    /\ WF_previewVars(shown = "preview" /\ Preview!onSeeked)
    /\ WF_previewVars(shown = "preview" /\ Preview!Delayed)
    /\ WF_previewVars(shown = "preview" /\ Preview!previewReady)

Spec == Init /\ [][Next]_vars /\ Fairness

\* Every variable of what is shown has its type: the type invariant of each module.
TypeOK ==
    /\ shown = "card" => Card!TypeOK
    /\ shown = "live" => Live!TypeOK
    /\ shown = "preview" => Preview!TypeOK

\* The objects and the toggles a live card shows are those of the server, and the user's last
\* flip wins, as far as what was published last was true.
CardIsTruthful == shown = "card" => Card!ShownIsLive /\ Card!ToggleIsConfigured /\ Card!LastFlipWins

\* A card that is on screen gets the activity of its camera.
CardIsFilled == (shown = "card" /\ mounted) ~> (shown = "card" => ~mounted \/ wsState.activity # Null)

\* A live stream that is loaded has someone to watch it, but for one WebRTC connection at most
\* for each preparation its cleanup has overtaken (LivePlayer and its three players).
NoLeak == shown = "live" => Live!NoLeak

\* A stream that played and whose connection died is given up, unless its tab is hidden by
\* then.
DeadFallsBack == (shown = "live" /\ Live!Died) ~> (shown = "live" => Live!GivenUp)

\* The fallback of a dashboard to JSMpeg ends when the activity of its camera does.
FallbackEnds == (shown = "live" /\ Live!FallbackDone) ~> (shown = "live" => Live!FallbackLeft)

\* When the drag stops, the preview comes to rest on what was asked for last.
RestsOnLast == <>[](shown = "preview" => Preview!Resting)
=============================================================================
