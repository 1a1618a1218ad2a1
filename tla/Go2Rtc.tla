------------------------------- MODULE Go2Rtc -------------------------------
(***************************************************************************)
(* The streams of go2rtc: the page that edits and saves them, and the URL  *)
(* of one source as its rows edit it.                                      *)
(***************************************************************************)
EXTENDS FiniteSets, Integers, Sequences, SequencesExt

CONSTANTS
    Null,
    MaxUser,    \* bound: things the user does, with what else is bounded
    MaxOther,   \* bound: streams another client writes
    MaxFaults,  \* bound: requests that fail
    MaxEdits,   \* bound: edits
    MaxRows     \* bound: fallbacks of a track

(***************************************************************************)
(* The streams of go2rtc as the settings edit them                         *)
(* (Go2RtcStreamsSettingsView): a draft kept by the settings page, which   *)
(* outlives the view, and a save that writes the configuration, then every *)
(* stream of the running go2rtc, and then reads the configuration again.   *)
(*                                                                         *)
(* A stream is its first source: 0 is the blank one of a stream just added.*)
(***************************************************************************)
Names == {"a", "b"}
Sources == 0..2

VARIABLES
    server,     \* the configuration: the source of each stream, Null when there is none
    running,    \* what go2rtc runs
    rawPaths,   \* the configuration as read last
    pending,    \* the draft of the settings page
    mounted, isLoading,
    dialog,     \* the stream being renamed or deleted
    jobs,       \* saves: [id, streams, deleted, left, at]
    user, other, faults,
    streamsMine,       \* history: the streams as the user left them, Null when others changed them
    told,       \* history: they were saved
    crossed     \* history: which of the known losses happened

streamsVars == <<server, running, rawPaths, pending, mounted, isLoading, dialog, jobs, user, other,
          faults, streamsMine, told, crossed>>

Streams == [Names -> Sources \cup {Null}]
Exist(s) == {n \in Names : s[n] # Null}
liveStreams == IF pending = Null THEN rawPaths ELSE pending
hasChanges == liveStreams # rawPaths
\* Every stream needs a source that is not blank.
hasValidationErrors == \E n \in Names : liveStreams[n] = 0

StreamsTypeOK ==
    /\ {server, running, rawPaths} \subseteq Streams
    /\ pending \in Streams \cup {Null} /\ streamsMine \in Streams \cup {Null}
    /\ {mounted, isLoading, told} \subseteq BOOLEAN
    /\ crossed \subseteq {"edited", "failed", "twice", "others", "unread"}
    /\ \A j \in jobs : j.at \in {"config", "running", "read"} /\ j.left \subseteq Names

StreamsInit ==
    /\ server = [n \in Names |-> IF n = "a" THEN 1 ELSE Null] /\ running = server /\ rawPaths = server
    /\ pending = Null /\ mounted = TRUE /\ isLoading = FALSE /\ dialog = Null /\ jobs = {}
    /\ user = 0 /\ other = 0 /\ faults = 0 /\ streamsMine = server /\ told = FALSE /\ crossed = {}

(***************************************************************************)
(* Edits                                                                   *)
(***************************************************************************)
User == mounted /\ user + other + faults < MaxUser /\ user' = user + 1 /\ UNCHANGED <<other, faults>>
Server == <<server, running, rawPaths>>

\* A draft that says what is saved is none.
commitStreams(next) ==
    /\ pending' = (IF next = rawPaths THEN Null ELSE next) /\ streamsMine' = next /\ told' = FALSE
    /\ crossed' = IF jobs # {} THEN crossed \cup {"edited"} ELSE crossed
    /\ UNCHANGED <<Server, mounted, isLoading, jobs>>

addStream(n) == User /\ dialog = Null /\ n \notin Exist(liveStreams) /\ UNCHANGED dialog /\ commitStreams([liveStreams EXCEPT ![n] = 0])
updateUrl(n, s) ==
    /\ User /\ dialog = Null /\ n \in Exist(liveStreams) /\ s # liveStreams[n]
    /\ commitStreams([liveStreams EXCEPT ![n] = s]) /\ UNCHANGED dialog

OpenDialog(kind, n) ==
    /\ User /\ dialog = Null /\ n \in Exist(liveStreams) /\ dialog' = [kind |-> kind, of |-> n]
    /\ UNCHANGED <<Server, pending, mounted, isLoading, jobs, streamsMine, told, crossed>>
deleteStream ==
    /\ mounted /\ dialog # Null /\ dialog.kind = "delete" /\ dialog' = Null
    /\ commitStreams([liveStreams EXCEPT ![dialog.of] = Null]) /\ UNCHANGED <<user, other, faults>>
\* Another stream's name is refused; a stream that is gone meanwhile is not renamed.
renameStream(n) ==
    /\ mounted /\ dialog # Null /\ dialog.kind = "rename" /\ n # dialog.of /\ n \notin Exist(liveStreams) /\ dialog' = Null
    /\ IF dialog.of \in Exist(liveStreams)
       THEN commitStreams([liveStreams EXCEPT ![n] = liveStreams[dialog.of], ![dialog.of] = Null])
       ELSE UNCHANGED <<Server, pending, mounted, isLoading, jobs, streamsMine, told, crossed>>
    /\ UNCHANGED <<user, other, faults>>

onReset ==
    /\ User /\ dialog = Null /\ hasChanges /\ ~isLoading /\ pending' = Null /\ streamsMine' = rawPaths /\ told' = FALSE
    /\ crossed' = IF jobs # {} THEN crossed \cup {"edited"} ELSE crossed
    /\ UNCHANGED <<Server, mounted, isLoading, dialog, jobs>>

\* The draft stays with the settings page; that it is being saved is forgotten.
Leave ==
    /\ User /\ mounted' = FALSE /\ isLoading' = FALSE /\ dialog' = Null
    /\ UNCHANGED <<Server, pending, jobs, streamsMine, told, crossed>>
Return ==
    /\ ~mounted /\ mounted' = TRUE
    /\ UNCHANGED <<Server, pending, isLoading, dialog, jobs, user, other, faults, streamsMine, told, crossed>>

(***************************************************************************)
(* The save                                                                *)
(***************************************************************************)
saveToConfig ==
    /\ User /\ dialog = Null /\ hasChanges /\ ~isLoading /\ ~hasValidationErrors /\ isLoading' = TRUE
    /\ jobs' = jobs \cup {[id |-> user, streams |-> liveStreams, deleted |-> Exist(rawPaths) \ Exist(liveStreams),
                           left |-> {}, at |-> "config"]}
    /\ crossed' = IF jobs # {} THEN crossed \cup {"twice"} ELSE crossed
    /\ UNCHANGED <<Server, pending, mounted, dialog, streamsMine, told>>

Becomes(j, k) == jobs' = (jobs \ {j}) \cup {k}
Client == <<pending, mounted, dialog, user, other, streamsMine, told>>

MutForgetsDeleted(j) ==   \* mutant: a stream that is gone is not named
    [n \in Names |-> IF j.streams[n] = Null THEN server[n] ELSE j.streams[n]]

\* Streams that are not named stay, those that were deleted are named with nothing.
Merged(j) == [n \in Names |-> IF j.streams[n] # Null THEN j.streams[n] ELSE IF n \in j.deleted THEN Null ELSE server[n]]

ConfigSet(j) ==
    /\ j.at = "config" /\ server' = Merged(j)
    /\ Becomes(j, [j EXCEPT !.at = "running", !.left = Exist(j.streams) \cup j.deleted])
    /\ UNCHANGED <<running, rawPaths, isLoading, faults, crossed, Client>>

MutOnlyNew(j, n) ==   \* mutant: a stream that is deleted runs on
    IF j.streams[n] = Null THEN running ELSE [running EXCEPT ![n] = j.streams[n]]
Runs(j, n) == [running EXCEPT ![n] = j.streams[n]]

\* The streams of go2rtc are written together; one that fails is passed over.
RunningSet(j, n) ==
    /\ j.at = "running" /\ n \in j.left /\ running' = Runs(j, n)
    /\ Becomes(j, [j EXCEPT !.left = @ \ {n}])
    /\ UNCHANGED <<server, rawPaths, isLoading, faults, crossed, Client>>
Fails == faults < MaxFaults /\ user + other + faults < MaxUser /\ faults' = faults + 1 /\ crossed' = crossed \cup {"failed"}
RunningFails(j, n) ==
    /\ j.at = "running" /\ n \in j.left /\ Fails /\ Becomes(j, [j EXCEPT !.left = @ \ {n}])
    /\ UNCHANGED <<Server, isLoading, Client>>

MutUnread == UNCHANGED rawPaths   \* mutant: the draft is dropped before the streams are read
Read == rawPaths' = server

\* The streams are read again, and the draft is dropped, whatever became of it.
Saved(j) ==
    /\ j.at = "running" /\ j.left = {} /\ jobs' = jobs \ {j}
    /\ Read /\ pending' = Null /\ isLoading' = FALSE /\ told' = TRUE
    /\ UNCHANGED <<server, running, mounted, dialog, user, other, faults, streamsMine, crossed>>
\* The configuration is refused, or cannot be read again: the draft stays.
SaveFails(j) ==
    /\ j.at = "config" \/ (j.at = "running" /\ j.left = {})
    /\ faults < MaxFaults /\ user + other + faults < MaxUser /\ faults' = faults + 1 /\ jobs' = jobs \ {j} /\ isLoading' = FALSE
    /\ crossed' = crossed \cup {IF j.at = "config" THEN "failed" ELSE "unread"}
    /\ UNCHANGED <<Server, Client>>

\* Another client saves a stream.
OtherSaves(n, s) ==
    /\ other < MaxOther /\ user + other + faults < MaxUser /\ other' = other + 1 /\ s # server[n]
    /\ server' = [server EXCEPT ![n] = s] /\ running' = [running EXCEPT ![n] = s]
    /\ streamsMine' = Null /\ crossed' = crossed \cup {"others"}
    /\ UNCHANGED <<rawPaths, pending, mounted, isLoading, dialog, jobs, user, faults, told>>

StreamsNext ==
    \/ \E n \in Names : addStream(n) \/ renameStream(n) \/ \E s \in Sources \ {0} : updateUrl(n, s)
    \/ \E n \in Names, k \in {"rename", "delete"} : OpenDialog(k, n)
    \/ deleteStream \/ onReset \/ Leave \/ Return \/ saveToConfig
    \/ \E j \in jobs : ConfigSet(j) \/ Saved(j) \/ SaveFails(j) \/ \E n \in Names : RunningSet(j, n) \/ RunningFails(j, n)
    \/ \E n \in Names, s \in {Null, 2} : OtherSaves(n, s)

StreamsSpec == StreamsInit /\ [][StreamsNext]_streamsVars

(***************************************************************************)
(* Properties                                                              *)
(***************************************************************************)
\* Once nothing is being saved go2rtc runs the streams of the configuration; but for a request
\* that failed, another client, and a save begun beside another after the view was left
\* (saveToConfig).
RunningIsConfigured == jobs = {} /\ crossed \cap {"failed", "twice", "others"} = {} => running = server

\* The streams shown are those the user arranged, also after leaving, saving and failing; but
\* for edits made while they are saved, which the end of the save drops (commitStreams), and
\* what another client adds or could not be read again after a save.
ShownIsMine == streamsMine # Null /\ crossed \cap {"edited", "others", "unread"} = {} => liveStreams = streamsMine

\* What the user was told is saved is what the user sees, deleted and renamed streams included.
SavedIsMine == told /\ streamsMine # Null /\ crossed \cap {"edited", "others", "unread"} = {} => server = streamsMine

(***************************************************************************)
(* A source of a go2rtc stream as its row edits it (StreamUrlEntry,        *)
(* go2rtcFfmpeg): the URL is all that is kept; prefix, fallbacks of video  *)
(* and audio, hardware and other fragments are parsed from it for every    *)
(* rendering, and every edit writes it anew.                               *)
(*                                                                         *)
(* A URL is its prefix, its base and the sequence of its fragments; base 2 *)
(* is one the user typed.                                                  *)
(***************************************************************************)
Video == {"copy", "h264"}
Audio == {"aac", "opus"}
V(v) == <<"video", v>>
A(a) == <<"audio", a>>
Hardware == <<"hardware", "auto">>
Extra == <<"timeout", "10">>
Fragment == {V(v) : v \in Video} \cup {A(a) : a \in Audio} \cup {Hardware, Extra}
isRecognizedFragment(f) == f \in Fragment \ {Extra}

VARIABLES
    url,
    edits,
    choice,   \* history: what the user chose in the rows, as they showed it
    kept      \* history: the base and the other fragments the user typed

urlVars == <<url, edits, choice, kept>>

MutNoRow(rows) == rows   \* mutant: a track without fragments has no row
OrExclude(rows) == IF rows = <<>> THEN <<"exclude">> ELSE rows
Of(track, frags) == LET mine == SelectSeq(frags, LAMBDA f : isRecognizedFragment(f) /\ f[1] = track) IN [i \in 1..Len(mine) |-> mine[i][2]]

\* A track without fragments has one row that excludes it.
parseFfmpegUrl(u) ==
    [videos |-> OrExclude(Of("video", u.frags)), audios |-> OrExclude(Of("audio", u.frags)),
     hardware |-> Hardware \in ToSet(u.frags), base |-> u.base,
     extras |-> SelectSeq(u.frags, LAMBDA f : ~isRecognizedFragment(f))]

Written(track, rows) == IF rows = <<>> \/ rows[1] = "exclude" THEN <<>> ELSE [i \in 1..Len(rows) |-> <<track, rows[i]>>]

buildFfmpegUrl(p) ==
    [ffmpeg |-> TRUE, base |-> p.base,
     frags |-> Written("video", p.videos) \o Written("audio", p.audios)
               \o (IF p.hardware THEN <<Hardware>> ELSE <<>>) \o p.extras]

Parsed == parseFfmpegUrl(url)
Transcodes(p) == \E i \in DOMAIN p.videos : p.videos[i] = "h264"
Rows(p) == [videos |-> p.videos, audios |-> p.audios, hardware |-> p.hardware]

UrlInit ==
    /\ \E ff \in BOOLEAN, frags \in {<<>>, <<Extra>>, <<V("copy"), A("aac"), Extra>>, <<A("opus"), V("h264"), Hardware>>} :
        url = [ffmpeg |-> ff, base |-> 1, frags |-> frags]
    /\ edits = 0 /\ choice = Rows(Parsed) /\ kept = [base |-> 1, extras |-> Parsed.extras]

UrlTypeOK ==
    /\ url.ffmpeg \in BOOLEAN /\ url.base \in 1..2 /\ url.frags \in Seq(Fragment)
    /\ Len(choice.videos) \in 1..MaxRows /\ Len(choice.audios) \in 1..MaxRows

Edit == edits < MaxEdits /\ edits' = edits + 1

(***************************************************************************)
(* The rows of the ffmpeg module                                           *)
(***************************************************************************)
MutKeepsHardware(p) == p   \* mutant: hardware stays when nothing is transcoded
Normal(p) == [p EXCEPT !.hardware = @ /\ Transcodes(p)]

persistFfmpeg(p) ==
    /\ Edit /\ url.ffmpeg /\ url' = buildFfmpegUrl(Normal(p))
    /\ choice' = [Rows(p) EXCEPT !.hardware = @ /\ Transcodes(p)] /\ UNCHANGED kept

\* To exclude the track in its first row drops the others.
Chosen(rows, i, v) == IF i = 1 /\ v = "exclude" THEN <<v>> ELSE [rows EXCEPT ![i] = v]
updateVideoAt(i, v) == i \in DOMAIN Parsed.videos /\ (v = "exclude" => i = 1) /\ persistFfmpeg([Parsed EXCEPT !.videos = Chosen(@, i, v)])
updateAudioAt(i, a) == i \in DOMAIN Parsed.audios /\ (a = "exclude" => i = 1) /\ persistFfmpeg([Parsed EXCEPT !.audios = Chosen(@, i, a)])
CanAdd(rows) == rows # <<>> /\ rows[1] # "exclude" /\ Len(rows) < MaxRows
addVideo == CanAdd(Parsed.videos) /\ persistFfmpeg([Parsed EXCEPT !.videos = Append(@, "copy")])
addAudio == CanAdd(Parsed.audios) /\ persistFfmpeg([Parsed EXCEPT !.audios = Append(@, "aac")])
removeVideoAt(i) == i \in DOMAIN Parsed.videos \ {1} /\ persistFfmpeg([Parsed EXCEPT !.videos = RemoveAt(@, i)])
removeAudioAt(i) == i \in DOMAIN Parsed.audios \ {1} /\ persistFfmpeg([Parsed EXCEPT !.audios = RemoveAt(@, i)])
updateHardware(h) == Transcodes(Parsed) /\ persistFfmpeg([Parsed EXCEPT !.hardware = h])

(***************************************************************************)
(* The input and the switch                                                *)
(***************************************************************************)
\* The input holds base and other fragments; recognized ones typed into it are dropped in
\* ffmpeg mode, and are part of the URL without it.
handleBaseUrlChange(typed) ==
    /\ Edit
    /\ LET extras == SelectSeq(typed, LAMBDA f : ~isRecognizedFragment(f))
       IN  /\ url' = IF url.ffmpeg THEN buildFfmpegUrl([Parsed EXCEPT !.base = 2, !.extras = extras])
                     ELSE [url EXCEPT !.base = 2, !.frags = typed]
           /\ kept' = [base |-> 2, extras |-> extras]
           /\ choice' = IF url.ffmpeg THEN choice ELSE Rows(parseFfmpegUrl(url'))

MutBareBase == [ffmpeg |-> FALSE, base |-> url.base, frags |-> <<>>]   \* mutant

\* Without the module only the other fragments are left.
Plain == [ffmpeg |-> FALSE, base |-> url.base, frags |-> Parsed.extras]

toggleFfmpegMode(enable) ==
    /\ Edit /\ enable # url.ffmpeg
    /\ url' = IF enable THEN [url EXCEPT !.ffmpeg = TRUE, !.frags = @ \o <<V("copy"), A("aac")>>] ELSE Plain
    /\ choice' = Rows(parseFfmpegUrl(url')) /\ UNCHANGED kept

Bounded == Len(Parsed'.videos) <= MaxRows /\ Len(Parsed'.audios) <= MaxRows
UrlNext ==
    /\ \/ \E i \in 1..MaxRows : removeVideoAt(i) \/ removeAudioAt(i)
       \/ \E i \in 1..MaxRows, v \in Video \cup {"exclude"} : updateVideoAt(i, v)
       \/ \E i \in 1..MaxRows, a \in Audio \cup {"exclude"} : updateAudioAt(i, a)
       \/ addVideo \/ addAudio \/ (\E b \in BOOLEAN : updateHardware(b) \/ toggleFfmpegMode(b))
       \/ \E typed \in {<<>>, <<Extra>>, <<V("h264"), Extra>>} : handleBaseUrlChange(typed)
    /\ Bounded
UrlSpec == UrlInit /\ [][UrlNext]_urlVars

(***************************************************************************)
(* Properties                                                              *)
(***************************************************************************)
\* The rows show what was chosen in them, although it went through the URL and back
\* (persistFfmpeg, buildFfmpegUrl, parseFfmpegUrl).
ChoiceIsShown == Rows(Parsed) = choice

\* The base and the fragments the rows do not manage survive every choice and every switch of
\* the module (toggleFfmpegMode, handleBaseUrlChange).
TypedIsKept == Parsed.base = kept.base /\ Parsed.extras = kept.extras

\* Hardware acceleration is only asked for when video is transcoded.
HardwareNeedsCodec == url.ffmpeg /\ Parsed.hardware => Transcodes(Parsed)
=============================================================================
