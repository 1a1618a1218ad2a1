------------------------------- MODULE Feeds --------------------------------
(***************************************************************************)
(* The logs page: the logs of the services, and the feed of websocket      *)
(* messages.  The two share no state.                                      *)
(***************************************************************************)
EXTENDS FiniteSets, Integers, Sequences, SequencesExt

CONSTANTS
    Null,
    MaxLogsUser,      \* bound: acts of the user
    MaxLines,         \* bound: lines of a log
    PageSize,         \* lines fetched at a time (100)
    MaxMessagesUser,  \* bound: acts of the user
    MaxMessages,      \* bound: messages
    MaxSize           \* messages buffered (2000)

(***************************************************************************)
(* The page that shows the logs of the services: the last lines of a log   *)
(* are fetched, then a stream appends what is written, and older lines are *)
(* fetched as the user scrolls up.  A line is its service and its number.  *)
(***************************************************************************)
Services == {"frigate", "go2rtc"}
Tabs == Services \cup {"websocket"}

(* What a line of the log says of its severity, and what is read of it: a  *)
(* mark go2rtc writes for debugging is none of those looked for.           *)
Mark == [frigate |-> <<"INFO", "ERROR", "INFO", "none">>, go2rtc |-> <<"ERR", "DBG", "INF", "ERR">>]   \* bound
frigateSeverity(mark) == IF mark = "ERROR" THEN "error" ELSE IF mark = "none" THEN "unknown" ELSE "info"
goSeverity(mark) == IF mark = "ERR" THEN "error" ELSE "info"
parseLogLines(line) ==
    LET mark == Mark[line[1]][line[2]]
    IN IF line[1] = "frigate" THEN frigateSeverity(mark) ELSE goSeverity(mark)
Severities == {"info", "error"}    \* bound: of the four to choose from

VARIABLES
    total,         \* the server: lines written to each log
    logService, filterSeverity,   \* {} when no severity is chosen
    logs,          \* lines of the last answer
    lines,         \* lines of the viewer, which is mounted unless loading
    isLoading, lastFetchedIndex, disableStreaming,
    requests,      \* fetches under way
    stream,        \* the stream read, or Null
    selectedLog, copied,          \* the line whose dialog is open; the lines last copied
    mounted,
    run,           \* history: how often the effect ran
    late,          \* history: an answer came to a page that shows something else
    tangled,       \* history: lines were scrolled to while others were fetched or while filtered,
                   \* or copied while others were fetched or streamed, or a copy failed
    logsUsers

logsChosen == <<logService, filterSeverity>>
logsVars == <<total, logsChosen, logs, lines, isLoading, lastFetchedIndex, disableStreaming, requests, stream,
          selectedLog, copied, mounted, run, late, tangled, logsUsers>>

Lines == Services \X (1..MaxLines)
isWebsocket == logService = "websocket"
viewer == mounted /\ ~isWebsocket /\ ~isLoading
filterLines(s, filter, ns) ==
    SelectSeq([i \in 1..Len(ns) |-> <<s, ns[i]>>], LAMBDA l : filter = {} \/ parseLogLines(l) \in filter)
numbers(from, to) == [i \in 1..(to - from) |-> from + i]
larger(a, b) == IF a > b THEN a ELSE b

LogsTypeOK ==
    /\ total \in [Services -> 0..MaxLines] /\ logService \in Tabs /\ filterSeverity \subseteq Severities
    /\ logs \in Seq(Lines) /\ lines \in Seq(Lines) /\ lastFetchedIndex \in -1..MaxLines
    /\ isLoading \in BOOLEAN /\ disableStreaming \in BOOLEAN

LogsInit ==
    /\ total = [s \in Services |-> PageSize + 1]
    /\ logService = "frigate" /\ filterSeverity = {} /\ logs = <<>> /\ lines = <<>>
    /\ isLoading = TRUE /\ lastFetchedIndex = -1 /\ disableStreaming = FALSE
    /\ requests = {[kind |-> "first", service |-> "frigate", filter |-> {}, streams |-> TRUE, seen |-> -1,
                  from |-> 0, run |-> 0, old |-> <<>>]}
    /\ stream = Null /\ selectedLog = Null /\ copied = <<>> /\ mounted = TRUE /\ run = 0
    /\ late = FALSE /\ tangled = FALSE /\ logsUsers = MaxLogsUser

LogsActs == mounted /\ selectedLog = Null /\ logsUsers > 0 /\ logsUsers' = logsUsers - 1

(* The effect of another service or filter: only the stream is ended, and   *)
(* nothing is when the websocket's messages were shown.                     *)
Refetch(s, filter) ==
    /\ Cardinality(requests) < 2   \* bound
    /\ logService' = s /\ filterSeverity' = filter /\ logs' = <<>> /\ lines' = <<>>
    /\ stream' = IF isWebsocket THEN stream ELSE Null
    /\ isLoading' = (s # "websocket")
    /\ lastFetchedIndex' = IF s = "websocket" THEN lastFetchedIndex ELSE -1
    /\ requests' = IF s = "websocket" THEN requests
                   ELSE requests \cup {[kind |-> "first", service |-> s, filter |-> filter, seen |-> -1,
                                        from |-> 0, run |-> run + 1, streams |-> ~disableStreaming, old |-> <<>>]}
    /\ run' = run + 1
    /\ UNCHANGED <<total, disableStreaming, copied, mounted, late, tangled>>

SelectService(s) ==
    /\ LogsActs /\ s # logService /\ Refetch(s, {}) /\ UNCHANGED selectedLog

updateLabelFilter(filter) ==
    /\ LogsActs /\ ~isWebsocket /\ filter # filterSeverity
    /\ filter = {} \/ \E l \in Severities : filter = filterSeverity \cup {l} \/ (filter = filterSeverity \ {l})
    /\ Refetch(logService, filter) /\ UNCHANGED selectedLog

(* A line is pressed: a dialog opens on it, then the row around it opens    *)
(* one on the line of the last answer at its place, if there is one.        *)
handleRowClick(i) == IF i <= Len(logs) THEN logs[i] ELSE lines[i]
OnSelect(i) ==
    /\ LogsActs /\ viewer /\ i \in 1..Len(lines) /\ requests = {}   \* bound
    /\ selectedLog' = handleRowClick(i)
    /\ UNCHANGED <<total, logsChosen, logs, lines, isLoading, lastFetchedIndex, disableStreaming, requests, stream,
                   copied, mounted, late, tangled, run>>

OnClickSeverity(i) ==
    /\ LogsActs /\ viewer /\ i \in 1..Len(lines)
    /\ LET severity == parseLogLines(lines[i])
       IN severity \in Severities /\ Refetch(logService, {severity})
    /\ UNCHANGED selectedLog

CloseLine ==
    /\ selectedLog # Null /\ selectedLog' = Null
    /\ UNCHANGED <<total, logsChosen, logs, lines, isLoading, lastFetchedIndex, disableStreaming, requests, stream,
                   copied, mounted, late, tangled, run, logsUsers>>

SetDisableStreaming ==
    /\ LogsActs /\ ~isWebsocket /\ disableStreaming' = ~disableStreaming
    /\ UNCHANGED <<total, logsChosen, logs, lines, isLoading, lastFetchedIndex, requests, stream, selectedLog,
                   copied, mounted, late, tangled, run>>

handleScroll ==
    /\ LogsActs /\ viewer /\ lastFetchedIndex > 0
    /\ Cardinality(requests) < 2   \* bound
    /\ requests' = requests \cup {[kind |-> "range", service |-> logService, filter |-> filterSeverity, seen |-> -1,
                                   from |-> larger(0, lastFetchedIndex - PageSize), run |-> run, streams |-> FALSE,
                                   old |-> <<lastFetchedIndex>>]}
    /\ tangled' = (tangled \/ requests # {} \/ filterSeverity # {})
    /\ UNCHANGED <<total, logsChosen, logs, lines, isLoading, lastFetchedIndex, disableStreaming, stream, selectedLog,
                   copied, mounted, late, run>>

handleCopyLogs ==
    /\ LogsActs /\ ~isWebsocket /\ logs # <<>> /\ Cardinality(requests) < 2   \* bound
    /\ requests' = requests \cup {[kind |-> "copy", service |-> logService, filter |-> filterSeverity, seen |-> -1,
                                   from |-> 0, run |-> run, streams |-> FALSE, old |-> logs]}
    /\ isLoading' = TRUE /\ lines' = <<>>
    /\ tangled' = (tangled \/ requests # {} \/ stream # Null)
    /\ UNCHANGED <<total, logsChosen, logs, lastFetchedIndex, disableStreaming, stream, selectedLog, copied, mounted,
                   late, run>>

Leave ==
    /\ LogsActs /\ mounted' = FALSE /\ stream' = IF isWebsocket THEN stream ELSE Null
    /\ UNCHANGED <<total, logsChosen, logs, lines, isLoading, lastFetchedIndex, disableStreaming, requests, selectedLog,
                   copied, late, tangled, run>>

(* The server: a line is written, a request is answered, the stream begins  *)
(* at the end the log has by then and sends the lines that follow.          *)
Write(s) ==
    /\ mounted /\ total[s] < MaxLines /\ \A o \in Services \ {s} : total[o] = PageSize + 1   \* bound
    /\ total' = [total EXCEPT ![s] = @ + 1]
    /\ UNCHANGED <<logsChosen, logs, lines, isLoading, lastFetchedIndex, disableStreaming, requests, stream, selectedLog,
                   copied, mounted, late, tangled, logsUsers, run>>

Read(r) ==
    /\ r.seen = -1 /\ requests' = (requests \ {r}) \cup {[r EXCEPT !.seen = total[r.service]]}
    /\ UNCHANGED <<total, logsChosen, logs, lines, isLoading, lastFetchedIndex, disableStreaming, stream, selectedLog,
                   copied, mounted, late, tangled, logsUsers, run>>

Foreign(r) == ~mounted \/ r.run # run
fetchLogsStream(r) == [service |-> r.service, filter |-> r.filter, from |-> -1, sent |-> -1]

(* fetchInitialLogs: asked first, or again for a copy, which takes the      *)
(* lines there were; a failure leaves them, and the stream begins anyway.   *)
fetchInitialLogs(r, ok) ==
    /\ r \in requests /\ r.kind \in {"first", "copy"} /\ r.seen # -1 /\ requests' = requests \ {r}
    /\ LET first == IF r.filter # {} THEN 0 ELSE larger(0, r.seen - PageSize)
           answer == filterLines(r.service, r.filter, numbers(first, r.seen))
       IN /\ logs' = IF ok THEN answer ELSE logs
          /\ lastFetchedIndex' = IF ok THEN r.seen - Len(answer) ELSE lastFetchedIndex
          /\ lines' = IF ok /\ (isLoading \/ answer # logs) THEN answer
                      ELSE IF isLoading THEN logs ELSE lines
    /\ isLoading' = FALSE
    /\ copied' = IF r.kind = "copy" THEN r.old ELSE copied
    /\ stream' = IF r.streams THEN fetchLogsStream(r) ELSE stream
    /\ late' = (late \/ Foreign(r)) /\ tangled' = (tangled \/ (r.kind = "copy" /\ ~ok))
    /\ UNCHANGED <<total, logsChosen, disableStreaming, selectedLog, mounted, logsUsers, run>>

fetchLogRange(r, ok) ==
    /\ r \in requests /\ r.kind = "range" /\ r.seen # -1 /\ requests' = requests \ {r}
    /\ LET answer == IF ok THEN filterLines(r.service, r.filter, numbers(r.from, r.old[1])) ELSE <<>>
       IN /\ lines' = IF viewer THEN answer \o lines ELSE lines
          /\ lastFetchedIndex' = IF answer # <<>> THEN r.from ELSE lastFetchedIndex
    /\ late' = (late \/ Foreign(r))
    /\ UNCHANGED <<total, logsChosen, logs, isLoading, disableStreaming, stream, selectedLog, copied, mounted, tangled, logsUsers, run>>

OpenStream ==
    /\ stream # Null /\ stream.from = -1
    /\ stream' = [stream EXCEPT !.from = total[stream.service], !.sent = total[stream.service]]
    /\ UNCHANGED <<total, logsChosen, logs, lines, isLoading, lastFetchedIndex, disableStreaming, requests, selectedLog,
                   copied, mounted, late, tangled, logsUsers, run>>

processStreamChunk ==
    /\ stream # Null /\ stream.from # -1 /\ stream.sent < total[stream.service]
    /\ LET new == filterLines(stream.service, stream.filter, numbers(stream.sent, total[stream.service]))
       IN lines' = IF viewer THEN lines \o new ELSE lines
    /\ stream' = [stream EXCEPT !.sent = total[stream.service]]
    /\ UNCHANGED <<total, logsChosen, logs, isLoading, lastFetchedIndex, disableStreaming, requests, selectedLog, copied,
                   mounted, late, tangled, logsUsers, run>>

EndStream ==     \* the server closes it
    /\ stream # Null /\ stream' = Null
    /\ UNCHANGED <<total, logsChosen, logs, lines, isLoading, lastFetchedIndex, disableStreaming, requests, selectedLog,
                   copied, mounted, late, tangled, logsUsers, run>>

LogsNext ==
    \/ \E s \in Tabs : SelectService(s)
    \/ \E filter \in SUBSET Severities : updateLabelFilter(filter)
    \/ \E i \in 1..Len(lines) : OnClickSeverity(i) \/ OnSelect(i)
    \/ CloseLine \/ SetDisableStreaming \/ handleScroll \/ handleCopyLogs \/ Leave
    \/ \E s \in Services : Write(s)
    \/ \E r \in requests : Read(r)
    \/ \E r \in requests, ok \in BOOLEAN : fetchInitialLogs(r, ok) \/ fetchLogRange(r, ok)
    \/ OpenStream \/ processStreamChunk \/ EndStream

LogsSpec == LogsInit /\ [][LogsNext]_logsVars

(* Whatever is fetched, streamed and scrolled to, the viewer holds lines of *)
(* the service and the severities chosen, in the order they were written    *)
(* and none twice, unless an answer came to a page that shows something     *)
(* else, scrolling met another fetch or a filter, copying met another fetch *)
(* or a stream, or failed.                                                 *)
LinesAreChosen ==
    viewer /\ ~late => \A i \in 1..Len(lines) :
        lines[i][1] = logService /\ (filterSeverity = {} \/ parseLogLines(lines[i]) \in filterSeverity)
LinesInOrder ==
    viewer /\ ~late /\ ~tangled => \A i, j \in 1..Len(lines) : i < j => lines[i][2] < lines[j][2]

(* The next lines scrolled to are those just before the first one shown.    *)
ScrollContinues ==
    viewer /\ ~late /\ ~tangled /\ filterSeverity = {} /\ lines # <<>> /\ lastFetchedIndex >= 0 =>
        lines[1][2] = lastFetchedIndex + 1

(* What the stream has sent is shown, with the same exceptions.             *)
StreamIsShown ==
    (viewer /\ ~late /\ ~tangled /\ stream # Null) => (stream.from = -1 \/
        \A n \in (stream.from + 1)..stream.sent :
            LET l == <<logService, n>>
            IN l \in ToSet(lines) \/ (filterSeverity # {} /\ parseLogLines(l) \notin filterSeverity))

(* Not so: an answer of the service left is shown as the new one's, and its *)
(* stream takes the place of the new one's (Logs.tsx:239);                  *)
PageIsOfService == viewer => \A i \in 1..Len(lines) : lines[i][1] = logService
(* a line is shown once: with a filter the first answer is the whole log,   *)
(* and scrolling up fetches what is shown once more (Logs.tsx:145);         *)
LineIsShownOnce == viewer => Cardinality(ToSet(lines)) = Len(lines)
(* the stream ends with the page;                                           *)
StreamEndsWithPage == ~mounted => stream = Null
(* every line from the first one shown on is shown;                         *)
NoLineIsMissing == viewer /\ ~late /\ filterSeverity = {} /\ lines # <<>> =>
    \A n \in lines[1][2]..Last(lines)[2] : <<logService, n>> \in ToSet(lines)
(* the dialog opened on a row is on its line (Logs.tsx:367);               *)
DialogIsOfRow == [][\A i \in 1..Len(lines) : OnSelect(i) => selectedLog' = lines[i]]_logsVars
(* the copy is of the lines fetched for it (Logs.tsx:330).                  *)
CopyIsFetched == [][copied' # copied => copied' = logs']_logsVars

(***************************************************************************)
(* The feed of websocket messages on the logs page: a bounded buffer that  *)
(* cameras are filtered into, shown in batches, with topics filtered out   *)
(* of it, a row that can be expanded, and the two menus of filters.        *)
(***************************************************************************)
Cameras == {"c1", "c2"}
(* What a message can be, with the camera it can be told to be of: a topic  *)
(* that begins with the camera's name, or a payload that names it.          *)
Kinds == {"detect/state", "face", "stats"}   \* bound
extractCameraName(m) == IF m.kind \in {"detect/state", "face"} THEN m.camera ELSE Null
ALL_TOPIC_CATEGORIES == {"face_recognition", "system", "camera_activity"}   \* bound: of seven
category(m) ==
    CASE m.kind = "face" -> "face_recognition"
      [] m.kind = "stats" -> "system"
      [] OTHER -> "camera_activity"

VARIABLES
    next,              \* number of the next message
    buffer, dirty,     \* of the hook
    messages,          \* what the last render took of the buffer
    paused, selectedTopics, selectedCameras,     \* filters: {} when all are shown
    open,              \* the menu that is open, or Null
    current,           \* what is chosen in each menu
    locked,            \* the feed is that of one camera
    expanded,          \* rows with their payload shown
    accepted,          \* history: messages taken since the buffer was cleared
    messagesUsers

filters == <<paused, selectedTopics, selectedCameras>>
messagesVars == <<next, buffer, dirty, messages, filters, open, current, locked, expanded, accepted, messagesUsers>>

Messages == [id : 1..MaxMessages, kind : Kinds, camera : Cameras]
Menus == {"topics", "cameras"}
All(menu) == IF menu = "topics" THEN ALL_TOPIC_CATEGORIES ELSE Cameras
selected == [topics |-> selectedTopics, cameras |-> selectedCameras]

matchesCategories(m) == selectedTopics = {} \/ category(m) \in selectedTopics
filteredMessages == SelectSeq(messages, matchesCategories)
shouldIncludeMessage(m) ==
    selectedCameras = {} \/ extractCameraName(m) = Null \/ extractCameraName(m) \in selectedCameras

MessagesTypeOK ==
    /\ next \in 1..(MaxMessages + 1) /\ buffer \in Seq(Messages) /\ messages \in Seq(Messages) /\ dirty \in BOOLEAN
    /\ paused \in BOOLEAN /\ selectedTopics \subseteq ALL_TOPIC_CATEGORIES /\ selectedCameras \subseteq Cameras
    /\ open \in Menus \cup {Null} /\ \A menu \in Menus : current[menu] \subseteq All(menu)
    /\ expanded \subseteq 1..MaxMessages

MessagesInit ==
    /\ locked \in BOOLEAN
    /\ next = 1 /\ buffer = <<>> /\ dirty = FALSE /\ messages = <<>> /\ paused = FALSE
    /\ selectedTopics = {} /\ selectedCameras = (IF locked THEN {"c1"} ELSE {})
    /\ open = Null /\ current = [topics |-> {}, cameras |-> selectedCameras]
    /\ expanded = {} /\ accepted = <<>> /\ messagesUsers = MaxMessagesUser

processWsMessage(kind, camera) ==
    /\ kind = "stats" => camera = "c1"
    /\ next <= MaxMessages /\ next' = next + 1
    /\ LET m == [id |-> next, kind |-> kind, camera |-> camera]
           longer == Append(buffer, m)
           taken == ~paused /\ shouldIncludeMessage(m)
       IN /\ buffer' = IF ~taken THEN buffer
                       ELSE IF Len(longer) > MaxSize THEN SubSeq(longer, 1 + Len(longer) - MaxSize, Len(longer))
                       ELSE longer
          /\ dirty' = (dirty \/ taken)
          /\ accepted' = IF taken THEN Append(accepted, m) ELSE accepted
    /\ UNCHANGED <<messages, filters, open, current, locked, expanded, messagesUsers>>

(* Rows leave with their messages, and with what was expanded of them.      *)
Ids(ms) == {ms[i].id : i \in 1..Len(ms)}
Rows(ms, topics) == Ids(SelectSeq(ms, LAMBDA m : topics = {} \/ category(m) \in topics))
Batch ==     \* every 200 ms
    /\ dirty /\ dirty' = FALSE /\ messages' = buffer /\ expanded' = expanded \cap Rows(buffer, selectedTopics)
    /\ UNCHANGED <<next, buffer, filters, open, current, locked, accepted, messagesUsers>>

MessagesActs == messagesUsers > 0 /\ messagesUsers' = messagesUsers - 1

SetPaused ==
    /\ MessagesActs /\ open = Null /\ paused' = ~paused
    /\ UNCHANGED <<next, buffer, dirty, messages, selectedTopics, selectedCameras, open, current, locked, expanded, accepted>>

clear ==
    /\ MessagesActs /\ open = Null /\ buffer' = <<>> /\ messages' = <<>> /\ expanded' = {} /\ accepted' = <<>>
    /\ UNCHANGED <<next, dirty, filters, open, current, locked>>

handleToggle(id) ==
    /\ MessagesActs /\ open = Null /\ id \in Ids(filteredMessages)
    /\ expanded' = IF id \in expanded THEN expanded \ {id} ELSE expanded \cup {id}
    /\ UNCHANGED <<next, buffer, dirty, messages, filters, open, current, locked, accepted>>

SetOpen(menu) ==
    /\ MessagesActs /\ open = Null /\ (menu = "cameras" => ~locked) /\ open' = menu
    /\ UNCHANGED <<next, buffer, dirty, messages, filters, current, locked, expanded, accepted>>

OnOpenChange ==      \* closed without a choice
    /\ open # Null /\ open' = Null /\ current' = [current EXCEPT ![open] = selected[open]]
    /\ UNCHANGED <<next, buffer, dirty, messages, filters, locked, expanded, accepted, messagesUsers>>

(* A switch of the menu: the last topic off means all, the last camera      *)
(* cannot be switched off.                                                  *)
OnCheckedChange(item) ==
    /\ MessagesActs /\ open # Null /\ item \in All(open)
    /\ LET is == current[open]
       IN current' = [current EXCEPT ![open] = IF item \notin is THEN is \cup {item}
                                               ELSE IF open = "cameras" /\ Cardinality(is) = 1 THEN is
                                               ELSE is \ {item}]
    /\ UNCHANGED <<next, buffer, dirty, messages, filters, open, locked, expanded, accepted>>

OnAll ==
    /\ MessagesActs /\ open # Null /\ current' = [current EXCEPT ![open] = {}]
    /\ UNCHANGED <<next, buffer, dirty, messages, filters, open, locked, expanded, accepted>>

Choose(chosen) ==
    /\ selectedTopics' = IF open = "topics" THEN chosen ELSE selectedTopics
    /\ selectedCameras' = IF open = "cameras" THEN chosen ELSE selectedCameras
    /\ expanded' = expanded \cap Rows(messages, selectedTopics')
    /\ UNCHANGED <<next, buffer, dirty, messages, paused, locked, accepted, messagesUsers>>

OnApply == open # Null /\ Choose(current[open]) /\ open' = Null /\ UNCHANGED current
OnReset ==
    /\ open # Null /\ current[open] \cup selected[open] # {}
    /\ Choose({}) /\ current' = [current EXCEPT ![open] = {}] /\ UNCHANGED open

MessagesNext ==
    \/ \E kind \in Kinds, camera \in Cameras : processWsMessage(kind, camera)
    \/ Batch \/ SetPaused \/ clear
    \/ \E id \in 1..MaxMessages : handleToggle(id)
    \/ \E menu \in Menus : SetOpen(menu)
    \/ \E item \in ALL_TOPIC_CATEGORIES \cup Cameras : OnCheckedChange(item)
    \/ OnAll \/ OnOpenChange \/ OnApply \/ OnReset

MessagesSpec == MessagesInit /\ [][MessagesNext]_messagesVars

(* The buffer holds the newest messages taken since it was cleared, as many *)
(* as it may, and the rows are caught up with it after each batch.          *)
smaller(a, b) == IF a < b THEN a ELSE b
BufferIsNewest ==
    buffer = SubSeq(accepted, 1 + Len(accepted) - smaller(MaxSize, Len(accepted)), Len(accepted))
RowsCatchUp == ~dirty => messages = buffer

(* A menu that is closed holds the filter in force, and what is shown of a  *)
(* locked feed names no other camera.                                       *)
ClosedMenuIsFilter == \A menu \in Menus : open # menu => current[menu] = selected[menu]
LockedIsOwn == locked => \A i \in 1..Len(messages) : extractCameraName(messages[i]) \in {"c1", Null}

(* Only rows that are shown are expanded.                                   *)
ExpandedIsShown == expanded \subseteq Ids(filteredMessages)

(* Not so: the messages shown are of the cameras chosen, since cameras are  *)
(* filtered on the way into the buffer (use-ws-message-buffer.ts:72).       *)
ShownIsOfCameras == \A i \in 1..Len(filteredMessages) : shouldIncludeMessage(filteredMessages[i])
=============================================================================
