--------------------------- MODULE SystemMetrics ---------------------------
(***************************************************************************)
(* The graphs of the system page. Every tab visited stays mounted with a   *)
(* window of samples of its own: the server's history when it is read,     *)
(* then the samples published while the tab is the one shown. When a       *)
(* sample was taken last is one value for all tabs, and so is the text     *)
(* "last refreshed". A sample is the time it was taken at.                 *)
(***************************************************************************)
EXTENDS Integers, FiniteSets, Sequences, SequencesExt

CONSTANTS
    MaxTime,   \* bound: samples the server takes
    MaxUser    \* bound: acts of the user

MaxPoints == 2      \* bound: samples in the server's history (80 there)
Every == 2          \* the server publishes one sample of this many
Tabs == {"general", "enrichments", "cameras"}
Pages == Tabs \cup {"diagnostics", "storage"}

(* What a sample says. The hardware is reported from the second sample on,  *)
(* and the temperature of the detector by every other one.                  *)
Machines == {"nvidia", "intel", "npu", "nvidia with npu"}
reports(machine, t) ==
    LET gpu == IF machine = "intel" THEN {"gpu", "enc", "compute"}
               ELSE IF machine = "npu" THEN {} ELSE {"gpu", "mem", "enc", "dec", "temp"}
        npu == IF machine \in {"npu", "nvidia with npu"} THEN {"npu", "npu temp"} ELSE {}
    IN {"speed", "cpu", "memory", "fps"} \cup (IF t % 2 = 1 THEN {"detector temp"} ELSE {})
       \cup (IF t >= 2 THEN gpu \cup npu \cup {"late camera"} ELSE {})

VARIABLES
    now,               \* samples taken so far
    ws,                \* the sample delivered last, 0 for none
    page, visitedTabs,
    statsHistory,      \* tab -> the samples it shows
    initialStats,      \* tab -> the history it has read last
    reads,             \* tab -> reads on their way, in the order they were asked
    storageRead,       \* the storage tab waits for its figures
    lastUpdated,
    ahead,             \* tabs given a sample that had not been delivered
    overtaken,         \* tabs given a history older than a sample delivered
    outrun,            \* the storage tab has told a time later than a sample on its way
    users
vars == <<now, ws, page, visitedTabs, statsHistory, initialStats, reads, storageRead, lastUpdated, ahead, overtaken, outrun, users>>

TypeOK ==
    /\ now \in 1..MaxTime /\ ws \in 0..MaxTime /\ page \in Pages /\ visitedTabs \subseteq Pages
    /\ \A tab \in Tabs : statsHistory[tab] \in Seq(1..MaxTime) /\ Len(statsHistory[tab]) <= MaxPoints
    /\ lastUpdated \in 0..MaxTime /\ ahead \subseteq Tabs /\ overtaken \subseteq Tabs

Init ==
    /\ now = 1 /\ ws \in {0, 1}
    /\ page = "diagnostics" /\ visitedTabs = {"diagnostics"}
    /\ statsHistory = [tab \in Tabs |-> <<>>] /\ initialStats = statsHistory /\ reads = statsHistory
    /\ storageRead = FALSE /\ lastUpdated = now /\ ahead = {} /\ overtaken = {} /\ outrun = FALSE /\ users = MaxUser

----------------------------------------------------------------------------
(* The effect of every tab after a render: an empty window is filled with   *)
(* what was read, and the tab shown takes the sample delivered last when it *)
(* is newer than the one any tab took last.                                 *)
Settled(history, read, shown, sample, updated) ==
    LET filled == [tab \in Tabs |-> IF history[tab] = <<>> THEN read[tab] ELSE history[tab]]
        takes == shown \in {tab \in Tabs : filled[tab] # <<>>} /\ sample > updated
    IN [history |-> IF takes THEN [filled EXCEPT ![shown] = Append(Tail(@), sample)] ELSE filled,
        updated |-> IF takes THEN sample ELSE updated]
Settle(history, read, shown, sample, updated) ==
    LET after == Settled(history, read, shown, sample, updated)
    IN statsHistory' = after.history /\ lastUpdated' = after.updated

----------------------------------------------------------------------------
(* The server: it takes a sample, keeps the last ones and publishes some.   *)
getStatsHistory(t) == [i \in 1..(IF t < MaxPoints THEN t ELSE MaxPoints) |-> t - (IF t < MaxPoints THEN t ELSE MaxPoints) + i]
Published(t) == t % Every = 1
run ==
    /\ now < MaxTime /\ now' = now + 1
    /\ UNCHANGED <<ws, page, visitedTabs, statsHistory, initialStats, reads, storageRead, lastUpdated, ahead, overtaken, outrun, users>>

(* The next sample published reaches the page, in the order they were sent. *)
useFrigateStats ==
    \E t \in (ws + 1)..now :
        /\ Published(t) /\ \A s \in (ws + 1)..(t - 1) : ~Published(s)
        /\ ws' = t /\ Settle(statsHistory, initialStats, page, t, lastUpdated)
        /\ overtaken' = overtaken \ (IF lastUpdated' # lastUpdated THEN {page} ELSE {})
        /\ outrun' = (outrun /\ lastUpdated' = lastUpdated)
        /\ UNCHANGED <<now, page, visitedTabs, initialStats, reads, storageRead, ahead, users>>

----------------------------------------------------------------------------
(* A tab shown for the first time is mounted and reads the history; one     *)
(* shown again that has a window reads it anew, whatever it has asked for.  *)
Shows == {tab \in Tabs : statsHistory[tab] # <<>>}
refreshStats(tab) ==
    reads' = [reads EXCEPT ![tab] = Append([i \in DOMAIN @ |-> [@[i] EXCEPT !.latest = FALSE]],
                                           [asked |-> now, latest |-> TRUE, mount |-> statsHistory[tab] = <<>>])]
setPageToggle(p) ==
    /\ users > 0 /\ users' = users - 1 /\ page # p /\ page' = p /\ visitedTabs' = visitedTabs \cup {p}
    /\ Settle(statsHistory, initialStats, p, ws, lastUpdated)
    /\ IF p \in Shows \/ p \in Tabs \ visitedTabs THEN refreshStats(p) ELSE UNCHANGED reads
    /\ storageRead' = (storageRead \/ (p = "storage" /\ p \notin visitedTabs))
    /\ overtaken' = overtaken \ (IF lastUpdated' # lastUpdated THEN {p} ELSE {})
    /\ UNCHANGED <<now, ws, initialStats, ahead, outrun>>

(* An answer holds the history as it was at some time since it was asked    *)
(* for. Only that of the latest read is kept, and a failure keeps none, but *)
(* a window is replaced with what is kept whenever its refresh is over.     *)
Refreshed(tab, i, read) ==
    LET kept == [initialStats EXCEPT ![tab] = read]
        shown == IF read # <<>> /\ (statsHistory[tab] = <<>> \/ ~reads[tab][i].mount) THEN read ELSE statsHistory[tab]
    IN /\ initialStats' = kept /\ reads' = [reads EXCEPT ![tab] = RemoveAt(@, i)]
       /\ Settle([statsHistory EXCEPT ![tab] = shown], kept, page, ws, lastUpdated)
       /\ ahead' = IF shown = statsHistory[tab] THEN ahead
                   ELSE IF Last(shown) > lastUpdated THEN ahead \cup {tab} ELSE ahead \ {tab}
       /\ overtaken' = IF \E k \in DOMAIN statsHistory'[tab] : statsHistory'[tab][k] >= ws THEN overtaken \ {tab}
                       ELSE IF statsHistory'[tab] # <<>> THEN overtaken \cup {tab} ELSE overtaken
       /\ UNCHANGED <<now, ws, page, visitedTabs, storageRead, outrun, users>>
Answered(tab, i) ==
    \E t \in reads[tab][i].asked..now :
        Refreshed(tab, i, IF reads[tab][i].latest THEN getStatsHistory(t) ELSE initialStats[tab])
RefreshFails(tab, i) == ~reads[tab][i].mount /\ Refreshed(tab, i, initialStats[tab])

(* The figures of the storage tab: they are read when it is mounted and     *)
(* whenever the window is focused, shown or not, and tell the client's time.*)
totalStorage ==
    /\ storageRead /\ storageRead' = FALSE
    /\ Settle(statsHistory, initialStats, page, ws, now)
    /\ outrun' = (outrun \/ \E t \in (ws + 1)..now : Published(t))
    /\ UNCHANGED <<now, ws, page, visitedTabs, initialStats, reads, ahead, overtaken, users>>
Focus ==
    /\ users > 0 /\ users' = users - 1 /\ "storage" \in visitedTabs /\ ~storageRead /\ storageRead' = TRUE
    /\ UNCHANGED <<now, ws, page, visitedTabs, statsHistory, initialStats, reads, lastUpdated, ahead, overtaken, outrun>>

Next ==
    \/ run \/ useFrigateStats \/ totalStorage \/ Focus
    \/ \E p \in Pages : setPageToggle(p)
    \/ \E tab \in Tabs : \E i \in DOMAIN reads[tab] : Answered(tab, i) \/ RefreshFails(tab, i)
Spec == Init /\ [][Next]_vars

----------------------------------------------------------------------------
(* The graphs: a point of a series has its place in the window, counted     *)
(* from one by the bars and from nought by the lines of the cameras.        *)
Points(tab, machine, field, first) ==
    {[x |-> i - 1 + first, sample |-> statsHistory[tab][i]] :
        i \in {j \in DOMAIN statsHistory[tab] : field \in reports(machine, statsHistory[tab][j])}}
detectorSeries(machine, field) == Points("general", machine, field, 1)
gpuSeries(machine, field) == Points("general", machine, field, 1)
npuSeries(machine, field) == Points("general", machine, field, 1)
processSeries(machine, field) == Points("general", machine, field, 1)
enrichmentSeries(machine, field) == Points("enrichments", machine, field, 1)
cameraSeries(machine, field) == Points("cameras", machine, field, 0)
updateTimes(tab) == statsHistory[tab]
ThresholdBarGraph(tab, x) == updateTimes(tab)[IF x < 1 THEN 1 ELSE x]
EventsPerSecondsLineGraph(tab, x) == updateTimes(tab)[x]
CameraLineGraph(tab, x) == updateTimes(tab)[x + 1]

(* What the first sample of the window reports decides on the hardware.     *)
first(machine) == IF "general" \in Shows THEN reports(machine, Head(statsHistory["general"])) ELSE {}
gpuMemSeries(machine) == machine # "intel" \/ "gpu" \notin first(machine)
GpuFields == {"enc", "compute", "dec", "temp"}
hardwareCardCount(machine) ==
    IF "gpu" \notin first(machine) THEN 0
    ELSE 1 + (IF gpuMemSeries(machine) THEN 1 ELSE 0) + Cardinality({f \in GpuFields : gpuSeries(machine, f) # {}})
           + (IF "npu" \in first(machine) THEN (IF npuSeries(machine, "npu temp") # {} THEN 2 ELSE 1) ELSE 0)
cards(machine) ==
    IF "gpu" \notin first(machine) THEN {}
    ELSE {"gpu"} \cup (IF gpuMemSeries(machine) THEN {"mem"} ELSE {}) \cup {f \in GpuFields : gpuSeries(machine, f) # {}}
         \cup (IF "npu" \in first(machine) THEN {"npu"} ELSE {})
         \cup (IF "npu" \in first(machine) /\ npuSeries(machine, "npu temp") # {} THEN {"npu temp"} ELSE {})

(* The time below a point of any graph is the time its sample was taken:    *)
(* bars and lines count from different numbers and label accordingly, and   *)
(* samples without the value move no other point.                           *)
PointsAreDated ==
    \A machine \in Machines :
        /\ \A field \in {"speed", "cpu", "memory", "detector temp"} :
              \A p \in detectorSeries(machine, field) \cup processSeries(machine, field) : ThresholdBarGraph("general", p.x) = p.sample
        /\ \A field \in GpuFields : \A p \in gpuSeries(machine, field) : ThresholdBarGraph("general", p.x) = p.sample
        /\ \A p \in enrichmentSeries(machine, "speed") :
              ThresholdBarGraph("enrichments", p.x) = p.sample /\ EventsPerSecondsLineGraph("enrichments", p.x) = p.sample
        /\ \A field \in {"fps", "late camera"} : \A p \in cameraSeries(machine, field) : CameraLineGraph("cameras", p.x) = p.sample

(* There are as many columns as cards of hardware.                          *)
ColumnsAreCards == \A machine \in Machines : hardwareCardCount(machine) = Cardinality(cards(machine))

(* A window is in the order of time, each sample once, unless a history     *)
(* that was read held a sample before the page was told of it.              *)
Ascending(s) == \A i, j \in DOMAIN s : i < j => s[i] < s[j]
OrderUnlessAhead == \A tab \in Tabs \ ahead : Ascending(statsHistory[tab])

(* The tab shown has the sample delivered last once no read is on its way,  *)
(* unless a history older than that sample was the last to arrive or the    *)
(* storage tab, shown or not, has told a later time meanwhile.              *)
CurrentUnlessOvertaken ==
    page \in Tabs => \/ statsHistory[page] = <<>> \/ reads[page] # <<>> \/ page \in overtaken \/ outrun
                     \/ \E i \in DOMAIN statsHistory[page] : statsHistory[page][i] >= ws

InOrder == \A tab \in Tabs : Ascending(statsHistory[tab])
AlwaysCurrent == overtaken = {}
NpuIsShown == \A machine \in Machines : "npu" \in first(machine) => "npu" \in cards(machine)
=============================================================================
