----------------------------- MODULE Incidents -----------------------------
(***************************************************************************)
(* Alerts and incidents made of reviews: the alert centre, the widget of   *)
(* the command centre and the incident workspace, with the rules that rank *)
(* and group reviews and the sound that announces them; and the counts of  *)
(* the analytics page.  Reviews are numbered in the order they begin.      *)
(***************************************************************************)
EXTENDS Integers, FiniteSets, Sequences, SequencesExt

CONSTANTS
    Null,
    MaxUser,    \* bound: acts of the user and of others
    MaxPlayed,  \* incidents remembered as announced (200)
    Hours       \* hours of a day

Reviews == 1..3
Start == <<0, 100, 250>>          \* seconds
Hour == <<Hours - 1, 0, 0>>
Pages == {"alerts", "home", "review"}
Kinds == {"routine", "walker", "visitor", "breach", "driver"}
KindsOf == <<{"routine", "visitor"}, {"walker", "breach"}, {"driver"}>>   \* bound
objects(k) == IF k = "routine" THEN {"dog"} ELSE IF k = "driver" THEN {"car"} ELSE {"person"}
isAlert(k) == k \in {"visitor", "breach"}
zones(k) == IF k = "breach" THEN {"restricted"} ELSE IF k = "driver" THEN {"gate"} ELSE {}

VARIABLES
    kind,          \* what each review is about
    begun,         \* the server: reviews made so far
    reviewed,
    page,          \* the page shown, or "crashed"
    reviewItems,   \* per page: the list last read (its key differs), Null before
    loading,
    detail,        \* the incident looked up while the widget had nothing to show, or Null
    requests,      \* resolves and lookups under way
    acknowledgedIds, filters,   \* of the page shown
    isMuted, playedIncidentIds, \* of the client; the page's own muted never differs
    heard,         \* history: how often each incident was announced
    evicted,       \* history: incidents forgotten
    silent,        \* history: the list shown was first drawn while muted
    lost,          \* history: an answer to a resolve was lost, or someone else resolved
    users

server == <<kind, begun, reviewed>>
sound == <<isMuted, playedIncidentIds, heard, evicted, silent>>
vars == <<server, page, reviewItems, loading, detail, requests, acknowledgedIds, filters, sound, lost, users>>

Ids == 1..begun
Listing == [ids : SUBSET Reviews, reviewed : SUBSET Reviews]
NoFilters == [severity |-> -1, status |-> "ALL", detectionClass |-> "ALL"]

TypeOK ==
    /\ kind \in [Reviews -> Kinds] /\ begun \in 0..3 /\ reviewed \subseteq Reviews
    /\ page \in Pages \cup {"crashed"} /\ loading \in BOOLEAN
    /\ reviewItems \in [Pages -> Listing \cup {Null}]
    /\ acknowledgedIds \subseteq Reviews \X {"alert"} /\ isMuted \in BOOLEAN
    /\ playedIncidentIds \in Seq(Reviews) /\ Len(playedIncidentIds) <= MaxPlayed

Init ==
    /\ kind = [i \in Reviews |-> "routine"] /\ begun = 0 /\ reviewed = {}
    /\ page \in Pages /\ reviewItems = [p \in Pages |-> Null] /\ loading = TRUE /\ detail = Null /\ requests = {}
    /\ acknowledgedIds = {} /\ filters = NoFilters
    /\ isMuted \in BOOLEAN /\ playedIncidentIds = <<>> /\ heard = [i \in Reviews |-> 0]
    /\ evicted = {} /\ silent = FALSE /\ lost = FALSE /\ users = 0

(***************************************************************************)
(* The rules                                                               *)
(***************************************************************************)
\* LOW to CRITICAL as 0 to 3.
evaluateIncidentIntelligence(k) ==
    LET person == "person" \in objects(k)    vehicle == "car" \in objects(k)
        restricted == "restricted" \in zones(k)    entry == "gate" \in zones(k)
        seen == person \/ isAlert(k)
    IN  IF restricted /\ seen THEN 3
        ELSE IF ((restricted \/ entry) /\ (seen \/ vehicle)) \/ (person /\ isAlert(k)) THEN 2
        ELSE IF person \/ vehicle THEN 1 ELSE 0

\* Of an incident: the facts of its newest review, with the objects and zones of all.
getIncidentSeverity(alert, objs, zs) ==
    CASE alert /\ "restricted" \in zs -> 3
      [] alert \/ ("person" \in objs /\ "restricted" \in zs) -> 2
      [] OTHER -> 1

getIncidentStatus(isReviewed, isAcknowledged) ==
    IF isReviewed THEN "RESOLVED" ELSE IF isAcknowledged THEN "ACKNOWLEDGED" ELSE "ACTIVE"

dedupKey(i) == <<zones(kind[i]), Start[i] \div 180>>
Listed(list) == {i \in list.ids : evaluateIncidentIntelligence(kind[i]) > 0 \/ i \notin list.reviewed}
Group(list, i) == {j \in Listed(list) : dedupKey(j) = dedupKey(i)}

Newest(S) == CHOOSE i \in S : \A j \in S : j <= i

\* "Keep highest priority": a CRITICAL review raises its group, a HIGH one only a MEDIUM group.
GroupPriority(list, i) ==
    LET first == evaluateIncidentIntelligence(kind[Newest(Group(list, i))])
        with(p) == \E j \in Group(list, i) : evaluateIncidentIntelligence(kind[j]) = p
    IN  IF with(3) THEN 3 ELSE IF first = 1 /\ with(2) THEN 2 ELSE first

MutPerReview(list, acks) ==   \* mutant: reviews of one window are not grouped
    {[incidentId |-> i, priority |-> evaluateIncidentIntelligence(kind[i]), eventCount |-> 1,
      status |-> IF i \in list.reviewed THEN "RESOLVED" ELSE "ACTIVE"] : i \in list.ids}

\* The id and the status of an alert are those of the newest review of its group;
\* acknowledging is asked of the review's id, which no acknowledged id is.
generateSecurityAlerts(list, acks) ==
    {[incidentId |-> i, priority |-> GroupPriority(list, i), eventCount |-> Cardinality(Group(list, i)),
      status |-> IF i \in acks THEN "ACKNOWLEDGED"
                 ELSE IF i \in list.reviewed THEN "RESOLVED" ELSE "ACTIVE"] :
        i \in {i \in Listed(list) : \A j \in Group(list, i) : j <= i}}

\* Per incident of the workspace: its newest review with those up to 180 seconds before.
correlateIncidentSegments(ids) ==
    LET take(groups, i) ==
            IF i \notin ids \/ \E g \in groups : i \in g THEN groups
            ELSE groups \cup {{i} \cup {j \in ids : /\ j < i /\ Start[i] - Start[j] <= 180
                                                    /\ \A g \in groups : j \notin g}}
    IN  FoldLeft(take, {}, <<3, 2, 1>>)

IncidentOf(list, g) ==
    LET objs == UNION {objects(kind[j]) : j \in g} zs == UNION {zones(kind[j]) : j \in g} IN
    [severity |-> getIncidentSeverity(isAlert(kind[Newest(g)]), objs, zs), objects |-> objs,
     status |-> getIncidentStatus(Newest(g) \in list.reviewed, FALSE)]

filterIncidents(list, f) ==
    {g \in correlateIncidentSegments(list.ids) :
        LET inc == IncidentOf(list, g) IN
        /\ f.severity \in {-1, inc.severity} /\ f.status \in {"ALL", inc.status}
        /\ (f.detectionClass = "ALL" \/ f.detectionClass \in inc.objects)}

calculateIncidentCounts(list) ==
    [s \in {"ACTIVE", "ACKNOWLEDGED", "RESOLVED"} |->
        Cardinality({g \in correlateIncidentSegments(list.ids) : IncidentOf(list, g).status = s})]

\* The analytics page: reviews per hour, and the two hours with most of them.
calculateHourlyTrend(ids) == [h \in 0..(Hours - 1) |-> Cardinality({i \in ids : Hour[i] = h})]
calculatePeakActivityWindow(ids) ==
    LET count == [h \in 0..(Hours - 1) |-> Cardinality({i \in ids : Hour[i] \in {h, (h + 1) % Hours}})]
        best == CHOOSE h \in 0..(Hours - 1) : \A g \in 0..(Hours - 1) : count[g] < count[h] \/ (count[g] = count[h] /\ h <= g)
    IN  [start |-> best, count |-> count[best]]
calculateDetectionDistribution(ids) ==
    [l \in {"person", "car", "dog"} |-> Cardinality({i \in ids : l \in objects(kind[i])})]

\* Reviews without a zone are of the general area; percentages are rounded each.
percentage(n, total) == IF total = 0 THEN 0 ELSE (200 * n + total) \div (2 * total)
calculateZoneAnalytics(ids) ==
    [z \in {"restricted", "gate", "General Area"} |->
        LET count == Cardinality({i \in ids : z \in zones(kind[i]) \/ (zones(kind[i]) = {} /\ z = "General Area")})
        IN  [count |-> count, percentage |-> percentage(count, Cardinality(ids))]]

(***************************************************************************)
(* The sound                                                               *)
(***************************************************************************)
Loud(alerts) == {a \in alerts : a.status = "ACTIVE" /\ a.priority >= 2}
rawAlerts(p, items) ==
    IF p \notin Pages \/ items = Null THEN {}
    ELSE LET alerts == generateSecurityAlerts(items, {}) IN IF p = "home" THEN Loud(alerts) ELSE alerts
Top(alerts) == CHOOSE a \in Loud(alerts) : \A b \in Loud(alerts) : b.incidentId <= a.incidentId

MutForgetsPlayed(i) ==   \* mutant: what was announced is not remembered
    /\ heard' = [heard EXCEPT ![i] = IF @ < 2 THEN @ + 1 ELSE @] /\ UNCHANGED <<playedIncidentIds, evicted>>

playAlertNotificationSound(i) ==
    IF isMuted \/ i \in ToSet(playedIncidentIds) THEN UNCHANGED <<playedIncidentIds, heard, evicted>>
    ELSE LET all == Append(playedIncidentIds, i)
             full == Len(all) > MaxPlayed
         IN  /\ playedIncidentIds' = IF full THEN Tail(all) ELSE all
             /\ evicted' = IF full THEN evicted \cup {Head(all)} ELSE evicted
             /\ heard' = [heard EXCEPT ![i] = IF @ < 2 THEN @ + 1 ELSE @]

\* The effect on a list newly drawn: the newest alert to be announced.
Announce(alerts) ==
    /\ IF Loud(alerts) = {} THEN UNCHANGED <<playedIncidentIds, heard, evicted>>
       ELSE playAlertNotificationSound(Top(alerts).incidentId)
    /\ silent' = isMuted /\ UNCHANGED isMuted

(***************************************************************************)
(* The pages                                                               *)
(***************************************************************************)
\* A review begins: the alert centre hears of it and reads its list again.
ReviewBegins ==
    /\ begun < 3 /\ begun' = begun + 1 /\ loading' = (loading \/ page = "alerts")
    /\ \E k \in KindsOf[begun + 1] : kind' = [kind EXCEPT ![begun + 1] = k]
    /\ UNCHANGED <<reviewed, page, reviewItems, detail, requests, acknowledgedIds, filters, sound, lost, users>>

OtherReviews(i) ==
    /\ ~lost /\ users < MaxUser /\ users' = users + 1
    /\ i \in Ids \ reviewed /\ reviewed' = reviewed \cup {i} /\ lost' = TRUE
    /\ UNCHANGED <<kind, begun, page, reviewItems, loading, detail, requests, acknowledgedIds, filters, sound>>

ListAnswer ==
    /\ loading /\ page \in Pages /\ loading' = FALSE
    /\ reviewItems' = [reviewItems EXCEPT ![page] = [ids |-> Ids, reviewed |-> reviewed]]
    /\ IF page = "review" THEN UNCHANGED sound ELSE Announce(rawAlerts(page, reviewItems'[page]))
    /\ UNCHANGED <<server, page, detail, requests, acknowledgedIds, filters, lost, users>>

User == page \in Pages /\ users < MaxUser /\ users' = users + 1

toggleMute ==
    /\ User /\ page # "review" /\ isMuted' = ~isMuted
    /\ UNCHANGED <<server, page, reviewItems, loading, detail, requests, acknowledgedIds, filters,
                   playedIncidentIds, heard, evicted, silent, lost>>

Alerts == rawAlerts(page, IF page \in Pages THEN reviewItems[page] ELSE Null)
filteredAlerts ==
    {a \in Alerts : filters.severity \in {-1, a.priority} /\ filters.status \in {"ALL", a.status}}

\* The alert's own id is kept, not its review's; the list is drawn again.
handleAcknowledge(a) ==
    /\ User /\ page # "review" /\ a \in filteredAlerts /\ a.status = "ACTIVE"
    /\ acknowledgedIds' = acknowledgedIds \cup {<<a.incidentId, "alert">>} /\ Announce(Alerts)
    /\ UNCHANGED <<server, page, reviewItems, loading, detail, requests, filters, lost>>

handleResolve(a) ==
    /\ User /\ page # "review" /\ a \in filteredAlerts /\ a.status # "RESOLVED"
    /\ requests' = requests \cup {[what |-> "resolve", id |-> a.incidentId, done |-> FALSE]}
    /\ UNCHANGED <<server, page, reviewItems, loading, detail, acknowledgedIds, filters, sound, lost>>

openIncidentInvestigation(a) ==
    /\ User /\ page # "review" /\ a \in filteredAlerts
    /\ requests' = requests \cup {[what |-> "lookup", id |-> a.incidentId, done |-> FALSE]}
    /\ UNCHANGED <<server, page, reviewItems, loading, detail, acknowledgedIds, filters, sound, lost>>

ServerResolves(r) ==
    /\ r.what = "resolve" /\ ~r.done /\ reviewed' = reviewed \cup {r.id}
    /\ requests' = (requests \ {r}) \cup {[r EXCEPT !.done = TRUE]}
    /\ UNCHANGED <<kind, begun, page, reviewItems, loading, detail, acknowledgedIds, filters, sound, lost, users>>

ResolveAnswer(r) ==
    /\ r.what = "resolve" /\ requests' = requests \ {r}
    /\ \/ r.done /\ loading' = (loading \/ page \in {"alerts", "home"}) /\ UNCHANGED lost   \* read again
       \/ lost' = (lost \/ r.done) /\ UNCHANGED loading
    /\ UNCHANGED <<server, page, reviewItems, detail, acknowledgedIds, filters, sound, users>>

\* The dialog uses more hooks with an incident than without one: the page it is on fails.
Crash ==
    /\ page' = "crashed" /\ acknowledgedIds' = {} /\ filters' = NoFilters /\ loading' = FALSE /\ detail' = Null

LookupFails(r) ==
    /\ r.what = "lookup" /\ requests' = requests \ {r}
    /\ UNCHANGED <<server, page, reviewItems, loading, detail, acknowledgedIds, filters, sound, lost, users>>

\* The widget has no dialog while it has no alert; one looked up then opens with the next.
LookupAnswer(r) ==
    /\ r.what = "lookup" /\ requests' = requests \ {r}
    /\ IF page = "alerts" \/ Alerts # {} THEN Crash
       ELSE detail' = (IF page = "home" THEN r.id ELSE detail) /\ UNCHANGED <<page, acknowledgedIds, filters, loading>>
    /\ UNCHANGED <<server, reviewItems, sound, lost, users>>

\* With fewer hooks than before: closing fails like opening.
onClose ==
    /\ page \in Pages /\ detail # Null /\ Alerts # {} /\ Crash
    /\ UNCHANGED <<server, reviewItems, requests, sound, lost, users>>

Chosen ==
    IF page = "review" /\ reviewItems["review"] # Null THEN filterIncidents(reviewItems["review"], filters) ELSE {}

onSelectIncident(g) ==
    /\ User /\ g \in Chosen
    /\ Crash /\ UNCHANGED <<server, reviewItems, requests, sound, lost>>

SetFilter(f, v) ==
    /\ User /\ (page = "review" \/ (page = "alerts" /\ f # "detectionClass")) /\ filters' = [filters EXCEPT ![f] = v]
    /\ UNCHANGED <<server, page, reviewItems, loading, detail, requests, acknowledgedIds, sound, lost>>

handleResetFilters ==
    /\ User /\ filters # NoFilters /\ filters' = NoFilters
    /\ UNCHANGED <<server, page, reviewItems, loading, detail, requests, acknowledgedIds, sound, lost>>

\* Another page, or the failed one again; the list kept of it is drawn until it is read.
Go(p) ==
    /\ users < MaxUser /\ users' = users + 1 /\ p # page /\ page' = p
    /\ p = "review" \/ \A q \in Pages \ {p, "review"} : reviewItems[q] = Null   \* bound: one page of alerts is used
    /\ loading' = TRUE /\ detail' = Null /\ acknowledgedIds' = {} /\ filters' = NoFilters
    /\ IF p = "review" \/ reviewItems[p] = Null THEN UNCHANGED sound ELSE Announce(rawAlerts(p, reviewItems[p]))
    /\ UNCHANGED <<server, reviewItems, requests, lost>>

Next ==
    \/ ReviewBegins \/ ListAnswer \/ toggleMute \/ handleResetFilters \/ onClose
    \/ \E i \in Reviews : OtherReviews(i)
    \/ \E a \in Alerts : handleAcknowledge(a) \/ handleResolve(a) \/ openIncidentInvestigation(a)
    \/ \E r \in requests : ServerResolves(r) \/ ResolveAnswer(r) \/ LookupAnswer(r) \/ LookupFails(r)
    \/ \E g \in Chosen : onSelectIncident(g)
    \/ SetFilter("severity", 2) \/ SetFilter("status", "ACTIVE") \/ SetFilter("detectionClass", "person")
    \/ \E p \in Pages : Go(p)

Spec == Init /\ [][Next]_vars

(***************************************************************************)
(* Properties                                                              *)
(***************************************************************************)
Drawn == page \in {"alerts", "home"} /\ reviewItems[page] # Null

\* Grouping loses no review and counts none twice, but for those not worth an alert.
EveryReviewAlerts ==
    Drawn /\ page = "alerts" => LET n(S) == FoldSet(LAMBDA a, t : a.eventCount + t, 0, S)
             IN  n(Alerts) = Cardinality({i \in reviewItems[page].ids :
                                kind[i] = "routine" => i \notin reviewItems[page].reviewed})

\* What is announced is announced once, unless MaxPlayed others were announced since.
SoundsOnce == \A i \in Reviews : heard[i] > 1 => i \in evicted

\* The newest alert that should be heard was, but for one first drawn while muted: unmuting
\* announces nothing.
NewestIsHeard ==
    Drawn /\ ~silent =>
        LET loud == Loud(Alerts)
        IN \A a \in loud : heard[a.incidentId] > 0 \/ \E b \in loud : b.incidentId > a.incidentId

\* Once nothing is under way the alert centre has the reviews of the server, and what was
\* resolved here is shown resolved.
CentreIsCurrent ==
    page = "alerts" /\ ~loading /\ requests = {} =>
        reviewItems[page].ids = Ids /\ (lost \/ reviewItems[page].reviewed = reviewed)

\* Every review is in one incident of the workspace, which the filter by its object finds,
\* none spans more than 180 seconds, and every incident is counted under one status.
EveryReviewIsAnIncident ==
    page = "review" /\ reviewItems[page] # Null =>
        LET list == reviewItems[page] all == correlateIncidentSegments(list.ids)
            counts == calculateIncidentCounts(list)
        IN  /\ \A i \in list.ids : Cardinality({g \in all : i \in g}) = 1
            /\ \A i \in list.ids : \A o \in objects(kind[i]) :
                  i \in UNION filterIncidents(list, [NoFilters EXCEPT !.detectionClass = o])
            /\ \A g \in all : Start[Newest(g)] <= Start[CHOOSE i \in g : \A j \in g : i <= j] + 180
            /\ counts["ACTIVE"] + counts["ACKNOWLEDGED"] + counts["RESOLVED"] = Cardinality(all)

\* The busiest two hours hold the reviews of any hour, and the hours, the objects and the zones
\* hold all of them, with percentages that add up but for the rounding.
PeakIsPeak ==
    users = 0 =>   \* a matter of the reviews alone
    LET trend == calculateHourlyTrend(Ids)
        dist == calculateDetectionDistribution(Ids)
        zone == calculateZoneAnalytics(Ids)
        peak == calculatePeakActivityWindow(Ids)
        total(f) == FoldSet(LAMBDA k, t : f[k] + t, 0, DOMAIN f)
    IN  /\ total([z \in DOMAIN zone |-> zone[z].count]) = begun
        /\ begun > 0 => total([z \in DOMAIN zone |-> zone[z].percentage]) \in 99..101
        /\ total(trend) = begun /\ total(dist) = begun
        /\ \A h \in DOMAIN trend : peak.count >= trend[h]

\* Known false: an alert acknowledged is shown as acknowledged.
AcknowledgedIsShown ==
    \A a \in Alerts : <<a.incidentId, "alert">> \in acknowledgedIds => a.status = "ACKNOWLEDGED"

\* "Keep highest priority" (alertRules.ts:60); known false: LOW is not raised to MEDIUM or HIGH.
HighestIsKept ==
    \A a \in Alerts : \A j \in Group(reviewItems[page], a.incidentId) :
        a.priority >= evaluateIncidentIntelligence(kind[j])
=============================================================================
