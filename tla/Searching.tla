----------------------------- MODULE Searching ------------------------------
(***************************************************************************)
(* Searching tracked objects: the page with its search and its list, and   *)
(* the dialogs in which filters are chosen.  The two share no state but    *)
(* the filter, which the second part takes as its own.                     *)
(***************************************************************************)
EXTENDS FiniteSets, Naturals, Sequences, SequencesExt

CONSTANTS
    Null,
    MaxUser,   \* bound: actions of the user
    MaxOther,  \* bound: objects that come or go on the server
    MaxEdits   \* bound: edits of a copy

(***************************************************************************)
(* The explore page: the filter of its search lives in the address         *)
(* (useApiFilterArgs), the text searched for in Explore and in the input;  *)
(* filters are changed in dialogs that keep a copy of theirs and as tags   *)
(* of the input, and whole searches are saved and loaded by name.  Results *)
(* come in pages and are selected.                                         *)
(***************************************************************************)
VARIABLES
    url,        \* searchFilter: [labels, query, similar, time]
    past,       \* the addresses before it
    search,     \* the text searched for, as Explore knows it
    saved,      \* searchHistory: [name, search, filter, shared]
    current,    \* currentFilter of SearchFilterDialog
    searchOpen,       \* which dialog is: "filters", "labels" or Null
    labels,     \* currentLabels of the dialog of the labels
    events,     \* the objects on the server
    data,       \* the results: [of, size, ids], or Null
    size,       \* pages wanted
    selected,   \* selectedObjects
    asked,      \* history: the text the user searched for last
    kept,       \* history: the search saved under each name
    user, other,
    crossed     \* history: which of the known losses happened

exploreVars == <<url, past, search, saved, current, searchOpen, labels, events, data, size, selected, asked, kept, user, other, crossed>>

Labels == {"dog", "cat"}
Texts == {"q"}
Names == {"n"}
Ids == 1..3
LabelOf(i) == IF i = 2 THEN "cat" ELSE "dog"
SearchNoFilter == [labels |-> {}, query |-> Null, similar |-> Null, time |-> Null]

SearchTypeOK ==
    /\ url.labels \subseteq Labels /\ current.labels \subseteq Labels /\ labels \subseteq Labels
    /\ searchOpen \in {"filters", "labels", Null} /\ selected \subseteq Ids /\ events \subseteq Ids
    /\ data # Null => data.ids \subseteq Ids /\ data.size \in 1..3
    /\ \A i \in DOMAIN saved : saved[i].name \in Names
    /\ crossed \subseteq {"same", "pushed", "gone"}

SearchInit ==
    /\ url = SearchNoFilter /\ past = <<>> /\ search = "" /\ saved = <<>> /\ current = SearchNoFilter /\ searchOpen = Null /\ labels = {}
    /\ events = {1, 2} /\ data = Null /\ size = 1 /\ selected = {} /\ asked = Null /\ kept = [n \in Names |-> Null]
    /\ user = 0 /\ other = 0 /\ crossed = {}

User == user < MaxUser /\ user' = user + 1
Server == <<events, other>>

(***************************************************************************)
(* The address                                                             *)
(***************************************************************************)
\* A new address: the text follows its query, unless it asks for what is similar to an object;
\* the copies of the dialogs follow, nothing stays selected, and the results begin anew.
\* (The pages wanted are those wanted of that address before, if its results are the last read.)
SizeOf(f) == IF f = url THEN size ELSE IF data # Null /\ data.of = f THEN data.size ELSE 1
Follows(f) == url' = f /\ current' = f /\ labels' = f.labels /\ selected' = {} /\ size' = SizeOf(f)
              /\ saved' = [i \in DOMAIN saved |-> [saved[i] EXCEPT !.shared = FALSE]]
TextOf(f, text) == IF f.query # Null /\ f.similar = Null THEN f.query ELSE text
setSearchFilter(f) == Follows(f) /\ past' = Append(past, url) /\ search' = TextOf(f, search)

\* The effect on search: a text that changed becomes the query, and ends a search for what is similar.
MutKeepsSimilar(f, text) == [f EXCEPT !.query = IF text = "" THEN Null ELSE text]   \* mutant
WithText(f, text) == [f EXCEPT !.query = IF text = "" THEN Null ELSE text, !.similar = IF text # "" THEN Null ELSE @]
handleSearch(text) ==
    /\ User /\ searchOpen = Null /\ asked' = text
    /\ IF text = search THEN UNCHANGED <<url, past, search, saved, current, labels, selected, size>>
       ELSE setSearchFilter(WithText(url, text))
    /\ crossed' = IF text = search /\ (url.query # text \/ url.similar # Null) THEN crossed \cup {"same"} ELSE crossed \ {"same"}
    /\ UNCHANGED <<searchOpen, Server, data, kept>>

setSimilaritySearch(i) ==
    /\ User /\ searchOpen = Null /\ data # Null /\ i \in data.ids /\ setSearchFilter([url EXCEPT !.similar = i]) /\ asked' = Null
    /\ UNCHANGED <<searchOpen, Server, data, kept, crossed>>
handleClearSimilarity ==
    /\ User /\ searchOpen = Null /\ url.similar # Null /\ setSearchFilter([url EXCEPT !.similar = Null]) /\ asked' = Null
    /\ UNCHANGED <<searchOpen, Server, data, kept, crossed>>
handleClearInput ==
    /\ User /\ searchOpen = Null /\ Follows(SearchNoFilter) /\ past' = Append(past, url) /\ search' = "" /\ asked' = Null
    /\ UNCHANGED <<searchOpen, Server, data, kept, crossed>>
\* Back leaves the text as it is when the address before has no query.
GoBack ==
    /\ User /\ past # <<>> /\ searchOpen = Null /\ Follows(Last(past)) /\ past' = Front(past) /\ search' = TextOf(Last(past), search) /\ asked' = Null
    /\ UNCHANGED <<searchOpen, Server, data, kept, crossed>>

(***************************************************************************)
(* The tags of the input                                                   *)
(***************************************************************************)
\* A label is pushed to the array of the filter, which a search saved just now may share.
createFilter(l) ==
    /\ User /\ searchOpen = Null /\ l \notin url.labels
    /\ url' = [url EXCEPT !.labels = @ \cup {l}] /\ past' = Append(past, url) /\ current' = url' /\ labels' = url'.labels
    /\ selected' = {} /\ size' = SizeOf(url') /\ search' = TextOf(url', search)
    /\ saved' = [i \in DOMAIN saved |-> [saved[i] EXCEPT !.filter.labels = IF saved[i].shared /\ @ # {} THEN @ \cup {l} ELSE @,
                                                         !.shared = FALSE]]
    /\ crossed' = IF \E i \in DOMAIN saved : saved[i].shared /\ url.labels # {} THEN crossed \cup {"pushed"} ELSE crossed
    /\ UNCHANGED <<searchOpen, Server, data, asked, kept>>
removeFilter(l) ==
    /\ User /\ searchOpen = Null /\ l \in url.labels /\ setSearchFilter([url EXCEPT !.labels = @ \ {l}])
    /\ UNCHANGED <<searchOpen, Server, data, asked, kept, crossed>>

\* Saved searches: the one that had the name before goes.
MutOthers(n) == saved   \* mutant: it stays, and is found first
Others(n) == SelectSeq(saved, LAMBDA s : s.name # n)
handleSaveSearch(n) ==
    /\ User /\ searchOpen = Null /\ (search # "" \/ url # SearchNoFilter)
    /\ saved' = Append(Others(n), [name |-> n, search |-> search, filter |-> url, shared |-> TRUE])
    /\ kept' = [kept EXCEPT ![n] = [search |-> search, filter |-> url]]
    /\ UNCHANGED <<url, past, search, current, searchOpen, labels, Server, data, size, selected, asked, crossed>>
Entry(n) == saved[CHOOSE i \in DOMAIN saved : saved[i].name = n /\ \A j \in 1..(i - 1) : saved[j].name # n]
Exists(n) == \E i \in DOMAIN saved : saved[i].name = n
handleLoadSavedSearch(n) ==
    /\ User /\ searchOpen = Null /\ Exists(n)
    /\ LET f == IF Entry(n).search # search THEN WithText(Entry(n).filter, Entry(n).search) ELSE Entry(n).filter IN
       Follows(f) /\ search' = Entry(n).search
    /\ past' = Append(past, url) /\ asked' = Null
    /\ UNCHANGED <<searchOpen, Server, data, kept, crossed>>
confirmDeleteSearch(n) ==
    /\ User /\ searchOpen = Null /\ Exists(n) /\ saved' = Others(n) /\ kept' = [kept EXCEPT ![n] = Null]
    /\ UNCHANGED <<url, past, search, current, searchOpen, labels, Server, data, size, selected, asked, crossed>>

(***************************************************************************)
(* The dialogs                                                             *)
(***************************************************************************)
SearchOpenDialog(d) ==
    /\ User /\ searchOpen = Null /\ searchOpen' = d
    /\ UNCHANGED <<url, past, search, saved, current, labels, Server, data, size, selected, asked, kept, crossed>>
setTimeRange(t) ==
    /\ User /\ searchOpen = "filters" /\ current' = [current EXCEPT !.time = t]
    /\ UNCHANGED <<url, past, search, saved, searchOpen, labels, Server, data, size, selected, asked, kept, crossed>>
ToggleLabel(l) ==
    /\ User /\ searchOpen = "labels" /\ labels' = IF l \notin labels THEN labels \cup {l} ELSE IF labels # {l} THEN labels \ {l} ELSE labels
    /\ UNCHANGED <<url, past, search, saved, current, searchOpen, Server, data, size, selected, asked, kept, crossed>>
\* Closed without applying: the copy is the filter again.
SearchMutKeepsCopy == UNCHANGED <<current, labels>>   \* mutant: the copy stays for the next time
SearchRestored == current' = url /\ labels' = url.labels
searchOnOpenChange ==
    /\ searchOpen # Null /\ searchOpen' = Null /\ SearchRestored
    /\ UNCHANGED <<url, past, search, saved, Server, data, size, selected, asked, kept, user, crossed>>
SearchApply ==
    /\ searchOpen # Null /\ searchOpen' = Null
    /\ setSearchFilter(IF searchOpen = "filters" THEN current ELSE [url EXCEPT !.labels = labels])
    /\ UNCHANGED <<Server, data, asked, kept, user, crossed>>
SearchReset ==
    /\ User /\ IF searchOpen = "filters" THEN current' = [current EXCEPT !.time = Null] /\ UNCHANGED <<url, past, search, saved, labels, size, selected>>
               ELSE searchOpen = "labels" /\ setSearchFilter([url EXCEPT !.labels = {}])
    /\ UNCHANGED <<searchOpen, Server, data, asked, kept, crossed>>

(***************************************************************************)
(* The results                                                             *)
(***************************************************************************)
Matches(f) == {i \in events : (f.labels = {} \/ LabelOf(i) \in f.labels) /\ (f.similar # i)}
Newest(n, s) == {i \in s : Cardinality({j \in s : j > i}) < n}
\* useSWRInfinite: the pages of this address arrive, or are read again.
Load ==
    /\ data' = [of |-> url, size |-> size, ids |-> Newest(size, Matches(url))] /\ data' # data
    /\ UNCHANGED <<url, past, search, saved, current, searchOpen, labels, Server, size, selected, asked, kept, user, crossed>>
isReachingEnd == Cardinality(data.ids) < data.size
loadMore ==
    /\ data # Null /\ data.of = url /\ data.size = size /\ ~isReachingEnd /\ size < 3 /\ size' = size + 1
    /\ UNCHANGED <<url, past, search, saved, current, searchOpen, labels, Server, data, selected, asked, kept, user, crossed>>
Shown == IF data # Null /\ data.of = url THEN data.ids ELSE {}
onSelectSearch(i) ==
    /\ User /\ searchOpen = Null /\ i \in Shown /\ selected' = IF i \in selected THEN selected \ {i} ELSE selected \cup {i}
    /\ UNCHANGED <<url, past, search, saved, current, searchOpen, labels, Server, data, size, asked, kept, crossed>>
onSelectAllObjects ==
    /\ User /\ searchOpen = Null /\ Shown # {}
    /\ selected' = IF Cardinality(selected) < Cardinality(Shown) THEN Shown ELSE {}
    /\ UNCHANGED <<url, past, search, saved, current, searchOpen, labels, Server, data, size, asked, kept, crossed>>
onDelete ==
    /\ User /\ searchOpen = Null /\ selected # {} /\ events' = events \ selected /\ selected' = {}
    /\ data' = IF data = Null THEN Null ELSE [data EXCEPT !.ids = @ \ selected]
    /\ UNCHANGED <<url, past, search, saved, current, searchOpen, labels, other, size, asked, kept, crossed>>
OtherClient(i) ==
    /\ other < MaxOther /\ other' = other + 1 /\ events' = IF i \in events THEN events \ {i} ELSE events \cup {i}
    /\ crossed' = crossed \cup {"gone"}
    /\ UNCHANGED <<url, past, search, saved, current, searchOpen, labels, data, size, selected, asked, kept, user>>

SearchNext ==
    \/ handleClearSimilarity \/ handleClearInput \/ GoBack \/ searchOnOpenChange \/ SearchApply \/ SearchReset \/ Load \/ loadMore
    \/ onSelectAllObjects \/ onDelete
    \/ \E t \in Texts : handleSearch(t)
    \/ \E i \in Ids : setSimilaritySearch(i) \/ onSelectSearch(i) \/ OtherClient(i)
    \/ \E l \in Labels : createFilter(l) \/ removeFilter(l) \/ ToggleLabel(l)
    \/ \E n \in Names : handleSaveSearch(n) \/ handleLoadSavedSearch(n) \/ confirmDeleteSearch(n)
    \/ \E d \in {"filters", "labels"} : SearchOpenDialog(d)
    \/ \E t \in {"t", Null} : setTimeRange(t)

SearchSpec == SearchInit /\ [][SearchNext]_exploreVars

(***************************************************************************)
(* Properties                                                              *)
(***************************************************************************)
\* What the user searched for last is searched for, and nothing else, unless the page remembered the
\* same text from a search that had been left.
SearchIsMade == asked # Null /\ "same" \notin crossed => url.query = asked /\ url.similar = Null

\* A saved search is found as it was saved, unless a label was pushed to the filter it shares.
SavedIsKept ==
    \A n \in Names : kept[n] # Null =>
        [search |-> Entry(n).search, filter |-> Entry(n).filter] = kept[n] \/ "pushed" \in crossed

\* A dialog that is opened begins with the filter of the page.
CopyIsFilter == searchOpen = Null => current = url /\ labels = url.labels

\* Objects selected for deletion are among those shown, unless some came or went.
SelectedIsShown == selected \subseteq Shown \/ "gone" \in crossed

(***************************************************************************)
(* The filters above the reviews, the recordings and the results of a      *)
(* search (ReviewFilterGroup, SearchFilterGroup): dialogs that edit a copy *)
(* of some fields of the filter and apply it, reset it or drop it.  What   *)
(* the controls of a dialog may make of the copy is an operator for each.  *)
(***************************************************************************)
VARIABLES
    page,     \* "review", "recording" (with a main camera) or "search"
    filter,   \* the filter of the page
    copy,     \* the copy the dialogs edit
    filterOpen,     \* the dialog that is open, or Null
    typed,    \* history: a bound of a range was typed
    grouped,  \* history: a group of cameras was applied
    edits

filterVars == <<page, filter, copy, filterOpen, typed, grouped, edits>>

Cameras == {"main", "side"}
Groups == {{"side"}}
Items == {"a", "b"}
Sorts == {"date_asc", "date_desc", "speed_desc", "relevance"}
FilterNoFilter == [cameras |-> Null, labels |-> Null, zones |-> Null, showAll |-> FALSE, subLabels |-> Null, attributes |-> Null,
             plates |-> Null, time |-> Null, score |-> Null, speed |-> Null, snapshot |-> Null, clip |-> Null, sort |-> Null, day |-> Null]
Dialogs == IF page = "search" THEN {"cameras", "labels", "sort", "more"} ELSE {"cameras", "general"}
MoreFields == {"zones", "subLabels", "attributes", "plates", "time", "score", "speed", "snapshot", "clip"}
FieldsOf(d) ==
    CASE d = "cameras" -> {"cameras"} [] d = "labels" -> {"labels"} [] d = "sort" -> {"sort"}
      [] d = "general" -> {"labels", "zones", "showAll"} [] d = "more" -> DOMAIN filter
With(fields, f) == [k \in DOMAIN filter |-> IF k \in fields THEN f[k] ELSE filter[k]]

FilterTypeOK ==
    /\ page \in {"review", "recording", "search"} /\ filterOpen \in Dialogs \cup {Null} /\ edits \in 0..MaxEdits
    /\ \A f \in {filter, copy} : /\ f.cameras = Null \/ f.cameras \subseteq Cameras
                                 /\ \A k \in {"labels", "zones", "subLabels", "attributes", "plates"} : f[k] = Null \/ f[k] \subseteq Items
                                 /\ f.snapshot \in {0, 1, Null} /\ f.clip \in {0, 1, Null} /\ f.sort \in Sorts \cup {Null}

FilterInit ==
    /\ page \in {"review", "recording", "search"} /\ filter = FilterNoFilter /\ copy = FilterNoFilter /\ filterOpen = Null
    /\ typed = FALSE /\ grouped = FALSE /\ edits = 0

(***************************************************************************)
(* The controls                                                            *)
(***************************************************************************)
\* A switch for all and one for each item; the last item cannot be switched off.
MutEmpties(list, i) == IF list = Null THEN {i} ELSE IF i \in list THEN list \ {i} ELSE list \cup {i}   \* mutant
Switched(list, i) == IF list = Null THEN {i} ELSE IF i \notin list THEN list \cup {i} ELSE IF list # {i} THEN list \ {i} ELSE list
Lists(f, k) == {[f EXCEPT ![k] = l] : l \in {Null} \cup {Switched(f[k], i) : i \in Items}}
ZoneFilterContent(f) == Lists(f, "zones")
SubFilterContent(f) == Lists(f, "subLabels")
AttributeFilterContent(f) == Lists(f, "attributes")
LabelContent(f) == Lists(f, "labels")
GeneralFilterContent(f) == LabelContent(f) \cup ZoneFilterContent(f) \cup {[f EXCEPT !.showAll = ~f.showAll]}

\* Plates are toggled, all those that match what was typed are added or taken away, or all are cleared.
Visible == (SUBSET Items) \ {{}}
PlatesOf(s) == IF s = {} THEN Null ELSE s
handleSelectAllVisible(chosen, visible) == IF visible \subseteq chosen THEN chosen \ visible ELSE chosen \cup visible
RecognizedLicensePlatesFilterContent(f) ==
    LET chosen == IF f.plates = Null THEN {} ELSE f.plates IN
    {[f EXCEPT !.plates = PlatesOf(handleSelectAllVisible(chosen, v))] : v \in Visible} \cup {[f EXCEPT !.plates = Null]}

\* Scores in steps from below the least the slider shows (0) to the most (2), speeds from 1 to 3.
\* The slider keeps its ends in order, the inputs beside it do not, and the one of the least speed
\* takes 1 for the most that was not chosen.
Ends(r, none) == IF r = Null THEN none ELSE r
Slid(f, k, range) == {[f EXCEPT ![k] = r] : r \in {<<x, y>> \in range \X range : x <= y}}
Typed(f) ==
    LET score == Ends(f.score, <<1, 2>>) IN
    {[f EXCEPT !.score = <<x, score[2]>>] : x \in 0..2} \cup {[f EXCEPT !.score = <<score[1], y>>] : y \in 0..2}
ScoreFilterContent(f) == Slid(f, "score", 1..2)
SpeedTyped(f) ==
    {[f EXCEPT !.speed = <<x, Ends(f.speed, <<1, 1>>)[2]>>] : x \in 1..3}
    \cup {[f EXCEPT !.speed = <<Ends(f.speed, <<1, 3>>)[1], y>>] : y \in 1..3}
SpeedFilterContent(f) == Slid(f, "speed", 1..3)

\* A box switches the filter on, as yes, or off; on, it is yes or no.
Flag(x) == IF x = Null THEN {1} ELSE {Null, 0, 1}
SnapshotClipFilterContent(f) == {[f EXCEPT !.snapshot = x] : x \in Flag(f.snapshot)} \cup {[f EXCEPT !.clip = x] : x \in Flag(f.clip)}
TimeRangeFilterContent(f) == {[f EXCEPT !.time = t] : t \in {"part of the day", Null}}   \* the whole day is no filter

\* What may be sorted by depends on the filter of the page.
availableSortTypes == {"date_asc", "date_desc"} \cup (IF filter.speed # Null THEN {"speed_desc"} ELSE {})
SortTypeContent(f) == {[f EXCEPT !.sort = s] : s \in availableSortTypes}

\* The main camera of the recording view stays chosen, and is chosen with the first that is.
MutNoMain(list, c) == Switched(list, c)   \* mutant: the first camera chosen is alone
WithCamera(list, c) ==
    IF page # "recording" THEN Switched(list, c)
    ELSE IF list = Null THEN {"main", c} ELSE IF c = "main" /\ c \in list THEN list ELSE Switched(list, c)
CamerasFilterContent(f) == {[f EXCEPT !.cameras = cs] : cs \in {Null} \cup {WithCamera(f.cameras, c) : c \in Cameras}}

FilterChoices(f) ==
    CASE filterOpen = "cameras" -> CamerasFilterContent(f) [] filterOpen = "labels" -> LabelContent(f) [] filterOpen = "sort" -> SortTypeContent(f)
      [] filterOpen = "general" -> GeneralFilterContent(f)
      [] filterOpen = "more" -> TimeRangeFilterContent(f) \cup ZoneFilterContent(f) \cup SubFilterContent(f) \cup AttributeFilterContent(f)
                          \cup RecognizedLicensePlatesFilterContent(f) \cup ScoreFilterContent(f) \cup SpeedFilterContent(f) \cup SnapshotClipFilterContent(f)

(***************************************************************************)
(* The dialogs                                                             *)
(***************************************************************************)
FilterOpenDialog(d) == filterOpen = Null /\ filterOpen' = d /\ UNCHANGED <<page, filter, copy, typed, grouped, edits>>
Edited(f) == edits < MaxEdits /\ edits' = edits + 1 /\ copy' = f /\ f # copy /\ UNCHANGED <<page, filter, filterOpen>>
Edit == filterOpen # Null /\ \E f \in FilterChoices(copy) : Edited(f) /\ UNCHANGED <<typed, grouped>>
TypeBound == filterOpen = "more" /\ \E f \in Typed(copy) \cup SpeedTyped(copy) : Edited(f) /\ typed' = TRUE /\ UNCHANGED grouped
ChooseGroup == filterOpen = "cameras" /\ \E g \in Groups : Edited([copy EXCEPT !.cameras = g]) /\ grouped' = TRUE /\ UNCHANGED typed

\* Closed without applying: the copy is the filter again.
FilterMutKeepsCopy == copy' = copy   \* mutant
FilterRestored == copy' = filter
filterOnOpenChange == filterOpen # Null /\ filterOpen' = Null /\ FilterRestored /\ UNCHANGED <<page, filter, typed, grouped, edits>>
FilterApply ==
    /\ filterOpen # Null /\ (filterOpen = "cameras" => copy.cameras # {}) /\ filter' = With(FieldsOf(filterOpen), copy) /\ copy' = filter' /\ filterOpen' = Null
    /\ UNCHANGED <<page, typed, grouped, edits>>
\* Reset: the dialog of the other filters only resets its copy, the rest the page's filter too.
FilterReset ==
    /\ filterOpen # Null /\ (copy # FilterNoFilter \/ filter # FilterNoFilter)
    /\ IF filterOpen = "more" THEN copy' = [k \in DOMAIN copy |-> IF k \in MoreFields THEN FilterNoFilter[k] ELSE copy[k]] /\ UNCHANGED filter
       ELSE filter' = With(FieldsOf(filterOpen), FilterNoFilter) /\ copy' = filter'
    /\ UNCHANGED <<page, filterOpen, typed, grouped, edits>>
\* The calendars write the page's filter at once.
onUpdateSelectedRange(d) ==
    /\ filterOpen = Null /\ edits < MaxEdits /\ edits' = edits + 1
    /\ filter' = [filter EXCEPT !.day = d] /\ copy' = filter' /\ UNCHANGED <<page, filterOpen, typed, grouped>>

FilterNext ==
    \/ \E d \in Dialogs : FilterOpenDialog(d)
    \/ Edit \/ TypeBound \/ ChooseGroup \/ filterOnOpenChange \/ FilterApply \/ FilterReset
    \/ \E d \in {"day", Null} : onUpdateSelectedRange(d)

FilterSpec == FilterInit /\ [][FilterNext]_filterVars

(***************************************************************************)
(* Properties                                                              *)
(***************************************************************************)
\* No filter asks for nothing: a list is left out or has an item.
NothingEmpty == \A k \in {"cameras", "labels", "zones", "subLabels", "attributes", "plates"} : filter[k] # {}

\* The cameras of the recording view include the main camera, unless a group was chosen.
MainIsFiltered == page = "recording" /\ filter.cameras # Null /\ ~grouped => "main" \in filter.cameras

\* The ends of a range are in order, unless one was typed.
RangeIsOrdered == ~typed => \A k \in {"score", "speed"} : filter[k] = Null \/ filter[k][1] <= filter[k][2]

\* The button of the other filters is marked when the filter of the page has one of them, but for
\* objects without a snapshot or clip, which is not marked.
moreFiltersSelected ==
    \/ \E k \in {"zones", "subLabels", "attributes", "plates", "time"} : copy[k] # Null
    \/ copy.score # Null /\ (copy.score[1] > 1 \/ copy.score[2] < 2)
    \/ copy.speed # Null /\ (copy.speed[1] > 1 \/ copy.speed[2] < 3)
    \/ copy.snapshot = 1 \/ copy.clip = 1
Restricts(f) ==
    \/ \E k \in {"zones", "subLabels", "attributes", "plates", "time"} : f[k] # Null
    \/ f.score \notin {Null, <<1, 2>>, <<0, 2>>} \/ f.speed \notin {Null, <<1, 3>>} \/ f.snapshot # Null \/ f.clip # Null
MoreIsMarked == page = "search" /\ filterOpen = Null => (moreFiltersSelected <=> Restricts(filter)) \/ filter.snapshot = 0 \/ filter.clip = 0
=============================================================================
