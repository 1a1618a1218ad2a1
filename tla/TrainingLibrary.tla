-------------------------- MODULE TrainingLibrary --------------------------
(***************************************************************************)
(* The image libraries that models are trained from: FaceLibrary and, for  *)
(* custom models, ModelTrainingView.  Images wait on the page "train" and  *)
(* are sorted into categories; pages are selected from, deleted, renamed,  *)
(* and a custom model is trained while the page goes on being used.        *)
(***************************************************************************)
EXTENDS Naturals, Sequences, FiniteSets, SequencesExt

CONSTANTS
    Null,
    Images,
    Categories,
    Waiting,       \* the images that wait in the beginning; of the others, those that do not
    Coming,        \* come, saved by recognition while the page is open, are
    First,         \* in this category
    SaveAttempts,  \* as many images wait at most
    MinClasses,    \* a custom model keeps as many categories
    MaxUser        \* bound: actions of the user

VARIABLES
    library,       \* "faces" or "model"
    files,         \* the server's images: page -> images, or Null
    data,          \* the client's copy
    asked,         \* the lists that are being read again
    answers,       \* and what the server answered: list -> pages, or Null
    page,          \* pageToggle
    selected,
    deleteDialog,  \* [name, ids]
    requests,      \* under way, in the order they were made
    state,         \* the model on the server: "complete", "training" or "failed"
    told,          \* its states under way to the client
    modelState,
    wasTraining,
    user,
    came,          \* history: the images recognition has saved,
    news,          \* those it saved or dropped since the waiting images were read,
    given,         \* those it dropped or the user has given up,
    missed,        \* the lists changed by a request whose answer was lost, not read since,
    early          \* and whether the end of a training came before the answer to its request

libraryVars == <<library, files, data, asked, answers, page, selected, deleteDialog, requests, state, told, modelState,
                 wasTraining, user, came, news, given, missed, early>>

Pages == Categories \cup {"train"}
\* What is read at once: all faces, but the waiting and the sorted images of a model apart.
Keys == IF library = "faces" THEN {"faces"} ELSE {"train", "dataset"}
PagesOf(k) == CASE k = "faces" -> Pages [] k = "train" -> {"train"} [] k = "dataset" -> Categories
\* A category left without images is removed, the "none" of a model excepted.
Kept(c, images) == IF images = {} /\ ~(library = "model" /\ c = "none") THEN Null ELSE images
On(m, p) == IF m[p] = Null THEN {} ELSE m[p]
Saved(m) == {i \in Images : \E p \in Pages : i \in On(m, p)}

TypeOK ==
    /\ \A m \in {files, data}, p \in Pages : m[p] # Null => m[p] \subseteq Images
    /\ asked \subseteq Keys /\ \A k \in Keys : answers[k] # Null => k \in asked /\ DOMAIN answers[k] = PagesOf(k)
    /\ page \in Pages /\ selected \subseteq Images /\ wasTraining \in BOOLEAN
    /\ deleteDialog # Null => deleteDialog.ids \subseteq Images
    /\ \A i \in DOMAIN requests : requests[i].kind \in {"delete", "rename", "move", "train"}
    /\ {state, modelState} \subseteq {"complete", "training", "failed"}
    /\ came \subseteq Coming /\ news \cup given \subseteq Images /\ missed \subseteq Keys /\ early \in BOOLEAN

Init ==
    /\ library \in {"faces", "model"}
    /\ files = [p \in Pages |-> IF p = "train" THEN Waiting
                                ELSE IF p = First THEN Kept(p, Images \ (Waiting \cup Coming)) ELSE Null]
    /\ data = files /\ asked = {} /\ answers = [k \in Keys |-> Null]
    /\ page = "train" /\ selected = {} /\ deleteDialog = Null
    /\ requests = <<>> /\ state = "complete" /\ told = <<>> /\ modelState = "complete" /\ wasTraining = FALSE
    /\ user = 0 /\ came = {} /\ news = {} /\ given = {} /\ missed = {} /\ early = FALSE

User == user < MaxUser /\ user' = user + 1
Lists == <<data, asked, answers>>
Model == <<state, told, modelState, wasTraining, early>>
\* Only recognition adds images and drops them unasked.
Unseen == <<came, news>>
Request(r) == requests' = Append(requests, r)

\* Another page; the selection is emptied, an open dialog stays.
Turn(p) ==
    /\ page' = p /\ selected' = IF p = page THEN selected ELSE {}
setPageToggle(p) ==
    /\ User /\ deleteDialog = Null /\ p # page /\ (p = "train" \/ data[p] # Null) /\ Turn(p)
    /\ UNCHANGED <<library, files, Lists, deleteDialog, requests, Model, Unseen, given, missed>>

\* A click with the modifier key selects, or deselects.
onClickImages(i) ==
    /\ User /\ deleteDialog = Null /\ i \in On(data, page)
    /\ selected' = IF i \in selected THEN selected \ {i} ELSE selected \cup {i}
    /\ UNCHANGED <<library, files, Lists, page, deleteDialog, requests, Model, Unseen, given, missed>>
SelectAll ==
    /\ User /\ deleteDialog = Null
    /\ selected' = IF selected # {} THEN {} ELSE On(data, page)
    /\ UNCHANGED <<library, files, Lists, page, deleteDialog, requests, Model, Unseen, given, missed>>

\* The dialog of the faces remembers the page of the selection, that of a model does not.
OpenDelete ==
    /\ User /\ deleteDialog = Null /\ selected # {}
    /\ deleteDialog' = [name |-> page, ids |-> selected]
    /\ UNCHANGED <<library, files, Lists, page, selected, requests, Model, Unseen, given, missed>>
CloseDelete ==
    /\ deleteDialog # Null /\ deleteDialog' = Null
    /\ UNCHANGED <<library, files, Lists, page, selected, requests, Model, user, Unseen, given, missed>>

\* alone: the page had one image when the request was made, and is left then.
Deletion(name, ids) == [kind |-> "delete", stage |-> "asked", category |-> name, ids |-> ids, page |-> page,
                        alone |-> Cardinality(On(data, page)) = 1]
\* From a model they are deleted from the page shown, which another answer may have turned.
TargetCategory == IF library = "faces" THEN deleteDialog.name ELSE page
onDelete ==
    /\ deleteDialog # Null /\ deleteDialog' = Null
    /\ Request(Deletion(TargetCategory, deleteDialog.ids)) /\ given' = given \cup deleteDialog.ids
    /\ UNCHANGED <<library, files, Lists, page, selected, Model, user, Unseen, missed>>

\* A whole category is deleted from the selector, and the page left at once.
handleDeleteCategory(c) ==
    /\ User /\ deleteDialog = Null /\ data[c] # Null
    /\ library = "model" => c # "none" /\ Cardinality({d \in Categories : data[d] # Null}) > MinClasses
    /\ Request(Deletion(c, data[c])) /\ Turn("train") /\ given' = given \cup data[c]
    /\ UNCHANGED <<library, files, Lists, deleteDialog, Model, Unseen, missed>>

\* The name is typed, it may be that of another.
onRename(c, d) ==
    /\ User /\ deleteDialog = Null /\ data[c] # Null /\ c # d /\ (library = "model" => c # "none")
    /\ Request([kind |-> "rename", stage |-> "asked", category |-> c, new |-> d])
    /\ UNCHANGED <<library, files, Lists, page, selected, deleteDialog, Model, Unseen, given, missed>>

Move(i, c) == Request([kind |-> "move", stage |-> "asked", image |-> i, from |-> page, category |-> c])
\* A waiting image is sorted into a category,
onTrainAttempt(i, c) ==
    /\ User /\ deleteDialog = Null /\ page = "train" /\ i \in On(data, page) /\ Move(i, c)
    /\ UNCHANGED <<library, files, Lists, page, selected, deleteDialog, Model, Unseen, given, missed>>
\* a sorted one into another.
onReclassify(i, c) ==
    /\ User /\ deleteDialog = Null /\ page \notin {"train", c} /\ i \in On(data, page) /\ Move(i, c)
    /\ UNCHANGED <<library, files, Lists, page, selected, deleteDialog, Model, Unseen, given, missed>>

\* The server: what is not there any more is not deleted or moved.
MutWithout(p, images) ==   \* mutant: the folder goes whatever is left in it
    CASE files[p] = Null -> Null [] p = "train" -> files[p] \ images [] OTHER -> Kept(p, {})
Without(p, images) ==
    CASE files[p] = Null -> Null [] p = "train" -> files[p] \ images [] OTHER -> Kept(p, files[p] \ images)
Applied(r) ==
    CASE r.kind = "delete" -> [files EXCEPT ![r.category] = Without(r.category, r.ids)]
      [] r.kind = "rename" -> [files EXCEPT ![r.category] = Null, ![r.new] = files[r.category]]
      [] OTHER -> [files EXCEPT ![r.from] = Without(r.from, {r.image}), ![r.category] = On(files, r.category) \cup {r.image}]
Served(r) ==
    CASE r.kind = "rename" -> files[r.category] # Null /\ files[r.new] = Null
      [] r.kind = "move" -> r.image \in On(files, r.from)
      [] OTHER -> library = "model" \/ files[r.category] # Null
Serve(i) ==
    /\ requests[i].stage = "asked" /\ requests[i].kind # "train"
    /\ IF Served(requests[i])
       THEN files' = Applied(requests[i]) /\ requests' = [requests EXCEPT ![i].stage = "taken"]
       ELSE UNCHANGED files /\ requests' = [requests EXCEPT ![i].stage = "failed"]
    /\ UNCHANGED <<library, Lists, page, selected, deleteDialog, Model, user, Unseen, given, missed>>

\* What a finished recognition leaves to be sorted; the oldest image makes room.
Recognized(i) ==
    /\ i \in Coming \ came /\ came' = came \cup {i}
    /\ \E old \in IF Cardinality(files["train"]) < SaveAttempts THEN {{}} ELSE {{o} : o \in files["train"]} :
        /\ files' = [files EXCEPT !["train"] = (@ \ old) \cup {i}]
        /\ news' = news \cup old \cup {i} /\ given' = given \cup old
    /\ UNCHANGED <<library, Lists, page, selected, deleteDialog, requests, Model, user, missed>>

\* A list is read again from the start, whatever reading of it is under way.
Ask(K) == asked' = asked \cup K /\ answers' = [k \in Keys |-> IF k \in K THEN Null ELSE answers[k]]
\* What the answer to a request has read again: a deletion from a model reads the waiting
\* images again only when their page was shown.
Refreshed(r) ==
    IF library = "faces" THEN {"faces"}
    ELSE IF (r.kind = "delete" /\ r.page = "train") \/ (r.kind = "move" /\ r.from = "train") THEN Keys ELSE {"dataset"}

\* The answers: a deletion empties the selection; a renamed category of a model is shown, a
\* renamed face is left.
Answer(i) ==
    LET r == requests[i] IN
    /\ r.stage = "taken" /\ requests' = RemoveAt(requests, i) /\ Ask(Refreshed(r))
    /\ CASE r.kind = "rename" -> Turn(IF library = "faces" THEN "train" ELSE r.new)
         [] r.kind = "delete" -> page' = (IF library = "faces" /\ r.alone THEN "train" ELSE page) /\ selected' = {}
         [] OTHER -> UNCHANGED <<page, selected>>
    /\ UNCHANGED <<library, files, data, deleteDialog, Model, user, Unseen, given, missed>>
\* An error is shown; it may be that of the connection, and the request have been carried out.
Fails(i) ==
    LET r == requests[i] IN
    /\ r.kind # "train" /\ requests' = RemoveAt(requests, i)
    /\ missed' = IF r.stage = "taken" THEN missed \cup Refreshed(r) ELSE missed
    /\ UNCHANGED <<library, files, Lists, page, selected, deleteDialog, Model, user, Unseen, given>>

\* The tab gets the focus: what is not being read already may be read again.
onFocus(K) ==
    /\ User /\ K # {} /\ K \cap asked = {} /\ Ask(K)
    /\ UNCHANGED <<library, files, data, page, selected, deleteDialog, requests, Model, Unseen, given, missed>>
\* The server reads a list,
Read(k) == [p \in PagesOf(k) |-> files[p]]
getImages(k) ==
    /\ k \in asked /\ answers[k] = Null /\ answers' = [answers EXCEPT ![k] = Read(k)]
    /\ missed' = missed \ {k} /\ news' = IF "train" \in PagesOf(k) THEN {} ELSE news
    /\ UNCHANGED <<library, files, data, asked, page, selected, deleteDialog, requests, Model, user, came, given>>
\* and the client shows it.
Arrives(k) ==
    /\ k \in asked /\ answers[k] # Null /\ asked' = asked \ {k} /\ answers' = [answers EXCEPT ![k] = Null]
    /\ data' = [p \in Pages |-> IF p \in PagesOf(k) THEN answers[k][p] ELSE data[p]]
    /\ UNCHANGED <<library, files, page, selected, deleteDialog, requests, Model, user, Unseen, given, missed>>

\* Training a custom model: the button is locked by the state that the websocket tells.
trainModel ==
    /\ library = "model" /\ User /\ modelState # "training" /\ ~\E i \in DOMAIN requests : requests[i].kind = "train"
    /\ Request([kind |-> "train", stage |-> "asked"]) /\ state' = "training" /\ told' = Append(told, "training")
    /\ UNCHANGED <<library, files, Lists, page, selected, deleteDialog, modelState, wasTraining, early, Unseen, given, missed>>
TrainAnswer(i) ==
    /\ requests[i].kind = "train" /\ requests' = RemoveAt(requests, i) /\ wasTraining' = TRUE
    /\ early' = (early \/ (state # "training" /\ told = <<>>))
    /\ UNCHANGED <<library, files, Lists, page, selected, deleteDialog, state, told, modelState, user, Unseen, given, missed>>
TrainingEnds(s) ==
    /\ state = "training" /\ state' = s /\ told' = Append(told, s)
    /\ UNCHANGED <<library, files, Lists, page, selected, deleteDialog, requests, modelState, wasTraining, early, user,
                   Unseen, given, missed>>

\* The effect on modelState: an end is told, once, and only when the training was known of.
StateArrives ==
    LET s == Head(told) IN
    /\ told # <<>> /\ told' = Tail(told) /\ modelState' = s /\ wasTraining' = (wasTraining /\ s = "training")
    /\ IF wasTraining /\ s = "complete" /\ modelState # "complete" THEN Ask({"dataset"}) ELSE UNCHANGED <<asked, answers>>
    /\ early' = (early \/ (s # "training" /\ ~wasTraining))
    /\ UNCHANGED <<library, files, data, page, selected, deleteDialog, requests, state, user, Unseen, given, missed>>

Next ==
    \/ SelectAll \/ OpenDelete \/ CloseDelete \/ onDelete \/ trainModel \/ StateArrives
    \/ \E p \in Pages : setPageToggle(p)
    \/ \E i \in Images : onClickImages(i) \/ \E c \in Categories : onTrainAttempt(i, c) \/ onReclassify(i, c)
    \/ \E c \in Categories : handleDeleteCategory(c) \/ \E d \in Categories : onRename(c, d)
    \/ \E i \in DOMAIN requests : Serve(i) \/ Answer(i) \/ Fails(i) \/ TrainAnswer(i)
    \/ \E i \in Coming : Recognized(i)
    \/ \E K \in SUBSET Keys : onFocus(K)
    \/ \E k \in Keys : getImages(k) \/ Arrives(k)
    \/ \E s \in {"complete", "failed"} : TrainingEnds(s)

Spec == Init /\ [][Next]_libraryVars

(***************************************************************************)
(* Properties                                                              *)
(***************************************************************************)
\* An image leaves the library only if the user gave it up, by confirming the deletion of the
\* image or of the category it was listed in, or if newer ones were waiting: whatever was
\* moved, renamed or deleted meanwhile, and whichever page the deletion was asked of.
OnlyGivenUp == ((Images \ Coming) \cup came) \ Saved(files) \subseteq given

\* Once nothing is under way, the sorted images shown are the server's, and so are the waiting
\* ones but for what recognition has saved or dropped since they were read; a list changed by
\* a request whose answer was lost excepted, until it is read again.
ListIsCurrent ==
    requests = <<>> /\ asked = {} =>
        \A k \in Keys \ missed, p \in Pages : p \in PagesOf(k) =>
            IF p = "train" THEN data[p] \ files[p] \subseteq news /\ files[p] \ data[p] \subseteq news ELSE data[p] = files[p]

\* The end of a training that was started here is told as soon as it is known, unless it came
\* before the answer that it had begun.
EndIsTold == wasTraining => state = "training" \/ told # <<>> \/ early
=============================================================================
