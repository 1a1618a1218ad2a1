------------------------------- MODULE Models -------------------------------
(***************************************************************************)
(* Classification models: the wizard that makes one, the step of it in     *)
(* which the areas of a state model are drawn, and the card on which one   *)
(* is edited and deleted.  The three share no state; what the areas may be *)
(* handed over as is taken by the wizard as given.                         *)
(***************************************************************************)
EXTENDS FiniteSets, Integers, Sequences, SequencesExt

CONSTANTS
    Null,
    MaxWizardUser,  \* bound: acts of the user
    MaxGens,        \* bound: times the server is asked for pictures
    MaxFaults,      \* bound: requests that fail
    MaxAreasUser,   \* bound: acts of the user
    MaxEditUser,    \* bound: acts of the user
    MaxOther        \* bound: changes made by other clients

(***************************************************************************)
(* The wizard that makes a classification model: its type, for a model of  *)
(* a state the areas of cameras it looks at, then pictures the server      *)
(* generates, sorted into one class after the other, and the requests that *)
(* make the model of them.  A request goes on when its step or the wizard  *)
(* has been left, and its answer then comes to whatever is open.           *)
(***************************************************************************)
AreaChoices == {"a1", "a2"}   \* what StateAreas can hand over
WizardNames == {"example_0", "example_1"}   \* bound: of 24; every generation writes the same names
Classes == {"open", "shut"}

VARIABLES
    wizardOpen, step, modelType,     \* step 0..2 of the reducer, and step 1's data
    wizardAreas,                     \* of step 2, once continued
    mount,                     \* the choice of examples on screen, or 0
    isGenerating, hasGenerated, isProcessing, isTraining,
    unknownImages, imageClassifications, currentClassIndex, selectedImages,
    wizardRequests,                  \* of this and of earlier mounts
    train, wizardDataset, folders, configured,   \* of the server
    made, wizardCrossed, wanted,   \* history
    gens, mounts, wizardUsers, wizardFaults

frame == <<wizardOpen, step, modelType>>
flags == <<isGenerating, hasGenerated, isProcessing, isTraining>>
sorting == <<unknownImages, imageClassifications, currentClassIndex, selectedImages, wanted>>
wizardServer == <<train, wizardDataset, folders, configured, made, wizardCrossed>>
wizardBounds == <<gens, mounts, wizardUsers, wizardFaults>>
wizardVars == <<frame, wizardAreas, mount, flags, sorting, wizardRequests, wizardServer, wizardBounds>>

AllNull == [n \in WizardNames |-> Null]
ClassesOf(type) == IF type = "state" THEN <<"open", "shut">> ELSE <<"open">>   \* bound
allClasses == ClassesOf(modelType)
currentClass == allClasses[currentClassIndex]
isLastClass == currentClassIndex = Len(allClasses)
unclassifiedImages == {n \in unknownImages : imageClassifications[n] \in {Null, currentClass}}
allImagesClassified == unclassifiedImages = {}

WizardTypeOK ==
    /\ wizardOpen \in BOOLEAN /\ step \in 0..2 /\ modelType \in {"state", "object", Null}
    /\ wizardAreas \in AreaChoices \cup {Null}
    /\ imageClassifications \in [WizardNames -> Classes \cup {"none", Null}] /\ selectedImages \subseteq WizardNames
    /\ unknownImages \subseteq WizardNames /\ currentClassIndex \in 1..2 /\ {p.name : p \in train} \subseteq WizardNames

WizardInit ==
    /\ wizardOpen = FALSE /\ step = 0 /\ modelType = Null
    /\ wizardAreas = Null
    /\ mount = 0 /\ isGenerating = FALSE /\ hasGenerated = FALSE /\ isProcessing = FALSE /\ isTraining = FALSE
    /\ unknownImages = {} /\ imageClassifications = AllNull /\ currentClassIndex = 1 /\ selectedImages = {}
    /\ wanted = AllNull /\ wizardRequests = {} /\ train = {} /\ wizardDataset = {} /\ folders = {} /\ configured = {}
    /\ made = {} /\ wizardCrossed = FALSE
    /\ gens = 0 /\ mounts = 0 /\ wizardUsers = MaxWizardUser /\ wizardFaults = MaxFaults

(* Bound: an act and a failure fewer once pictures were generated while     *)
(* another request was under way.                                           *)
Spared == IF wizardCrossed THEN 1 ELSE 0
WizardActs == wizardOpen /\ wizardUsers > Spared /\ wizardUsers' = wizardUsers - 1

Examples(m, type, of) == [id |-> m, at |-> "generate", type |-> type, areas |-> of, classes |-> AllNull, wanted |-> AllNull, cleaned |-> FALSE]
Fresh(generating) ==
    /\ isGenerating' = generating /\ hasGenerated' = FALSE /\ isProcessing' = FALSE /\ isTraining' = FALSE
    /\ unknownImages' = {} /\ imageClassifications' = AllNull /\ currentClassIndex' = 1 /\ selectedImages' = {}
    /\ wanted' = AllNull
(* The choice of examples asks for pictures as soon as it is mounted.       *)
Mount(type, of) ==
    /\ gens < MaxGens /\ gens' = gens + 1 /\ mounts' = mounts + 1 /\ mount' = mounts + 1
    /\ Fresh(TRUE) /\ wizardRequests' = wizardRequests \cup {Examples(mounts + 1, type, of)}
Unmount == mount' = 0 /\ Fresh(FALSE) /\ UNCHANGED <<wizardRequests, gens, mounts>>

NewModel ==
    /\ ~wizardOpen /\ wizardOpen' = TRUE /\ wizardUsers > 0
    /\ UNCHANGED <<step, modelType, wizardAreas, mount, flags, sorting, wizardRequests, wizardServer, wizardBounds>>

handleStep1Next(type) ==
    /\ wizardOpen /\ step = 0 /\ step' = 1 /\ modelType' = type
    /\ IF type = "object" THEN Mount(type, wizardAreas)
       ELSE UNCHANGED <<mount, flags, sorting, wizardRequests, gens, mounts>>
    /\ UNCHANGED <<wizardOpen, wizardAreas, wizardServer, wizardUsers, wizardFaults>>

InAreas == wizardOpen /\ step = 1 /\ modelType = "state"
handleStep2Next(chosen) ==
    /\ InAreas /\ wizardAreas' = chosen /\ step' = 2 /\ UNCHANGED modelType /\ Mount(modelType, chosen)
    /\ UNCHANGED <<wizardOpen, wizardServer, wizardUsers, wizardFaults>>

(* Back of a step; what was changed of the areas is only kept by Continue.  *)
PreviousStep ==
    /\ step' = step - 1 /\ Unmount /\ UNCHANGED <<wizardOpen, modelType, wizardAreas, wizardServer, wizardFaults>>
AreasBack == WizardActs /\ InAreas /\ PreviousStep

Choosing == mount # 0 /\ ~isTraining
Listed == Choosing /\ hasGenerated /\ ~isGenerating
StaysInStep == UNCHANGED <<frame, wizardAreas, mount, wizardServer, wizardFaults>>

toggleImageSelection(n) ==
    /\ WizardActs /\ Listed /\ n \in unclassifiedImages
    /\ selectedImages' = IF n \in selectedImages THEN selectedImages \ {n} ELSE selectedImages \cup {n}
    /\ wanted' = [wanted EXCEPT ![n] = IF n \in selectedImages THEN Null ELSE currentClass]
    /\ UNCHANGED <<flags, unknownImages, imageClassifications, currentClassIndex, wizardRequests, gens, mounts>> /\ StaysInStep

(* What was changed of a selection and not continued is dropped.            *)
handleBack ==
    /\ WizardActs /\ Choosing
    /\ IF currentClassIndex = 1 THEN PreviousStep
       ELSE /\ currentClassIndex' = currentClassIndex - 1
            /\ selectedImages' = {n \in WizardNames : imageClassifications[n] = allClasses[currentClassIndex - 1]}
            /\ wanted' = [n \in WizardNames |-> IF imageClassifications[n] = "none" THEN Null ELSE imageClassifications[n]]
            /\ UNCHANGED <<flags, unknownImages, imageClassifications, wizardRequests, gens, mounts>> /\ StaysInStep

Process(classes) ==
    /\ isProcessing' = TRUE
    /\ wizardRequests' = wizardRequests \cup {[id |-> mount, at |-> "config", type |-> modelType, areas |-> wizardAreas, classes |-> classes,
                                   wanted |-> wanted, cleaned |-> FALSE]}
    /\ UNCHANGED <<isGenerating, hasGenerated, isTraining>>

(* The classes after this one have the selection of the user no longer, but *)
(* pass for selected by what was kept of them.                              *)
newClassifications ==
    LET kept == [n \in WizardNames |-> IF n \in selectedImages THEN currentClass
                                 ELSE IF n \in unknownImages /\ imageClassifications[n] = currentClass THEN Null
                                 ELSE imageClassifications[n]]
    IN [n \in WizardNames |-> IF isLastClass /\ modelType = "object" /\ n \in unknownImages /\ kept[n] = Null
                        THEN "none" ELSE kept[n]]
handleContinueClassification ==
    /\ Listed /\ ~isProcessing /\ ~allImagesClassified /\ imageClassifications' = newClassifications
    /\ IF isLastClass THEN Process(newClassifications) /\ UNCHANGED <<currentClassIndex, selectedImages>>
       ELSE currentClassIndex' = currentClassIndex + 1 /\ selectedImages' = {} /\ UNCHANGED <<flags, wizardRequests>>
    /\ UNCHANGED <<unknownImages, wanted, gens, mounts, wizardUsers>> /\ StaysInStep
wizardHandleContinue ==
    /\ Listed /\ ~isProcessing /\ allImagesClassified /\ Process(imageClassifications)
    /\ UNCHANGED <<sorting, gens, mounts, wizardUsers>> /\ StaysInStep

Generate ==
    /\ gens < MaxGens /\ gens' = gens + 1 /\ isGenerating' = TRUE
    /\ wizardRequests' = wizardRequests \cup {Examples(mount, modelType, wizardAreas)} /\ UNCHANGED <<hasGenerated, isProcessing, isTraining, mounts>>
doRefresh ==
    /\ WizardActs /\ Listed /\ ~isProcessing
    /\ currentClassIndex' = 1 /\ selectedImages' = {} /\ imageClassifications' = AllNull /\ wanted' = AllNull
    /\ StaysInStep /\ Generate /\ UNCHANGED unknownImages
retryGenerate ==
    /\ WizardActs /\ Choosing /\ ~isGenerating /\ (~hasGenerated \/ unknownImages = {})
    /\ StaysInStep /\ Generate /\ UNCHANGED sorting
Focus ==     \* the list is read again when the window has the focus again
    /\ WizardActs /\ Listed /\ unknownImages' = {p.name : p \in train}
    /\ UNCHANGED <<flags, imageClassifications, currentClassIndex, selectedImages, wanted, wizardRequests, gens, mounts>> /\ StaysInStep

Reset ==
    /\ wizardOpen' = FALSE /\ step' = 0 /\ modelType' = Null /\ mount' = 0
    /\ wizardAreas' = Null
    /\ Fresh(FALSE) /\ UNCHANGED <<gens, mounts>>
(* What the code wants to delete at a cancel it never knows of.             *)
wizardHandleCancel == WizardActs /\ Reset /\ UNCHANGED <<wizardRequests, wizardServer, wizardFaults>>
handleSuccessClose == wizardOpen /\ mount # 0 /\ isTraining /\ Reset /\ UNCHANGED <<wizardRequests, wizardServer, wizardUsers, wizardFaults>>

WizardOthers(r) == wizardRequests \ {r}
generateExamples(r) ==       \* at the server
    /\ r.at = "generate"
    /\ train' = {[name |-> n, areas |-> r.areas] : n \in WizardNames}
    /\ wizardCrossed' = (wizardCrossed \/ \E o \in WizardOthers(r) : o.at # "generated")
    /\ wizardRequests' = WizardOthers(r) \cup {[r EXCEPT !.at = "generated"]}
    /\ UNCHANGED <<frame, wizardAreas, mount, flags, sorting, wizardDataset, folders, configured, made, wizardBounds>>
GenerateAnswer(r) ==
    /\ r.at = "generated" /\ wizardRequests' = WizardOthers(r)
    /\ hasGenerated' = (hasGenerated \/ r.id = mount) /\ isGenerating' = (isGenerating /\ r.id # mount)
    /\ unknownImages' = IF r.id = mount THEN {p.name : p \in train} ELSE unknownImages
    /\ UNCHANGED <<frame, wizardAreas, mount, isProcessing, isTraining, imageClassifications, currentClassIndex, selectedImages, wanted, wizardServer, wizardBounds>>

Moves(r) == {n \in WizardNames : r.classes[n] # Null}
Goes(r, at) == wizardRequests' = WizardOthers(r) \cup {[r EXCEPT !.at = at]} /\ UNCHANGED <<frame, wizardAreas, mount, flags, sorting, wizardBounds>>
Fails(r) ==
    /\ wizardRequests' = WizardOthers(r) /\ isProcessing' = (isProcessing /\ r.id # mount)
    /\ isGenerating' = (isGenerating /\ (r.id # mount \/ r.at # "generate"))
    /\ UNCHANGED <<frame, wizardAreas, mount, hasGenerated, isTraining, sorting, gens, mounts, wizardUsers>>

SetConfig(r) ==
    /\ r.at = "config" /\ configured' = {[type |-> r.type, areas |-> r.areas]} /\ Goes(r, "categorize")
    /\ UNCHANGED <<train, wizardDataset, folders, made, wizardCrossed>>
(* Every picture is asked to move, and one that cannot fails them all.      *)
categorize(r) ==
    LET moved == {p \in train : p.name \in Moves(r)}
    IN /\ r.at = "categorize" /\ train' = train \ moved
       /\ wizardDataset' = wizardDataset \cup
                     {[class |-> r.classes[p.name], asWanted |-> r.wanted[p.name] = (IF r.classes[p.name] = "none" THEN Null ELSE r.classes[p.name]),
                       ofAreas |-> p.areas = r.areas] : p \in moved}
       /\ folders' = folders \cup {r.classes[p.name] : p \in moved}
       /\ IF Cardinality(moved) = Cardinality(Moves(r))
          THEN Goes(r, IF r.type = "state" THEN "clean" ELSE "folders") ELSE Fails(r) /\ UNCHANGED wizardFaults
       /\ UNCHANGED <<configured, made, wizardCrossed>>
deleteUnselected(r, fails) ==     \* a failure here is passed over
    /\ r.at = "clean" /\ (fails => wizardFaults > Spared) /\ wizardFaults' = (IF fails THEN wizardFaults - 1 ELSE wizardFaults)
    /\ train' = IF fails THEN train ELSE {p \in train : p.name \in Moves(r)}
    /\ wizardRequests' = WizardOthers(r) \cup {[r EXCEPT !.at = "folders", !.cleaned = ~fails]}
    /\ UNCHANGED <<frame, wizardAreas, mount, flags, sorting, gens, mounts, wizardUsers, wizardDataset, folders, configured, made, wizardCrossed>>
createFolders(r) ==
    /\ r.at = "folders" /\ folders' = folders \cup ToSet(ClassesOf(r.type)) /\ Goes(r, "train")
    /\ UNCHANGED <<train, wizardDataset, configured, made, wizardCrossed>>

classesWithImages(r) == {r.classes[n] : n \in WizardNames} \ {"none", Null}
shouldTrain(r) ==
    IF r.type = "object" THEN classesWithImages(r) # {}
    ELSE Classes \subseteq classesWithImages(r) /\ Cardinality(classesWithImages(r)) >= 2
Trained(r) ==
    LET has == {e.class : e \in wizardDataset} IN IF r.type = "state" THEN Classes \subseteq has ELSE has \ {"none"} # {}
startTraining(r) ==
    /\ r.at = "train" /\ wizardRequests' = WizardOthers(r)
    /\ made' = made \cup {[of |-> r.id, trained |-> shouldTrain(r), complete |-> Trained(r),
                          folders |-> ToSet(ClassesOf(r.type)) \subseteq folders,
                          left |-> train # {} /\ (r.type = "state" => r.cleaned) /\ ~wizardCrossed]}
    /\ IF shouldTrain(r)
       THEN /\ isTraining' = (isTraining \/ r.id = mount)
            /\ UNCHANGED <<frame, wizardAreas, mount, sorting, isGenerating, hasGenerated, isProcessing, gens, mounts>>
       ELSE Reset
    /\ UNCHANGED <<train, wizardDataset, folders, configured, wizardCrossed, wizardUsers, wizardFaults>>
WizardRequestFails(r) ==
    /\ wizardFaults > Spared /\ r.at \notin {"generated", "clean"} /\ wizardFaults' = wizardFaults - 1 /\ Fails(r) /\ UNCHANGED wizardServer

WizardNext ==
    \/ NewModel \/ \E type \in {"state", "object"} : handleStep1Next(type)
    \/ \E chosen \in AreaChoices : handleStep2Next(chosen)
    \/ AreasBack
    \/ \E n \in WizardNames : toggleImageSelection(n)
    \/ handleBack \/ handleContinueClassification \/ wizardHandleContinue \/ doRefresh \/ retryGenerate \/ Focus
    \/ wizardHandleCancel \/ handleSuccessClose
    \/ \E r \in wizardRequests :
         \/ generateExamples(r) \/ GenerateAnswer(r) \/ SetConfig(r) \/ categorize(r)
         \/ \E fails \in BOOLEAN : deleteUnselected(r, fails)
         \/ createFolders(r) \/ startTraining(r) \/ WizardRequestFails(r)

WizardSpec == WizardInit /\ [][WizardNext]_wizardVars

(* A picture is filed under the class the user put it in last, and it comes *)
(* from the areas the model is to look at, the latter unless pictures were  *)
(* generated while another request of the wizard was under way.             *)
FiledAsChosen == \A e \in wizardDataset : e.class # "none" => e.asWanted
PicturesAreOfAreas == \A e \in wizardDataset : ~wizardCrossed => e.ofAreas

(* No picture is selected for a class and counted to another.               *)
SelectedIsFree == mount # 0 => \A n \in selectedImages : imageClassifications[n] \in {Null, currentClass}

(* A model of a state is trained with pictures of every state, one of an    *)
(* object with some; when it is made, trained or not, every class has its   *)
(* folder and no example is left, unless deleting what was not chosen failed. *)
TrainsComplete == \A m \in made : m.trained => m.complete
FoldersExist == \A m \in made : m.folders
NoneIsLeft == \A m \in made : ~m.left

(* The wizard always shows one of its steps, and the screen that tells of a *)
(* training has one to tell of.                                             *)
StepIsShown ==
    /\ wizardOpen /\ step = 2 => modelType = "state"
    /\ (mount # 0) <=> (wizardOpen /\ (step = 2 \/ (step = 1 /\ modelType = "object")))
TrainingIsReal == mount # 0 /\ isTraining => \E m \in made : m.trained /\ m.of = mount

(* Not so: *)
NothingForgotten == \A r \in wizardRequests : r.at = "config" => \A n \in WizardNames : r.wanted[n] # Null => r.classes[n] = r.wanted[n]
PicturesAlwaysOfAreas == \A e \in wizardDataset : e.ofAreas
CancelCleans == ~wizardOpen /\ wizardRequests = {} /\ configured = {} => train = {}
CanGoOn == isProcessing \/ mount = 0 \/ \A n \in WizardNames : imageClassifications[n] # Null => \E p \in train : p.name = n

(***************************************************************************)
(* The areas a state model looks at: one square of the picture of each     *)
(* camera chosen, dragged and resized on the one camera that is selected.  *)
(***************************************************************************)
(* The size of the picture in units of which a square has at least MinSize  *)
(* to a side and a new one three tenths of the shorter side, rounded.       *)
size == [wide |-> [w |-> 7, h |-> 4], tall |-> [w |-> 4, h |-> 6]]
Cameras == {"wide", "tall"}
MinSize == 1
less(a, b) == IF a < b THEN a ELSE b
more(a, b) == IF a > b THEN a ELSE b
Clamp(x, lowest, highest) == more(lowest, less(x, highest))

VARIABLES
    cameraAreas, selectedCameraIndex,
    handed,     \* what Continue has handed on, which is what the step begins with
    onScreen, areasUsers
areasVars == <<cameraAreas, selectedCameraIndex, handed, onScreen, areasUsers>>

selectedCamera == cameraAreas[selectedCameraIndex + 1].camera
Square(x, y, side) == [x |-> x, y |-> y, w |-> side, h |-> side]
AreasTypeOK ==
    /\ onScreen \in BOOLEAN /\ selectedCameraIndex \in 0..1
    /\ \A areas \in {cameraAreas, handed} : \A i \in DOMAIN areas : areas[i].camera \in Cameras /\ areas[i].crop.w \in Nat

AreasInit == cameraAreas = <<>> /\ selectedCameraIndex = 0 /\ handed = <<>> /\ onScreen = TRUE /\ areasUsers = MaxAreasUser

AreasActs == onScreen /\ areasUsers > 0 /\ areasUsers' = areasUsers - 1 /\ UNCHANGED <<handed, onScreen>>

availableCameras == Cameras \ {cameraAreas[i].camera : i \in DOMAIN cameraAreas}
handleAddCamera(c) ==
    LET side == more(MinSize, (3 * less(size[c].w, size[c].h)) \div 10)
    IN /\ AreasActs /\ c \in availableCameras
       /\ cameraAreas' = Append(cameraAreas, [camera |-> c, crop |-> Square((size[c].w - side) \div 2, (size[c].h - side) \div 2, side)])
       /\ selectedCameraIndex' = Len(cameraAreas)

handleRemoveCamera(i) ==
    /\ AreasActs /\ cameraAreas' = RemoveAt(cameraAreas, i)
    /\ selectedCameraIndex' = IF selectedCameraIndex < Len(cameraAreas') THEN selectedCameraIndex
                              ELSE more(0, Len(cameraAreas') - 1)

SelectCamera(i) == AreasActs /\ selectedCameraIndex' = i - 1 /\ UNCHANGED cameraAreas

(* What the rectangle has become on the stage goes to the selected camera.  *)
handleRectChange(rect) ==
    LET side == (rect.w + rect.h) \div 2
    IN cameraAreas' = [cameraAreas EXCEPT ![selectedCameraIndex + 1].crop = Square(rect.x, rect.y, side)]

dragBoundFunc(x, y) ==
    LET rect == cameraAreas[selectedCameraIndex + 1].crop
        s == size[selectedCamera]
    IN /\ AreasActs /\ UNCHANGED selectedCameraIndex
       /\ handleRectChange([rect EXCEPT !.x = Clamp(x, 0, s.w - rect.w), !.y = Clamp(y, 0, s.h - rect.w)])

boundBoxFunc(x, y, w, h) ==
    LET s == size[selectedCamera]
        longest == less(s.w, s.h)
        side == (Clamp(w, MinSize, longest) + Clamp(h, MinSize, longest)) \div 2
    IN /\ AreasActs /\ UNCHANGED selectedCameraIndex
       /\ handleRectChange([x |-> Clamp(x, 0, s.w - side), y |-> Clamp(y, 0, s.h - side), w |-> side, h |-> side])

areasHandleContinue ==
    /\ onScreen /\ cameraAreas # <<>> /\ handed' = cameraAreas /\ onScreen' = FALSE
    /\ UNCHANGED <<cameraAreas, selectedCameraIndex, areasUsers>>
onBack == onScreen /\ onScreen' = FALSE /\ UNCHANGED <<cameraAreas, selectedCameraIndex, handed, areasUsers>>
Remount ==
    /\ ~onScreen /\ areasUsers > 0 /\ areasUsers' = areasUsers - 1 /\ onScreen' = TRUE
    /\ cameraAreas' = handed /\ selectedCameraIndex' = 0 /\ UNCHANGED handed

AreasNext ==
    \/ \E c \in Cameras : handleAddCamera(c)
    \/ \E i \in DOMAIN cameraAreas : handleRemoveCamera(i) \/ SelectCamera(i)
    \/ /\ cameraAreas # <<>>
       /\ \/ \E x, y \in {-1, 2, 9} : dragBoundFunc(x, y)
          \/ \E x, y \in {-1, 2, 9}, w, h \in {0, 2, 5, 9} : boundBoxFunc(x, y, w, h)
    \/ areasHandleContinue \/ onBack \/ Remount

AreasSpec == AreasInit /\ [][AreasNext]_areasVars

(* However it is dragged and resized, the area of a camera is a square that *)
(* lies in the picture of that camera; a camera has one area, and the       *)
(* camera drawn on is one of those with an area.                            *)
AreaIsInFrame ==
    \A i \in DOMAIN cameraAreas :
        LET c == cameraAreas[i].crop
            s == size[cameraAreas[i].camera]
        IN c.w = c.h /\ c.x >= 0 /\ c.y >= 0 /\ c.x + c.w <= s.w /\ c.y + c.h <= s.h
OneAreaEach == \A i, j \in DOMAIN cameraAreas : cameraAreas[i].camera = cameraAreas[j].camera => i = j
AreaExists == cameraAreas # <<>> => selectedCameraIndex < Len(cameraAreas)

(***************************************************************************)
(* One card of the classification models and its dialogs: the settings of  *)
(* a state model with the names of its classes, saved by a write of the    *)
(* configuration and one rename for each class whose place in the list     *)
(* holds another name, and the deletion of the model by two requests.      *)
(***************************************************************************)
EditNames == {"a", "b", "c"}

VARIABLES
    editOpen, enabled, editClasses,          \* the dialog and its form; "" is an empty field
    deleteDialogOpen,
    model,                           \* of the configuration last read, Null when it is gone from it
    editDataset,                         \* names of the classes last read, in the order of the server
    reading,                         \* reads under way, of "config" and "dataset"
    isSaving, editRequests,
    editServer, categories,              \* the configuration of the model; contents by name, 0 for none
    told, deletedTold,               \* history: saves and deletions told to have worked
    editCrossed, half,                   \* history: a save began while another was under way; one failed half way
    editUsers, others, editFaults

form == <<editOpen, enabled, editClasses>>
client == <<model, editDataset, reading>>
world == <<editServer, categories>>
history == <<told, deletedTold, editCrossed, half>>
editBounds == <<editUsers, others, editFaults>>
editVars == <<form, deleteDialogOpen, client, isSaving, editRequests, world, history, editBounds>>

(* rev stands for whatever else of the configuration changes.               *)
Models == [there : BOOLEAN, enabled : BOOLEAN, rev : 0..MaxOther]
NamesIn(cs) == {c \in EditNames : cs[c] # 0}
AsList(set) == SelectSeq(<<"a", "b", "c">>, LAMBDA c : c \in set)   \* bound: listed by name
NonEmpty(cs) == SelectSeq(cs, LAMBDA c : c # "")

EditTypeOK ==
    /\ editOpen \in BOOLEAN /\ enabled \in BOOLEAN /\ editClasses \in Seq(EditNames \cup {""}) /\ Len(editClasses) <= 3
    /\ model \in Models /\ editServer \in Models /\ reading \subseteq {"config", "dataset"}
    /\ categories \in [EditNames -> 0..2] /\ editDataset \in Seq(EditNames) /\ isSaving \in BOOLEAN /\ deleteDialogOpen \in BOOLEAN

EditInit ==
    /\ editOpen = FALSE /\ enabled = TRUE /\ editClasses = <<"">> /\ deleteDialogOpen = FALSE
    /\ editServer = [there |-> TRUE, enabled |-> TRUE, rev |-> 0] /\ model = editServer
    /\ categories = [c \in EditNames |-> IF c = "a" THEN 1 ELSE IF c = "b" THEN 2 ELSE 0]
    /\ editDataset = <<>> /\ reading = {"dataset"}
    /\ isSaving = FALSE /\ editRequests = {} /\ told = {} /\ deletedTold = FALSE /\ editCrossed = FALSE /\ half = FALSE
    /\ editUsers = MaxEditUser /\ others = MaxOther /\ editFaults = MaxFaults

Shown == model.there
\* Bound: MaxUser acts, failures and changes by others in all.
Left == editUsers > (MaxFaults - editFaults) + (MaxOther - others)
EditActs == Shown /\ Left /\ editUsers' = editUsers - 1 /\ UNCHANGED <<others, editFaults>>

(* Opening fills in the form and asks for the classes anew; those already   *)
(* read are filled in at once, and again only when the list has changed.    *)
handleEditClick ==
    /\ EditActs /\ ~editOpen /\ ~deleteDialogOpen /\ editOpen' = TRUE /\ enabled' = model.enabled
    /\ editClasses' = IF editDataset = <<>> THEN <<"">> ELSE editDataset
    /\ reading' = reading \cup {"dataset"}
    /\ UNCHANGED <<deleteDialogOpen, model, editDataset, isSaving, editRequests, world, history>>

editHandleCancel ==
    /\ editOpen /\ Shown /\ editOpen' = FALSE
    /\ UNCHANGED <<enabled, editClasses, deleteDialogOpen, client, isSaving, editRequests, world, history, editBounds>>

(* Bound: the form is let alone while it is being saved.                    *)
Edits == EditActs /\ editOpen /\ ~isSaving /\ UNCHANGED <<editOpen, deleteDialogOpen, client, isSaving, editRequests, world, history>>
SetEnabled == Edits /\ enabled' = ~enabled /\ UNCHANGED editClasses
SetClass(i, c) == Edits /\ editClasses[i] # c /\ editClasses' = [editClasses EXCEPT ![i] = c] /\ UNCHANGED enabled
handleAddClass == Edits /\ Len(editClasses) < 3 /\ editClasses' = Append(editClasses, "") /\ UNCHANGED enabled
handleRemoveClass(i) ==
    /\ Edits /\ UNCHANGED enabled
    /\ editClasses' = IF Len(editClasses) = 1 THEN <<"">> ELSE RemoveAt(editClasses, i)

isValid == Len(NonEmpty(editClasses)) >= 2 /\ IsInjective(NonEmpty(editClasses))
renameMap(old, new) ==
    {<<old[i], new[i]>> : i \in {i \in DOMAIN old \cap DOMAIN new : old[i] # new[i]}}
onSubmit ==
    LET new == NonEmpty(editClasses)
    IN /\ editOpen /\ Shown /\ isValid /\ ~isSaving /\ isSaving' = TRUE
       /\ editCrossed' = (editCrossed \/ editRequests # {})
       /\ editRequests' = editRequests \cup
            {[kind |-> "config", enabled |-> enabled, todo |-> renameMap(editDataset, new), failed |-> FALSE,
              was |-> categories, asked |-> renameMap(editDataset, new)]}
       /\ UNCHANGED <<form, deleteDialogOpen, client, world, told, deletedTold, half, editBounds>>

EditOthers(r) == editRequests \ {r}
(* What is written of a model that is gone lacks its cameras, and is refused. *)
SaveConfig(r) ==
    /\ r.kind = "config"
    /\ IF editServer.there
       THEN /\ editServer' = [editServer EXCEPT !.enabled = r.enabled] /\ UNCHANGED isSaving
            /\ editRequests' = EditOthers(r) \cup {[r EXCEPT !.kind = "rename"]}
       ELSE isSaving' = FALSE /\ editRequests' = EditOthers(r) /\ UNCHANGED editServer
    /\ UNCHANGED <<form, deleteDialogOpen, client, categories, history, editBounds>>

After(r, pair, fails) ==
    IF r.kind = "rest" /\ r.todo = {pair} THEN {} ELSE {[r EXCEPT !.todo = @ \ {pair}, !.failed = @ \/ fails]}
(* The renames are all sent at once, and the server does them in any order. *)
rename(r, pair) ==
    LET possible == editServer.there /\ categories[pair[1]] # 0 /\ categories[pair[2]] = 0
    IN /\ r.kind \in {"rename", "rest"} /\ pair \in r.todo
       /\ categories' = IF possible THEN [categories EXCEPT ![pair[1]] = 0, ![pair[2]] = categories[pair[1]]] ELSE categories
       /\ editRequests' = EditOthers(r) \cup After(r, pair, ~possible)
       /\ UNCHANGED <<form, deleteDialogOpen, client, isSaving, editServer, history, editBounds>>

Renamed(r) ==
    NamesIn(categories) # {} =>
        \A pair \in r.asked : r.was[pair[1]] # 0 /\ categories[pair[2]] = r.was[pair[1]]
(* Saved: the lists are read again and the dialog closes.                   *)
onSuccess(r) ==
    /\ r.kind = "rename" /\ r.todo = {} /\ ~r.failed
    /\ told' = told \cup {[written |-> editServer.enabled = r.enabled, renamed |-> Renamed(r), alone |-> ~editCrossed /\ ~half]}
    /\ reading' = reading \cup {"config"} \cup (IF r.asked = {} THEN {} ELSE {"dataset"})
    /\ isSaving' = FALSE /\ editOpen' = FALSE /\ editRequests' = EditOthers(r)
    /\ UNCHANGED <<enabled, editClasses, deleteDialogOpen, model, editDataset, world, deletedTold, editCrossed, half, editBounds>>
SaveFails(r) ==       \* as soon as the first rename has failed; the rest goes on
    /\ r.kind = "rename" /\ r.failed /\ isSaving' = FALSE /\ half' = TRUE
    /\ editRequests' = EditOthers(r) \cup (IF r.todo = {} THEN {} ELSE {[r EXCEPT !.kind = "rest"]})
    /\ UNCHANGED <<form, deleteDialogOpen, client, world, told, deletedTold, editCrossed, editBounds>>
EditRequestFails(r) ==
    /\ editFaults > 0 /\ Left /\ editFaults' = editFaults - 1 /\ half' = (half \/ r.kind = "unset")
    /\ IF r.kind \in {"rename", "rest"}
       THEN \E pair \in r.todo : editRequests' = EditOthers(r) \cup After(r, pair, TRUE) /\ UNCHANGED isSaving
       ELSE editRequests' = EditOthers(r) /\ isSaving' = (isSaving /\ r.kind # "config")
    /\ UNCHANGED <<form, deleteDialogOpen, client, world, told, deletedTold, editCrossed, editUsers, others>>

SetDeleteDialogOpen ==
    /\ EditActs /\ ~editOpen /\ deleteDialogOpen' = ~deleteDialogOpen
    /\ UNCHANGED <<form, client, isSaving, editRequests, world, history>>
Deletion(kind) == [kind |-> kind, enabled |-> TRUE, todo |-> {}, failed |-> FALSE, was |-> categories, asked |-> {}]
handleDelete ==
    /\ deleteDialogOpen /\ deleteDialogOpen' = FALSE /\ Shown
    /\ editRequests' = editRequests \cup {Deletion("delete")}
    /\ UNCHANGED <<form, client, isSaving, world, history, editBounds>>
DeleteData(r) ==
    /\ r.kind = "delete" /\ categories' = [c \in EditNames |-> 0]
    /\ editRequests' = EditOthers(r) \cup {Deletion("unset")}
    /\ UNCHANGED <<form, deleteDialogOpen, client, isSaving, editServer, history, editBounds>>
DeleteConfig(r) ==
    /\ r.kind = "unset" /\ editServer' = [editServer EXCEPT !.there = FALSE] /\ editRequests' = EditOthers(r)
    /\ deletedTold' = TRUE /\ reading' = reading \cup {"config"}
    /\ UNCHANGED <<form, deleteDialogOpen, model, editDataset, isSaving, categories, told, editCrossed, half, editBounds>>

(* A configuration that differs in anything gives the dialog another model: *)
(* the form is filled in anew, with no classes until their list changes.    *)
ConfigRead ==
    LET anew == editOpen /\ editServer # model
    IN /\ "config" \in reading /\ model' = editServer
       /\ enabled' = IF anew THEN editServer.enabled ELSE enabled
       /\ editClasses' = IF anew THEN <<"">> ELSE editClasses
       /\ reading' = (reading \ {"config"}) \cup (IF anew THEN {"dataset"} ELSE {})
       /\ editOpen' = (editOpen /\ editServer.there) /\ deleteDialogOpen' = (deleteDialogOpen /\ editServer.there)
       /\ UNCHANGED <<editDataset, isSaving, editRequests, world, history, editBounds>>
DatasetRead ==
    LET list == AsList(NamesIn(categories))
    IN /\ "dataset" \in reading /\ editDataset' = list /\ reading' = reading \ {"dataset"}
       /\ editClasses' = IF editOpen /\ list # editDataset /\ list # <<>> THEN list ELSE editClasses
       /\ UNCHANGED <<editOpen, enabled, deleteDialogOpen, model, isSaving, editRequests, world, history, editBounds>>
OtherChange ==       \* and the configuration is read again
    /\ others > 0 /\ Left /\ others' = others - 1 /\ editServer' = [editServer EXCEPT !.rev = @ + 1] /\ reading' = reading \cup {"config"}
    /\ UNCHANGED <<form, deleteDialogOpen, model, editDataset, isSaving, editRequests, categories, history, editUsers, editFaults>>

EditNext ==
    \/ handleEditClick \/ editHandleCancel \/ SetEnabled \/ handleAddClass \/ onSubmit
    \/ \E i \in DOMAIN editClasses : handleRemoveClass(i) \/ \E c \in EditNames \cup {""} : SetClass(i, c)
    \/ SetDeleteDialogOpen \/ handleDelete
    \/ \E r \in editRequests :
         \/ SaveConfig(r) \/ onSuccess(r) \/ SaveFails(r) \/ EditRequestFails(r) \/ DeleteData(r) \/ DeleteConfig(r)
         \/ \E pair \in r.todo : rename(r, pair)
    \/ ConfigRead \/ DatasetRead \/ OtherChange

EditSpec == EditInit /\ [][EditNext]_editVars

(* No renaming loses a class or mixes two, however many are under way.      *)
NoneDeleted == ~deletedTold /\ ~half /\ ~\E r \in editRequests : r.kind = "unset"
ContentsSurvive ==
    (\A c \in {1, 2} : Cardinality({n \in EditNames : categories[n] = c}) <= 1)
    /\ (NamesIn(categories) # {} => Cardinality(NamesIn(categories)) = 2)

(* A save told to have worked has renamed every class it was to rename, and *)
(* written the settings, unless another save or a deletion crossed it or an *)
(* earlier one failed half way, after which the list of classes is old.     *)
ToldIsRenamed == \A t \in told : t.alone => t.written /\ t.renamed

(* A deletion told to have worked has left nothing, and once everything is  *)
(* read the card shows what the server has, unless a save or a deletion     *)
(* failed half way.                                                         *)
DeletedIsGone == deletedTold /\ ~editCrossed => ~editServer.there /\ NamesIn(categories) = {}
CardIsCurrent == editRequests = {} /\ reading = {} /\ ~half => model = editServer
ListIsCurrent == editRequests = {} /\ reading = {} /\ ~half /\ model.there => editDataset = AsList(NamesIn(categories))

(* Not so: *)
CardAlwaysCurrent == editRequests = {} /\ reading = {} => model = editServer
WholeModel == editRequests = {} => (editServer.there <=> NamesIn(categories) # {})
ClassesAreFilledIn == editOpen /\ reading = {} /\ editUsers = MaxEditUser - 1 => editClasses # <<"">>
=============================================================================
