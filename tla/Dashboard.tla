----------------------------- MODULE Dashboard -----------------------------
(***************************************************************************)
(* The dashboard's own state (web/src/App.tsx): what is selected and       *)
(* previewed over lists that change, which requests are under way, and     *)
(* what the export modal is given.  An action is a handler or a callback   *)
(* in the browser's event loop, with the render it causes.                 *)
(*                                                                         *)
(* The server's answers are any of Lists: what it does is the business of  *)
(* the other modules, and when new answers are asked for that of           *)
(* SampleWindows.  They come in chunks, and App is given whole chunks,     *)
(* also where they reach beyond the screen.                                *)
(*                                                                         *)
(* Variants with a plausible bug stand before the definitions they vary.   *)
(***************************************************************************)
EXTENDS Integers, Export

CONSTANTS
    Samples,   \* samples
    Filters,   \* filters: active tags, predicates and a similarity search
    NoFilter,  \* the one the dashboard starts with
    Lists,     \* Lists[f]: the lists of samples that may match a filter
    ChunkSize, \* the samples of a chunk
    MaxTasks,  \* bound on the handlers that wait at a time
    None       \* no anchor, no preview, nothing at a position

ASSUME FiltersAssumption == NoFilter \in Filters
ASSUME ListsAssumption   == \A f \in Filters : Lists[f] \subseteq Seq(Samples)
ASSUME ChunkSizeAssumption == ChunkSize \in Nat \ {0}
ASSUME LabelsAssumption  == \A s \in Samples : LabelsOf[s] \in Seq(LabelValue)
ASSUME TasksAssumption   == MaxTasks \in Nat
ASSUME NoneAssumption    == None \notin Samples \cup Int

VARIABLES
    filter,       \* the filter
    count,        \* its count, 0 until it is there
    shown,        \* shown[i]: the sample of the card at a position
    held,         \* App's chunks, by position: what the grid reported last
    given,        \* history: the samples of all chunks ever reported
    selected,     \* the samples selected one by one
    allMatching,  \* whether all that match are selected instead
    anchor,       \* where a range starts
    preview,      \* the position in the sample modal
    busy,         \* whether the toolbar is disabled
    undoing,      \* whether the undo button is disabled
    indexJob,     \* whether the index button shows a running job
    tasks,        \* handlers that wait for their job, by kind
    crossed,      \* history: whether the modal started a job beside another
    pollLost      \* history: whether a poll of an index job failed

grid      == <<filter, count, shown, held, given>>
selection == <<selected, allMatching, anchor>>
waiting   == <<busy, undoing, indexJob, tasks, crossed, pollLost>>
vars      == <<grid, selection, preview, waiting>>

Kinds    == {"toolbar", "modal", "undo", "index"}
Position == UNION {0 .. Len(l) - 1 : l \in UNION {Lists[f] : f \in Filters}}
Cells    == UNION {[D -> Samples] : D \in SUBSET Position}

TypeOK ==
    /\ filter \in Filters /\ count \in Nat
    /\ shown \in Cells /\ held \in Cells
    /\ given \subseteq Samples /\ selected \subseteq Samples
    /\ allMatching \in BOOLEAN /\ busy \in BOOLEAN /\ undoing \in BOOLEAN
    /\ indexJob \in BOOLEAN /\ crossed \in BOOLEAN /\ pollLost \in BOOLEAN
    /\ anchor \in Position \cup {None} /\ preview \in Position \cup {None}
    /\ tasks \in [Kinds -> Nat]

Nothing == [i \in {} |-> None]

Init ==
    /\ filter = NoFilter /\ count = 0
    /\ shown = Nothing /\ held = Nothing /\ given = {}
    /\ selected = {} /\ allMatching = FALSE /\ anchor = None
    /\ preview = None
    /\ busy = FALSE /\ undoing = FALSE /\ indexJob = FALSE
    /\ tasks = [k \in Kinds |-> 0]
    /\ crossed = FALSE /\ pollLost = FALSE

-----------------------------------------------------------------------------
(* The grid.                                                               *)

(* Math.floor(index / CHUNK_SIZE) * CHUNK_SIZE.                            *)
chunkOffset(index) == index - (index % ChunkSize)

Counts(f) == {Len(l) : l \in Lists[f]}

(* The rows between the first and the last virtual one, or none yet.       *)
Views(n) == {first .. last : first, last \in 0 .. n - 1} \cup {{}}

neededOffsets(view) == {chunkOffset(i) : i \in view}

(* answers[o]: the list that matched when the chunk at an offset was       *)
(* answered, for those that have been; each is answered on its own.        *)
getSample(answers) ==
    LET Of(i) == answers[chunkOffset(i)]
    IN  [i \in {j \in Position : chunkOffset(j) \in DOMAIN answers /\ j < Len(Of(j))}
            |-> Of(i)[i + 1]]

(* A render of the grid draws the cards in view, and reports its chunks    *)
(* whole, but never that it has none.                                      *)
Shows(f, n, view, answers) ==
    LET cells == getSample(answers)
    IN  /\ filter' = f /\ count' = n
        /\ shown' = [i \in DOMAIN cells \cap view |-> cells[i]]
        /\ held' = IF DOMAIN answers = {} THEN held ELSE cells
        /\ given' = given \cup {cells[i] : i \in DOMAIN cells}

Renders(f, n) ==
    \E view \in Views(n) : \E loaded \in SUBSET neededOffsets(view) :
        \E answers \in [loaded -> Lists[f]] : Shows(f, n, view, answers)

(* Scrolling, and answers for the filter as it is.                         *)
Refresh ==
    /\ \E n \in Counts(filter) : Renders(filter, n)
    /\ UNCHANGED <<selection, preview, waiting>>

(* Another filter: its count and chunks may be cached or not.              *)
ShowFiltered(f) ==
    /\ f # filter
    /\ \E n \in Counts(f) \cup {0} : Renders(f, n)

(* Tags toggled, rules added or removed, the similarity search dropped.    *)
SetFilter ==
    /\ \E f \in Filters : ShowFiltered(f)
    /\ UNCHANGED <<selection, preview, waiting>>

(* All of them at once; the button is there while there is a filter.       *)
Reset ==
    /\ ShowFiltered(NoFilter)
    /\ UNCHANGED <<selection, preview, waiting>>

(* A card's button: a similarity search joins the filter.                  *)
FindSimilar ==
    /\ DOMAIN shown # {}
    /\ \E f \in Filters \ {NoFilter} : ShowFiltered(f)
    /\ UNCHANGED <<selection, preview, waiting>>

-----------------------------------------------------------------------------
(* The selection: useSelection.ts.                                         *)

hasSelection == allMatching \/ selected # {}

toggle(id, index) ==
    /\ allMatching' = FALSE
    /\ anchor' = index
    /\ selected' = IF id \in selected THEN selected \ {id} ELSE selected \cup {id}

(* orderedIds[i] where there is one.                                       *)
IdsBetweenUnchecked(start, end) ==
    {IF i \in DOMAIN held THEN held[i] ELSE None : i \in start .. end}

IdsBetween(start, end) == {held[i] : i \in (start .. end) \cap DOMAIN held}

selectRange(index) ==
    LET from == IF anchor = None THEN index ELSE anchor
    IN  /\ allMatching' = FALSE
        /\ selected' = selected \cup
               (IF from <= index THEN IdsBetween(from, index) ELSE IdsBetween(index, from))
        /\ UNCHANGED anchor

selectAllMatching ==
    /\ selected' = {} /\ allMatching' = TRUE
    /\ UNCHANGED anchor

clear == selected' = {} /\ allMatching' = FALSE /\ anchor' = None

(* A card's checkbox, or a click with shift: only cards with a sample.     *)
Toggle ==
    /\ \E i \in DOMAIN shown : toggle(shown[i], i)
    /\ UNCHANGED <<grid, preview, waiting>>

ShiftSelect ==
    /\ \E i \in DOMAIN shown : selectRange(i)
    /\ UNCHANGED <<grid, preview, waiting>>

SelectAllMatching ==
    /\ count > 0 /\ ~allMatching
    /\ selectAllMatching
    /\ UNCHANGED <<grid, preview, waiting>>

ClearSelection ==
    /\ hasSelection
    /\ clear
    /\ UNCHANGED <<grid, preview, waiting>>

-----------------------------------------------------------------------------
(* The sample modal: it shows what App holds at a position.                *)

OpenPreview ==
    /\ preview' \in 0 .. count - 1
    /\ UNCHANGED <<grid, selection, waiting>>

Navigate ==
    /\ preview # None
    /\ \/ preview > 0 /\ preview' = preview - 1
       \/ preview < count - 1 /\ preview' = preview + 1
    /\ UNCHANGED <<grid, selection, waiting>>

ClosePreview ==
    /\ preview # None
    /\ preview' = None
    /\ UNCHANGED <<grid, selection, waiting>>

Previewed == preview # None /\ preview \in DOMAIN held

ModalToggle ==
    /\ Previewed
    /\ toggle(held[preview], preview)
    /\ UNCHANGED <<grid, preview, waiting>>

(* The similarity search is another filter, and the modal closes.          *)
ModalFindSimilar ==
    /\ Previewed
    /\ \E f \in Filters \ {NoFilter} : ShowFiltered(f)
    /\ preview' = None
    /\ UNCHANGED <<selection, waiting>>

-----------------------------------------------------------------------------
(* Requests that start a job, and the handlers that wait for it.           *)

Start(kind) ==
    /\ tasks["toolbar"] + tasks["modal"] + tasks["undo"] + tasks["index"] < MaxTasks
    /\ tasks' = [tasks EXCEPT ![kind] = @ + 1]

Tagging == tasks["toolbar"] + tasks["modal"] > 0

ApplyTagWhileBusy ==
    /\ hasSelection
    /\ Start("toolbar")
    /\ busy' = TRUE
    /\ UNCHANGED <<grid, selection, preview, undoing, indexJob, crossed, pollLost>>

(* The toolbar's buttons and its input are disabled while busy.            *)
ApplyTag ==
    /\ hasSelection /\ ~busy
    /\ Start("toolbar")
    /\ busy' = TRUE
    /\ UNCHANGED <<grid, selection, preview, undoing, indexJob, crossed, pollLost>>

(* The modal's are not.                                                    *)
ModalTag ==
    /\ Previewed
    /\ Start("modal")
    /\ busy' = TRUE
    /\ crossed' = (crossed \/ Tagging)
    /\ UNCHANGED <<grid, selection, preview, undoing, indexJob, pollLost>>

(* The guard of the commit list, which is there or not.                    *)
Undo ==
    /\ ~undoing
    /\ Start("undo")
    /\ undoing' = TRUE
    /\ UNCHANGED <<grid, selection, preview, busy, indexJob, crossed, pollLost>>

(* The button is disabled while indexJob runs, Enter in the field is not.  *)
StartIndex ==
    /\ Start("index")
    /\ UNCHANGED <<grid, selection, preview, busy, undoing, indexJob, crossed, pollLost>>

(* A poll of an index job that is still queued or running.                 *)
IndexProgress ==
    /\ tasks["index"] > 0
    /\ indexJob' = TRUE
    /\ UNCHANGED <<grid, selection, preview, busy, undoing, tasks, crossed,
                   pollLost>>

Ends(kind) == tasks' = [tasks EXCEPT ![kind] = @ - 1]

(* pollJob returns, whatever the job's status: the toolbar drops the       *)
(* selection, also one made meanwhile.  (What invalidate() does is         *)
(* SampleWindows'.)                                                        *)
Settle(kind) ==
    /\ tasks[kind] > 0
    /\ Ends(kind)
    /\ IF kind = "toolbar" THEN clear ELSE UNCHANGED selection
    /\ busy' = (busy /\ kind \notin {"toolbar", "modal"})
    /\ undoing' = (undoing /\ kind # "undo")
    /\ indexJob' = (indexJob /\ kind # "index")
    /\ UNCHANGED <<grid, preview, crossed, pollLost>>

(* The request or a poll fails.  finally resets busy and undoing; nothing  *)
(* resets indexJob.                                                        *)
RequestFailsUncaught(kind) ==
    /\ tasks[kind] > 0
    /\ Ends(kind)
    /\ pollLost' = (pollLost \/ kind = "index")
    /\ UNCHANGED <<grid, selection, preview, busy, undoing, indexJob, crossed>>

RequestFails(kind) ==
    /\ tasks[kind] > 0
    /\ Ends(kind)
    /\ busy' = (busy /\ kind \notin {"toolbar", "modal"})
    /\ undoing' = (undoing /\ kind # "undo")
    /\ pollLost' = (pollLost \/ kind = "index")
    /\ UNCHANGED <<grid, selection, preview, indexJob, crossed>>

Next ==
    \/ Refresh \/ SetFilter \/ Reset \/ FindSimilar
    \/ Toggle \/ ShiftSelect \/ SelectAllMatching \/ ClearSelection
    \/ OpenPreview \/ Navigate \/ ClosePreview \/ ModalToggle \/ ModalFindSimilar
    \/ ApplyTag \/ ModalTag \/ Undo \/ StartIndex \/ IndexProgress
    \/ \E kind \in Kinds : Settle(kind) \/ RequestFails(kind)

Spec == Init /\ [][Next]_vars

(* Every job ends (Jobs!EveryJobEnds) and a long poll is answered or       *)
(* fails, so that a handler that waits goes on, one way or the other.      *)
FairSpec == Spec /\ \A kind \in Kinds : WF_tasks(tasks[kind] > 0 /\ Ends(kind))

-----------------------------------------------------------------------------
(* Export.                                                                 *)

Reach(cells) == IF DOMAIN cells = {} THEN 0 ELSE Max(DOMAIN cells) + 1

(* A sparse array: what there is at each position.                         *)
orderedIds(cells) ==
    [k \in 1 .. Reach(cells) |-> IF k - 1 \in DOMAIN cells THEN cells[k - 1] ELSE None]

(* What the modal has of the chunks, and of these what is selected.        *)
allLoadedSamples ==
    LET ids == orderedIds(held) IN Pushed(ids, {k \in DOMAIN ids : ids[k] # None})

targetSamples(scope) ==
    LET loaded == allLoadedSamples
    IN  IF scope = "loaded" THEN loaded
        ELSE Pushed(loaded, {k \in DOMAIN loaded : loaded[k] \in selected})

Targets == {targetSamples("loaded"), targetSamples("selected")}

-----------------------------------------------------------------------------
(* Whatever lists, filters, scrolling and ranges come between, only        *)
(* samples of chunks that were loaded are selected one by one, displayed   *)
(* or not: a range never reaches into positions without a sample           *)
(* (useSelection.ts:28), also when its anchor is from another list.  And   *)
(* although App keeps the chunks of an earlier filter while there are none *)
(* of the new one (PixiGrid.tsx:150), no range is taken of these: where a  *)
(* card can be clicked, App holds its sample there, and all it holds       *)
(* matched the filter when its chunk was answered.                         *)
SelectionIsLoaded ==
    /\ selected \subseteq given
    /\ \A i \in DOMAIN shown : i \in DOMAIN held /\ held[i] = shown[i]
    /\ DOMAIN shown # {} =>
           \A i \in DOMAIN held : \E l \in Lists[filter] : i < Len(l) /\ held[i] = l[i + 1]

(* What is disabled is waited for: busy and undoing go with a handler that *)
(* waits, however tasks of several kinds overlap and fail.  The other way, *)
(* a tagging job leaves the toolbar enabled, and a second one overlaps it, *)
(* only after the modal started one beside another (App.tsx:117); undos    *)
(* never overlap; and the index button shows a job that runs, unless a     *)
(* poll was lost (App.tsx:83).                                             *)
SpinnersAreTrue ==
    /\ busy => Tagging
    /\ ~crossed => (Tagging => busy) /\ tasks["toolbar"] <= 1
    /\ tasks["undo"] = IF undoing THEN 1 ELSE 0
    /\ indexJob => tasks["index"] > 0 \/ pollLost

(* What is disabled is enabled again, with the same exception.             *)
SpinnersStop ==
    /\ busy ~> ~busy
    /\ undoing ~> ~undoing
    /\ indexJob ~> (~indexJob \/ pollLost)

(* Whichever chunks are held and whatever is selected, COCO, Hugging Face  *)
(* and Label Studio files name the same classes for the same boxes of the  *)
(* same samples: ids of categories name one label each (ExportModal.tsx).  *)
CocoFilesMatch == \A targets \in Targets : CocoMatches(targets)

(* So do YOLO files, unless a label that looks like an index comes after   *)
(* another one: JavaScript lists such keys first, in ascending order, and  *)
(* not in the order that gave the classes their numbers                    *)
(* (ExportModal.tsx:304).                                                  *)
YoloFilesMatch == \A targets \in Targets : YoloMatches(targets)
=============================================================================
