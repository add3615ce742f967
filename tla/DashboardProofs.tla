-------------------------- MODULE DashboardProofs --------------------------
(***************************************************************************)
(* Proofs about Dashboard, for every value of its constants: types, that   *)
(* only samples of loaded chunks are selected, whatever their size, that   *)
(* disabled buttons are waited for, with any number of tasks, and that the *)
(* files of an export name the same boxes, with any samples, labels and    *)
(* names.                                                                  *)
(***************************************************************************)
EXTENDS Dashboard, FiniteSetTheorems, SequenceTheorems, WellFoundedInduction, TLAPS

-----------------------------------------------------------------------------
(* Cells.                                                                  *)

(* The samples of cells.                                                   *)
LEMMA CellsHoldSamples ==
    ASSUME NEW c \in Cells
    PROVE  /\ DOMAIN c \subseteq Position
           /\ \A i \in DOMAIN c : c[i] \in Samples
  BY DEF Cells

LEMMA NothingIsCells == Nothing \in Cells /\ DOMAIN Nothing = {}
  BY DEF Nothing, Cells

(* A list's positions, counted from 0.                                     *)
LEMMA PositionsAreNat == Position \subseteq Nat
  BY DEF Position

LEMMA CountsAreNat ==
    ASSUME NEW f \in Filters
    PROVE  /\ Counts(f) \subseteq Nat
           /\ UNION {0 .. n - 1 : n \in Counts(f)} \subseteq Position
<1>1. \A l \in Lists[f] : l \in Seq(Samples) /\ Len(l) \in Nat
  BY ListsAssumption
<1> QED BY <1>1 DEF Counts, Position

-----------------------------------------------------------------------------
(* What App holds matched the filter when it was answered.                 *)
HeldMatched == \A i \in DOMAIN held : \E l \in Lists[filter] : i < Len(l) /\ held[i] = l[i + 1]

(* The invariant: what is held or selected was given, cards show what is   *)
(* held, a count is that of a list, and at most one handler tags unless    *)
(* crossed.                                                                *)
GridOK ==
    /\ filter \in Filters /\ count \in Nat
    /\ 0 .. count - 1 \subseteq Position
    /\ shown \in Cells /\ held \in Cells
    /\ given \subseteq Samples
    /\ \A i \in DOMAIN held : held[i] \in given
    /\ \A i \in DOMAIN shown : i \in DOMAIN held /\ held[i] = shown[i]
    /\ DOMAIN shown # {} => HeldMatched
    /\ \E m \in Nat : \A i \in DOMAIN held : i < m

SelectionOK ==
    /\ selected \subseteq given
    /\ allMatching \in BOOLEAN
    /\ anchor \in Position \cup {None}

PreviewOK == preview \in Position \cup {None}

WaitingOK ==
    /\ busy \in BOOLEAN /\ undoing \in BOOLEAN /\ indexJob \in BOOLEAN
    /\ crossed \in BOOLEAN /\ pollLost \in BOOLEAN
    /\ tasks \in [Kinds -> Nat]
    /\ SpinnersAreTrue
    /\ ~crossed => tasks["toolbar"] + tasks["modal"] <= 1

DashboardInv == GridOK /\ SelectionOK /\ PreviewOK /\ WaitingOK

LEMMA DashboardInvInit == Init => DashboardInv
<1> SUFFICES ASSUME Init PROVE DashboardInv
  OBVIOUS
<1>1. GridOK
  BY NothingIsCells, FiltersAssumption DEF Init, GridOK
<1>2. SelectionOK /\ PreviewOK
  BY DEF Init, SelectionOK, PreviewOK
<1>3. WaitingOK
  <2>1. /\ tasks \in [Kinds -> Nat]
        /\ tasks["toolbar"] = 0 /\ tasks["modal"] = 0
        /\ tasks["undo"] = 0 /\ tasks["index"] = 0
    BY DEF Init, Kinds
  <2>2. ~busy /\ ~undoing /\ ~indexJob /\ ~crossed /\ ~pollLost
    BY DEF Init
  <2>3. SpinnersAreTrue
    BY <2>1, <2>2 DEF SpinnersAreTrue, Tagging
  <2>4. /\ busy \in BOOLEAN /\ undoing \in BOOLEAN /\ indexJob \in BOOLEAN
        /\ crossed \in BOOLEAN /\ pollLost \in BOOLEAN
    BY DEF Init
  <2> QED BY <2>1, <2>3, <2>4 DEF WaitingOK
<1> QED BY <1>1, <1>2, <1>3 DEF DashboardInv

(* What loaded chunks hold: samples of their answers, and none beyond the  *)
(* chunk of the last card in view.                                         *)
LEMMA ChunksHoldSamples ==
    ASSUME NEW f \in Filters, NEW n \in Nat, NEW view \in Views(n),
           NEW loaded \in SUBSET neededOffsets(view), NEW answers \in [loaded -> Lists[f]]
    PROVE  /\ getSample(answers) \in Cells
           /\ \A i \in DOMAIN getSample(answers) :
                  \E l \in Lists[f] : i < Len(l) /\ getSample(answers)[i] = l[i + 1]
           /\ \A i \in DOMAIN getSample(answers) : i < n + ChunkSize
           /\ loaded = {} => DOMAIN getSample(answers) = {}
<1> DEFINE of(i) == answers[chunkOffset(i)]
           at == {j \in Position : chunkOffset(j) \in loaded /\ j < Len(of(j))}
           cells == [i \in at |-> of(i)[i + 1]]
<1>1. getSample(answers) = cells
  BY DEF getSample
<1>2. ASSUME NEW i \in at
      PROVE  /\ i \in Nat /\ of(i) \in Lists[f] /\ i < Len(of(i))
             /\ of(i)[i + 1] \in Samples /\ chunkOffset(i) \in neededOffsets(view)
  <2>1. i \in Nat /\ chunkOffset(i) \in loaded /\ i < Len(of(i))
    BY PositionsAreNat
  <2>2. of(i) \in Lists[f]
    BY <2>1
  <2>3. of(i) \in Seq(Samples)
    BY <2>2, ListsAssumption
  <2>4. i + 1 \in 1 .. Len(of(i))
    BY <2>1, <2>3
  <2>5. of(i)[i + 1] \in Samples
    BY <2>3, <2>4, ElementOfSeq
  <2> QED BY <2>1, <2>2, <2>5
<1>3. cells \in Cells
  <2>1. at \in SUBSET Position
    OBVIOUS
  <2>2. cells \in [at -> Samples]
    <3> HIDE DEF at, of
    <3> QED BY <1>2
  <2> HIDE DEF at, cells
  <2> QED BY <2>1, <2>2 DEF Cells
<1>4. ASSUME NEW i \in at PROVE \E l \in Lists[f] : i < Len(l) /\ cells[i] = l[i + 1]
  <2>1. of(i) \in Lists[f] /\ i < Len(of(i)) /\ cells[i] = of(i)[i + 1]
    BY <1>2, <1>4
  <2> HIDE DEF at, cells, of
  <2> QED BY <2>1
<1>5. ASSUME NEW i \in at PROVE i < n + ChunkSize
  <2>1. i \in Nat /\ chunkOffset(i) \in neededOffsets(view)
    BY <1>2, <1>5
  <2>2. PICK j \in view : chunkOffset(i) = chunkOffset(j)
    BY <2>1 DEF neededOffsets
  <2>3. j \in 0 .. n - 1
    BY DEF Views
  <2>4. ChunkSize \in Nat /\ ChunkSize > 0
    BY ChunkSizeAssumption
  <2>5. i % ChunkSize \in 0 .. ChunkSize - 1 /\ j % ChunkSize \in 0 .. ChunkSize - 1
    BY <2>1, <2>3, <2>4
  <2> QED BY <2>1, <2>2, <2>3, <2>4, <2>5 DEF chunkOffset
<1>6. loaded = {} => at = {}
  OBVIOUS
<1>7. DOMAIN cells = at
  OBVIOUS
<1> HIDE DEF at, cells, of
<1> QED BY <1>1, <1>3, <1>4, <1>5, <1>6, <1>7

(* A render: App is given more, and holds all that the cards show.         *)
LEMMA ShowsKeepsGrid ==
    ASSUME GridOK, NEW f \in Filters, NEW n \in Counts(f) \cup {0}, Renders(f, n)
    PROVE  GridOK' /\ given \subseteq given'
<1>1. n \in Nat /\ 0 .. n - 1 \subseteq Position
  <2>1. CASE n = 0
    BY <2>1
  <2>2. CASE n \in Counts(f)
    BY <2>2, CountsAreNat
  <2> QED BY <2>1, <2>2
<1>2. PICK view \in Views(n) :
          \E loaded \in SUBSET neededOffsets(view) :
              \E answers \in [loaded -> Lists[f]] : Shows(f, n, view, answers)
  BY DEF Renders
<1> PICK loaded \in SUBSET neededOffsets(view) :
        \E answers \in [loaded -> Lists[f]] : Shows(f, n, view, answers)
  BY <1>2
<1>3. PICK answers \in [loaded -> Lists[f]] : Shows(f, n, view, answers)
  OBVIOUS
<1> DEFINE cells == getSample(answers)
<1>4. /\ cells \in Cells
      /\ \A i \in DOMAIN cells : \E l \in Lists[f] : i < Len(l) /\ cells[i] = l[i + 1]
      /\ \A i \in DOMAIN cells : i < n + ChunkSize
      /\ loaded = {} => DOMAIN cells = {}
  BY <1>1, ChunksHoldSamples
<1>5. /\ filter' = f /\ count' = n
      /\ shown' = [i \in DOMAIN cells \cap view |-> cells[i]]
      /\ held' = IF DOMAIN answers = {} THEN held ELSE cells
      /\ given' = given \cup {cells[i] : i \in DOMAIN cells}
  BY <1>3 DEF Shows
<1>6. DOMAIN answers = loaded
  OBVIOUS
<1> HIDE DEF cells
<1>7. cells \in Cells /\ \A i \in DOMAIN cells : i \in Position /\ cells[i] \in Samples
  BY <1>4, CellsHoldSamples
<1>8. given' \subseteq Samples /\ given \subseteq given'
  BY <1>5, <1>7 DEF GridOK
<1>9. shown' \in Cells /\ DOMAIN shown' = DOMAIN cells \cap view
  <2>1. shown' \in [DOMAIN cells \cap view -> Samples]
    BY <1>5, <1>7
  <2>2. DOMAIN cells \cap view \in SUBSET Position
    BY <1>7
  <2> QED BY <1>5, <2>1, <2>2 DEF Cells
<1>10. CASE loaded = {}
  <2>1. held' = held /\ DOMAIN shown' = {}
    BY <1>4, <1>5, <1>6, <1>9, <1>10
  <2> QED BY <1>1, <1>5, <1>8, <1>9, <2>1 DEF GridOK
<1>11. CASE loaded # {}
  <2>1. held' = cells
    BY <1>5, <1>6, <1>11
  <2>2. \A i \in DOMAIN held' : held'[i] \in given'
    BY <1>5, <2>1
  <2>3. \A i \in DOMAIN shown' : i \in DOMAIN held' /\ held'[i] = shown'[i]
    BY <1>5, <1>9, <2>1
  <2>4. HeldMatched'
    BY <1>4, <1>5, <2>1 DEF HeldMatched
  <2>5. (\E m \in Nat : \A i \in DOMAIN held : i < m)'
    <3>1. n + ChunkSize \in Nat
      BY <1>1, ChunkSizeAssumption
    <3> QED BY <1>4, <2>1, <3>1
  <2> QED BY <1>1, <1>5, <1>7, <1>8, <1>9, <2>1, <2>2, <2>3, <2>4, <2>5 DEF GridOK
<1> QED BY <1>10, <1>11

LEMMA ShowFilteredKeepsGrid ==
    ASSUME GridOK, NEW f \in Filters, ShowFiltered(f)
    PROVE  GridOK' /\ given \subseteq given'
  BY ShowsKeepsGrid DEF ShowFiltered

(* The renders as a whole.                                                 *)
LEMMA RendersKeepGrid ==
    ASSUME GridOK, Refresh \/ SetFilter \/ Reset \/ FindSimilar \/ ModalFindSimilar
    PROVE  GridOK' /\ given \subseteq given' /\ UNCHANGED <<selection, waiting>>
<1>1. CASE Refresh
  <2>1. PICK n \in Counts(filter) : Renders(filter, n)
    BY <1>1 DEF Refresh
  <2>2. filter \in Filters
    BY DEF GridOK
  <2> QED BY <1>1, <2>1, <2>2, ShowsKeepsGrid DEF Refresh
<1>2. CASE SetFilter
  BY <1>2, ShowFilteredKeepsGrid DEF SetFilter
<1>3. CASE Reset
  BY <1>3, ShowFilteredKeepsGrid, FiltersAssumption DEF Reset
<1>4. CASE FindSimilar
  BY <1>4, ShowFilteredKeepsGrid DEF FindSimilar
<1>5. CASE ModalFindSimilar
  BY <1>5, ShowFilteredKeepsGrid DEF ModalFindSimilar
<1> QED BY <1>1, <1>2, <1>3, <1>4, <1>5

(* A selection is of what is held, also where a card is clicked.           *)
LEMMA toggleKeepsSelection ==
    ASSUME SelectionOK, NEW id \in given, NEW index \in Position, toggle(id, index),
           UNCHANGED given
    PROVE  SelectionOK'
  BY DEF SelectionOK, toggle

LEMMA selectionSteps ==
    ASSUME GridOK, SelectionOK, PreviewOK,
           Toggle \/ ShiftSelect \/ SelectAllMatching \/ ClearSelection \/ ModalToggle
    PROVE  SelectionOK' /\ UNCHANGED <<grid, preview, waiting>>
<1>1. \A i \in DOMAIN shown : i \in Position /\ shown[i] \in given
  BY CellsHoldSamples DEF GridOK
<1>2. \A i \in DOMAIN held : i \in Position /\ held[i] \in given
  BY CellsHoldSamples DEF GridOK
<1>3. CASE Toggle
  BY <1>1, <1>3, toggleKeepsSelection DEF Toggle, grid
<1>4. CASE ShiftSelect
  <2>1. \A a, b : IdsBetween(a, b) \subseteq given
    BY <1>2 DEF IdsBetween
  <2>2. PICK i \in DOMAIN shown : selectRange(i)
    BY <1>4 DEF ShiftSelect
  <2>3. selected' \subseteq given /\ allMatching' = FALSE /\ anchor' = anchor
    BY <2>1, <2>2 DEF selectRange, SelectionOK
  <2> QED BY <1>4, <2>3 DEF ShiftSelect, SelectionOK, grid
<1>5. CASE SelectAllMatching
  BY <1>5 DEF SelectAllMatching, selectAllMatching, SelectionOK
<1>6. CASE ClearSelection
  BY <1>6 DEF ClearSelection, clear, SelectionOK
<1>7. CASE ModalToggle
  BY <1>2, <1>7, toggleKeepsSelection DEF ModalToggle, Previewed, grid
<1> QED BY <1>3, <1>4, <1>5, <1>6, <1>7

(* The modal stays within the positions there are.                         *)
LEMMA previewSteps ==
    ASSUME GridOK, PreviewOK, OpenPreview \/ Navigate \/ ClosePreview
    PROVE  PreviewOK' /\ UNCHANGED <<grid, selection, waiting>>
<1>1. CASE OpenPreview
  BY <1>1 DEF OpenPreview, PreviewOK, GridOK
<1>2. CASE Navigate
  <2>1. preview \in Position /\ preview \in Nat
    BY <1>2, PositionsAreNat DEF Navigate, PreviewOK
  <2>2. CASE preview > 0 /\ preview' = preview - 1
    <3>1. PICK l \in UNION {Lists[f] : f \in Filters} : preview \in 0 .. Len(l) - 1
      BY <2>1 DEF Position
    <3>2. Len(l) \in Nat
      BY <3>1, ListsAssumption
    <3>3. preview - 1 \in 0 .. Len(l) - 1
      BY <2>1, <2>2, <3>1, <3>2
    <3>4. preview - 1 \in Position
      BY <3>3 DEF Position
    <3> QED BY <1>2, <2>2, <3>4 DEF Navigate, PreviewOK
  <2>3. CASE preview < count - 1 /\ preview' = preview + 1
    <3>1. preview + 1 \in 0 .. count - 1
      BY <2>1, <2>3 DEF GridOK
    <3> QED BY <1>2, <2>3, <3>1 DEF Navigate, PreviewOK, GridOK
  <2> QED BY <1>2, <2>2, <2>3 DEF Navigate
<1>3. CASE ClosePreview
  BY <1>3 DEF ClosePreview, PreviewOK
<1> QED BY <1>1, <1>2, <1>3

-----------------------------------------------------------------------------
(* The handlers.                                                           *)

(* One more or one less of a kind, and the others as they were.            *)
LEMMA StartCounts ==
    ASSUME tasks \in [Kinds -> Nat], NEW kind \in Kinds, Start(kind)
    PROVE  /\ tasks' \in [Kinds -> Nat]
           /\ tasks'[kind] = tasks[kind] + 1
           /\ \A k \in Kinds \ {kind} : tasks'[k] = tasks[k]
  BY DEF Start

LEMMA EndsCounts ==
    ASSUME tasks \in [Kinds -> Nat], NEW kind \in Kinds, Ends(kind), tasks[kind] > 0
    PROVE  /\ tasks' \in [Kinds -> Nat]
           /\ tasks'[kind] = tasks[kind] - 1
           /\ \A k \in Kinds \ {kind} : tasks'[k] = tasks[k]
  BY DEF Ends

LEMMA StartsKeepWaiting ==
    ASSUME WaitingOK, ApplyTag \/ ModalTag \/ Undo \/ StartIndex \/ IndexProgress
    PROVE  WaitingOK' /\ UNCHANGED <<grid, selection, preview>>
<1>1. /\ tasks \in [Kinds -> Nat]
      /\ "toolbar" \in Kinds /\ "modal" \in Kinds /\ "undo" \in Kinds /\ "index" \in Kinds
  BY DEF WaitingOK, Kinds
<1>2. /\ tasks["toolbar"] \in Nat /\ tasks["modal"] \in Nat
      /\ tasks["undo"] \in Nat /\ tasks["index"] \in Nat
  BY <1>1
<1>3. CASE ApplyTag
  <2>1. /\ tasks' \in [Kinds -> Nat] /\ tasks'["toolbar"] = tasks["toolbar"] + 1
        /\ tasks'["modal"] = tasks["modal"] /\ tasks'["undo"] = tasks["undo"]
        /\ tasks'["index"] = tasks["index"]
    BY <1>1, <1>3, StartCounts DEF ApplyTag
  <2>2. /\ ~busy /\ busy' = TRUE
        /\ UNCHANGED <<grid, selection, preview, undoing, indexJob, crossed, pollLost>>
    BY <1>3 DEF ApplyTag
  <2> QED BY <1>2, <2>1, <2>2 DEF WaitingOK, SpinnersAreTrue, Tagging
<1>4. CASE ModalTag
  <2>1. /\ tasks' \in [Kinds -> Nat] /\ tasks'["modal"] = tasks["modal"] + 1
        /\ tasks'["toolbar"] = tasks["toolbar"] /\ tasks'["undo"] = tasks["undo"]
        /\ tasks'["index"] = tasks["index"]
    BY <1>1, <1>4, StartCounts DEF ModalTag
  <2>2. /\ busy' = TRUE /\ crossed' = (crossed \/ Tagging)
        /\ UNCHANGED <<grid, selection, preview, undoing, indexJob, pollLost>>
    BY <1>4 DEF ModalTag
  <2> QED BY <1>2, <2>1, <2>2 DEF WaitingOK, SpinnersAreTrue, Tagging
<1>5. CASE Undo
  <2>1. /\ tasks' \in [Kinds -> Nat] /\ tasks'["undo"] = tasks["undo"] + 1
        /\ tasks'["toolbar"] = tasks["toolbar"] /\ tasks'["modal"] = tasks["modal"]
        /\ tasks'["index"] = tasks["index"]
    BY <1>1, <1>5, StartCounts DEF Undo
  <2>2. /\ ~undoing /\ undoing' = TRUE
        /\ UNCHANGED <<grid, selection, preview, busy, indexJob, crossed, pollLost>>
    BY <1>5 DEF Undo
  <2> QED BY <1>2, <2>1, <2>2 DEF WaitingOK, SpinnersAreTrue, Tagging
<1>6. CASE StartIndex
  <2>1. /\ tasks' \in [Kinds -> Nat] /\ tasks'["index"] = tasks["index"] + 1
        /\ tasks'["toolbar"] = tasks["toolbar"] /\ tasks'["modal"] = tasks["modal"]
        /\ tasks'["undo"] = tasks["undo"]
    BY <1>1, <1>6, StartCounts DEF StartIndex
  <2>2. UNCHANGED <<grid, selection, preview, busy, undoing, indexJob, crossed, pollLost>>
    BY <1>6 DEF StartIndex
  <2> QED BY <1>2, <2>1, <2>2 DEF WaitingOK, SpinnersAreTrue, Tagging
<1>7. CASE IndexProgress
  BY <1>7 DEF IndexProgress, WaitingOK, SpinnersAreTrue, Tagging
<1> QED BY <1>3, <1>4, <1>5, <1>6, <1>7

(* A handler that goes on, one way or the other, tidies up what it set.    *)
LEMMA EndsKeepWaiting ==
    ASSUME WaitingOK, NEW kind \in Kinds, tasks[kind] > 0, Ends(kind), UNCHANGED crossed,
           busy' \in BOOLEAN, undoing' \in BOOLEAN, indexJob' \in BOOLEAN,
           pollLost' \in BOOLEAN,
           busy' <=> (busy /\ kind \notin {"toolbar", "modal"}),
           undoing' <=> (undoing /\ kind # "undo"),
           \/ (indexJob' <=> (indexJob /\ kind # "index")) /\ (pollLost' <=> pollLost)
           \/ (indexJob' <=> indexJob) /\ (pollLost' <=> (pollLost \/ kind = "index"))
    PROVE  WaitingOK'
<1>1. /\ tasks \in [Kinds -> Nat]
      /\ "toolbar" \in Kinds /\ "modal" \in Kinds /\ "undo" \in Kinds /\ "index" \in Kinds
  BY DEF WaitingOK, Kinds
<1>2. /\ tasks["toolbar"] \in Nat /\ tasks["modal"] \in Nat
      /\ tasks["undo"] \in Nat /\ tasks["index"] \in Nat
  BY <1>1
<1>3. /\ tasks' \in [Kinds -> Nat] /\ tasks'[kind] = tasks[kind] - 1
      /\ \A k \in Kinds \ {kind} : tasks'[k] = tasks[k]
  BY <1>1, EndsCounts
<1>4. /\ busy' \in BOOLEAN /\ undoing' \in BOOLEAN /\ indexJob' \in BOOLEAN
      /\ crossed' \in BOOLEAN /\ pollLost' \in BOOLEAN
  BY DEF WaitingOK
<1>5. CASE kind = "toolbar"
  <2>1. /\ ~busy' /\ (undoing' <=> undoing) /\ (crossed' <=> crossed)
        /\ (indexJob' <=> indexJob) /\ (pollLost' <=> pollLost)
    <3>1. ~busy' /\ (undoing' <=> undoing) /\ (crossed' <=> crossed)
      BY <1>5
    <3>2. (indexJob' <=> indexJob) /\ (pollLost' <=> pollLost)
      BY <1>5
    <3> QED BY <3>1, <3>2
  <2>2. /\ tasks'["toolbar"] = tasks["toolbar"] - 1
        /\ tasks'["modal"] = tasks["modal"]
        /\ tasks'["undo"] = tasks["undo"]
        /\ tasks'["index"] = tasks["index"]
    BY <1>1, <1>3, <1>5
  <2>3. SpinnersAreTrue'
    BY <1>2, <2>1, <2>2 DEF WaitingOK, SpinnersAreTrue, Tagging
  <2>4. ~crossed' => tasks'["toolbar"] + tasks'["modal"] <= 1
    BY <1>2, <2>1, <2>2 DEF WaitingOK
  <2> QED BY <1>3, <1>4, <2>3, <2>4 DEF WaitingOK
<1>6. CASE kind = "modal"
  <2>1. /\ ~busy' /\ (undoing' <=> undoing) /\ (crossed' <=> crossed)
        /\ (indexJob' <=> indexJob) /\ (pollLost' <=> pollLost)
    <3>1. ~busy' /\ (undoing' <=> undoing) /\ (crossed' <=> crossed)
      BY <1>6
    <3>2. (indexJob' <=> indexJob) /\ (pollLost' <=> pollLost)
      BY <1>6
    <3> QED BY <3>1, <3>2
  <2>2. /\ tasks'["toolbar"] = tasks["toolbar"]
        /\ tasks'["modal"] = tasks["modal"] - 1
        /\ tasks'["undo"] = tasks["undo"]
        /\ tasks'["index"] = tasks["index"]
    BY <1>1, <1>3, <1>6
  <2>3. SpinnersAreTrue'
    BY <1>2, <2>1, <2>2 DEF WaitingOK, SpinnersAreTrue, Tagging
  <2>4. ~crossed' => tasks'["toolbar"] + tasks'["modal"] <= 1
    BY <1>2, <2>1, <2>2 DEF WaitingOK
  <2> QED BY <1>3, <1>4, <2>3, <2>4 DEF WaitingOK
<1>7. CASE kind = "undo"
  <2>1. /\ (busy' <=> busy) /\ ~undoing' /\ (crossed' <=> crossed)
        /\ (indexJob' <=> indexJob) /\ (pollLost' <=> pollLost)
    <3>1. (busy' <=> busy) /\ ~undoing' /\ (crossed' <=> crossed)
      BY <1>7
    <3>2. (indexJob' <=> indexJob) /\ (pollLost' <=> pollLost)
      BY <1>7
    <3> QED BY <3>1, <3>2
  <2>2. /\ tasks'["toolbar"] = tasks["toolbar"]
        /\ tasks'["modal"] = tasks["modal"]
        /\ tasks'["undo"] = tasks["undo"] - 1
        /\ tasks'["index"] = tasks["index"]
    BY <1>1, <1>3, <1>7
  <2>3. SpinnersAreTrue'
    <3>1. Tagging' <=> Tagging
      BY <2>2 DEF Tagging
    <3>2. tasks'["undo"] = IF undoing' THEN 1 ELSE 0
      <4>1. undoing /\ tasks["undo"] > 0
        BY <1>2, <1>7 DEF WaitingOK, SpinnersAreTrue
      <4> QED BY <2>1, <2>2, <4>1 DEF WaitingOK, SpinnersAreTrue
    <3> QED BY <2>1, <2>2, <3>1, <3>2 DEF WaitingOK, SpinnersAreTrue
  <2>4. ~crossed' => tasks'["toolbar"] + tasks'["modal"] <= 1
    BY <1>2, <2>1, <2>2 DEF WaitingOK
  <2> QED BY <1>3, <1>4, <2>3, <2>4 DEF WaitingOK
<1>8. CASE kind = "index"
  <2>1. /\ (busy' <=> busy) /\ (undoing' <=> undoing) /\ (crossed' <=> crossed)
        /\ ~indexJob' \/ pollLost'
    BY <1>8 DEF WaitingOK
  <2>2. /\ tasks'["toolbar"] = tasks["toolbar"]
        /\ tasks'["modal"] = tasks["modal"]
        /\ tasks'["undo"] = tasks["undo"]
        /\ tasks'["index"] = tasks["index"] - 1
    BY <1>1, <1>3, <1>8
  <2>3. SpinnersAreTrue'
    <3>1. Tagging' <=> Tagging
      BY <2>2 DEF Tagging
    <3>2. indexJob' => tasks'["index"] > 0 \/ pollLost'
      BY <2>1
    <3>3. tasks'["undo"] = IF undoing' THEN 1 ELSE 0
      BY <2>1, <2>2 DEF WaitingOK, SpinnersAreTrue
    <3> QED BY <2>1, <2>2, <3>1, <3>2, <3>3 DEF WaitingOK, SpinnersAreTrue
  <2>4. ~crossed' => tasks'["toolbar"] + tasks'["modal"] <= 1
    BY <1>2, <2>1, <2>2 DEF WaitingOK
  <2> QED BY <1>3, <1>4, <2>3, <2>4 DEF WaitingOK
<1> QED BY <1>5, <1>6, <1>7, <1>8 DEF Kinds

-----------------------------------------------------------------------------
(* The theorems.                                                           *)

LEMMA DashboardInvNext == DashboardInv /\ [Next]_vars => DashboardInv'
<1> SUFFICES ASSUME DashboardInv, [Next]_vars PROVE DashboardInv'
  OBVIOUS
<1>1. GridOK /\ SelectionOK /\ PreviewOK /\ WaitingOK
  BY DEF DashboardInv
<1>2. ASSUME UNCHANGED waiting PROVE WaitingOK'
  BY <1>1, <1>2 DEF WaitingOK, SpinnersAreTrue, Tagging, waiting
<1>3. ASSUME UNCHANGED grid PROVE GridOK'
  BY <1>1, <1>3 DEF GridOK, HeldMatched, grid
<1>4. ASSUME UNCHANGED selection, given \subseteq given' PROVE SelectionOK'
  BY <1>1, <1>4 DEF SelectionOK, selection
<1>5. ASSUME UNCHANGED preview PROVE PreviewOK'
  BY <1>1, <1>5 DEF PreviewOK
<1>6. CASE Refresh \/ SetFilter \/ Reset \/ FindSimilar \/ ModalFindSimilar
  <2>1. preview' \in {preview, None}
    BY <1>6 DEF Refresh, SetFilter, Reset, FindSimilar, ModalFindSimilar
  <2>2. PreviewOK'
    BY <1>1, <2>1 DEF PreviewOK
  <2> QED BY <1>1, <1>2, <1>4, <1>6, <2>2, RendersKeepGrid DEF DashboardInv
<1>7. CASE Toggle \/ ShiftSelect \/ SelectAllMatching \/ ClearSelection \/ ModalToggle
  BY <1>1, <1>2, <1>3, <1>5, <1>7, selectionSteps DEF DashboardInv
<1>8. CASE OpenPreview \/ Navigate \/ ClosePreview
  <2>1. PreviewOK' /\ UNCHANGED <<grid, selection, waiting>>
    BY <1>1, <1>8, previewSteps
  <2> QED BY <1>2, <1>3, <1>4, <2>1 DEF DashboardInv, grid
<1>9. CASE ApplyTag \/ ModalTag \/ Undo \/ StartIndex \/ IndexProgress
  <2>1. WaitingOK' /\ UNCHANGED <<grid, selection, preview>>
    BY <1>1, <1>9, StartsKeepWaiting
  <2> QED BY <1>3, <1>4, <1>5, <2>1 DEF DashboardInv, grid
<1>10. ASSUME NEW kind \in Kinds, Settle(kind) PROVE DashboardInv'
  <2>1. WaitingOK'
    <3>1. /\ busy' \in BOOLEAN /\ undoing' \in BOOLEAN /\ indexJob' \in BOOLEAN
          /\ pollLost' \in BOOLEAN
      BY <1>1, <1>10 DEF Settle, WaitingOK
    <3>2. /\ busy' <=> (busy /\ kind \notin {"toolbar", "modal"})
          /\ undoing' <=> (undoing /\ kind # "undo")
      BY <1>10 DEF Settle
    <3>3. (indexJob' <=> (indexJob /\ kind # "index")) /\ (pollLost' <=> pollLost)
      BY <1>10 DEF Settle
    <3>4. tasks[kind] > 0 /\ Ends(kind) /\ UNCHANGED crossed
      BY <1>10 DEF Settle
    <3> QED BY <1>1, <3>1, <3>2, <3>3, <3>4, EndsKeepWaiting
  <2>2. UNCHANGED <<grid, preview>>
    BY <1>10 DEF Settle
  <2>3. SelectionOK'
    BY <1>1, <1>10, <2>2 DEF Settle, clear, selection, grid, SelectionOK
  <2> QED BY <1>3, <1>5, <2>1, <2>2, <2>3 DEF DashboardInv
<1>11. ASSUME NEW kind \in Kinds, RequestFails(kind) PROVE DashboardInv'
  <2>1. WaitingOK'
    <3>1. /\ busy' \in BOOLEAN /\ undoing' \in BOOLEAN /\ indexJob' \in BOOLEAN
          /\ pollLost' \in BOOLEAN
      BY <1>1, <1>11 DEF RequestFails, WaitingOK
    <3>2. /\ busy' <=> (busy /\ kind \notin {"toolbar", "modal"})
          /\ undoing' <=> (undoing /\ kind # "undo")
      BY <1>11 DEF RequestFails
    <3>3. (indexJob' <=> indexJob) /\ (pollLost' <=> (pollLost \/ kind = "index"))
      BY <1>11 DEF RequestFails
    <3>4. tasks[kind] > 0 /\ Ends(kind) /\ UNCHANGED crossed
      BY <1>11 DEF RequestFails
    <3> QED BY <1>1, <3>1, <3>2, <3>3, <3>4, EndsKeepWaiting
  <2>2. UNCHANGED <<grid, selection, preview>>
    BY <1>11 DEF RequestFails
  <2> QED BY <1>3, <1>4, <1>5, <2>1, <2>2 DEF DashboardInv, grid
<1>12. CASE UNCHANGED vars
  BY <1>2, <1>3, <1>4, <1>5, <1>12 DEF vars, grid, DashboardInv
<1> QED BY <1>6, <1>7, <1>8, <1>9, <1>10, <1>11, <1>12 DEF Next

(* The invariant says all there is to say of a state.                      *)
LEMMA DashboardInvSays == DashboardInv => TypeOK /\ SelectionIsLoaded /\ SpinnersAreTrue
<1> SUFFICES ASSUME DashboardInv PROVE TypeOK /\ SelectionIsLoaded /\ SpinnersAreTrue
  OBVIOUS
<1>1. TypeOK
  BY DEF DashboardInv, GridOK, SelectionOK, PreviewOK, WaitingOK, TypeOK
<1>2. SelectionIsLoaded
  BY DEF DashboardInv, GridOK, SelectionOK, SelectionIsLoaded, HeldMatched
<1> QED BY <1>1, <1>2 DEF DashboardInv, WaitingOK

(* Every state has the types of TypeOK.                                    *)
THEOREM DashboardTypeCorrect == Spec => []TypeOK
  BY DashboardInvInit, DashboardInvNext, DashboardInvSays, PTL DEF Spec

(* Whatever lists, filters and ranges come between, and whatever the size  *)
(* of a chunk, only samples of loaded chunks are selected, and where a     *)
(* card can be clicked a range is taken of the filter's own chunks         *)
(* (useSelection.ts:28, PixiGrid.tsx:150).                                 *)
THEOREM SelectionIsOfLoaded == Spec => []SelectionIsLoaded
  BY DashboardInvInit, DashboardInvNext, DashboardInvSays, PTL DEF Spec

(* However many handlers of whatever kinds overlap and fail, a disabled    *)
(* button is waited for, undos never overlap, and tagging jobs do only     *)
(* after the modal started one beside another (App.tsx:117).               *)
THEOREM SpinnersAreWaitedFor == Spec => []SpinnersAreTrue
  BY DashboardInvInit, DashboardInvNext, DashboardInvSays, PTL DEF Spec

-----------------------------------------------------------------------------
(* Export: loops.  A recursive function satisfies its own equation if some *)
(* function does; Loop gives one.                                          *)

(* A set of numbers that is not empty has a least element.                 *)
LEMMA LeastNumber ==
    ASSUME NEW S \in SUBSET Nat, S # {}
    PROVE  \E x \in S : \A y \in S : x <= y
<1>1. PICK x \in S : \A y \in S : <<y, x>> \notin OpToRel(<, Nat)
  BY NatLessThanWellFounded, WFMin
<1>2. \A y \in S : ~(y < x)
  BY <1>1 DEF OpToRel
<1> QED BY <1>2

(* Induction along a loop: what holds before it and is kept by each round. *)
LEMMA Rounds ==
    ASSUME NEW n \in Nat, NEW P, 0 \in P, \A i \in 1 .. n : i - 1 \in P => i \in P
    PROVE  \A i \in 0 .. n : i \in P
<1> DEFINE Wrong == (0 .. n) \ P
<1>1. ASSUME Wrong # {} PROVE FALSE
  <2>1. PICK i \in Wrong : \A j \in Wrong : i <= j
    <3>1. Wrong \in SUBSET Nat
      OBVIOUS
    <3> HIDE DEF Wrong
    <3> QED BY <1>1, <3>1, LeastNumber
  <2>2. i \in 1 .. n /\ i \notin P
    BY <2>1
  <2>3. i - 1 \in 0 .. n /\ ~(i <= i - 1)
    BY <2>2
  <2>4. i - 1 \notin Wrong
    <3> HIDE DEF Wrong
    <3> QED BY <2>1, <2>3
  <2> QED BY <2>2, <2>3, <2>4
<1> QED BY <1>1

(* What a loop over 1 .. n goes through, from its start and by its steps.   *)
RunsFrom(f, n, S, start, step) ==
    /\ f \in [0 .. n -> S]
    /\ f[0] = start
    /\ \A i \in 1 .. n : f[i] = step[i][f[i - 1]]

(* It goes through something.  (The proofs below use it to show that the   *)
(* recursive functions of Export satisfy their own equations.)              *)
LEMMA Loop ==
    ASSUME NEW n \in Nat, NEW S, NEW start \in S, NEW step \in [1 .. n -> [S -> S]]
    PROVE  \E f : RunsFrom(f, n, S, start, step)
<1> DEFINE Runs(f, m) == /\ f \in [0 .. m -> S]
                         /\ f[0] = start
                         /\ \A i \in 1 .. m : f[i] = step[i][f[i - 1]]
           P == {m \in 0 .. n : \E f : Runs(f, m)}
<1>1. 0 \in P
  <2>1. Runs([i \in 0 .. 0 |-> start], 0)
    OBVIOUS
  <2>2. 0 \in 0 .. n
    OBVIOUS
  <2> HIDE DEF Runs
  <2> QED BY <2>1, <2>2
<1>2. ASSUME NEW m \in 1 .. n, m - 1 \in P PROVE m \in P
  <2>1. PICK f : Runs(f, m - 1)
    BY <1>2
  <2> DEFINE g == [i \in 0 .. m |-> IF i <= m - 1 THEN f[i] ELSE step[m][f[m - 1]]]
  <2>2. f[m - 1] \in S /\ step[m][f[m - 1]] \in S
    BY <2>1
  <2>3. g \in [0 .. m -> S]
    <3> SUFFICES ASSUME NEW i \in 0 .. m PROVE g[i] \in S
      OBVIOUS
    <3> QED BY <2>1, <2>2
  <2>4. g[0] = start
    BY <2>1
  <2>5. ASSUME NEW i \in 1 .. m PROVE g[i] = step[i][g[i - 1]]
    <3>1. g[i - 1] = f[i - 1]
      OBVIOUS
    <3>2. CASE i <= m - 1
      BY <2>1, <3>1, <3>2
    <3>3. CASE i = m
      BY <3>1, <3>3
    <3> QED BY <3>2, <3>3
  <2>6. Runs(g, m)
    BY <2>3, <2>4, <2>5
  <2>7. m \in 0 .. n
    OBVIOUS
  <2> HIDE DEF Runs, g
  <2> QED BY <2>6, <2>7
<1>3. n \in P
  <2> HIDE DEF P
  <2>1. \A i \in 0 .. n : i \in P
    BY <1>1, <1>2, Rounds
  <2> QED BY <2>1
<1>4. PICK f : Runs(f, n)
  BY <1>3
<1> QED BY <1>4 DEF RunsFrom

(* The lists that Pushed goes through, one for each position.              *)
Pushes(g, n, T, s, pushed) ==
    /\ n \in Nat /\ n = Len(s)
    /\ g \in [0 .. n -> Seq(T)]
    /\ g[0] = <<>> /\ g[n] = Pushed(s, pushed)
    /\ \A i \in 1 .. n : g[i] = IF i \in pushed THEN Append(g[i - 1], s[i]) ELSE g[i - 1]

LEMMA PushedIsDefined ==
    ASSUME NEW T, NEW s \in Seq(T), NEW pushed
    PROVE  \E g, n : Pushes(g, n, T, s, pushed)
<1>1. PICK n \in Nat : n = Len(s)
  OBVIOUS
<1>2. \A i \in 1 .. n : s[i] \in T
  BY <1>1
<1> DEFINE Step(l, i) == IF i \in pushed THEN Append(l, s[i]) ELSE l
           IsList(list) == list = [i \in 0 .. n |-> IF i = 0 THEN <<>> ELSE Step(list[i - 1], i)]
<1>3. ASSUME NEW l \in Seq(T), NEW i \in 1 .. n PROVE Step(l, i) \in Seq(T)
  BY <1>2
<1>4. \E list : IsList(list)
  <2>1. PICK S : S = Seq(T)
    OBVIOUS
  <2>2. <<>> \in S /\ \A l \in S, i \in 1 .. n : Step(l, i) \in S
    <3> HIDE DEF Step
    <3> QED BY <1>3, <2>1
  <2> HIDE DEF Step
  <2>3. PICK step \in [1 .. n -> [S -> S]] :
            \A l \in S, i \in 1 .. n : step[i][l] = Step(l, i)
    <3> DEFINE step == [i \in 1 .. n |-> [l \in S |-> Step(l, i)]]
    <3>1. step \in [1 .. n -> [S -> S]] /\ \A l \in S, i \in 1 .. n : step[i][l] = Step(l, i)
      BY <2>2
    <3> HIDE DEF step
    <3> QED BY <3>1
  <2>4. PICK f : RunsFrom(f, n, S, <<>>, step)
    BY <2>2, Loop, Zenon
  <2>5. \A i \in 1 .. n : i - 1 \in 0 .. n /\ f[i - 1] \in S
    BY <2>4 DEF RunsFrom
  <2>6. \A i \in 1 .. n : f[i] = Step(f[i - 1], i)
    BY <2>3, <2>4, <2>5 DEF RunsFrom
  <2>7. \A i \in 0 .. n : i = 0 \/ i \in 1 .. n
    OBVIOUS
  <2>8. \A i \in 0 .. n : f[i] = IF i = 0 THEN <<>> ELSE Step(f[i - 1], i)
    BY <2>4, <2>6, <2>7, Zenon DEF RunsFrom
  <2>9. IsList(f)
    BY <2>4, <2>8 DEF RunsFrom
  <2> QED BY <2>9
<1>5. PICK g : g = CHOOSE list : IsList(list)
  OBVIOUS
<1>6. Pushed(s, pushed) = g[n]
  BY <1>1, <1>5, Zenon DEF Pushed
<1>7. IsList(g)
  <2> HIDE DEF IsList
  <2> QED BY <1>4, <1>5, Zenon
<1> HIDE DEF Step
<1>8. g[0] = <<>> /\ \A i \in 1 .. n : g[i] = Step(g[i - 1], i)
  <2>1. \A i \in 0 .. n : g[i] = IF i = 0 THEN <<>> ELSE Step(g[i - 1], i)
    BY <1>7, Zenon
  <2>2. 0 \in 0 .. n /\ \A i \in 1 .. n : i \in 0 .. n /\ i # 0
    OBVIOUS
  <2> QED BY <2>1, <2>2, Zenon
<1>9. \A i \in 0 .. n : g[i] \in Seq(T)
  <2> DEFINE P == {i \in 0 .. n : g[i] \in Seq(T)}
  <2>1. 0 \in P
    <3>1. 0 \in 0 .. n /\ <<>> \in Seq(T)
      OBVIOUS
    <3> QED BY <1>8, <3>1, Zenon
  <2>2. ASSUME NEW i \in 1 .. n, i - 1 \in P PROVE i \in P
    BY <1>3, <1>8, <2>2
  <2>3. \A i \in 0 .. n : i \in P
    <3> HIDE DEF P
    <3> QED BY <2>1, <2>2, Rounds
  <2> QED BY <2>3
<1>10. g \in [0 .. n -> Seq(T)]
  BY <1>7, <1>9
<1>11. Pushes(g, n, T, s, pushed)
  BY <1>1, <1>6, <1>8, <1>10 DEF Step, Pushes
<1> QED BY <1>11

(* What is pushed is of the list, at the positions pushed.                 *)
LEMMA PushedIsOfList ==
    ASSUME NEW T, NEW s \in Seq(T), NEW pushed
    PROVE  /\ Pushed(s, pushed) \in Seq(T)
           /\ \A k \in 1 .. Len(Pushed(s, pushed)) :
                  \E j \in (1 .. Len(s)) \cap pushed : Pushed(s, pushed)[k] = s[j]
<1>1. PICK g, n : Pushes(g, n, T, s, pushed)
  BY PushedIsDefined, Zenon
<1>2. n \in Nat /\ n = Len(s)
  BY <1>1 DEF Pushes
<1>3. /\ g \in [0 .. n -> Seq(T)] /\ g[0] = <<>> /\ g[n] = Pushed(s, pushed)
      /\ \A i \in 1 .. n : g[i] = IF i \in pushed THEN Append(g[i - 1], s[i]) ELSE g[i - 1]
  BY <1>1 DEF Pushes
<1> DEFINE OfList(l) == \A k \in 1 .. Len(l) : \E j \in (1 .. n) \cap pushed : l[k] = s[j]
           P == {i \in 0 .. n : OfList(g[i])}
<1>4. 0 \in P
  <2>1. OfList(<<>>)
    OBVIOUS
  <2>2. 0 \in 0 .. n
    BY <1>2
  <2> HIDE DEF OfList
  <2> QED BY <1>3, <2>1, <2>2
<1>5. ASSUME NEW i \in 1 .. n, i - 1 \in P PROVE i \in P
  <2>1. OfList(g[i - 1])
    <3> HIDE DEF OfList
    <3> QED BY <1>5
  <2>2. i \in 0 .. n /\ g[i - 1] \in Seq(T) /\ s[i] \in T
    <3>1. i - 1 \in 0 .. n /\ i \in 0 .. n
      BY <1>2
    <3>2. s[i] \in T
      BY <1>2
    <3> QED BY <1>3, <3>1, <3>2
  <2>3. CASE i \notin pushed
    <3> HIDE DEF OfList
    <3> QED BY <1>3, <2>1, <2>2, <2>3
  <2>4. CASE i \in pushed
    <3>1. PICK l : l = g[i - 1]
      OBVIOUS
    <3>2. l \in Seq(T) /\ OfList(l)
      <4> HIDE DEF OfList
      <4> QED BY <2>1, <2>2, <3>1
    <3>3. g[i] = Append(l, s[i])
      <4> HIDE DEF OfList
      <4> QED BY <1>3, <2>4, <3>1
    <3>4. OfList(Append(l, s[i]))
      <4> SUFFICES ASSUME NEW k \in 1 .. Len(Append(l, s[i]))
                   PROVE  \E j \in (1 .. n) \cap pushed : Append(l, s[i])[k] = s[j]
        OBVIOUS
      <4>1. CASE k \in 1 .. Len(l)
        <5>1. Append(l, s[i])[k] = l[k]
          BY <3>2, <4>1
        <5> QED BY <3>2, <4>1, <5>1
      <4>2. CASE k = Len(l) + 1
        <5>1. Append(l, s[i])[k] = s[i]
          BY <3>2, <4>2
        <5> QED BY <2>4, <5>1
      <4>3. k \in 1 .. Len(l) \/ k = Len(l) + 1
        BY <3>2
      <4> QED BY <4>1, <4>2, <4>3
    <3> HIDE DEF OfList
    <3> QED BY <2>2, <3>3, <3>4
  <2> QED BY <2>3, <2>4
<1>6. OfList(g[n])
  <2> HIDE DEF P
  <2>1. \A i \in 0 .. n : i \in P
    BY <1>2, <1>4, <1>5, Rounds
  <2> USE DEF P
  <2> HIDE DEF OfList
  <2> QED BY <1>2, <2>1
<1>7. g[n] \in Seq(T)
  BY <1>2, <1>3
<1> QED BY <1>2, <1>3, <1>6, <1>7

(* The lists that FlattenSeq goes through.                                 *)
Flattens(g, n, T, seqs) ==
    /\ n \in Nat /\ n = Len(seqs)
    /\ g \in [0 .. n -> Seq(T)]
    /\ g[0] = <<>> /\ g[n] = FlattenSeq(seqs)
    /\ \A i \in 1 .. n : g[i] = g[i - 1] \o seqs[i]

LEMMA FlattenIsDefined ==
    ASSUME NEW T, NEW seqs \in Seq(Seq(T))
    PROVE  \E g, n : Flattens(g, n, T, seqs)
<1>1. PICK n \in Nat : n = Len(seqs)
  OBVIOUS
<1>2. PICK S : S = Seq(T)
  OBVIOUS
<1>3. <<>> \in S /\ \A i \in 1 .. n : seqs[i] \in S
  BY <1>1, <1>2
<1>4. \A l, m \in S : l \o m \in S
  BY <1>2
<1>5. \A l \in S : <<>> \o l = l
  BY <1>2, ConcatEmptySeq
<1> DEFINE IsFlat(flat) ==
               flat = [i \in 1 .. n |-> IF i = 1 THEN seqs[i] ELSE flat[i - 1] \o seqs[i]]
<1>6. \E flat : IsFlat(flat)
  <2>1. PICK step \in [1 .. n -> [S -> S]] :
            \A l \in S, i \in 1 .. n : step[i][l] = l \o seqs[i]
    <3> DEFINE step == [i \in 1 .. n |-> [l \in S |-> l \o seqs[i]]]
    <3>1. step \in [1 .. n -> [S -> S]] /\ \A l \in S, i \in 1 .. n : step[i][l] = l \o seqs[i]
      BY <1>3, <1>4
    <3> HIDE DEF step
    <3> QED BY <3>1
  <2>2. PICK f : RunsFrom(f, n, S, <<>>, step)
    BY <1>3, Loop, Zenon
  <2>3. \A i \in 1 .. n : i - 1 \in 0 .. n /\ f[i - 1] \in S
    BY <2>2 DEF RunsFrom
  <2>4. \A i \in 1 .. n : f[i] = f[i - 1] \o seqs[i]
    BY <2>1, <2>2, <2>3 DEF RunsFrom
  <2>5. ASSUME NEW i \in 1 .. n, i = 1 PROVE f[i] = seqs[i]
    <3>1. f[i] = <<>> \o seqs[i]
      <4>1. i - 1 = 0
        BY <2>5
      <4> QED BY <2>2, <2>4, <4>1 DEF RunsFrom
    <3> QED BY <1>3, <1>5, <3>1
  <2> DEFINE flat == [i \in 1 .. n |-> f[i]]
  <2>6. ASSUME NEW i \in 1 .. n
        PROVE  flat[i] = IF i = 1 THEN seqs[i] ELSE flat[i - 1] \o seqs[i]
    <3>1. CASE i = 1
      BY <2>5, <3>1
    <3>2. CASE i # 1
      <4>1. i - 1 \in 1 .. n
        BY <3>2
      <4>2. flat[i] = f[i] /\ flat[i - 1] = f[i - 1]
        BY <4>1
      <4> QED BY <2>4, <3>2, <4>2
    <3> QED BY <3>1, <3>2
  <2>7. flat = [i \in 1 .. n |-> IF i = 1 THEN seqs[i] ELSE flat[i - 1] \o seqs[i]]
    BY <2>6
  <2> HIDE DEF flat
  <2> QED BY <2>7
<1>7. PICK h : h = CHOOSE flat : IsFlat(flat)
  OBVIOUS
<1>8. IsFlat(h)
  <2> HIDE DEF IsFlat
  <2> QED BY <1>6, <1>7, Zenon
<1>9. FlattenSeq(seqs) = IF Len(seqs) = 0 THEN seqs ELSE h[Len(seqs)]
  <2>1. h = CHOOSE flat :
                flat = [i \in 1 .. Len(seqs) |-> IF i = 1 THEN seqs[i] ELSE flat[i - 1] \o seqs[i]]
    BY <1>1, <1>7, Zenon
  <2>2. FlattenSeq(seqs) =
            IF Len(seqs) = 0 THEN seqs
            ELSE (CHOOSE flat :
                      flat = [i \in 1 .. Len(seqs) |->
                                 IF i = 1 THEN seqs[i] ELSE flat[i - 1] \o seqs[i]])[Len(seqs)]
    BY Zenon DEF FlattenSeq
  <2> QED BY <2>1, <2>2, Zenon
<1> DEFINE g == [i \in 0 .. n |-> IF i = 0 THEN <<>> ELSE h[i]]
<1>10. ASSUME NEW i \in 1 .. n PROVE h[i] = IF i = 1 THEN seqs[i] ELSE h[i - 1] \o seqs[i]
  BY <1>8
<1>11. g[0] = <<>> /\ \A i \in 1 .. n : g[i] = h[i]
  OBVIOUS
<1>12. ASSUME NEW i \in 1 .. n PROVE g[i] = g[i - 1] \o seqs[i]
  <2>1. CASE i = 1
    <3>1. g[i - 1] = <<>> /\ g[i] = seqs[i]
      BY <1>10, <1>11, <2>1
    <3> QED BY <1>3, <1>5, <3>1
  <2>2. CASE i # 1
    <3>1. i - 1 \in 1 .. n
      BY <2>2
    <3>2. g[i - 1] = h[i - 1] /\ g[i] = h[i]
      BY <1>11, <3>1
    <3> QED BY <1>10, <2>2, <3>2
  <2> QED BY <2>1, <2>2
<1> HIDE DEF g
<1>13. \A i \in 0 .. n : g[i] \in S
  <2> DEFINE P == {i \in 0 .. n : g[i] \in S}
  <2>1. 0 \in P
    <3>1. 0 \in 0 .. n
      OBVIOUS
    <3> QED BY <1>3, <1>11, <3>1, Zenon
  <2>2. ASSUME NEW i \in 1 .. n, i - 1 \in P PROVE i \in P
    <3>1. i \in 0 .. n /\ g[i - 1] \in S /\ seqs[i] \in S
      BY <1>3, <2>2
    <3> QED BY <1>4, <1>12, <3>1, Zenon
  <2>3. \A i \in 0 .. n : i \in P
    <3> HIDE DEF P
    <3> QED BY <2>1, <2>2, Rounds
  <2> QED BY <2>3
<1>14. g \in [0 .. n -> S]
  <2>1. g = [i \in 0 .. n |-> g[i]]
    BY Zenon DEF g
  <2> QED BY <1>13, <2>1
<1>15. g[n] = FlattenSeq(seqs)
  <2>1. CASE n = 0
    <3>1. seqs = <<>>
      <4>1. seqs \in Seq(S) /\ Len(seqs) = 0
        BY <1>1, <1>2, <2>1
      <4> QED BY <4>1, EmptySeq
    <3> QED BY <1>1, <1>9, <1>11, <2>1, <3>1
  <2>2. CASE n # 0
    <3>1. n \in 1 .. n
      BY <2>2
    <3> QED BY <1>1, <1>9, <1>11, <2>2, <3>1
  <2> QED BY <2>1, <2>2
<1>16. Flattens(g, n, T, seqs)
  BY <1>1, <1>2, <1>11, <1>12, <1>14, <1>15 DEF Flattens
<1> QED BY <1>16

-----------------------------------------------------------------------------
(* Export: Label Studio and Hugging Face, box by box.                      *)

(* What the loops go over: a label value, whose it is and whether it is a  *)
(* box.                                                                    *)
Labelled == [image : Samples, name : STRING, boxed : BOOLEAN]

LEMMA IsBoxedOfConcat ==
    ASSUME NEW u \in Seq(Labelled), NEW v \in Seq(Labelled)
    PROVE  /\ \A i \in 1 .. Len(u) : i \in IsBoxed(u \o v) <=> i \in IsBoxed(u)
           /\ \A i \in 1 .. Len(v) : Len(u) + i \in IsBoxed(u \o v) <=> i \in IsBoxed(v)
<1>1. PICK w : w = u \o v
  OBVIOUS
<1>2. /\ w \in Seq(Labelled) /\ Len(w) = Len(u) + Len(v)
      /\ \A i \in 1 .. Len(w) : w[i] = IF i <= Len(u) THEN u[i] ELSE v[i - Len(u)]
  BY <1>1, ConcatProperties
<1>3. PICK k \in Nat, m \in Nat : k = Len(u) /\ m = Len(v)
  OBVIOUS
<1>4. DOMAIN w = 1 .. k + m /\ DOMAIN u = 1 .. k /\ DOMAIN v = 1 .. m
  BY <1>2, <1>3
<1>5. \A i \in 1 .. k + m : w[i] = IF i <= k THEN u[i] ELSE v[i - k]
  BY <1>2, <1>3
<1>6. ASSUME NEW i \in 1 .. k PROVE i \in IsBoxed(w) <=> i \in IsBoxed(u)
  <2>1. i \in 1 .. k + m /\ i <= k
    BY <1>3
  <2> QED BY <1>4, <1>5, <2>1 DEF IsBoxed
<1>7. ASSUME NEW i \in 1 .. m PROVE k + i \in IsBoxed(w) <=> i \in IsBoxed(v)
  <2>1. k + i \in 1 .. k + m /\ ~(k + i <= k) /\ (k + i) - k = i
    BY <1>3
  <2>2. w[k + i] = v[i]
    BY <1>5, <2>1
  <2> QED BY <1>4, <2>1, <2>2 DEF IsBoxed
<1> QED BY <1>1, <1>3, <1>6, <1>7

(* The boxes of two lists together are those of each.                      *)
LEMMA BoxedOfConcat ==
    ASSUME NEW u \in Seq(Labelled), NEW v \in Seq(Labelled)
    PROVE  Boxed(u \o v) = Boxed(u) \o Boxed(v)
<1>1. PICK T, w : T = Labelled /\ w = u \o v
  OBVIOUS
<1>2. PICK p, q, r : p = IsBoxed(u) /\ q = IsBoxed(v) /\ r = IsBoxed(w)
  OBVIOUS
<1>3. /\ \A i \in 1 .. Len(u) : i \in r <=> i \in p
      /\ \A i \in 1 .. Len(v) : Len(u) + i \in r <=> i \in q
  BY <1>1, <1>2, IsBoxedOfConcat
<1>4. u \in Seq(T) /\ v \in Seq(T) /\ w \in Seq(T) /\ Len(w) = Len(u) + Len(v)
      /\ \A i \in 1 .. Len(w) : w[i] = IF i <= Len(u) THEN u[i] ELSE v[i - Len(u)]
  BY <1>1, ConcatProperties
<1>5. PICK f, k : Pushes(f, k, T, u, p)
  BY <1>4, PushedIsDefined, Zenon
<1>6. PICK g, m : Pushes(g, m, T, v, q)
  BY <1>4, PushedIsDefined, Zenon
<1>7. PICK h, n : Pushes(h, n, T, w, r)
  BY <1>4, PushedIsDefined, Zenon
<1>8. /\ k \in Nat /\ m \in Nat /\ n \in Nat /\ n = k + m
      /\ k = Len(u) /\ m = Len(v)
  BY <1>4, <1>5, <1>6, <1>7 DEF Pushes
<1>9. /\ f[0] = <<>> /\ g[0] = <<>> /\ h[0] = <<>>
      /\ f[k] = Pushed(u, p) /\ g[m] = Pushed(v, q) /\ h[n] = Pushed(w, r)
      /\ f \in [0 .. k -> Seq(T)] /\ g \in [0 .. m -> Seq(T)]
  BY <1>5, <1>6, <1>7 DEF Pushes
<1>10. \A i \in 1 .. k : f[i] = IF i \in p THEN Append(f[i - 1], u[i]) ELSE f[i - 1]
  BY <1>5 DEF Pushes
<1>11. \A i \in 1 .. m : g[i] = IF i \in q THEN Append(g[i - 1], v[i]) ELSE g[i - 1]
  BY <1>6 DEF Pushes
<1>12. \A i \in 1 .. n : h[i] = IF i \in r THEN Append(h[i - 1], w[i]) ELSE h[i - 1]
  BY <1>7 DEF Pushes
<1>13. \A i \in 1 .. k : w[i] = u[i] /\ (i \in r <=> i \in p)
  BY <1>3, <1>4, <1>8
<1>14. \A i \in 1 .. m : w[k + i] = v[i] /\ (k + i \in r <=> i \in q) /\ v[i] \in T
  <2> SUFFICES ASSUME NEW i \in 1 .. m
               PROVE  w[k + i] = v[i] /\ (k + i \in r <=> i \in q) /\ v[i] \in T
    OBVIOUS
  <2>1. k + i \in 1 .. Len(w) /\ ~(k + i <= k) /\ (k + i) - k = i
    BY <1>4, <1>8
  <2>2. w[k + i] = v[i]
    BY <1>4, <1>8, <2>1
  <2>3. v[i] \in T
    BY <1>4, <1>8, ElementOfSeq
  <2> QED BY <1>3, <1>8, <2>2, <2>3
<1>15. \A i \in 0 .. k : h[i] = f[i]
  <2> DEFINE P == {i \in 0 .. k : h[i] = f[i]}
  <2>1. 0 \in P
    <3>1. 0 \in 0 .. k
      BY <1>8
    <3> QED BY <1>9, <3>1
  <2>2. ASSUME NEW i \in 1 .. k, i - 1 \in P PROVE i \in P
    <3>1. i \in 0 .. k /\ i \in 1 .. n /\ h[i - 1] = f[i - 1]
      BY <1>8, <2>2
    <3> QED BY <1>10, <1>12, <1>13, <3>1
  <2>3. \A i \in 0 .. k : i \in P
    <3> HIDE DEF P
    <3> QED BY <1>8, <2>1, <2>2, Rounds
  <2> QED BY <2>3
<1>16. \A a, b \in Seq(T), x \in T : Append(a \o b, x) = a \o Append(b, x)
  <2> SUFFICES ASSUME NEW a \in Seq(T), NEW b \in Seq(T), NEW x \in T
               PROVE  Append(a \o b, x) = a \o Append(b, x)
    OBVIOUS
  <2>1. <<x>> \in Seq(T) /\ a \o b \in Seq(T)
    BY ConcatProperties
  <2>2. Append(a \o b, x) = (a \o b) \o <<x>> /\ Append(b, x) = b \o <<x>>
    BY <2>1, AppendIsConcat
  <2> QED BY <2>1, <2>2, ConcatAssociative
<1>17. \A i \in 0 .. m : h[k + i] = f[k] \o g[i]
  <2> DEFINE P == {i \in 0 .. m : h[k + i] = f[k] \o g[i]}
  <2>1. f[k] \in Seq(T)
    BY <1>8, <1>9
  <2>2. 0 \in P
    <3>1. 0 \in 0 .. m /\ k + 0 = k /\ k \in 0 .. k
      BY <1>8
    <3>2. f[k] \o <<>> = f[k]
      BY <2>1, ConcatEmptySeq
    <3> QED BY <1>9, <1>15, <3>1, <3>2
  <2>3. ASSUME NEW i \in 1 .. m, i - 1 \in P PROVE i \in P
    <3>1. i \in 0 .. m /\ k + i \in 1 .. n /\ (k + i) - 1 = k + (i - 1) /\ i - 1 \in 0 .. m
      BY <1>8
    <3>2. h[k + (i - 1)] = f[k] \o g[i - 1]
      BY <2>3, <3>1
    <3>3. h[k + i] = IF i \in q THEN Append(f[k] \o g[i - 1], v[i]) ELSE f[k] \o g[i - 1]
      <4>1. h[k + i] = IF k + i \in r THEN Append(h[(k + i) - 1], w[k + i]) ELSE h[(k + i) - 1]
        BY <1>12, <3>1, Zenon
      <4>2. h[(k + i) - 1] = f[k] \o g[i - 1]
        BY <3>1, <3>2, Zenon
      <4> QED BY <1>14, <4>1, <4>2, Zenon
    <3>4. g[i - 1] \in Seq(T) /\ v[i] \in T
      BY <1>9, <1>14, <3>1
    <3>5. Append(f[k] \o g[i - 1], v[i]) = f[k] \o Append(g[i - 1], v[i])
      BY <1>16, <2>1, <3>4, Zenon
    <3>6. h[k + i] = f[k] \o g[i]
      BY <1>11, <3>3, <3>5
    <3> QED BY <3>1, <3>6
  <2>4. \A i \in 0 .. m : i \in P
    <3> HIDE DEF P
    <3> QED BY <1>8, <2>2, <2>3, Rounds
  <2> QED BY <2>4
<1>18. h[n] = f[k] \o g[m]
  <2>1. m \in 0 .. m /\ k + m = n
    BY <1>8
  <2> QED BY <1>17, <2>1, Zenon
<1> QED BY <1>2, <1>1, <1>9, <1>18 DEF Boxed

(* What a file says of boxes: whose they are and what they are of.         *)
Named(boxes) == [k \in DOMAIN boxes |-> <<boxes[k].image, boxes[k].name>>]

LEMMA ValuesOfIsLabelled ==
    ASSUME NEW s \in Samples
    PROVE  /\ ValuesOf(s) \in Seq(Labelled)
           /\ \A j \in 1 .. Len(ValuesOf(s)) : ValuesOf(s)[j].image = s
<1>1. PICK l : l = LabelsOf[s]
  OBVIOUS
<1>2. l \in Seq(LabelValue)
  BY <1>1, LabelsAssumption
<1>3. PICK n \in Nat : n = Len(l) /\ DOMAIN l = 1 .. n
  BY <1>2
<1>4. ASSUME NEW j \in 1 .. n
      PROVE  name(l[j]) \in STRING /\ l[j].boxed \in BOOLEAN
  <2>1. l[j] \in LabelValue
    BY <1>2, <1>3, ElementOfSeq
  <2> QED BY <2>1 DEF LabelValue, name
<1>5. ValuesOf(s) = [j \in 1 .. n |-> [image |-> s, name |-> name(l[j]), boxed |-> l[j].boxed]]
  BY <1>1, <1>3, Zenon DEF ValuesOf
<1>6. \A j \in 1 .. n : [image |-> s, name |-> name(l[j]), boxed |-> l[j].boxed] \in Labelled
  BY <1>4 DEF Labelled
<1> QED BY <1>5, <1>6

LEMMA BoxedIsLabelled ==
    ASSUME NEW u \in Seq(Labelled)
    PROVE  /\ Boxed(u) \in Seq(Labelled)
           /\ \A k \in 1 .. Len(Boxed(u)) : \E j \in 1 .. Len(u) : Boxed(u)[k] = u[j]
  BY PushedIsOfList DEF Boxed

LEMMA NamedOfConcat ==
    ASSUME NEW a \in Seq(Labelled), NEW b \in Seq(Labelled)
    PROVE  /\ Named(a) \in Seq(Samples \X STRING)
           /\ Named(a \o b) = Named(a) \o Named(b)
<1>1. ASSUME NEW c \in Seq(Labelled)
      PROVE  /\ Named(c) \in Seq(Samples \X STRING)
             /\ Len(Named(c)) = Len(c)
             /\ \A k \in 1 .. Len(c) : Named(c)[k] = <<c[k].image, c[k].name>>
  <2>1. PICK n \in Nat : n = Len(c) /\ DOMAIN c = 1 .. n
    OBVIOUS
  <2>2. Named(c) = [k \in 1 .. n |-> <<c[k].image, c[k].name>>]
    BY <2>1 DEF Named
  <2>3. \A k \in 1 .. n : <<c[k].image, c[k].name>> \in Samples \X STRING
    <3>1. \A k \in 1 .. n : c[k] \in Labelled
      BY <2>1
    <3> QED BY <3>1 DEF Labelled
  <2> QED BY <2>1, <2>2, <2>3
<1>2. PICK w : w = a \o b
  OBVIOUS
<1>3. /\ w \in Seq(Labelled) /\ Len(w) = Len(a) + Len(b)
      /\ \A i \in 1 .. Len(w) : w[i] = IF i <= Len(a) THEN a[i] ELSE b[i - Len(a)]
  BY <1>2, ConcatProperties
<1>4. PICK p, q, r : p = Named(a) /\ q = Named(b) /\ r = Named(w)
  OBVIOUS
<1>5. /\ p \in Seq(Samples \X STRING) /\ Len(p) = Len(a)
      /\ \A k \in 1 .. Len(a) : p[k] = <<a[k].image, a[k].name>>
  BY <1>1, <1>4
<1>6. /\ q \in Seq(Samples \X STRING) /\ Len(q) = Len(b)
      /\ \A k \in 1 .. Len(b) : q[k] = <<b[k].image, b[k].name>>
  BY <1>1, <1>4
<1>7. /\ r \in Seq(Samples \X STRING) /\ Len(r) = Len(w)
      /\ \A k \in 1 .. Len(w) : r[k] = <<w[k].image, w[k].name>>
  BY <1>1, <1>3, <1>4
<1>8. /\ p \o q \in Seq(Samples \X STRING) /\ Len(p \o q) = Len(p) + Len(q)
      /\ \A i \in 1 .. Len(p) + Len(q) : (p \o q)[i] = IF i <= Len(p) THEN p[i] ELSE q[i - Len(p)]
  <2>1. PICK S : S = Samples \X STRING
    OBVIOUS
  <2>2. p \in Seq(S) /\ q \in Seq(S)
    BY <1>5, <1>6, <2>1
  <2> QED BY <2>1, <2>2, ConcatProperties
<1>9. Len(r) = Len(p \o q)
  BY <1>3, <1>5, <1>6, <1>7, <1>8
<1>10. ASSUME NEW i \in 1 .. Len(r) PROVE r[i] = (p \o q)[i]
  <2>1. i \in 1 .. Len(w) /\ i \in 1 .. Len(p) + Len(q)
    BY <1>3, <1>5, <1>6, <1>7
  <2>2. CASE i <= Len(a)
    <3>1. i \in 1 .. Len(a) /\ i <= Len(p)
      BY <1>5, <2>1, <2>2
    <3>2. w[i] = a[i] /\ (p \o q)[i] = p[i]
      BY <1>3, <1>8, <2>1, <2>2, <3>1
    <3> QED BY <1>5, <1>7, <2>1, <3>1, <3>2
  <2>3. CASE ~(i <= Len(a))
    <3>1. i - Len(a) \in 1 .. Len(b) /\ ~(i <= Len(p)) /\ Len(p) = Len(a)
      BY <1>3, <1>5, <2>1, <2>3
    <3>2. w[i] = b[i - Len(a)] /\ (p \o q)[i] = q[i - Len(a)]
      BY <1>3, <1>8, <2>1, <2>3, <3>1
    <3> QED BY <1>6, <1>7, <2>1, <3>1, <3>2
  <2> QED BY <2>2, <2>3
<1>11. r = p \o q
  BY <1>7, <1>8, <1>9, <1>10, SeqEqual
<1> QED BY <1>2, <1>4, <1>5, <1>11

LEMMA BoxesOfSample ==
    ASSUME NEW s \in Samples
    PROVE  [j \in DOMAIN BoxNames(s) |-> <<s, BoxNames(s)[j]>>] = Named(Boxed(ValuesOf(s)))
<1>1. PICK vs, boxes : vs = ValuesOf(s) /\ boxes = Boxed(vs)
  OBVIOUS
<1>2. vs \in Seq(Labelled) /\ \A j \in 1 .. Len(vs) : vs[j].image = s
  BY <1>1, ValuesOfIsLabelled
<1>3. boxes \in Seq(Labelled) /\ \A k \in 1 .. Len(boxes) : \E j \in 1 .. Len(vs) : boxes[k] = vs[j]
  BY <1>1, <1>2, BoxedIsLabelled
<1>4. PICK n \in Nat : n = Len(boxes) /\ DOMAIN boxes = 1 .. n
  BY <1>3
<1>5. \A k \in 1 .. n : boxes[k].image = s
  BY <1>2, <1>3, <1>4
<1>6. BoxNames(s) = [k \in 1 .. n |-> boxes[k].name]
  BY <1>1, <1>4, Zenon DEF BoxNames
<1>7. [j \in DOMAIN BoxNames(s) |-> <<s, BoxNames(s)[j]>>] = [k \in 1 .. n |-> <<s, boxes[k].name>>]
  BY <1>6
<1>8. Named(boxes) = [k \in 1 .. n |-> <<s, boxes[k].name>>]
  BY <1>4, <1>5 DEF Named
<1> QED BY <1>1, <1>7, <1>8

(* The boxes of a list of samples, sample by sample.                       *)
BoxesOf(targets) == [i \in DOMAIN targets |-> Named(Boxed(ValuesOf(targets[i])))]

LEMMA FilesNameBoxes ==
    ASSUME NEW targets \in Seq(Samples)
    PROVE  /\ BoxesOfTasks(LabelStudioTasks(targets)) = FlattenSeq(BoxesOf(targets))
           /\ BoxesOfRecords(HuggingFaceRecords(targets)) = FlattenSeq(BoxesOf(targets))
<1>1. PICK n \in Nat : n = Len(targets) /\ DOMAIN targets = 1 .. n
  OBVIOUS
<1>2. \A i \in 1 .. n : targets[i] \in Samples
  BY <1>1
<1>3. BoxesOf(targets) =
          [i \in 1 .. n |-> [j \in DOMAIN BoxNames(targets[i]) |-> <<targets[i], BoxNames(targets[i])[j]>>]]
  <2>1. \A i \in 1 .. n : Named(Boxed(ValuesOf(targets[i]))) =
            [j \in DOMAIN BoxNames(targets[i]) |-> <<targets[i], BoxNames(targets[i])[j]>>]
    BY <1>2, BoxesOfSample
  <2>2. BoxesOf(targets) = [i \in 1 .. n |-> Named(Boxed(ValuesOf(targets[i])))]
    BY <1>1, Zenon DEF BoxesOf
  <2> QED BY <2>1, <2>2
<1>4. ASSUME NEW lists, lists = LabelStudioTasks(targets)
      PROVE  BoxesOfTasks(lists) = FlattenSeq(BoxesOf(targets))
  <2>1. lists = [i \in 1 .. n |-> [id |-> targets[i], rectanglelabels |-> BoxNames(targets[i])]]
    BY <1>1, <1>4, Zenon DEF LabelStudioTasks
  <2>2. DOMAIN lists = 1 .. n
    BY <2>1
  <2>3. \A i \in 1 .. n : lists[i].id = targets[i] /\ lists[i].rectanglelabels = BoxNames(targets[i])
    BY <2>1
  <2>4. [i \in DOMAIN lists |->
            [j \in DOMAIN lists[i].rectanglelabels |-> <<lists[i].id, lists[i].rectanglelabels[j]>>]]
        = BoxesOf(targets)
    BY <1>3, <2>2, <2>3
  <2> QED BY <2>4 DEF BoxesOfTasks
<1>5. ASSUME NEW records, records = HuggingFaceRecords(targets)
      PROVE  BoxesOfRecords(records) = FlattenSeq(BoxesOf(targets))
  <2>1. records = [i \in 1 .. n |-> [image |-> targets[i], category |-> BoxNames(targets[i])]]
    BY <1>1, <1>5, Zenon DEF HuggingFaceRecords
  <2>2. DOMAIN records = 1 .. n
    BY <2>1
  <2>3. \A i \in 1 .. n : records[i].image = targets[i] /\ records[i].category = BoxNames(targets[i])
    BY <2>1
  <2>4. [i \in DOMAIN records |->
            [j \in DOMAIN records[i].category |-> <<records[i].image, records[i].category[j]>>]]
        = BoxesOf(targets)
    BY <1>3, <2>2, <2>3
  <2> QED BY <2>4 DEF BoxesOfRecords
<1> QED BY <1>4, <1>5

(* Boxes in the order of the loop over all values are those sample by      *)
(* sample.                                                                 *)
LEMMA BoxesOfValues ==
    ASSUME NEW targets \in Seq(Samples)
    PROVE  /\ Values(targets) \in Seq(Labelled)
           /\ FlattenSeq(BoxesOf(targets)) = Named(Boxed(Values(targets)))
<1>1. PICK n \in Nat : n = Len(targets) /\ DOMAIN targets = 1 .. n
  OBVIOUS
<1>2. PICK vs, bs : /\ vs = [i \in DOMAIN targets |-> ValuesOf(targets[i])]
                    /\ bs = BoxesOf(targets)
  OBVIOUS
<1>3. /\ vs \in Seq(Seq(Labelled)) /\ Len(vs) = n
      /\ \A i \in 1 .. n : vs[i] \in Seq(Labelled)
  <2>1. vs = [i \in 1 .. n |-> ValuesOf(targets[i])]
    BY <1>1, <1>2
  <2>2. \A i \in 1 .. n : ValuesOf(targets[i]) \in Seq(Labelled)
    BY <1>1, ValuesOfIsLabelled
  <2>3. PICK S : S = Seq(Labelled)
    OBVIOUS
  <2>4. vs \in Seq(S) /\ Len(vs) = n /\ \A i \in 1 .. n : vs[i] \in S
    BY <2>1, <2>2, <2>3
  <2> QED BY <2>3, <2>4
<1>4. \A i \in 1 .. n : bs[i] = Named(Boxed(vs[i]))
  <2>1. bs = [i \in 1 .. n |-> Named(Boxed(ValuesOf(targets[i])))]
    BY <1>1, <1>2, Zenon DEF BoxesOf
  <2>2. \A i \in 1 .. n : vs[i] = ValuesOf(targets[i])
    BY <1>1, <1>2
  <2> QED BY <2>1, <2>2
<1>5. bs \in Seq(Seq(Samples \X STRING)) /\ Len(bs) = n
  <2>1. PICK S : S = Seq(Samples \X STRING)
    OBVIOUS
  <2>2. \A i \in 1 .. n : bs[i] \in S
    BY <1>3, <1>4, <2>1, BoxedIsLabelled, NamedOfConcat
  <2>3. bs = [i \in 1 .. n |-> bs[i]]
    BY <1>1, <1>2, Zenon DEF BoxesOf
  <2>4. bs \in Seq(S) /\ Len(bs) = n
    BY <2>2, <2>3
  <2> QED BY <2>1, <2>4
<1>6. PICK f, k : Flattens(f, k, Labelled, vs)
  BY <1>3, FlattenIsDefined, Zenon
<1>7. PICK g, m : Flattens(g, m, Samples \X STRING, bs)
  BY <1>5, FlattenIsDefined, Zenon
<1>8. /\ k = n /\ m = n
      /\ f[0] = <<>> /\ g[0] = <<>> /\ f[n] = FlattenSeq(vs) /\ g[n] = FlattenSeq(bs)
      /\ \A i \in 1 .. n : f[i] = f[i - 1] \o vs[i] /\ g[i] = g[i - 1] \o bs[i]
  BY <1>3, <1>5, <1>6, <1>7 DEF Flattens
<1>9. \A i \in 0 .. n : f[i] \in Seq(Labelled)
  BY <1>6, <1>8 DEF Flattens
<1>10. Named(Boxed(<<>>)) = <<>>
  <2>1. PICK e : e = Boxed(<<>>)
    OBVIOUS
  <2>2. e \in Seq(Labelled) /\ \A q \in 1 .. Len(e) : \E j \in 1 .. Len(<<>>) : e[q] = <<>>[j]
    <3>1. <<>> \in Seq(Labelled)
      OBVIOUS
    <3> QED BY <2>1, <3>1, BoxedIsLabelled
  <2>3. Len(e) = 0
    <3>1. Len(<<>>) = 0 /\ Len(e) \in Nat
      BY <2>2
    <3>2. \A q \in 1 .. Len(e) : FALSE
      BY <2>2, <3>1
    <3> QED BY <3>1, <3>2
  <2>4. e = <<>>
    BY <2>2, <2>3, EmptySeq
  <2> QED BY <2>1, <2>4 DEF Named
<1> DEFINE P == {i \in 0 .. n : g[i] = Named(Boxed(f[i]))}
<1>11. 0 \in P
  <2>1. 0 \in 0 .. n
    OBVIOUS
  <2> QED BY <1>8, <1>10, <2>1
<1>12. ASSUME NEW i \in 1 .. n, i - 1 \in P PROVE i \in P
  <2>1. PICK a, b : a = f[i - 1] /\ b = vs[i]
    OBVIOUS
  <2>2. i \in 0 .. n /\ i - 1 \in 0 .. n /\ a \in Seq(Labelled) /\ b \in Seq(Labelled)
    BY <1>3, <1>9, <2>1
  <2>3. f[i] = a \o b /\ g[i] = Named(Boxed(a)) \o Named(Boxed(b))
    <3>1. g[i - 1] = Named(Boxed(f[i - 1]))
      BY <1>12
    <3> QED BY <1>4, <1>8, <2>1, <3>1
  <2>4. Boxed(a) \in Seq(Labelled) /\ Boxed(b) \in Seq(Labelled)
    BY <2>2, BoxedIsLabelled
  <2>5. Named(Boxed(a \o b)) = Named(Boxed(a)) \o Named(Boxed(b))
    BY <2>2, <2>4, BoxedOfConcat, NamedOfConcat
  <2> QED BY <2>2, <2>3, <2>5
<1>13. n \in P
  <2> HIDE DEF P
  <2>1. \A i \in 0 .. n : i \in P
    BY <1>11, <1>12, Rounds
  <2> QED BY <2>1
<1>14. g[n] = Named(Boxed(f[n])) /\ f[n] \in Seq(Labelled)
  BY <1>9, <1>13
<1>15. Values(targets) = f[n]
  BY <1>2, <1>8, Zenon DEF Values
<1> QED BY <1>2, <1>8, <1>14, <1>15

-----------------------------------------------------------------------------
(* Export: categories, and the boxes of COCO and YOLO.                     *)

(* The object of categories: each name has the number of the turn at which *)
(* it was inserted, counted from first.                                    *)
Ids == UNION {[D -> Nat] : D \in SUBSET STRING}

Categories(first) ==
    {c \in [ids : Ids, keys : Seq(STRING)] :
        \A m \in DOMAIN c.ids :
            /\ c.ids[m] \in first .. Len(c.keys) - 1 + first
            /\ c.keys[c.ids[m] + 1 - first] = m}

LEMMA NoCategoriesAreNumbered ==
    ASSUME NEW first \in {0, 1}
    PROVE  NoCategories \in Categories(first)
<1>1. [n \in {} |-> 0] \in Ids
  <2>1. [n \in {} |-> 0] \in [{} -> Nat] /\ {} \in SUBSET STRING
    OBVIOUS
  <2> QED BY <2>1 DEF Ids
<1> QED BY <1>1 DEF NoCategories, Categories

LEMMA WithIdNumbers ==
    ASSUME NEW first \in {0, 1}, NEW c \in Categories(first), NEW n \in STRING,
           n \notin DOMAIN c.ids,
           NEW d, d = WithId(c, n, Len(c.keys) + first)
    PROVE  /\ d \in Categories(first)
           /\ DOMAIN d.ids = DOMAIN c.ids \cup {n}
           /\ \A m \in DOMAIN c.ids : d.ids[m] = c.ids[m]
<1>1. PICK ids, keys : ids = c.ids /\ keys = c.keys
  OBVIOUS
<1>2. /\ ids \in Ids /\ keys \in Seq(STRING)
      /\ \A m \in DOMAIN ids : /\ ids[m] \in first .. Len(keys) - 1 + first
                               /\ keys[ids[m] + 1 - first] = m
  BY <1>1 DEF Categories
<1>3. PICK D \in SUBSET STRING : ids \in [D -> Nat]
  BY <1>2 DEF Ids
<1>4. PICK l \in Nat : l = Len(keys)
  BY <1>2
<1> DEFINE more == [m \in D \cup {n} |-> IF m = n THEN l + first ELSE ids[m]]
<1>5. d = [ids |-> more, keys |-> Append(keys, n)]
  <2>1. DOMAIN ids = D
    BY <1>3
  <2> QED BY <1>1, <1>4, <2>1, Zenon DEF WithId
<1>6. more \in Ids
  <2>1. more \in [D \cup {n} -> Nat] /\ D \cup {n} \in SUBSET STRING
    BY <1>3
  <2> HIDE DEF more
  <2> QED BY <2>1 DEF Ids
<1>7. /\ Append(keys, n) \in Seq(STRING) /\ Len(Append(keys, n)) = l + 1
      /\ \A i \in 1 .. l : Append(keys, n)[i] = keys[i]
      /\ Append(keys, n)[l + 1] = n
  BY <1>2, <1>4, AppendProperties
<1>8. ASSUME NEW m \in DOMAIN more
      PROVE  more[m] \in first .. (l + 1) - 1 + first /\ Append(keys, n)[more[m] + 1 - first] = m
  <2>1. CASE m = n
    <3>1. more[m] = l + first
      BY <2>1
    <3>2. more[m] + 1 - first = l + 1 /\ more[m] \in first .. (l + 1) - 1 + first
      BY <3>1
    <3> QED BY <1>7, <2>1, <3>2
  <2>2. CASE m # n
    <3>1. m \in D /\ more[m] = ids[m]
      BY <2>2
    <3>2. ids[m] \in first .. l - 1 + first /\ keys[ids[m] + 1 - first] = m
      BY <1>2, <1>3, <1>4, <3>1
    <3>3. ids[m] + 1 - first \in 1 .. l /\ ids[m] \in first .. (l + 1) - 1 + first
      BY <3>2
    <3> QED BY <1>7, <3>1, <3>2, <3>3
  <2> QED BY <2>1, <2>2
<1>9. DOMAIN more = DOMAIN ids \cup {n} /\ \A m \in DOMAIN ids : more[m] = ids[m]
  BY <1>1, <1>3
<1> HIDE DEF more
<1>10. d \in Categories(first)
  <2>1. d.ids = more /\ d.keys = Append(keys, n) /\ d \in [ids : Ids, keys : Seq(STRING)]
    BY <1>5, <1>6, <1>7
  <2>2. Len(d.keys) = l + 1
    BY <1>7, <2>1
  <2>3. \A m \in DOMAIN d.ids :
            d.ids[m] \in first .. Len(d.keys) - 1 + first /\ d.keys[d.ids[m] + 1 - first] = m
    BY <1>8, <2>1, <2>2, Zenon
  <2> QED BY <2>1, <2>3, Zenon DEF Categories
<1> QED BY <1>1, <1>5, <1>9, <1>10

(* What a name does to them.                                               *)
Adds(c, n, d, first) ==
    /\ d \in Categories(first)
    /\ DOMAIN d.ids = DOMAIN c.ids \cup {n}
    /\ \A m \in DOMAIN c.ids : d.ids[m] = c.ids[m]

LEMMA CocoCategoryAdds ==
    ASSUME NEW c \in Categories(1), NEW n \in STRING \ Inherited
    PROVE  Adds(c, n, CocoCategory(c, n), 1)
<1>1. CASE n \in DOMAIN c.ids
  <2>1. c.ids[n] # 0
    BY <1>1 DEF Categories
  <2>2. CocoCategory(c, n) = c
    BY <1>1, <2>1, Zenon DEF CocoCategory
  <2> QED BY <1>1, <2>2 DEF Adds
<1>2. CASE n \notin DOMAIN c.ids
  <2>1. CocoCategory(c, n) = WithId(c, n, Len(c.keys) + 1)
    BY <1>2, Zenon DEF CocoCategory
  <2> QED BY <1>2, <2>1, WithIdNumbers DEF Adds
<1> QED BY <1>1, <1>2

LEMMA YoloClassAdds ==
    ASSUME NEW c \in Categories(0), NEW n \in STRING \ Inherited
    PROVE  Adds(c, n, YoloClass(c, n), 0)
<1>1. CASE n \in DOMAIN c.ids
  <2>1. YoloClass(c, n) = c
    BY <1>1, Zenon DEF YoloClass
  <2> QED BY <1>1, <2>1 DEF Adds
<1>2. CASE n \notin DOMAIN c.ids
  <2>1. YoloClass(c, n) = WithId(c, n, Len(c.keys))
    BY <1>2, Zenon DEF YoloClass
  <2>2. Len(c.keys) = Len(c.keys) + 0
    BY DEF Categories
  <2>3. YoloClass(c, n) = WithId(c, n, Len(c.keys) + 0)
    BY <2>1, <2>2, Zenon
  <2> QED BY <1>2, <2>3, WithIdNumbers DEF Adds
<1> QED BY <1>1, <1>2

(* JavaScript lists the keys as they were inserted, unless one that looks  *)
(* like an index comes after another key.                                  *)
LEMMA KeysInOrder ==
    ASSUME NEW keys \in Seq(STRING), IndexesComeFirst(keys)
    PROVE  ObjectKeys(keys) = keys
<1>1. PICK n \in Nat : n = Len(keys) /\ DOMAIN keys = 1 .. n
  OBVIOUS
<1>2. ASSUME NEW i \in 1 .. n, NEW j \in 1 .. n
      PROVE  ListedBefore(keys, i, j) <=> i < j
  <2>1. \A k \in 1 .. n : k > 1 => keys[k] \notin IntegerLike
    BY <1>1 DEF IndexesComeFirst
  <2>2. CASE keys[i] \in IntegerLike
    <3>1. i = 1
      BY <2>1, <2>2
    <3>2. CASE j = 1
      <4>1. Number[keys[1]] \in Nat
        BY <2>2, <3>1, NumberAssumption
      <4>2. ~(Number[keys[1]] < Number[keys[1]])
        BY <4>1
      <4> QED BY <2>2, <3>1, <3>2, <4>2 DEF ListedBefore
    <3>3. CASE j # 1
      <4>1. j > 1 /\ i < j
        BY <3>1, <3>3
      <4>2. keys[j] \notin IntegerLike
        BY <2>1, <4>1
      <4> QED BY <2>2, <4>1, <4>2 DEF ListedBefore
    <3> QED BY <3>2, <3>3
  <2>3. CASE keys[i] \notin IntegerLike
    <3>1. i < j => keys[j] \notin IntegerLike
      <4>1. i < j => j > 1
        OBVIOUS
      <4> QED BY <2>1, <4>1
    <3> QED BY <2>3, <3>1 DEF ListedBefore
  <2> QED BY <2>2, <2>3
<1>3. ASSUME NEW j \in 1 .. n
      PROVE  Cardinality({i \in DOMAIN keys : ListedBefore(keys, i, j)}) = j - 1
  <2>1. {i \in DOMAIN keys : ListedBefore(keys, i, j)} = 1 .. j - 1
    BY <1>1, <1>2
  <2>2. j - 1 \in Int /\ 1 \in Int /\ (1 > j - 1 => j - 1 = 0) /\ (j - 1) - 1 + 1 = j - 1
    OBVIOUS
  <2>3. Cardinality(1 .. j - 1) = j - 1
    BY <2>2, FS_Interval
  <2> QED BY <2>1, <2>3
<1>4. ASSUME NEW k \in 1 .. n
      PROVE  (CHOOSE j \in DOMAIN keys :
                  Cardinality({i \in DOMAIN keys : ListedBefore(keys, i, j)}) = k - 1) = k
  <2>1. PICK F : \A j \in DOMAIN keys :
                     F[j] = Cardinality({i \in DOMAIN keys : ListedBefore(keys, i, j)})
    <3> DEFINE F == [j \in DOMAIN keys |-> Cardinality({i \in DOMAIN keys : ListedBefore(keys, i, j)})]
    <3>1. \A j \in DOMAIN keys :
              F[j] = Cardinality({i \in DOMAIN keys : ListedBefore(keys, i, j)})
      BY Zenon
    <3> HIDE DEF F
    <3> QED BY <3>1
  <2>2. \A j \in 1 .. n : F[j] = j - 1
    BY <1>1, <1>3, <2>1
  <2>3. \A j \in DOMAIN keys : F[j] = k - 1 <=> j = k
    BY <1>1, <2>2
  <2>4. \A j \in DOMAIN keys :
            Cardinality({i \in DOMAIN keys : ListedBefore(keys, i, j)}) = k - 1 <=> j = k
    BY <2>1, <2>3, Zenon
  <2>5. k \in DOMAIN keys
    BY <1>1
  <2> QED BY <2>4, <2>5, Zenon
<1>5. ASSUME NEW k \in 1 .. n PROVE ObjectKeys(keys)[k] = keys[k]
  <2>1. ObjectKeys(keys)[k] =
            keys[CHOOSE j \in DOMAIN keys :
                     Cardinality({i \in DOMAIN keys : ListedBefore(keys, i, j)}) = k - 1]
    <3>1. k \in DOMAIN keys
      BY <1>1
    <3> QED BY <3>1, Zenon DEF ObjectKeys
  <2> QED BY <1>4, <2>1, Zenon
<1>6. ObjectKeys(keys) = [k \in 1 .. n |-> ObjectKeys(keys)[k]]
  <2> DEFINE Kth(k) == keys[CHOOSE j \in DOMAIN keys :
                     Cardinality({i \in DOMAIN keys : ListedBefore(keys, i, j)}) = k - 1]
  <2>1. ObjectKeys(keys) = [k \in DOMAIN keys |-> Kth(k)]
    BY Zenon DEF ObjectKeys
  <2> HIDE DEF Kth
  <2> QED BY <1>1, <2>1
<1>7. keys = [k \in 1 .. n |-> keys[k]]
  BY <1>1
<1> QED BY <1>5, <1>6, <1>7

(* What the loop of COCO carries.                                          *)
CocoState ==
    [categories : Categories(1),
     annotations : Seq([id : Nat, image_id : Samples, category_id : Nat])]

LEMMA CocoStepSays ==
    ASSUME NEW s \in CocoState, NEW v \in Labelled, v.name \notin Inherited,
           NEW t, t = CocoStep(s, v)
    PROVE  /\ t \in CocoState
           /\ Adds(s.categories, v.name, t.categories, 1)
           /\ ~v.boxed => t.annotations = s.annotations
           /\ v.boxed =>
                  \E a \in [id : Nat, image_id : Samples, category_id : Nat] :
                      /\ t.annotations = Append(s.annotations, a)
                      /\ a.image_id = v.image
                      /\ a.category_id = t.categories.ids[v.name]
<1>1. PICK c, l : c = s.categories /\ l = s.annotations
  OBVIOUS
<1>2. c \in Categories(1) /\ l \in Seq([id : Nat, image_id : Samples, category_id : Nat])
  BY <1>1 DEF CocoState
<1>3. v.image \in Samples /\ v.name \in STRING \ Inherited /\ v.boxed \in BOOLEAN
  BY DEF Labelled
<1>4. PICK d : d = CocoCategory(c, v.name)
  OBVIOUS
<1>5. Adds(c, v.name, d, 1)
  BY <1>2, <1>3, <1>4, CocoCategoryAdds
<1>6. d \in Categories(1) /\ d.ids[v.name] \in Nat
  <2>1. d \in Categories(1) /\ v.name \in DOMAIN d.ids
    BY <1>5 DEF Adds
  <2>2. Len(d.keys) \in Nat /\ d.ids[v.name] \in 1 .. Len(d.keys) - 1 + 1
    BY <2>1 DEF Categories
  <2> QED BY <2>1, <2>2
<1> DEFINE a == [id |-> Len(l) + 1, image_id |-> v.image, category_id |-> d.ids[v.name]]
<1>7. t = [categories |-> d, annotations |-> IF v.boxed THEN Append(l, a) ELSE l]
  BY <1>1, <1>4, Zenon DEF CocoStep
<1>8. a \in [id : Nat, image_id : Samples, category_id : Nat]
  <2>1. Len(l) + 1 \in Nat
    BY <1>2
  <2> QED BY <1>3, <1>6, <2>1
<1>9. a.image_id = v.image /\ a.category_id = d.ids[v.name]
  OBVIOUS
<1> HIDE DEF a
<1>10. t.categories = d /\ t.annotations = IF v.boxed THEN Append(l, a) ELSE l
  BY <1>7
<1>11. t.annotations \in Seq([id : Nat, image_id : Samples, category_id : Nat])
  <2>1. PICK A : A = [id : Nat, image_id : Samples, category_id : Nat]
    OBVIOUS
  <2>2. l \in Seq(A) /\ a \in A
    BY <1>2, <1>8, <2>1
  <2>3. Append(l, a) \in Seq(A)
    BY <2>2, AppendProperties
  <2> QED BY <1>10, <2>1, <2>2, <2>3
<1>12. t \in CocoState
  BY <1>6, <1>7, <1>10, <1>11 DEF CocoState
<1> QED BY <1>1, <1>5, <1>8, <1>9, <1>10, <1>12

(* What the loop goes through.                                             *)
CocoRuns(g, n, values) ==
    /\ n \in Nat /\ n = Len(values)
    /\ g \in [0 .. n -> CocoState]
    /\ g[0] = [categories |-> NoCategories, annotations |-> <<>>]
    /\ g[n] = CocoLoop(values)
    /\ \A i \in 1 .. n : g[i] = CocoStep(g[i - 1], values[i])

LEMMA CocoLoopIsDefined ==
    ASSUME NEW values \in Seq(Labelled), OwnNames(values)
    PROVE  \E g, n : CocoRuns(g, n, values)
<1>1. PICK n \in Nat : n = Len(values) /\ DOMAIN values = 1 .. n
  OBVIOUS
<1>2. \A i \in 1 .. n : values[i] \in Labelled /\ values[i].name \notin Inherited
  BY <1>1 DEF OwnNames
<1>3. PICK S, start : S = CocoState /\ start = [categories |-> NoCategories, annotations |-> <<>>]
  OBVIOUS
<1>4. start \in S
  <2>1. NoCategories \in Categories(1)
    BY NoCategoriesAreNumbered
  <2> QED BY <1>3, <2>1 DEF CocoState
<1>5. \A s \in S, i \in 1 .. n : CocoStep(s, values[i]) \in S
  BY <1>2, <1>3, CocoStepSays
<1> DEFINE IsLoop(after) ==
               after = [i \in 0 .. n |-> IF i = 0 THEN start ELSE CocoStep(after[i - 1], values[i])]
<1>6. \E after : IsLoop(after)
  <2>1. PICK step \in [1 .. n -> [S -> S]] :
            \A s \in S, i \in 1 .. n : step[i][s] = CocoStep(s, values[i])
    <3> DEFINE step == [i \in 1 .. n |-> [s \in S |-> CocoStep(s, values[i])]]
    <3>1. step \in [1 .. n -> [S -> S]] /\ \A s \in S, i \in 1 .. n : step[i][s] = CocoStep(s, values[i])
      BY <1>5
    <3> HIDE DEF step
    <3> QED BY <3>1
  <2>2. PICK f : RunsFrom(f, n, S, start, step)
    BY <1>4, Loop, Zenon
  <2>3. \A i \in 1 .. n : i - 1 \in 0 .. n /\ f[i - 1] \in S
    BY <2>2 DEF RunsFrom
  <2>4. \A i \in 1 .. n : f[i] = CocoStep(f[i - 1], values[i])
    BY <2>1, <2>2, <2>3 DEF RunsFrom
  <2>5. \A i \in 0 .. n : i = 0 \/ i \in 1 .. n
    OBVIOUS
  <2>6. \A i \in 0 .. n : f[i] = IF i = 0 THEN start ELSE CocoStep(f[i - 1], values[i])
    BY <2>2, <2>4, <2>5, Zenon DEF RunsFrom
  <2>7. IsLoop(f)
    BY <2>2, <2>6 DEF RunsFrom
  <2> QED BY <2>7
<1>7. PICK g : g = CHOOSE after : IsLoop(after)
  OBVIOUS
<1>8. CocoLoop(values) = g[n]
  BY <1>1, <1>3, <1>7, Zenon DEF CocoLoop
<1>9. IsLoop(g)
  <2> HIDE DEF IsLoop
  <2> QED BY <1>6, <1>7, Zenon
<1>10. g[0] = start /\ \A i \in 1 .. n : g[i] = CocoStep(g[i - 1], values[i])
  <2>1. \A i \in 0 .. n : g[i] = IF i = 0 THEN start ELSE CocoStep(g[i - 1], values[i])
    BY <1>9, Zenon
  <2>2. 0 \in 0 .. n /\ \A i \in 1 .. n : i \in 0 .. n /\ i # 0
    OBVIOUS
  <2> QED BY <2>1, <2>2, Zenon
<1>11. \A i \in 0 .. n : g[i] \in S
  <2> DEFINE P == {i \in 0 .. n : g[i] \in S}
  <2>1. 0 \in P
    <3>1. 0 \in 0 .. n
      OBVIOUS
    <3> QED BY <1>4, <1>10, <3>1, Zenon
  <2>2. ASSUME NEW i \in 1 .. n, i - 1 \in P PROVE i \in P
    <3>1. i \in 0 .. n /\ g[i - 1] \in S
      BY <2>2
    <3> QED BY <1>5, <1>10, <3>1, Zenon
  <2>3. \A i \in 0 .. n : i \in P
    <3> HIDE DEF P
    <3> QED BY <2>1, <2>2, Rounds
  <2> QED BY <2>3
<1>12. g \in [0 .. n -> S]
  BY <1>9, <1>11
<1>13. CocoRuns(g, n, values)
  BY <1>1, <1>3, <1>8, <1>10, <1>12, Zenon DEF CocoRuns
<1> QED BY <1>13

(* Annotations and boxes go together.                                      *)
Parallel(s, boxes) ==
    /\ Len(s.annotations) = Len(boxes)
    /\ \A k \in 1 .. Len(boxes) :
           /\ boxes[k].name \in DOMAIN s.categories.ids
           /\ s.annotations[k].image_id = boxes[k].image
           /\ s.annotations[k].category_id = s.categories.ids[boxes[k].name]

LEMMA ParallelStep ==
    ASSUME NEW s \in CocoState, NEW v \in Labelled, v.name \notin Inherited,
           NEW boxes \in Seq(Labelled), Parallel(s, boxes)
    PROVE  Parallel(CocoStep(s, v), IF v.boxed THEN Append(boxes, v) ELSE boxes)
<1>1. PICK t : t = CocoStep(s, v)
  OBVIOUS
<1>2. /\ t \in CocoState
      /\ Adds(s.categories, v.name, t.categories, 1)
      /\ ~v.boxed => t.annotations = s.annotations
      /\ v.boxed =>
             \E a \in [id : Nat, image_id : Samples, category_id : Nat] :
                 /\ t.annotations = Append(s.annotations, a)
                 /\ a.image_id = v.image
                 /\ a.category_id = t.categories.ids[v.name]
  BY <1>1, CocoStepSays
<1>3. PICK ids, more : ids = s.categories.ids /\ more = t.categories.ids
  OBVIOUS
<1>4. DOMAIN more = DOMAIN ids \cup {v.name} /\ \A m \in DOMAIN ids : more[m] = ids[m]
  BY <1>2, <1>3 DEF Adds
<1>5. PICK l : l = s.annotations
  OBVIOUS
<1>6. PICK n \in Nat : n = Len(boxes) /\ n = Len(l)
  BY <1>5 DEF Parallel
<1>7. \A k \in 1 .. n : /\ boxes[k].name \in DOMAIN more
                        /\ l[k].image_id = boxes[k].image
                        /\ l[k].category_id = more[boxes[k].name]
  <2>1. \A k \in 1 .. n : /\ boxes[k].name \in DOMAIN ids
                          /\ l[k].image_id = boxes[k].image
                          /\ l[k].category_id = ids[boxes[k].name]
    BY <1>3, <1>5, <1>6, Zenon DEF Parallel
  <2> QED BY <1>4, <2>1, Zenon
<1>8. CASE ~v.boxed
  <2>1. t.annotations = l
    BY <1>2, <1>5, <1>8
  <2>2. Parallel(t, boxes)
    BY <1>3, <1>6, <1>7, <2>1, Zenon DEF Parallel
  <2> QED BY <1>1, <1>8, <2>2, Zenon
<1>9. CASE v.boxed
  <2>1. PICK A : A = [id : Nat, image_id : Samples, category_id : Nat]
    OBVIOUS
  <2>2. PICK a \in A : /\ t.annotations = Append(l, a)
                       /\ a.image_id = v.image
                       /\ a.category_id = more[v.name]
    BY <1>2, <1>3, <1>5, <1>9, <2>1
  <2>3. l \in Seq(A)
    BY <1>5, <2>1 DEF CocoState
  <2>4. /\ Len(Append(l, a)) = n + 1 /\ Append(l, a)[n + 1] = a
        /\ \A k \in 1 .. n : Append(l, a)[k] = l[k]
    BY <1>6, <2>3, AppendProperties
  <2>5. /\ Len(Append(boxes, v)) = n + 1 /\ Append(boxes, v)[n + 1] = v
        /\ \A k \in 1 .. n : Append(boxes, v)[k] = boxes[k]
    <3>1. PICK L : L = Labelled
      OBVIOUS
    <3>2. boxes \in Seq(L) /\ v \in L
      BY <3>1
    <3>3. /\ Len(Append(boxes, v)) = Len(boxes) + 1 /\ Append(boxes, v)[Len(boxes) + 1] = v
          /\ \A k \in 1 .. Len(boxes) : Append(boxes, v)[k] = boxes[k]
      BY <3>2, AppendProperties
    <3> QED BY <1>6, <3>3
  <2>6. PICK b, e : b = Append(boxes, v) /\ e = Append(l, a)
    OBVIOUS
  <2>7. ASSUME NEW k \in 1 .. n + 1
        PROVE  /\ b[k].name \in DOMAIN more
               /\ e[k].image_id = b[k].image
               /\ e[k].category_id = more[b[k].name]
    <3>1. CASE k \in 1 .. n
      <4>1. b[k] = boxes[k] /\ e[k] = l[k]
        BY <2>4, <2>5, <2>6, <3>1, Zenon
      <4> QED BY <1>7, <3>1, <4>1, Zenon
    <3>2. CASE k = n + 1
      <4>1. b[k] = v /\ e[k] = a
        BY <2>4, <2>5, <2>6, <3>2, Zenon
      <4>2. v.name \in DOMAIN more
        BY <1>4
      <4> QED BY <2>2, <4>1, <4>2, Zenon
    <3> QED BY <3>1, <3>2
  <2>8. Len(b) = n + 1 /\ Len(e) = n + 1 /\ t.annotations = e
    BY <2>2, <2>4, <2>5, <2>6, Zenon
  <2>9. Parallel(t, b)
    BY <1>3, <2>7, <2>8, Zenon DEF Parallel
  <2> QED BY <1>1, <1>9, <2>6, <2>9, Zenon
<1>10. v.boxed \in BOOLEAN
  BY DEF Labelled
<1> QED BY <1>8, <1>9, <1>10

LEMMA CocoLoopSays ==
    ASSUME NEW values \in Seq(Labelled), OwnNames(values)
    PROVE  CocoLoop(values) \in CocoState /\ Parallel(CocoLoop(values), Boxed(values))
<1>1. PICK g, n : CocoRuns(g, n, values)
  BY CocoLoopIsDefined, Zenon
<1>2. PICK h, m : Pushes(h, m, Labelled, values, IsBoxed(values))
  BY PushedIsDefined, Zenon
<1>3. /\ n \in Nat /\ n = Len(values) /\ m = n /\ DOMAIN values = 1 .. n
      /\ g \in [0 .. n -> CocoState] /\ h \in [0 .. n -> Seq(Labelled)]
      /\ g[n] = CocoLoop(values) /\ h[n] = Boxed(values)
  BY <1>1, <1>2 DEF CocoRuns, Pushes, Boxed
<1>4. g[0] = [categories |-> NoCategories, annotations |-> <<>>] /\ h[0] = <<>>
  BY <1>1, <1>2 DEF CocoRuns, Pushes
<1>5. \A i \in 1 .. n : g[i] = CocoStep(g[i - 1], values[i])
  BY <1>1 DEF CocoRuns
<1>6. \A i \in 1 .. n : h[i] = IF values[i].boxed THEN Append(h[i - 1], values[i]) ELSE h[i - 1]
  BY <1>2, <1>3 DEF Pushes, IsBoxed
<1>7. \A i \in 1 .. n : values[i] \in Labelled /\ values[i].name \notin Inherited
  BY <1>3 DEF OwnNames
<1> DEFINE P == {i \in 0 .. n : Parallel(g[i], h[i])}
<1>8. 0 \in P
  <2>1. 0 \in 0 .. n
    BY <1>3
  <2>2. Parallel(g[0], h[0])
    BY <1>4 DEF Parallel
  <2> QED BY <2>1, <2>2
<1>9. ASSUME NEW i \in 1 .. n, i - 1 \in P PROVE i \in P
  <2>1. i \in 0 .. n /\ i - 1 \in 0 .. n /\ Parallel(g[i - 1], h[i - 1])
    BY <1>3, <1>9
  <2>2. PICK v, s, b : v = values[i] /\ s = g[i - 1] /\ b = h[i - 1]
    OBVIOUS
  <2>3. s \in CocoState /\ b \in Seq(Labelled) /\ v \in Labelled /\ v.name \notin Inherited
    BY <1>3, <1>7, <2>1, <2>2
  <2>4. Parallel(CocoStep(s, v), IF v.boxed THEN Append(b, v) ELSE b)
    BY <2>1, <2>2, <2>3, ParallelStep
  <2>5. Parallel(g[i], h[i])
    BY <1>5, <1>6, <2>2, <2>4, Zenon
  <2> QED BY <2>1, <2>5
<1>10. n \in P
  <2> HIDE DEF P
  <2>1. \A i \in 0 .. n : i \in P
    BY <1>3, <1>8, <1>9, Rounds
  <2> QED BY <1>3, <2>1
<1>11. Parallel(g[n], h[n])
  BY <1>10
<1>12. g[n] \in CocoState
  BY <1>3
<1> QED BY <1>3, <1>11, <1>12

LEMMA CocoNamesBoxes ==
    ASSUME NEW targets \in Seq(Samples), OwnNames(Values(targets)),
           NEW boxes, boxes = Boxed(Values(targets))
    PROVE  BoxesOfCoco(Coco(targets)) = [k \in DOMAIN boxes |-> <<boxes[k].image, {boxes[k].name}>>]
<1>1. PICK end : end = CocoLoop(Values(targets))
  OBVIOUS
<1>2. end \in CocoState /\ Parallel(end, boxes)
  BY <1>1, BoxesOfValues, CocoLoopSays
<1>3. PICK ids, l : ids = end.categories.ids /\ l = end.annotations
  OBVIOUS
<1>4. boxes \in Seq(Labelled)
  BY BoxesOfValues, BoxedIsLabelled
<1>5. PICK n \in Nat : n = Len(boxes) /\ n = Len(l) /\ DOMAIN boxes = 1 .. n /\ DOMAIN l = 1 .. n
  <2>1. PICK A : A = [id : Nat, image_id : Samples, category_id : Nat]
    OBVIOUS
  <2>2. l \in Seq(A) /\ Len(l) = Len(boxes)
    BY <1>2, <1>3, <2>1 DEF CocoState, Parallel
  <2> QED BY <1>4, <2>2
<1>6. PICK coco : coco = Coco(targets)
  OBVIOUS
<1>7. coco.annotations = l /\ coco.categories = {[id |-> ids[m], name |-> m] : m \in DOMAIN ids}
  <2>1. coco = [images |-> targets, annotations |-> l,
                categories |-> {[id |-> ids[m], name |-> m] : m \in DOMAIN ids}]
    BY <1>1, <1>3, <1>6, Zenon DEF Coco
  <2> QED BY <2>1
<1>8. \A p, q \in DOMAIN ids : ids[p] = ids[q] => p = q
  <2>1. end.categories \in Categories(1)
    BY <1>2 DEF CocoState
  <2>2. \A m \in DOMAIN ids : end.categories.keys[ids[m] + 1 - 1] = m
    BY <1>3, <2>1 DEF Categories
  <2> QED BY <2>2
<1>9. ASSUME NEW k \in 1 .. n
      PROVE  /\ l[k].image_id = boxes[k].image
             /\ {c.name : c \in {c \in coco.categories : c.id = l[k].category_id}} = {boxes[k].name}
  <2>1. PICK b : b = boxes[k].name
    OBVIOUS
  <2>2. b \in DOMAIN ids /\ l[k].image_id = boxes[k].image /\ l[k].category_id = ids[b]
    BY <1>2, <1>3, <1>5, <2>1, Zenon DEF Parallel
  <2>3. {c \in coco.categories : c.id = ids[b]} = {[id |-> ids[b], name |-> b]}
    BY <1>7, <1>8, <2>2
  <2>4. {c.name : c \in {[id |-> ids[b], name |-> b]}} = {b}
    OBVIOUS
  <2> QED BY <2>1, <2>2, <2>3, <2>4
<1>10. BoxesOfCoco(coco) =
          [k \in 1 .. n |->
              <<l[k].image_id, {c.name : c \in {c \in coco.categories : c.id = l[k].category_id}}>>]
  BY <1>5, <1>7, Zenon DEF BoxesOfCoco
<1> QED BY <1>5, <1>6, <1>9, <1>10

(* What the first pass of YOLO goes through.                               *)
YoloRuns(g, n, values) ==
    /\ n \in Nat /\ n = Len(values)
    /\ g \in [0 .. n -> Categories(0)]
    /\ g[n] = YoloClasses(values)
    /\ \A i \in 1 .. n : g[i] = YoloClass(g[i - 1], values[i].name)

LEMMA YoloClassesIsDefined ==
    ASSUME NEW values \in Seq(Labelled), OwnNames(values)
    PROVE  \E g, n : YoloRuns(g, n, values)
<1>1. PICK n \in Nat : n = Len(values) /\ DOMAIN values = 1 .. n
  OBVIOUS
<1>2. \A i \in 1 .. n : values[i].name \in STRING \ Inherited
  <2>1. \A i \in 1 .. n : values[i] \in Labelled /\ values[i].name \notin Inherited
    BY <1>1 DEF OwnNames
  <2> QED BY <2>1 DEF Labelled
<1>3. PICK S, start : S = Categories(0) /\ start = NoCategories
  OBVIOUS
<1>4. start \in S
  BY <1>3, NoCategoriesAreNumbered
<1>5. \A s \in S, i \in 1 .. n : YoloClass(s, values[i].name) \in S
  BY <1>2, <1>3, YoloClassAdds DEF Adds
<1> DEFINE IsLoop(after) ==
               after = [i \in 0 .. n |-> IF i = 0 THEN start
                                         ELSE YoloClass(after[i - 1], values[i].name)]
<1>6. \E after : IsLoop(after)
  <2>1. PICK step \in [1 .. n -> [S -> S]] :
            \A s \in S, i \in 1 .. n : step[i][s] = YoloClass(s, values[i].name)
    <3> DEFINE step == [i \in 1 .. n |-> [s \in S |-> YoloClass(s, values[i].name)]]
    <3>1. step \in [1 .. n -> [S -> S]]
          /\ \A s \in S, i \in 1 .. n : step[i][s] = YoloClass(s, values[i].name)
      BY <1>5
    <3> HIDE DEF step
    <3> QED BY <3>1
  <2>2. PICK f : RunsFrom(f, n, S, start, step)
    BY <1>4, Loop, Zenon
  <2>3. \A i \in 1 .. n : i - 1 \in 0 .. n /\ f[i - 1] \in S
    BY <2>2 DEF RunsFrom
  <2>4. \A i \in 1 .. n : f[i] = YoloClass(f[i - 1], values[i].name)
    BY <2>1, <2>2, <2>3 DEF RunsFrom
  <2>5. \A i \in 0 .. n : i = 0 \/ i \in 1 .. n
    OBVIOUS
  <2>6. \A i \in 0 .. n : f[i] = IF i = 0 THEN start ELSE YoloClass(f[i - 1], values[i].name)
    BY <2>2, <2>4, <2>5, Zenon DEF RunsFrom
  <2>7. IsLoop(f)
    BY <2>2, <2>6 DEF RunsFrom
  <2> QED BY <2>7
<1>7. PICK g : g = CHOOSE after : IsLoop(after)
  OBVIOUS
<1>8. YoloClasses(values) = g[n]
  BY <1>1, <1>3, <1>7, Zenon DEF YoloClasses
<1>9. IsLoop(g)
  <2> HIDE DEF IsLoop
  <2> QED BY <1>6, <1>7, Zenon
<1>10. g[0] = start /\ \A i \in 1 .. n : g[i] = YoloClass(g[i - 1], values[i].name)
  <2>1. \A i \in 0 .. n : g[i] = IF i = 0 THEN start ELSE YoloClass(g[i - 1], values[i].name)
    BY <1>9, Zenon
  <2>2. 0 \in 0 .. n /\ \A i \in 1 .. n : i \in 0 .. n /\ i # 0
    OBVIOUS
  <2> QED BY <2>1, <2>2, Zenon
<1>11. \A i \in 0 .. n : g[i] \in S
  <2> DEFINE P == {i \in 0 .. n : g[i] \in S}
  <2>1. 0 \in P
    <3>1. 0 \in 0 .. n
      OBVIOUS
    <3> QED BY <1>4, <1>10, <3>1, Zenon
  <2>2. ASSUME NEW i \in 1 .. n, i - 1 \in P PROVE i \in P
    <3>1. i \in 0 .. n /\ g[i - 1] \in S
      BY <2>2
    <3> QED BY <1>5, <1>10, <3>1, Zenon
  <2>3. \A i \in 0 .. n : i \in P
    <3> HIDE DEF P
    <3> QED BY <2>1, <2>2, Rounds
  <2> QED BY <2>3
<1>12. g \in [0 .. n -> S]
  BY <1>9, <1>11
<1>13. YoloRuns(g, n, values)
  BY <1>1, <1>3, <1>8, <1>10, <1>12, Zenon DEF YoloRuns
<1> QED BY <1>13

(* Every name has a class.                                                 *)
LEMMA YoloClassesSay ==
    ASSUME NEW values \in Seq(Labelled), OwnNames(values)
    PROVE  /\ YoloClasses(values) \in Categories(0)
           /\ \A j \in 1 .. Len(values) : values[j].name \in DOMAIN YoloClasses(values).ids
<1>1. PICK g, n : YoloRuns(g, n, values)
  BY YoloClassesIsDefined, Zenon
<1>2. /\ n \in Nat /\ n = Len(values) /\ DOMAIN values = 1 .. n
      /\ g \in [0 .. n -> Categories(0)] /\ g[n] = YoloClasses(values)
      /\ \A i \in 1 .. n : g[i] = YoloClass(g[i - 1], values[i].name)
  BY <1>1 DEF YoloRuns
<1>3. \A i \in 1 .. n : values[i].name \in STRING \ Inherited
  <2>1. \A i \in 1 .. n : values[i] \in Labelled /\ values[i].name \notin Inherited
    BY <1>2 DEF OwnNames
  <2> QED BY <2>1 DEF Labelled
<1> DEFINE P == {i \in 0 .. n : \A j \in 1 .. i : values[j].name \in DOMAIN g[i].ids}
<1>4. 0 \in P
  BY <1>2
<1>5. ASSUME NEW i \in 1 .. n, i - 1 \in P PROVE i \in P
  <2>1. i \in 0 .. n /\ i - 1 \in 0 .. n /\ g[i - 1] \in Categories(0)
    BY <1>2
  <2>2. \A j \in 1 .. i - 1 : values[j].name \in DOMAIN g[i - 1].ids
    BY <1>5
  <2>3. Adds(g[i - 1], values[i].name, g[i], 0)
    BY <1>2, <1>3, <2>1, YoloClassAdds
  <2>4. DOMAIN g[i].ids = DOMAIN g[i - 1].ids \cup {values[i].name}
    BY <2>3 DEF Adds
  <2>5. \A j \in 1 .. i : j \in 1 .. i - 1 \/ j = i
    BY <1>2
  <2>6. \A j \in 1 .. i : values[j].name \in DOMAIN g[i].ids
    BY <2>2, <2>4, <2>5, Zenon
  <2> QED BY <2>1, <2>6
<1>6. n \in P
  <2> HIDE DEF P
  <2>1. \A i \in 0 .. n : i \in P
    BY <1>2, <1>4, <1>5, Rounds
  <2> QED BY <1>2, <2>1
<1> QED BY <1>2, <1>6

LEMMA YoloNamesBoxes ==
    ASSUME NEW targets \in Seq(Samples), OwnNames(Values(targets)),
           IndexesComeFirst(YoloClasses(Values(targets)).keys),
           NEW boxes, boxes = Boxed(Values(targets))
    PROVE  BoxesOfYolo(Yolo(targets)) = Named(boxes)
<1>1. PICK values, classes : values = Values(targets) /\ classes = YoloClasses(values)
  OBVIOUS
<1>2. PICK ids, keys : ids = classes.ids /\ keys = classes.keys
  OBVIOUS
<1>3. values \in Seq(Labelled)
  BY <1>1, BoxesOfValues
<1>4. classes \in Categories(0) /\ \A j \in 1 .. Len(values) : values[j].name \in DOMAIN ids
  BY <1>1, <1>2, <1>3, YoloClassesSay
<1>5. /\ keys \in Seq(STRING)
      /\ \A m \in DOMAIN ids : ids[m] \in 0 .. Len(keys) - 1 + 0 /\ keys[ids[m] + 1 - 0] = m
  BY <1>2, <1>4 DEF Categories
<1>6. \A m \in DOMAIN ids : ids[m] + 1 \in DOMAIN keys /\ keys[ids[m] + 1] = m
  <2>1. PICK l \in Nat : l = Len(keys) /\ DOMAIN keys = 1 .. l
    BY <1>5
  <2> SUFFICES ASSUME NEW m \in DOMAIN ids PROVE ids[m] + 1 \in DOMAIN keys /\ keys[ids[m] + 1] = m
    OBVIOUS
  <2>2. ids[m] \in 0 .. l - 1 + 0 /\ keys[ids[m] + 1 - 0] = m
    BY <1>5, <2>1
  <2>3. ids[m] + 1 \in 1 .. l /\ ids[m] + 1 - 0 = ids[m] + 1
    BY <2>2
  <2> QED BY <2>1, <2>2, <2>3
<1>7. ObjectKeys(keys) = keys
  BY <1>1, <1>2, <1>5, KeysInOrder
<1>8. boxes \in Seq(Labelled) /\ \A k \in 1 .. Len(boxes) : \E j \in 1 .. Len(values) : boxes[k] = values[j]
  BY <1>1, <1>3, BoxedIsLabelled
<1>9. PICK n \in Nat : n = Len(boxes) /\ DOMAIN boxes = 1 .. n
  BY <1>8
<1>10. PICK yolo : yolo = Yolo(targets)
  OBVIOUS
<1>11. /\ yolo.names = keys
       /\ yolo.lines = [k \in 1 .. n |-> [image |-> boxes[k].image, class |-> ids[boxes[k].name]]]
  <2>1. yolo = [names |-> ObjectKeys(classes.keys),
                lines |-> [k \in DOMAIN boxes |->
                              [image |-> boxes[k].image, class |-> classes.ids[boxes[k].name]]]]
    BY <1>1, <1>10, Zenon DEF Yolo
  <2> QED BY <1>2, <1>7, <1>9, <2>1
<1>12. DOMAIN yolo.lines = 1 .. n
       /\ \A k \in 1 .. n : yolo.lines[k].image = boxes[k].image
                            /\ yolo.lines[k].class = ids[boxes[k].name]
  BY <1>11
<1>13. ASSUME NEW k \in 1 .. n
       PROVE  (IF yolo.lines[k].class + 1 \in DOMAIN yolo.names
               THEN yolo.names[yolo.lines[k].class + 1] ELSE NoLabel) = boxes[k].name
  <2>1. boxes[k].name \in DOMAIN ids
    BY <1>4, <1>8, <1>9
  <2> QED BY <1>6, <1>11, <1>12, <2>1, Zenon
<1>14. BoxesOfYolo(yolo) = [k \in 1 .. n |-> <<boxes[k].image, boxes[k].name>>]
  <2>1. BoxesOfYolo(yolo) =
            [k \in 1 .. n |->
                <<yolo.lines[k].image,
                  IF yolo.lines[k].class + 1 \in DOMAIN yolo.names
                  THEN yolo.names[yolo.lines[k].class + 1] ELSE NoLabel>>]
    BY <1>12, Zenon DEF BoxesOfYolo
  <2> QED BY <1>12, <1>13, <2>1
<1>15. Named(boxes) = [k \in 1 .. n |-> <<boxes[k].image, boxes[k].name>>]
  BY <1>9, Zenon DEF Named
<1> QED BY <1>10, <1>14, <1>15

LEMMA FilesMatch ==
    ASSUME NEW targets \in Seq(Samples)
    PROVE  CocoMatches(targets) /\ YoloMatches(targets)
<1>1. PICK boxes, named : /\ boxes = Boxed(Values(targets))
                          /\ named = BoxesOfTasks(LabelStudioTasks(targets))
  OBVIOUS
<1>2. named = Named(boxes) /\ BoxesOfRecords(HuggingFaceRecords(targets)) = named
  BY <1>1, FilesNameBoxes, BoxesOfValues
<1>3. PICK n \in Nat : DOMAIN boxes = 1 .. n
  <2>1. boxes \in Seq(Labelled)
    BY <1>1, BoxesOfValues, BoxedIsLabelled
  <2> QED BY <2>1
<1>4. [i \in DOMAIN named |-> <<named[i][1], {named[i][2]}>>] =
          [k \in DOMAIN boxes |-> <<boxes[k].image, {boxes[k].name}>>]
  <2>1. named = [k \in 1 .. n |-> <<boxes[k].image, boxes[k].name>>]
    BY <1>2, <1>3, Zenon DEF Named
  <2> QED BY <1>3, <2>1
<1>5. ASSUME OwnNames(Values(targets))
      PROVE  BoxesOfCoco(Coco(targets)) = [i \in DOMAIN named |-> <<named[i][1], {named[i][2]}>>]
  <2>1. BoxesOfCoco(Coco(targets)) = [k \in DOMAIN boxes |-> <<boxes[k].image, {boxes[k].name}>>]
    BY <1>1, <1>5, CocoNamesBoxes
  <2> QED BY <1>4, <2>1, Zenon
<1>6. CocoMatches(targets)
  BY <1>1, <1>2, <1>5, Zenon DEF CocoMatches
<1>7. ASSUME OwnNames(Values(targets)), IndexesComeFirst(YoloClasses(Values(targets)).keys)
      PROVE  BoxesOfYolo(Yolo(targets)) = named
  BY <1>1, <1>2, <1>7, YoloNamesBoxes, Zenon
<1>8. YoloMatches(targets)
  BY <1>1, <1>7, Zenon DEF YoloMatches
<1> QED BY <1>6, <1>8

(* Positions below a bound have a last one.                                *)
LEMMA MaxOfBounded ==
    ASSUME NEW D \in SUBSET Nat, D # {}, NEW m \in Nat, \A i \in D : i < m
    PROVE  Max(D) \in D
<1> DEFINE Bounds == {b \in Nat : \A i \in D : i < b}
<1>1. PICK b \in Bounds : \A c \in Bounds : b <= c
  <2>1. Bounds \in SUBSET Nat /\ Bounds # {}
    OBVIOUS
  <2> HIDE DEF Bounds
  <2> QED BY <2>1, LeastNumber
<1>2. b \in Nat /\ \A i \in D : i < b
  BY <1>1
<1>3. b # 0
  <2>1. PICK i \in D : i \in Nat
    OBVIOUS
  <2> QED BY <1>2, <2>1
<1>4. b - 1 \in Nat /\ b - 1 \notin Bounds
  <2>1. b - 1 \in Nat /\ ~(b <= b - 1)
    BY <1>2, <1>3
  <2> HIDE DEF Bounds
  <2> QED BY <1>1, <2>1
<1>5. PICK x \in D : ~(x < b - 1)
  BY <1>4
<1>6. \A y \in D : x >= y
  BY <1>2, <1>5
<1>7. Max(D) = CHOOSE z \in D : \A y \in D : z >= y
  BY Zenon DEF Max
<1> QED BY <1>6, <1>7, Zenon

(* What the modal is given is a list of samples.                           *)
LEMMA TargetsAreLists ==
    ASSUME held \in Cells, NEW m \in Nat, \A i \in DOMAIN held : i < m,
           NEW targets \in Targets
    PROVE  targets \in Seq(Samples)
<1>1. PICK n : n = Reach(held)
  OBVIOUS
<1>2. /\ DOMAIN held \subseteq Nat
      /\ \A i \in DOMAIN held : held[i] \in Samples
  BY CellsHoldSamples, PositionsAreNat
<1>3. n \in Nat
  <2>1. CASE DOMAIN held = {}
    BY <1>1, <2>1 DEF Reach
  <2>2. CASE DOMAIN held # {}
    <3>1. DOMAIN held \in SUBSET Nat
      BY <1>2
    <3>2. Max(DOMAIN held) \in DOMAIN held
      BY <2>2, <3>1, MaxOfBounded
    <3>3. n = Max(DOMAIN held) + 1
      BY <1>1, <2>2 DEF Reach
    <3> QED BY <1>2, <3>2, <3>3
  <2> QED BY <2>1, <2>2
<1>4. PICK T : T = Samples \cup {None}
  OBVIOUS
<1>5. PICK ids : ids = orderedIds(held)
  OBVIOUS
<1>6. ids \in Seq(T) /\ DOMAIN ids = 1 .. Len(ids)
  <2>1. ids = [k \in 1 .. n |-> IF k - 1 \in DOMAIN held THEN held[k - 1] ELSE None]
    BY <1>1, <1>5 DEF orderedIds
  <2>2. \A k \in 1 .. n : (IF k - 1 \in DOMAIN held THEN held[k - 1] ELSE None) \in T
    BY <1>2, <1>4
  <2> QED BY <1>3, <2>1, <2>2
<1>7. PICK there : there = {k \in DOMAIN ids : ids[k] # None}
  OBVIOUS
<1>8. PICK loaded : loaded = Pushed(ids, there)
  OBVIOUS
<1>9. loaded \in Seq(Samples)
  <2>1. /\ loaded \in Seq(T)
        /\ \A k \in 1 .. Len(loaded) : \E j \in (1 .. Len(ids)) \cap there : loaded[k] = ids[j]
    BY <1>6, <1>8, PushedIsOfList
  <2>2. \A j \in there : ids[j] \in Samples
    BY <1>4, <1>6, <1>7
  <2>3. \A k \in 1 .. Len(loaded) : loaded[k] \in Samples
    BY <2>1, <2>2
  <2>4. Len(loaded) \in Nat /\ loaded = [k \in 1 .. Len(loaded) |-> loaded[k]]
    BY <2>1
  <2> QED BY <2>3, <2>4
<1>10. allLoadedSamples = loaded
  BY <1>5, <1>7, <1>8, Zenon DEF allLoadedSamples
<1>11. targetSamples("loaded") = loaded
  BY <1>10, Zenon DEF targetSamples
<1>12. targetSamples("selected") \in Seq(Samples)
  <2>1. PICK chosen : chosen = {k \in DOMAIN loaded : loaded[k] \in selected}
    OBVIOUS
  <2>2. targetSamples("selected") = Pushed(loaded, chosen)
    <3>1. "selected" # "loaded"
      OBVIOUS
    <3> QED BY <1>10, <2>1, <3>1, Zenon DEF targetSamples
  <2> QED BY <1>9, <2>2, PushedIsOfList
<1> QED BY <1>9, <1>11, <1>12 DEF Targets

LEMMA TargetsMatch ==
    ASSUME DashboardInv, NEW targets \in Targets
    PROVE  CocoMatches(targets) /\ YoloMatches(targets)
<1>1. held \in Cells /\ \E m \in Nat : \A i \in DOMAIN held : i < m
  BY DEF DashboardInv, GridOK
<1> QED BY <1>1, TargetsAreLists, FilesMatch

(* Whatever labels, chunks and selection the modal is given, Label Studio, *)
(* Hugging Face and COCO files name the same classes for the same boxes    *)
(* (ExportModal.tsx:230).                                                  *)
THEOREM CocoFilesAgree == Spec => []CocoFilesMatch
<1>1. DashboardInv => CocoFilesMatch
  BY TargetsMatch DEF CocoFilesMatch
<1> QED BY <1>1, DashboardInvInit, DashboardInvNext, PTL DEF Spec

(* And YOLO files, while labels that look like an index come first         *)
(* (ExportModal.tsx:304).                                                  *)
THEOREM YoloFilesAgree == Spec => []YoloFilesMatch
<1>1. DashboardInv => YoloFilesMatch
  BY TargetsMatch DEF YoloFilesMatch
<1> QED BY <1>1, DashboardInvInit, DashboardInvNext, PTL DEF Spec
=============================================================================
