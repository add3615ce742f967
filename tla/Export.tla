------------------------------ MODULE Export ------------------------------
(***************************************************************************)
(* The files that the dashboard's export modal makes of the samples it is  *)
(* given (web/src/components/ExportModal.tsx): Label Studio tasks, COCO,   *)
(* YOLO and Hugging Face records.  What a file says of boxes and their     *)
(* classes is modelled; coordinates, URIs and wording are data.            *)
(*                                                                         *)
(* Variants with a plausible bug stand before the definitions they vary.   *)
(***************************************************************************)
EXTENDS Naturals, Sequences, FiniteSets, SequencesExt

CONSTANTS
    LabelsOf,  \* LabelsOf[s]: the label values of a sample, field by field
    Number,    \* the numbers of the names that JavaScript takes for array indexes
    Inherited  \* the names that every object has (constructor, toString)

NoLabel == "a value whose label is not a string"

LabelValue  == [field : STRING, label : STRING, boxed : BOOLEAN]
IntegerLike == DOMAIN Number

ASSUME NumberAssumption == Number \in [IntegerLike -> Nat]

(* What a loop over s pushes, if it pushes at the positions in pushed.     *)
Pushed(s, pushed) ==
    LET list[i \in 0 .. Len(s)] ==
            IF i = 0 THEN <<>>
            ELSE IF i \in pushed THEN Append(list[i - 1], s[i]) ELSE list[i - 1]
    IN  list[Len(s)]

(* typeof v.label === "string" ? v.label : fieldName                       *)
name(v) == IF v.label = NoLabel THEN v.field ELSE v.label

(* The label values of a sample, and of all samples in order.              *)
ValuesOf(s) ==
    [j \in DOMAIN LabelsOf[s] |->
        [image |-> s, name |-> name(LabelsOf[s][j]), boxed |-> LabelsOf[s][j].boxed]]

Values(targets) == FlattenSeq([i \in DOMAIN targets |-> ValuesOf(targets[i])])

IsBoxed(values) == {i \in DOMAIN values : values[i].boxed}
Boxed(values) == Pushed(values, IsBoxed(values))

-----------------------------------------------------------------------------
BoxNames(s) == LET boxes == Boxed(ValuesOf(s)) IN [j \in DOMAIN boxes |-> boxes[j].name]

(* Label Studio: a task per sample, a rectangle per box.                   *)
LabelStudioTasks(targets) ==
    [i \in DOMAIN targets |->
        [id |-> targets[i],
         rectanglelabels |-> BoxNames(targets[i])]]

(* Hugging Face: a record per sample, with objects if it has a box.        *)
HuggingFaceRecords(targets) ==
    [i \in DOMAIN targets |->
        [image |-> targets[i],
         category |-> BoxNames(targets[i])]]

-----------------------------------------------------------------------------
(* COCO.                                                                   *)

(* Keys of an object: integer-like ones ascending, then as inserted.       *)
ListedBefore(inserted, i, j) ==
    IF inserted[i] \in IntegerLike
    THEN inserted[j] \in IntegerLike => Number[inserted[i]] < Number[inserted[j]]
    ELSE inserted[j] \notin IntegerLike /\ i < j

ObjectKeys(inserted) ==
    [k \in DOMAIN inserted |->
        inserted[CHOOSE j \in DOMAIN inserted :
                     Cardinality({i \in DOMAIN inserted : ListedBefore(inserted, i, j)}) = k - 1]]

NoCategories == [ids |-> [n \in {} |-> 0], keys |-> <<>>]

WithId(categories, n, id) ==
    [ids  |-> [m \in DOMAIN categories.ids \cup {n} |->
                  IF m = n THEN id ELSE categories.ids[m]],
     keys |-> IF n \in DOMAIN categories.ids THEN categories.keys
              ELSE Append(categories.keys, n)]

(* if (!categories[label]) categories[label] = number of keys + 1: an id   *)
(* of 0 would count as none.  What the files say of an inherited name is   *)
(* left open.                                                              *)
CategoryFromZero(categories, n) ==
    IF n \in Inherited \/ (n \in DOMAIN categories.ids /\ categories.ids[n] # 0) THEN categories
    ELSE WithId(categories, n, Len(categories.keys))

CocoCategory(categories, n) ==
    IF n \in Inherited \/ (n \in DOMAIN categories.ids /\ categories.ids[n] # 0) THEN categories
    ELSE WithId(categories, n, Len(categories.keys) + 1)

(* The loop over the label values, after each: the annotations so far and  *)
(* the categories.                                                         *)
CocoStep(before, value) ==
    LET categories == CocoCategory(before.categories, value.name)
    IN  [categories  |-> categories,
         annotations |->
             IF value.boxed
             THEN Append(before.annotations,
                         [id |-> Len(before.annotations) + 1, image_id |-> value.image,
                          category_id |-> categories.ids[value.name]])
             ELSE before.annotations]

CocoLoop(values) ==
    LET after[i \in 0 .. Len(values)] ==
            IF i = 0 THEN [categories |-> NoCategories, annotations |-> <<>>]
            ELSE CocoStep(after[i - 1], values[i])
    IN  after[Len(values)]

Coco(targets) ==
    LET end == CocoLoop(Values(targets))
        ids == end.categories.ids
    IN  [images      |-> targets,
         annotations |-> end.annotations,
         categories  |-> {[id |-> ids[n], name |-> n] : n \in DOMAIN ids}]

-----------------------------------------------------------------------------
(* YOLO: classes are numbered from 0 in a first pass over all labels, and  *)
(* the file names them by the keys of the same object.                     *)
YoloClassFromOne(categories, n) ==
    IF n \in Inherited \cup DOMAIN categories.ids THEN categories
    ELSE WithId(categories, n, Len(categories.keys) + 1)

YoloClass(categories, n) ==
    IF n \in Inherited \cup DOMAIN categories.ids THEN categories
    ELSE WithId(categories, n, Len(categories.keys))

YoloClasses(values) ==
    LET after[i \in 0 .. Len(values)] ==
            IF i = 0 THEN NoCategories ELSE YoloClass(after[i - 1], values[i].name)
    IN  after[Len(values)]

Yolo(targets) ==
    LET values  == Values(targets)
        classes == YoloClasses(values)
        boxes   == Boxed(values)
    IN  [names |-> ObjectKeys(classes.keys),
         lines |-> [i \in DOMAIN boxes |->
                       [image |-> boxes[i].image, class |-> classes.ids[boxes[i].name]]]]

-----------------------------------------------------------------------------
(* What the formats say of the boxes: whose they are and what they are of. *)

BoxesOfTasks(tasks) ==
    FlattenSeq([i \in DOMAIN tasks |->
        [j \in DOMAIN tasks[i].rectanglelabels |-> <<tasks[i].id, tasks[i].rectanglelabels[j]>>]])

BoxesOfRecords(records) ==
    FlattenSeq([i \in DOMAIN records |->
        [j \in DOMAIN records[i].category |-> <<records[i].image, records[i].category[j]>>]])

(* Each annotation with the names that the file gives its category.        *)
BoxesOfCoco(coco) ==
    [i \in DOMAIN coco.annotations |->
        <<coco.annotations[i].image_id,
          {c.name : c \in {c \in coco.categories : c.id = coco.annotations[i].category_id}}>>]

BoxesOfYolo(yolo) ==
    [i \in DOMAIN yolo.lines |->
        <<yolo.lines[i].image,
          IF yolo.lines[i].class + 1 \in DOMAIN yolo.names
          THEN yolo.names[yolo.lines[i].class + 1] ELSE NoLabel>>]

OwnNames(values) == \A i \in DOMAIN values : values[i].name \notin Inherited

CocoMatches(targets) ==
    LET tasks == BoxesOfTasks(LabelStudioTasks(targets))
    IN  /\ BoxesOfRecords(HuggingFaceRecords(targets)) = tasks
        /\ OwnNames(Values(targets)) =>
               BoxesOfCoco(Coco(targets)) = [i \in DOMAIN tasks |-> <<tasks[i][1], {tasks[i][2]}>>]

IndexesComeFirst(keys) ==
    \A i \in DOMAIN keys : i > 1 => keys[i] \notin IntegerLike

YoloMatches(targets) ==
    LET values == Values(targets)
    IN  OwnNames(values) /\ IndexesComeFirst(YoloClasses(values).keys) =>
            BoxesOfYolo(Yolo(targets)) = BoxesOfTasks(LabelStudioTasks(targets))
=============================================================================
