------------------------------ MODULE CommitLog ------------------------------
(***************************************************************************)
(* The commit log of internal/catalog: tag bitmaps, label rows, the table  *)
(* of commits, and HEAD.  Three operations write them, each inside one     *)
(* SQLite transaction on the pool's only connection:                       *)
(*                                                                         *)
(*   ApplySet    adds a tag to, or removes it from, a selection, and       *)
(*               stores the delta bitmap;                                  *)
(*   ApplyPatch  appends or edits labels one request entry after another,  *)
(*               and stores the value each entry replaced;                 *)
(*   Undo        inverts the commit at HEAD from what it stored, and moves *)
(*               HEAD to its parent.                                       *)
(*                                                                         *)
(* A set commit, and its undo, is a single action: nothing else can use    *)
(* the connection while its transaction is open, and a failed one changes  *)
(* nothing.  A patch commit, and its undo, is a loop, and is modelled step *)
(* by step, with the transaction's private copy of the label rows in       *)
(* `work`; an error, a cancellation or a crash between two steps rolls it  *)
(* back.                                                                   *)
(*                                                                         *)
(* A definition that stands just before another one with the same          *)
(* parameters, and is named for what it does differently, is a variant     *)
(* with a plausible bug: no specification uses it, and putting it in the   *)
(* place of the other one must make a property fail.                       *)
(***************************************************************************)
EXTENDS Integers, Sequences

CONSTANTS
    Ids,           \* sample ids a request may name (int64 in the code)
    IdWidth,       \* 2^32 in the code: a bitmap stores uint32(id)
    Samples,       \* ids of indexed samples: rows of table samples
    Tags,          \* tag values
    Fields,        \* declared labels fields
    LabelValues,   \* label objects
    NoLabel,       \* no row in table labels / prior_value NULL
    MaxIdx,        \* bound on idx within a sample's list of labels
    MaxCommits,    \* bound on the number of rows of table commits
    MaxPatches,    \* bound on the number of patches of a request
    DistinctEdits  \* TRUE: no request edits a label that it already touched

ASSUME IdWidthAssumption    == IdWidth \in Nat \ {0}
ASSUME IdsAssumption        == Ids \subseteq Nat /\ Samples \subseteq Nat
ASSUME NoLabelAssumption    == NoLabel \notin LabelValues
ASSUME FieldsAssumption     == "tags" \notin Fields
ASSUME BoundsAssumption     == MaxIdx \in Nat /\ MaxCommits \in Nat /\ MaxPatches \in Nat
ASSUME DistinctAssumption   == DistinctEdits \in BOOLEAN

Bits   == 0 .. IdWidth - 1
Idx    == 0 .. MaxIdx
Keys   == Samples \X Fields \X Idx
Values == LabelValues \cup {NoLabel}

(* Rows of commit_patches; `prior` is NoLabel for an appended label.       *)
PatchRows == [sample : Samples, idx : Idx, prior : Values]

(* Rows of commits.  A set commit has no patches, a patch commit no bitmap.*)
CommitRows ==
    [parent : Nat, kind : {"set", "patch"}, field : Fields \cup {"tags"},
     op : {"add", "remove", "none"}, value : Tags \cup {"none"},
     bitmap : SUBSET Bits, patches : Seq(PatchRows)]

TagState   == [Tags -> SUBSET Bits]
LabelState == [Keys -> Values]
Data       == [tags : TagState, labels : LabelState]
Empty      == [tags |-> [t \in Tags |-> {}], labels |-> [k \in Keys |-> NoLabel]]

VARIABLES
    tags,      \* table tag_bitmaps: the bits of each tag
    labels,    \* table labels: the value at each (sample, field, idx)
    commits,   \* table commits (with commit_patches); the id is the position
    head,      \* table head; 0 stands for NULL
    tx,        \* the open transaction: "none", "patch" or "undo"
    field,     \* the field of the open patch transaction
    work,      \* label rows as the open transaction sees them
    patches,   \* commit_patches rows the open patch transaction inserted
    pos,       \* next commit_patches row the open undo transaction inverts
    snaps      \* history variable: snaps[c] is the data commit c produced

tables == <<tags, labels, commits, head>>
txvars == <<tx, field, work, patches, pos>>
vars   == <<tags, labels, commits, head, tx, field, work, patches, pos, snaps>>

At(history, c) == IF c = 0 THEN Empty ELSE history[c]
Snap(c) == At(snaps, c)
Key(p, f) == <<p.sample, f, p.idx>>

TypeOK ==
    /\ tags \in TagState
    /\ labels \in LabelState
    /\ commits \in Seq(CommitRows)
    /\ head \in 0 .. Len(commits)
    /\ tx \in {"none", "patch", "undo"}
    /\ field \in Fields \cup {"tags"}
    /\ work \in LabelState
    /\ patches \in Seq(PatchRows)
    /\ pos \in Nat
    /\ snaps \in Seq(Data)
    /\ Len(snaps) = Len(commits)

Init ==
    /\ tags = Empty.tags
    /\ labels = Empty.labels
    /\ commits = <<>>
    /\ head = 0
    /\ tx = "none"
    /\ field = "tags"
    /\ work = Empty.labels
    /\ patches = <<>>
    /\ pos = 1
    /\ snaps = <<>>

-----------------------------------------------------------------------------
(* Set commits.                                                            *)

BitUntruncated(id) == id
Bit(id) == id % IdWidth

(* An explicit selection: the ids named, minus the ids excluded.           *)
ResolveSelection(ids, excluded) ==
    {Bit(id) : id \in ids} \ {Bit(id) : id \in excluded}

DeltaIsSelection(op, selected, bits) == selected

(* What the commit stores: the samples it changes, not those it matched.   *)
Delta(op, selected, bits) ==
    IF op = "add" THEN selected \ bits ELSE selected \cap bits

ApplyDelta(op, bits, delta) ==
    IF op = "add" THEN bits \cup delta ELSE bits \ delta

InvertDelta(op, bits, delta) ==
    IF op = "add" THEN bits \ delta ELSE bits \cup delta

SetRow(op, tag, delta) ==
    [parent |-> head, kind |-> "set", field |-> "tags", op |-> op,
     value |-> tag, bitmap |-> delta, patches |-> <<>>]

ApplySet(selected, op, tag) ==
    LET delta == Delta(op, selected, tags[tag])
        newTags == [tags EXCEPT ![tag] = ApplyDelta(op, @, delta)]
    IN  /\ tx = "none"
        /\ Len(commits) < MaxCommits
        /\ commits' = Append(commits, SetRow(op, tag, delta))
        /\ tags' = newTags
        /\ head' = Len(commits) + 1
        /\ snaps' = Append(snaps, [tags |-> newTags, labels |-> labels])
        /\ UNCHANGED <<labels, txvars>>

-----------------------------------------------------------------------------
(* Patch commits.                                                          *)

IsNextIndexFromOne(rows, s, f, i) ==
    /\ \A j \in Idx : rows[<<s, f, j>>] # NoLabel => j < i
    /\ i > 0
    /\ i > 1 => rows[<<s, f, i - 1>>] # NoLabel

(* i is MAX(idx) + 1 over the rows of the sample's field, 0 if it has none.*)
IsNextIndex(rows, s, f, i) ==
    /\ \A j \in Idx : rows[<<s, f, j>>] # NoLabel => j < i
    /\ i > 0 => rows[<<s, f, i - 1>>] # NoLabel

Touched(ps, f) == {Key(ps[n], f) : n \in DOMAIN ps}

BeginPatch(f) ==
    /\ tx = "none"
    /\ Len(commits) < MaxCommits
    /\ tx' = "patch"
    /\ field' = f
    /\ UNCHANGED <<tables, work, patches, pos, snaps>>

(* A patch without an index: a new row after the last one.                 *)
AppendLabel(s, i, v) ==
    /\ tx = "patch"
    /\ Len(patches) < MaxPatches
    /\ IsNextIndex(work, s, field, i)
    /\ work' = [work EXCEPT ![<<s, field, i>>] = v]
    /\ patches' = Append(patches, [sample |-> s, idx |-> i, prior |-> NoLabel])
    /\ UNCHANGED <<tables, tx, field, pos, snaps>>

EditLabelKeepsNewValue(s, i, v) ==
    /\ tx = "patch"
    /\ Len(patches) < MaxPatches
    /\ work[<<s, field, i>>] # NoLabel
    /\ DistinctEdits => <<s, field, i>> \notin Touched(patches, field)
    /\ work' = [work EXCEPT ![<<s, field, i>>] = v]
    /\ patches' = Append(patches, [sample |-> s, idx |-> i, prior |-> v])
    /\ UNCHANGED <<tables, tx, field, pos, snaps>>

(* A patch with an index: the row must exist; its value is kept as prior.  *)
EditLabel(s, i, v) ==
    /\ tx = "patch"
    /\ Len(patches) < MaxPatches
    /\ work[<<s, field, i>>] # NoLabel
    /\ DistinctEdits => <<s, field, i>> \notin Touched(patches, field)
    /\ work' = [work EXCEPT ![<<s, field, i>>] = v]
    /\ patches' = Append(patches,
                    [sample |-> s, idx |-> i, prior |-> work[<<s, field, i>>]])
    /\ UNCHANGED <<tables, tx, field, pos, snaps>>

PatchRow(f, ps) ==
    [parent |-> head, kind |-> "patch", field |-> f, op |-> "none",
     value |-> "none", bitmap |-> {}, patches |-> ps]

CommitPatch ==
    /\ tx = "patch"
    /\ patches # <<>>
    /\ labels' = work
    /\ commits' = Append(commits, PatchRow(field, patches))
    /\ head' = Len(commits) + 1
    /\ snaps' = Append(snaps, [tags |-> tags, labels |-> work])
    /\ tx' = "none"
    /\ field' = "tags"
    /\ patches' = <<>>
    /\ UNCHANGED <<tags, work, pos>>

-----------------------------------------------------------------------------
(* Undo.                                                                   *)

(* The check on expected_head, made inside the transaction; 0 stands for a *)
(* request without one.                                                    *)
HeadIsExpected(expected) == expected = 0 \/ expected = head

UndoSetToPreviousId(expected) ==
    LET row == commits[head] IN
    /\ tx = "none"
    /\ head # 0
    /\ HeadIsExpected(expected)
    /\ row.kind = "set"
    /\ tags' = [tags EXCEPT ![row.value] = InvertDelta(row.op, @, row.bitmap)]
    /\ head' = head - 1
    /\ UNCHANGED <<labels, commits, txvars, snaps>>

UndoSet(expected) ==
    LET row == commits[head] IN
    /\ tx = "none"
    /\ head # 0
    /\ HeadIsExpected(expected)
    /\ row.kind = "set"
    /\ tags' = [tags EXCEPT ![row.value] = InvertDelta(row.op, @, row.bitmap)]
    /\ head' = row.parent
    /\ UNCHANGED <<labels, commits, txvars, snaps>>

BeginUndoPatch(expected) ==
    /\ tx = "none"
    /\ head # 0
    /\ HeadIsExpected(expected)
    /\ commits[head].kind = "patch"
    /\ tx' = "undo"
    /\ UNCHANGED <<tables, field, work, patches, pos, snaps>>

RestorePriorKeepsAppended(rows, k, prior) ==
    IF prior = NoLabel THEN rows ELSE [rows EXCEPT ![k] = prior]

(* UPDATE ... SET value = prior, which matches no row if the label is not  *)
(* there, or DELETE for an appended label.                                 *)
RestorePrior(rows, k, prior) ==
    IF prior # NoLabel /\ rows[k] = NoLabel
    THEN rows
    ELSE [rows EXCEPT ![k] = prior]

UndoPatchRow ==
    LET row == commits[head] IN
    /\ tx = "undo"
    /\ pos \in DOMAIN row.patches
    /\ work' = RestorePrior(work, Key(row.patches[pos], row.field), row.patches[pos].prior)
    /\ pos' = pos + 1
    /\ UNCHANGED <<tables, tx, field, patches, snaps>>

CommitUndoDropsCommit ==
    LET row == commits[head] IN
    /\ tx = "undo"
    /\ pos = Len(row.patches) + 1
    /\ labels' = work
    /\ commits' = SubSeq(commits, 1, head - 1)
    /\ head' = row.parent
    /\ tx' = "none"
    /\ pos' = 1
    /\ snaps' = SubSeq(snaps, 1, head - 1)
    /\ UNCHANGED <<tags, field, work, patches>>

CommitUndo ==
    LET row == commits[head] IN
    /\ tx = "undo"
    /\ pos = Len(row.patches) + 1
    /\ labels' = work
    /\ head' = row.parent
    /\ tx' = "none"
    /\ pos' = 1
    /\ UNCHANGED <<tags, commits, field, work, patches, snaps>>

(* An error (no label at the index, an unknown sample), a cancelled        *)
(* context, or a crash before the commit.                                  *)
Rollback ==
    /\ tx # "none"
    /\ tx' = "none"
    /\ field' = "tags"
    /\ work' = labels
    /\ patches' = <<>>
    /\ pos' = 1
    /\ UNCHANGED <<tables, snaps>>

-----------------------------------------------------------------------------
ApplyPatch ==
    \/ \E f \in Fields : BeginPatch(f)
    \/ \E s \in Samples, i \in Idx, v \in LabelValues :
            AppendLabel(s, i, v) \/ EditLabel(s, i, v)
    \/ CommitPatch

Undo ==
    \/ \E expected \in 0 .. Len(commits) :
            UndoSet(expected) \/ BeginUndoPatch(expected)
    \/ UndoPatchRow
    \/ CommitUndo

Next ==
    \/ \E ids, excluded \in SUBSET Ids, op \in {"add", "remove"}, t \in Tags :
            ApplySet(ResolveSelection(ids, excluded), op, t)
    \/ ApplyPatch
    \/ Undo
    \/ Rollback

Spec == Init /\ [][Next]_vars

-----------------------------------------------------------------------------
(* Properties.                                                             *)

(* Tags are exactly what they were when the commit at HEAD was made,       *)
(* however many set commits, patch commits and undos, on whichever branch  *)
(* of the history, lie in between: a stored delta inverts its commit.      *)
TagsAreHeads == tags = Snap(head).tags

(* The same for labels: after any sequence of commits and undos each label *)
(* list holds the rows and the values that the commit at HEAD produced.    *)
LabelsAreHeads == labels = Snap(head).labels

(* Which label rows exist is as the commit at HEAD left it, whatever their *)
(* values: this holds even for requests that edit a label twice, because   *)
(* an undo deletes what was appended and its UPDATEs create nothing.       *)
LabelRowsAreHeads ==
    \A k \in Keys : labels[k] = NoLabel <=> Snap(head).labels[k] = NoLabel

(* Clients only see lists, and name a label by its place in the list; the  *)
(* code looks it up by the stored idx.  The two agree because the indexes  *)
(* of a list never have a gap where a client or a later patch can see them *)
(* (an undo, which deletes appended labels in the order they were          *)
(* appended, makes gaps that it closes before it commits).                 *)
Gapless(rows) ==
    \A s \in Samples, f \in Fields, i, j \in Idx :
        i < j /\ rows[<<s, f, j>>] # NoLabel => rows[<<s, f, i>>] # NoLabel
PlaceIsIndex == Gapless(labels) /\ (tx = "patch" => Gapless(work))

(* Every commit can be inverted from what it stored, whether HEAD is on it *)
(* or not: the data of its parent follows from its own data and its row.   *)
TagsInvert(row, old, new) ==
    \/ /\ row.kind = "set"
       /\ row.op \in {"add", "remove"} /\ row.value \in Tags
       /\ old.tags = [new.tags EXCEPT ![row.value] = InvertDelta(row.op, @, row.bitmap)]
    \/ row.kind = "patch" /\ old.tags = new.tags

PatchesInvert(ps, f, old, new) ==
    /\ \A k \in Keys \ Touched(ps, f) : old[k] = new[k]
    /\ \A n \in DOMAIN ps :
            old[Key(ps[n], f)] = ps[n].prior /\ new[Key(ps[n], f)] # NoLabel

LabelsInvert(row, old, new) ==
    \/ row.kind = "set" /\ old.labels = new.labels
    \/ /\ row.kind = "patch"
       /\ row.field \in Fields
       /\ PatchesInvert(row.patches, row.field, old.labels, new.labels)

EveryCommitInverts ==
    \A c \in 1 .. Len(commits) :
        LET old == Snap(commits[c].parent) IN
        TagsInvert(commits[c], old, Snap(c)) /\ LabelsInvert(commits[c], old, Snap(c))

(* The history is a forest whose edges point to older commits, so a walk   *)
(* up the parents from any commit, such as ListCommits and overlayAtCommit *)
(* make, ends.                                                             *)
ParentsAreOlder == \A c \in 1 .. Len(commits) : commits[c].parent < c

(* The log implements the versioned dataset.                               *)
Versioned == INSTANCE VersionedDataset WITH
    data     <- [tags |-> tags, labels |-> labels],
    versions <- snaps,
    parents  <- [c \in 1 .. Len(commits) |-> commits[c].parent],
    cur      <- head
ImplementsVersionedDataset == Versioned!Spec

(* A commit is never rewritten or dropped, not even by the undo that makes *)
(* it unreachable; and HEAD only ever moves to a commit made just then or  *)
(* to the parent of the commit it was on.                                  *)
LogOnlyGrows ==
    [][/\ \A c \in DOMAIN commits : c \in DOMAIN commits' /\ commits'[c] = commits[c]
       /\ head' \in {head, Len(commits) + 1} \/ (head # 0 /\ head' = commits[head].parent)]_vars
=============================================================================
