--------------------------- MODULE CommitLogProofs ---------------------------
(***************************************************************************)
(* Proofs about CommitLog, and about the pinned reads next to its writers, *)
(* for every value of their constants.                                     *)
(*                                                                         *)
(* Type correctness and the shape of the log hold unconditionally.  That   *)
(* undo is exact, that the log implements VersionedDataset, and that       *)
(* pinned reads are exact, is proved for requests that edit no label twice *)
(* (DistinctEdits): without that assumption TLC refutes the first (run     *)
(* undo_repeated_edit), and the others rest on it.                         *)
(***************************************************************************)
EXTENDS PinnedRead, SequenceTheorems, WellFoundedInduction, TLAPS

-----------------------------------------------------------------------------
(* The type invariant is inductive with what keeps HEAD inside the table.  *)

TypeInv ==
    /\ TypeOK
    /\ ParentsAreOlder
    /\ tx = "undo" => head # 0
    /\ tx = "patch" => field \in Fields

(* Appending to a sequence keeps what is there, whatever it holds.         *)
LEMMA AppendKeeps ==
    ASSUME NEW S, NEW s \in Seq(S), NEW x \in S
    PROVE  /\ Append(s, x) \in Seq(S)
           /\ Len(Append(s, x)) = Len(s) + 1
           /\ DOMAIN Append(s, x) = 1 .. Len(s) + 1
           /\ \A i \in 1 .. Len(s) : Append(s, x)[i] = s[i]
           /\ Append(s, x)[Len(s) + 1] = x
  BY AppendProperties, LenProperties

(* A selection only names bits a bitmap has.                               *)
LEMMA SelectionsAreBits ==
    ASSUME NEW ids \in SUBSET Ids, NEW excluded \in SUBSET Ids
    PROVE  ResolveSelection(ids, excluded) \in SUBSET Bits
  BY IdWidthAssumption, IdsAssumption DEF ResolveSelection, Bit, Bits

(* A new commit, of either kind, is a row of the table.                    *)
LEMMA RowTypes ==
    ASSUME TypeOK
    PROVE  /\ \A op \in {"add", "remove"}, t \in Tags, delta \in SUBSET Bits :
                    SetRow(op, t, delta) \in CommitRows
           /\ \A f \in Fields \cup {"tags"}, ps \in Seq(PatchRows) :
                    PatchRow(f, ps) \in CommitRows
  BY EmptySeq DEF TypeOK, SetRow, PatchRow, CommitRows

(* Every state has the types of TypeOK, and every parent is older.         *)
LEMMA TypeInvInit == Init => TypeInv
  BY EmptySeq, IdWidthAssumption, BoundsAssumption
  DEF Init, TypeInv, TypeOK, ParentsAreOlder, Empty, TagState, LabelState, Values

LEMMA ApplySetTypes ==
    ASSUME TypeInv, NEW selected \in SUBSET Bits, NEW op \in {"add", "remove"},
           NEW t \in Tags, ApplySet(selected, op, t)
    PROVE  TypeInv'
<1> DEFINE delta == Delta(op, selected, tags[t])
           newTags == [tags EXCEPT ![t] = ApplyDelta(op, @, delta)]
<1>1. delta \in SUBSET Bits
  BY DEF Delta, TypeInv, TypeOK, TagState
<1>2. newTags \in TagState
  BY <1>1 DEF ApplyDelta, TypeInv, TypeOK, TagState
<1>3. SetRow(op, t, delta) \in CommitRows /\ SetRow(op, t, delta).parent = head
  BY <1>1, RowTypes DEF TypeInv, SetRow
<1>4. [tags |-> newTags, labels |-> labels] \in Data
  BY <1>2 DEF Data, TypeInv, TypeOK
<1>5. /\ commits' = Append(commits, SetRow(op, t, delta))
      /\ snaps' = Append(snaps, [tags |-> newTags, labels |-> labels])
      /\ tags' = newTags /\ head' = Len(commits) + 1
      /\ UNCHANGED <<labels, tx, field, work, patches, pos>>
      /\ tx = "none"
  BY DEF ApplySet, txvars
<1>6. /\ commits' \in Seq(CommitRows) /\ Len(commits') = Len(commits) + 1
      /\ \A c \in 1 .. Len(commits) : commits'[c] = commits[c]
      /\ commits'[Len(commits) + 1].parent = head
  BY <1>3, <1>5, AppendKeeps DEF TypeInv, TypeOK
<1>7. snaps' \in Seq(Data) /\ Len(snaps') = Len(snaps) + 1
  BY <1>4, <1>5, AppendKeeps DEF TypeInv, TypeOK
<1>8. Len(commits) \in Nat
  BY LenProperties DEF TypeInv, TypeOK
<1>9. TypeOK'
  BY <1>2, <1>5, <1>6, <1>7, <1>8 DEF TypeInv, TypeOK
<1>10. ParentsAreOlder'
  BY <1>6, <1>8 DEF TypeInv, TypeOK, ParentsAreOlder
<1> QED BY <1>5, <1>9, <1>10 DEF TypeInv

LEMMA CommitPatchTypes == TypeInv /\ CommitPatch => TypeInv'
<1> SUFFICES ASSUME TypeInv, CommitPatch PROVE TypeInv'
  OBVIOUS
<1>1. PatchRow(field, patches) \in CommitRows /\ PatchRow(field, patches).parent = head
  BY RowTypes DEF TypeInv, TypeOK, PatchRow
<1>2. [tags |-> tags, labels |-> work] \in Data
  BY DEF Data, TypeInv, TypeOK
<1>3. /\ commits' \in Seq(CommitRows) /\ Len(commits') = Len(commits) + 1
      /\ \A c \in 1 .. Len(commits) : commits'[c] = commits[c]
      /\ commits'[Len(commits) + 1].parent = head
  BY <1>1, AppendKeeps DEF TypeInv, TypeOK, CommitPatch
<1>4. snaps' \in Seq(Data) /\ Len(snaps') = Len(snaps) + 1
  BY <1>2, AppendKeeps DEF TypeInv, TypeOK, CommitPatch
<1>5. Len(commits) \in Nat
  BY LenProperties DEF TypeInv, TypeOK
<1>6. TypeOK'
  BY <1>3, <1>4, <1>5, EmptySeq DEF TypeInv, TypeOK, CommitPatch
<1>7. ParentsAreOlder'
  BY <1>3, <1>5 DEF TypeInv, TypeOK, ParentsAreOlder
<1> QED BY <1>6, <1>7 DEF TypeInv, CommitPatch

(* The steps that write neither the log nor HEAD.                          *)
LEMMA PatchStepTypes ==
    ASSUME TypeInv, NEW s \in Samples, NEW i \in Idx, NEW v \in LabelValues,
           AppendLabel(s, i, v) \/ EditLabel(s, i, v)
    PROVE  TypeInv'
<1>1. \E prior \in Values : patches' = Append(patches, [sample |-> s, idx |-> i, prior |-> prior])
  <2>1. CASE AppendLabel(s, i, v)
    BY <2>1 DEF AppendLabel, Values
  <2>2. CASE EditLabel(s, i, v)
    BY <2>2 DEF EditLabel, TypeInv, TypeOK, LabelState, Keys
  <2> QED BY <2>1, <2>2
<1>2. patches' \in Seq(PatchRows)
  BY <1>1, AppendProperties DEF TypeInv, TypeOK, PatchRows
<1>3. work' \in LabelState
  BY DEF TypeInv, TypeOK, LabelState, Values, AppendLabel, EditLabel
<1>4. UNCHANGED <<tags, labels, commits, head, tx, field, pos, snaps>>
  BY DEF AppendLabel, EditLabel, tables
<1> QED BY <1>2, <1>3, <1>4 DEF TypeInv, TypeOK, ParentsAreOlder

LEMMA UndoStepTypes == TypeInv /\ (UndoPatchRow \/ CommitUndo) => TypeInv'
<1> SUFFICES ASSUME TypeInv PROVE UndoPatchRow \/ CommitUndo => TypeInv'
  OBVIOUS
<1> DEFINE row == commits[head]
<1>1. tx = "undo" => head \in 1 .. Len(commits) /\ row \in CommitRows
  BY LenProperties DEF TypeInv, TypeOK
<1>2. CASE UndoPatchRow
  <2>1. row.patches[pos] \in PatchRows
    BY <1>1, <1>2, ElementOfSeq DEF UndoPatchRow, CommitRows
  <2>2. work' \in LabelState
    BY <1>2, <2>1 DEF UndoPatchRow, RestorePrior, PatchRows, TypeInv, TypeOK, LabelState
  <2> QED BY <1>2, <2>2 DEF UndoPatchRow, tables, TypeInv, TypeOK, ParentsAreOlder
<1>3. CASE CommitUndo
  <2>1. head' \in 0 .. Len(commits)
    BY <1>1, <1>3, LenProperties DEF CommitUndo, TypeInv, TypeOK, ParentsAreOlder, CommitRows
  <2> QED BY <1>3, <2>1 DEF CommitUndo, TypeInv, TypeOK, ParentsAreOlder
<1> QED BY <1>2, <1>3

LEMMA UndoSetTypes ==
    ASSUME TypeInv, NEW expected, UndoSet(expected)
    PROVE  TypeInv'
<1> DEFINE row == commits[head]
<1>1. head \in 1 .. Len(commits) /\ row \in CommitRows
  BY LenProperties DEF TypeInv, TypeOK, UndoSet
<1>2. tags' \in TagState
  BY <1>1 DEF UndoSet, InvertDelta, CommitRows, TypeInv, TypeOK, TagState
<1>3. head' \in 0 .. Len(commits)
  BY <1>1, LenProperties DEF UndoSet, TypeInv, TypeOK, ParentsAreOlder, CommitRows
<1> QED BY <1>2, <1>3 DEF UndoSet, txvars, TypeInv, TypeOK, ParentsAreOlder

LEMMA TypeInvNext == TypeInv /\ [Next]_vars => TypeInv'
<1> SUFFICES ASSUME TypeInv, [Next]_vars PROVE TypeInv'
  OBVIOUS
<1>1. ASSUME NEW ids \in SUBSET Ids, NEW excluded \in SUBSET Ids,
             NEW op \in {"add", "remove"}, NEW t \in Tags,
             ApplySet(ResolveSelection(ids, excluded), op, t)
      PROVE  TypeInv'
  BY <1>1, SelectionsAreBits, ApplySetTypes
<1>2. CASE ApplyPatch
  <2>1. ASSUME NEW f \in Fields, BeginPatch(f) PROVE TypeInv'
    BY <2>1 DEF BeginPatch, tables, TypeInv, TypeOK, ParentsAreOlder
  <2>2. CASE CommitPatch
    BY <2>2, CommitPatchTypes
  <2> QED BY <1>2, <2>1, <2>2, PatchStepTypes DEF ApplyPatch
<1>3. CASE Undo
  <2>1. ASSUME NEW expected \in 0 .. Len(commits), BeginUndoPatch(expected) PROVE TypeInv'
    BY <2>1 DEF BeginUndoPatch, tables, TypeInv, TypeOK, ParentsAreOlder
  <2> QED BY <1>3, <2>1, UndoSetTypes, UndoStepTypes DEF Undo
<1>4. CASE Rollback
  BY <1>4, EmptySeq DEF Rollback, tables, TypeInv, TypeOK, ParentsAreOlder
<1>5. CASE UNCHANGED vars
  BY <1>5 DEF vars, TypeInv, TypeOK, ParentsAreOlder
<1> QED BY <1>1, <1>2, <1>3, <1>4, <1>5 DEF Next

LEMMA TypeInvariance == Spec => []TypeInv
  BY TypeInvInit, TypeInvNext, PTL DEF Spec

(* Every reachable state has the types of TypeOK, whatever the constants   *)
(* and whether or not requests repeat a label.                             *)
THEOREM TypeCorrect == Spec => []TypeOK
<1>1. TypeInv => TypeOK
  BY DEF TypeInv
<1> QED BY <1>1, TypeInvariance, PTL

(* A walk up the parents of any commit meets ever older commits, and ends. *)
THEOREM ChainsEnd == Spec => []ParentsAreOlder
<1>1. TypeInv => ParentsAreOlder
  BY DEF TypeInv
<1> QED BY <1>1, TypeInvariance, PTL

-----------------------------------------------------------------------------
(* Tags.  What makes `tags = Snap(head).tags` inductive is that every      *)
(* commit of the log, on HEAD's chain or off it, inverts to its parent:    *)
(* undo needs it of the commit at HEAD, and any commit may become that.    *)

TagInv ==
    /\ TypeInv
    /\ TagsAreHeads
    /\ \A c \in 1 .. Len(commits) : TagsInvert(commits[c], Snap(commits[c].parent), Snap(c))
    /\ tx = "undo" => commits[head].kind = "patch"

(* A step that appends a commit: each commit of the new log is an old one, *)
(* with the data it and its parent had, or the new one.                    *)
LEMMA HistoryKept ==
    ASSUME TypeInv, NEW row \in CommitRows, NEW d \in Data,
           row.parent \in 0 .. Len(commits),
           commits' = Append(commits, row), snaps' = Append(snaps, d)
    PROVE  /\ Len(commits) \in Nat /\ Len(commits') = Len(commits) + 1
           /\ At(snaps', Len(commits) + 1) = d
           /\ \A c \in 1 .. Len(commits') :
                \/ /\ c \in 1 .. Len(commits) /\ commits'[c] = commits[c]
                   /\ At(snaps', commits'[c].parent) = Snap(commits[c].parent)
                   /\ At(snaps', c) = Snap(c)
                \/ /\ c = Len(commits) + 1 /\ commits'[c] = row
                   /\ At(snaps', commits'[c].parent) = Snap(row.parent)
                   /\ At(snaps', c) = d
<1>1. commits \in Seq(CommitRows) /\ snaps \in Seq(Data) /\ Len(snaps) = Len(commits)
  BY DEF TypeInv, TypeOK
<1>2. Len(commits) \in Nat
  BY <1>1, LenProperties
<1>3. \A c \in 1 .. Len(commits) : commits'[c] = commits[c] /\ snaps'[c] = snaps[c]
  BY <1>1, AppendKeeps
<1>4. /\ Len(commits') = Len(commits) + 1
      /\ commits'[Len(commits) + 1] = row /\ snaps'[Len(commits) + 1] = d
  BY <1>1, AppendKeeps
<1>5. ASSUME NEW c \in 0 .. Len(commits) PROVE At(snaps', c) = Snap(c)
  <2>1. CASE c = 0
    BY <2>1 DEF Snap, At
  <2>2. CASE c \in 1 .. Len(commits)
    <3>1. c # 0
      BY <1>2, <2>2
    <3>2. snaps'[c] = snaps[c]
      BY <1>3, <2>2
    <3> QED BY <3>1, <3>2 DEF Snap, At
  <2> QED BY <1>2, <2>1, <2>2
<1>6. At(snaps', Len(commits) + 1) = d
  BY <1>2, <1>4 DEF At
<1>7. ASSUME NEW c \in 1 .. Len(commits)
      PROVE  /\ commits'[c] = commits[c]
             /\ At(snaps', commits[c].parent) = Snap(commits[c].parent)
             /\ At(snaps', c) = Snap(c)
  <2>1. commits[c] \in CommitRows
    BY <1>1, ElementOfSeq
  <2>2. commits[c].parent \in Nat /\ commits[c].parent < c
    BY <2>1 DEF CommitRows, TypeInv, ParentsAreOlder
  <2>3. commits[c].parent \in 0 .. Len(commits) /\ c \in 0 .. Len(commits)
    BY <1>2, <2>2
  <2> QED BY <1>3, <1>5, <2>3
<1>8. At(snaps', row.parent) = Snap(row.parent)
  BY <1>5
<1>9. ASSUME NEW c \in 1 .. Len(commits')
      PROVE  c \in 1 .. Len(commits) \/ c = Len(commits) + 1
  BY <1>2, <1>4
<1> QED BY <1>2, <1>4, <1>6, <1>7, <1>8, <1>9

(* The delta a set commit stores inverts it, whatever it found.            *)
LEMMA DeltaInverts ==
    ASSUME NEW op \in {"add", "remove"}, NEW selected, NEW bits
    PROVE  InvertDelta(op, ApplyDelta(op, bits, Delta(op, selected, bits)),
                       Delta(op, selected, bits)) = bits
  BY DEF InvertDelta, ApplyDelta, Delta

(* A commit whose row inverts the data it makes to the data at HEAD.       *)
LEMMA CommitKeepsTags ==
    ASSUME TagInv, TypeInv', NEW row \in CommitRows, NEW d \in Data,
           commits' = Append(commits, row), snaps' = Append(snaps, d),
           row.parent = head, head' = Len(commits) + 1, tx' = "none",
           tags' = d.tags, TagsInvert(row, Snap(head), d)
    PROVE  TagInv'
<1>1. row.parent \in 0 .. Len(commits)
  BY DEF TagInv, TypeInv, TypeOK
<1>2. d = At(snaps', head')
  BY <1>1, HistoryKept DEF TagInv
<1>3. TagsAreHeads'
  BY <1>2 DEF TagsAreHeads, Snap
<1>4. ASSUME NEW c \in 1 .. Len(commits')
      PROVE  TagsInvert(commits'[c], At(snaps', commits'[c].parent), At(snaps', c))
  <2>1. CASE c \in 1 .. Len(commits)
    <3>1. TagsInvert(commits[c], Snap(commits[c].parent), Snap(c))
      BY <2>1 DEF TagInv
    <3> QED BY <1>1, <2>1, <3>1, HistoryKept DEF TagInv
  <2>2. CASE c = Len(commits) + 1
    BY <1>1, <2>2, HistoryKept DEF TagInv
  <2> QED BY <1>1, <2>1, <2>2, HistoryKept DEF TagInv
<1> QED BY <1>3, <1>4 DEF TagInv, Snap

LEMMA ApplySetTags ==
    ASSUME TagInv, NEW selected \in SUBSET Bits, NEW op \in {"add", "remove"},
           NEW t \in Tags, ApplySet(selected, op, t)
    PROVE  TagInv'
<1> DEFINE delta == Delta(op, selected, tags[t])
           newTags == [tags EXCEPT ![t] = ApplyDelta(op, @, delta)]
           row == SetRow(op, t, delta)
           d == [tags |-> newTags, labels |-> labels]
<1>1. tags \in TagState /\ labels \in LabelState
  BY DEF TagInv, TypeInv, TypeOK
<1>2. delta \in SUBSET Bits /\ newTags \in TagState
  BY <1>1 DEF Delta, ApplyDelta, TagState
<1>3. row \in CommitRows /\ d \in Data
  BY <1>1, <1>2, RowTypes DEF TagInv, TypeInv, Data
<1>4. /\ commits' = Append(commits, row) /\ snaps' = Append(snaps, d)
      /\ tags' = newTags /\ head' = Len(commits) + 1 /\ tx' = "none"
  BY DEF ApplySet, txvars
<1>5. TypeInv'
  BY ApplySetTypes DEF TagInv
<1>6. row.parent = head /\ tags' = d.tags
  BY <1>4 DEF SetRow
<1>7. tags = [newTags EXCEPT ![t] = InvertDelta(op, @, delta)]
  BY <1>1, DeltaInverts DEF TagState
<1>8. TagsInvert(row, Snap(head), d)
  BY <1>7 DEF TagsInvert, SetRow, TagInv, TagsAreHeads
<1> HIDE DEF row, d, newTags
<1> QED BY <1>3, <1>4, <1>5, <1>6, <1>8, CommitKeepsTags

LEMMA CommitPatchTags == TagInv /\ CommitPatch => TagInv'
<1> SUFFICES ASSUME TagInv, CommitPatch PROVE TagInv'
  OBVIOUS
<1> DEFINE row == PatchRow(field, patches)
           d == [tags |-> tags, labels |-> work]
<1>1. row \in CommitRows /\ d \in Data
  BY RowTypes DEF TagInv, TypeInv, TypeOK, Data
<1>2. /\ commits' = Append(commits, row) /\ snaps' = Append(snaps, d)
      /\ row.parent = head /\ head' = Len(commits) + 1 /\ tx' = "none"
      /\ tags' = d.tags
  BY DEF CommitPatch, PatchRow
<1>3. TypeInv'
  BY CommitPatchTypes DEF TagInv
<1>4. TagsInvert(row, Snap(head), d)
  BY DEF TagsInvert, PatchRow, TagInv, TagsAreHeads
<1> HIDE DEF row, d
<1> QED BY <1>1, <1>2, <1>3, <1>4, CommitKeepsTags

LEMMA UndoTags ==
    ASSUME TagInv, TypeInv', CommitUndo \/ \E expected : UndoSet(expected)
    PROVE  TagInv'
<1> DEFINE row == commits[head]
<1>1. head \in 1 .. Len(commits)
  BY LenProperties DEF TagInv, TypeInv, TypeOK, CommitUndo, UndoSet
<1>2. /\ UNCHANGED <<commits, snaps>> /\ head' = row.parent /\ tx' = "none"
      /\ CommitUndo => tags' = tags /\ row.kind = "patch"
      /\ ~CommitUndo => /\ row.kind = "set"
                        /\ tags' = [tags EXCEPT ![row.value] = InvertDelta(row.op, @, row.bitmap)]
  BY DEF TagInv, CommitUndo, UndoSet, txvars
<1>3. TagsInvert(row, Snap(row.parent), Snap(head))
  BY <1>1 DEF TagInv
<1>4. tags' = Snap(row.parent).tags
  BY <1>2, <1>3 DEF TagsInvert, TagInv, TagsAreHeads
<1> QED BY <1>2, <1>4 DEF TagInv, TagsAreHeads, Snap

LEMMA TagInvNext == TagInv /\ [Next]_vars => TagInv'
<1> SUFFICES ASSUME TagInv, [Next]_vars PROVE TagInv'
  OBVIOUS
<1>1. TypeInv'
  BY TypeInvNext DEF TagInv
<1>2. ASSUME UNCHANGED <<tags, commits, head, snaps>>,
             tx' = "undo" => tx = "undo" \/ commits[head].kind = "patch"
      PROVE  TagInv'
  BY <1>1, <1>2 DEF TagInv, TagsAreHeads, Snap
<1>3. ASSUME NEW ids \in SUBSET Ids, NEW excluded \in SUBSET Ids,
             NEW op \in {"add", "remove"}, NEW t \in Tags,
             ApplySet(ResolveSelection(ids, excluded), op, t)
      PROVE  TagInv'
  BY <1>3, SelectionsAreBits, ApplySetTags
<1>4. CASE ApplyPatch
  BY <1>2, <1>4, CommitPatchTags DEF ApplyPatch, BeginPatch, AppendLabel, EditLabel, tables
<1>5. CASE Undo
  BY <1>1, <1>2, <1>5, UndoTags DEF Undo, BeginUndoPatch, UndoPatchRow, tables
<1>6. CASE Rollback
  BY <1>2, <1>6 DEF Rollback, tables
<1>7. CASE UNCHANGED vars
  BY <1>2, <1>7 DEF vars
<1> QED BY <1>3, <1>4, <1>5, <1>6, <1>7 DEF Next

LEMMA TagInvInit == Init => TagInv
  BY TypeInvInit DEF Init, TagInv, TagsAreHeads, Snap, At

(* Undo is exact for tags, for any widths, selections and constants, and   *)
(* also when patch requests repeat a label: ApplySet's stored delta and    *)
(* Undo's inversion of it (commits.go, ApplySet and Undo).                 *)
THEOREM TagsExact == Spec => []TagsAreHeads
<1>1. TagInv => TagsAreHeads
  BY DEF TagInv
<1> QED BY <1>1, TagInvInit, TagInvNext, PTL DEF Spec

-----------------------------------------------------------------------------
(* Labels.  The invariant of the tags, and for an open transaction what    *)
(* its private copy of the rows has to do with the tables: a patch         *)
(* transaction can be inverted from the rows it recorded so far, and an    *)
(* undo has brought back every row it passed.                              *)

Parent == Snap(commits[head].parent)

PatchTx ==
    tx = "patch" => pos = 1 /\ PatchesInvert(patches, field, labels, work)

UndoTx ==
    LET row == commits[head] IN
    tx = "undo" =>
        /\ patches = <<>>
        /\ pos \in 1 .. Len(row.patches) + 1
        /\ \A k \in Keys \ Touched(row.patches, row.field) : work[k] = labels[k]
        /\ \A n \in DOMAIN row.patches :
                LET k == Key(row.patches[n], row.field) IN
                work[k] = Parent.labels[k] \/ (n >= pos /\ work[k] = labels[k])

NoTx == tx = "none" => work = labels /\ patches = <<>> /\ pos = 1

LabelInv ==
    /\ TagInv
    /\ LabelsAreHeads
    /\ \A c \in 1 .. Len(commits) :
            LabelsInvert(commits[c], Snap(commits[c].parent), Snap(c))
    /\ PatchTx /\ UndoTx /\ NoTx

(* A patch that touches a label for the first time, and records the value  *)
(* it replaces.                                                            *)
LEMMA FirstTouch ==
    ASSUME NEW ps \in Seq(PatchRows), NEW f \in Fields, NEW p \in PatchRows,
           NEW old \in LabelState, NEW new \in LabelState, NEW v \in LabelValues,
           PatchesInvert(ps, f, old, new), Key(p, f) \notin Touched(ps, f),
           p.prior = new[Key(p, f)]
    PROVE  PatchesInvert(Append(ps, p), f, old, [new EXCEPT ![Key(p, f)] = v])
<1> DEFINE k == Key(p, f)
           ps2 == Append(ps, p)
           new2 == [new EXCEPT ![k] = v]
<1>1. k \in Keys /\ DOMAIN new = Keys
  BY DEF Key, Keys, PatchRows, LabelState
<1>2. /\ Len(ps) \in Nat /\ DOMAIN ps = 1 .. Len(ps) /\ DOMAIN ps2 = 1 .. Len(ps) + 1
      /\ \A n \in 1 .. Len(ps) : ps2[n] = ps[n]
      /\ ps2[Len(ps) + 1] = p
  BY LenProperties, AppendKeeps
<1>3. Touched(ps2, f) = Touched(ps, f) \cup {k}
  <2>1. DOMAIN ps2 = DOMAIN ps \cup {Len(ps) + 1}
    BY <1>2
  <2> QED BY <1>2, <2>1 DEF Touched
<1>4. ASSUME NEW q \in Keys \ Touched(ps2, f) PROVE old[q] = new2[q]
  BY <1>1, <1>3, <1>4 DEF PatchesInvert
<1>5. old[k] = new[k] /\ new2[k] = v /\ v # NoLabel
  BY <1>1, NoLabelAssumption DEF PatchesInvert
<1>6. ASSUME NEW n \in DOMAIN ps2
      PROVE  old[Key(ps2[n], f)] = ps2[n].prior /\ new2[Key(ps2[n], f)] # NoLabel
  <2>1. CASE n = Len(ps) + 1
    BY <1>2, <1>5, <2>1
  <2>2. CASE n \in 1 .. Len(ps)
    <3>1. ps2[n] = ps[n] /\ n \in DOMAIN ps
      BY <1>2, <2>2
    <3>2. Key(ps[n], f) \in Touched(ps, f)
      BY <3>1 DEF Touched
    <3>3. new2[Key(ps[n], f)] = new[Key(ps[n], f)]
      <4>1. ps[n] \in PatchRows
        BY <2>2, ElementOfSeq
      <4>2. Key(ps[n], f) \in Keys
        BY <4>1 DEF Key, Keys, PatchRows
      <4> QED BY <1>1, <3>2, <4>2
    <3> QED BY <3>1, <3>3 DEF PatchesInvert
  <2> QED BY <1>2, <2>1, <2>2
<1>7. PatchesInvert(ps2, f, old, new2)
  <2> HIDE DEF ps2, new2
  <2> QED BY <1>4, <1>6 DEF PatchesInvert
<1> QED BY <1>7

(* A commit whose row inverts the labels it makes to those at HEAD.        *)
LEMMA CommitKeepsLabels ==
    ASSUME LabelInv, TagInv', NEW row \in CommitRows, NEW d \in Data,
           commits' = Append(commits, row), snaps' = Append(snaps, d),
           row.parent = head, head' = Len(commits) + 1, tx' = "none",
           labels' = d.labels, work' = d.labels, patches' = <<>>, pos' = 1,
           LabelsInvert(row, Snap(head), d)
    PROVE  LabelInv'
<1>1. TypeInv /\ row.parent \in 0 .. Len(commits)
  BY DEF LabelInv, TagInv, TypeInv, TypeOK
<1>2. d = At(snaps', head')
  BY <1>1, HistoryKept
<1>3. LabelsAreHeads'
  BY <1>2 DEF LabelsAreHeads, Snap
<1>4. ASSUME NEW c \in 1 .. Len(commits')
      PROVE  LabelsInvert(commits'[c], At(snaps', commits'[c].parent), At(snaps', c))
  <2>1. CASE c \in 1 .. Len(commits)
    <3>1. LabelsInvert(commits[c], Snap(commits[c].parent), Snap(c))
      BY <2>1 DEF LabelInv
    <3> QED BY <1>1, <2>1, <3>1, HistoryKept
  <2>2. CASE c = Len(commits) + 1
    BY <1>1, <2>2, HistoryKept
  <2> QED BY <1>1, <2>1, <2>2, HistoryKept
<1>5. PatchTx' /\ UndoTx' /\ NoTx'
  BY DEF PatchTx, UndoTx, NoTx
<1> QED BY <1>3, <1>4, <1>5 DEF LabelInv, Snap

LEMMA ApplySetLabels ==
    ASSUME LabelInv, NEW selected \in SUBSET Bits, NEW op \in {"add", "remove"},
           NEW t \in Tags, ApplySet(selected, op, t)
    PROVE  LabelInv'
<1> DEFINE delta == Delta(op, selected, tags[t])
           newTags == [tags EXCEPT ![t] = ApplyDelta(op, @, delta)]
           row == SetRow(op, t, delta)
           d == [tags |-> newTags, labels |-> labels]
<1>1. TypeInv /\ tags \in TagState /\ labels \in LabelState
  BY DEF LabelInv, TagInv, TypeInv, TypeOK
<1>2. delta \in SUBSET Bits /\ newTags \in TagState
  BY <1>1 DEF Delta, ApplyDelta, TagState
<1>3. row \in CommitRows /\ d \in Data
  BY <1>1, <1>2, RowTypes DEF TypeInv, Data
<1>4. /\ commits' = Append(commits, row) /\ snaps' = Append(snaps, d)
      /\ head' = Len(commits) + 1 /\ tx = "none"
      /\ UNCHANGED <<labels, tx, field, work, patches, pos>>
  BY DEF ApplySet, txvars
<1>5. TagInv'
  BY ApplySetTags DEF LabelInv
<1>6. row.parent = head /\ labels' = d.labels /\ work' = d.labels /\ patches' = <<>> /\ pos' = 1
  BY <1>4 DEF SetRow, LabelInv, NoTx
<1>7. LabelsInvert(row, Snap(head), d)
  BY DEF LabelsInvert, SetRow, LabelInv, LabelsAreHeads
<1> HIDE DEF row, d
<1> QED BY <1>3, <1>4, <1>5, <1>6, <1>7, CommitKeepsLabels

LEMMA CommitPatchLabels == LabelInv /\ CommitPatch => LabelInv'
<1> SUFFICES ASSUME LabelInv, CommitPatch PROVE LabelInv'
  OBVIOUS
<1> DEFINE row == PatchRow(field, patches)
           d == [tags |-> tags, labels |-> work]
<1>1. row \in CommitRows /\ d \in Data
  BY RowTypes DEF LabelInv, TagInv, TypeInv, TypeOK, Data
<1>2. /\ commits' = Append(commits, row) /\ snaps' = Append(snaps, d)
      /\ row.parent = head /\ head' = Len(commits) + 1 /\ tx' = "none"
      /\ labels' = d.labels /\ work' = d.labels /\ patches' = <<>>
  BY DEF CommitPatch, PatchRow
<1>3. TagInv'
  BY CommitPatchTags DEF LabelInv
<1>4. /\ pos' = 1 /\ field \in Fields
      /\ PatchesInvert(patches, field, labels, work)
  BY DEF CommitPatch, LabelInv, PatchTx, TagInv, TypeInv
<1>5. LabelsInvert(row, Snap(head), d)
  BY <1>4 DEF LabelsInvert, PatchRow, LabelInv, LabelsAreHeads
<1> HIDE DEF row, d
<1> QED BY <1>1, <1>2, <1>3, <1>4, <1>5, CommitKeepsLabels

(* A step of an open transaction, which leaves the tables alone.           *)
LEMMA TxStep ==
    ASSUME LabelInv, TagInv', UNCHANGED <<tables, snaps>>, PatchTx', UndoTx', NoTx'
    PROVE  LabelInv'
  BY DEF LabelInv, tables, LabelsAreHeads, Snap

LEMMA PatchStepLabels ==
    ASSUME DistinctEdits, LabelInv, TagInv',
           NEW s \in Samples, NEW i \in Idx, NEW v \in LabelValues,
           AppendLabel(s, i, v) \/ EditLabel(s, i, v)
    PROVE  LabelInv'
<1> DEFINE k == <<s, field, i>>
           p == [sample |-> s, idx |-> i, prior |-> work[k]]
<1>1. /\ tx = "patch" /\ field \in Fields /\ pos = 1
      /\ PatchesInvert(patches, field, labels, work)
      /\ patches \in Seq(PatchRows) /\ labels \in LabelState /\ work \in LabelState
  BY DEF AppendLabel, EditLabel, LabelInv, PatchTx, TagInv, TypeInv, TypeOK
<1>2. k \in Keys /\ p \in PatchRows /\ k = Key(p, field)
  BY <1>1 DEF Keys, Key, PatchRows, LabelState
<1>3. /\ UNCHANGED <<tables, tx, field, pos, snaps>>
      /\ work' = [work EXCEPT ![k] = v]
  BY DEF AppendLabel, EditLabel
<1>4. patches' = Append(patches, p) /\ k \notin Touched(patches, field)
  <2>1. CASE AppendLabel(s, i, v)
    <3>1. i \in Nat /\ ~(i < i)
      BY BoundsAssumption DEF Idx
    <3>2. work[k] = NoLabel
      BY <2>1, <3>1 DEF AppendLabel, IsNextIndex
    <3>3. k \notin Touched(patches, field)
      BY <1>1, <3>2 DEF PatchesInvert, Touched
    <3> QED BY <2>1, <3>2, <3>3 DEF AppendLabel
  <2>2. CASE EditLabel(s, i, v)
    BY <2>2 DEF EditLabel
  <2> QED BY <2>1, <2>2
<1>5. PatchesInvert(patches', field, labels, work')
  <2>1. p.prior = work[Key(p, field)] /\ Key(p, field) \notin Touched(patches, field)
    BY <1>2, <1>4
  <2> HIDE DEF p, k
  <2> QED BY <1>1, <1>2, <1>3, <1>4, <2>1, FirstTouch
<1>6. PatchTx' /\ UndoTx' /\ NoTx'
  BY <1>1, <1>3, <1>5 DEF PatchTx, UndoTx, NoTx, tables
<1> QED BY <1>3, <1>6, TxStep

(* What an open undo transaction knows of the commit it inverts.           *)
LEMMA UndoFacts ==
    ASSUME LabelInv, tx = "undo"
    PROVE  /\ head \in 1 .. Len(commits) /\ commits[head].kind = "patch"
           /\ commits[head].field \in Fields /\ commits[head].patches \in Seq(PatchRows)
           /\ PatchesInvert(commits[head].patches, commits[head].field, Parent.labels, labels)
<1>1. head \in 1 .. Len(commits) /\ commits \in Seq(CommitRows)
  BY LenProperties DEF LabelInv, TagInv, TypeInv, TypeOK
<1>2. commits[head] \in CommitRows
  BY <1>1, ElementOfSeq
<1>3. commits[head].kind = "patch"
  BY DEF LabelInv, TagInv
<1>4. LabelsInvert(commits[head], Parent, Snap(head))
  BY <1>1 DEF LabelInv, Parent
<1> QED BY <1>1, <1>2, <1>3, <1>4 DEF LabelsInvert, CommitRows, LabelInv, LabelsAreHeads

(* Restoring one row: its UPDATE finds the row, because neither the value  *)
(* before the commit nor the one after it is "no row".                     *)
LEMMA UndoPatchRowLabels == LabelInv /\ TagInv' /\ UndoPatchRow => LabelInv'
<1> SUFFICES ASSUME LabelInv, TagInv', UndoPatchRow PROVE LabelInv'
  OBVIOUS
<1> DEFINE row == commits[head]
           ps == row.patches
           K(n) == Key(ps[n], row.field)
           k == K(pos)
<1>1. /\ tx = "undo" /\ tx' = "undo" /\ UNCHANGED <<tables, snaps, patches>>
      /\ pos \in DOMAIN ps /\ pos' = pos + 1
      /\ work' = RestorePrior(work, k, ps[pos].prior)
  BY DEF UndoPatchRow
<1>2. /\ row.field \in Fields /\ ps \in Seq(PatchRows)
      /\ PatchesInvert(ps, row.field, Parent.labels, labels)
      /\ work \in LabelState
  BY <1>1, UndoFacts DEF LabelInv, TagInv, TypeInv, TypeOK
<1>3. /\ patches = <<>> /\ pos \in 1 .. Len(ps) + 1
      /\ \A q \in Keys \ Touched(ps, row.field) : work[q] = labels[q]
      /\ \A n \in DOMAIN ps :
            work[K(n)] = Parent.labels[K(n)] \/ (n >= pos /\ work[K(n)] = labels[K(n)])
  BY <1>1 DEF LabelInv, UndoTx
<1>4. Len(ps) \in Nat /\ DOMAIN ps = 1 .. Len(ps)
  BY <1>2, LenProperties
<1>5. \A n \in DOMAIN ps : K(n) \in Keys /\ K(n) \in Touched(ps, row.field)
  <2>1. \A n \in DOMAIN ps : ps[n] \in PatchRows
    BY <1>2, <1>4, ElementOfSeq
  <2> QED BY <1>2, <2>1 DEF Key, Keys, PatchRows, Touched
<1>6. ps[pos].prior = Parent.labels[k] /\ labels[k] # NoLabel
  BY <1>1, <1>2 DEF PatchesInvert
<1>7. work[k] = Parent.labels[k] \/ work[k] = labels[k]
  BY <1>1, <1>3
<1>8. work' = [work EXCEPT ![k] = Parent.labels[k]]
  <2>1. ~(ps[pos].prior # NoLabel /\ work[k] = NoLabel)
    BY <1>6, <1>7
  <2> HIDE DEF k, ps
  <2> QED BY <1>1, <1>6, <2>1 DEF RestorePrior
<1>9. /\ work'[k] = Parent.labels[k]
      /\ \A q \in Keys : q # k => work'[q] = work[q]
  BY <1>1, <1>2, <1>5, <1>8 DEF LabelState
<1>10. ASSUME NEW q \in Keys \ Touched(ps, row.field) PROVE work'[q] = labels[q]
  BY <1>1, <1>3, <1>5, <1>9
<1>11. ASSUME NEW n \in DOMAIN ps
       PROVE  work'[K(n)] = Parent.labels[K(n)] \/ (n >= pos + 1 /\ work'[K(n)] = labels[K(n)])
  <2>1. CASE K(n) = k
    BY <1>9, <2>1
  <2>2. CASE K(n) # k
    <3>1. work'[K(n)] = work[K(n)]
      BY <1>5, <1>9, <2>2
    <3>2. n >= pos => n >= pos + 1
      <4>1. n # pos
        BY <2>2
      <4> QED BY <1>1, <1>4, <4>1
    <3> QED BY <1>3, <3>1, <3>2
  <2> QED BY <2>1, <2>2
<1>12. pos' \in 1 .. Len(ps) + 1
  BY <1>1, <1>4
<1>13. /\ commits' = commits /\ head' = head /\ labels' = labels
       /\ Parent' = Parent
  BY <1>1 DEF tables, Parent, Snap
<1>14. UndoTx'
  <2> HIDE DEF ps, K, k
  <2>1. \A q \in Keys \ Touched(ps, row.field) : work'[q] = labels'[q]
    BY <1>10, <1>13
  <2>2. \A n \in DOMAIN ps :
            work'[K(n)] = Parent'.labels[K(n)] \/ (n >= pos' /\ work'[K(n)] = labels'[K(n)])
    BY <1>1, <1>11, <1>13
  <2>3. patches' = <<>>
    BY <1>1, <1>3
  <2> QED BY <1>12, <1>13, <2>1, <2>2, <2>3 DEF UndoTx, ps, K
<1>15. PatchTx' /\ NoTx'
  BY <1>1 DEF PatchTx, NoTx
<1> QED BY <1>1, <1>14, <1>15, TxStep

(* When the last row is restored the copy is the parent's data.            *)
LEMMA UndoneIsParent == LabelInv /\ CommitUndo => labels' = Parent.labels
<1> SUFFICES ASSUME LabelInv, CommitUndo PROVE work = Parent.labels
  BY DEF CommitUndo
<1> DEFINE row == commits[head]
           ps == row.patches
<1>1. tx = "undo" /\ pos = Len(ps) + 1
  BY DEF CommitUndo
<1>2. /\ head \in 1 .. Len(commits) /\ ps \in Seq(PatchRows)
      /\ PatchesInvert(ps, row.field, Parent.labels, labels)
  BY <1>1, UndoFacts
<1>3. /\ \A q \in Keys \ Touched(ps, row.field) : work[q] = labels[q]
      /\ \A n \in DOMAIN ps :
            LET k == Key(ps[n], row.field) IN
            work[k] = Parent.labels[k] \/ (n >= pos /\ work[k] = labels[k])
  BY <1>1 DEF LabelInv, UndoTx
<1>4. \A n \in DOMAIN ps : ~(n >= pos)
  BY <1>1, <1>2, LenProperties
<1>5. \A k \in Keys : work[k] = Parent.labels[k]
  BY <1>2, <1>3, <1>4 DEF PatchesInvert, Touched
<1>6. Parent.labels \in LabelState /\ work \in LabelState
  <2>1. commits \in Seq(CommitRows) /\ snaps \in Seq(Data) /\ Len(snaps) = Len(commits)
        /\ work \in LabelState
    BY DEF LabelInv, TagInv, TypeInv, TypeOK
  <2>2. row.parent \in Nat /\ row.parent < head
    <3>1. row \in CommitRows
      BY <1>2, <2>1, ElementOfSeq
    <3>2. row.parent < head
      BY <1>2 DEF LabelInv, TagInv, TypeInv, ParentsAreOlder
    <3> QED BY <3>1, <3>2 DEF CommitRows
  <2>3. CASE row.parent = 0
    BY <2>1, <2>3 DEF Parent, Snap, At, Empty, LabelState, Values
  <2>4. CASE row.parent # 0
    <3>1. row.parent \in 1 .. Len(snaps)
      BY <1>2, <2>1, <2>2, <2>4, LenProperties
    <3>2. snaps[row.parent] \in Data
      BY <2>1, <3>1, ElementOfSeq
    <3> QED BY <2>1, <2>4, <3>2 DEF Parent, Snap, At, Data
  <2> QED BY <2>3, <2>4
<1> QED BY <1>5, <1>6 DEF LabelState

LEMMA UndoLabels ==
    ASSUME LabelInv, TagInv', CommitUndo \/ \E expected : UndoSet(expected)
    PROVE  LabelInv'
<1>1. head \in 1 .. Len(commits)
  BY LenProperties DEF LabelInv, TagInv, TypeInv, TypeOK, CommitUndo, UndoSet
<1>2. /\ UNCHANGED <<commits, snaps>> /\ head' = commits[head].parent /\ tx' = "none"
      /\ pos' = 1 /\ patches' = <<>> /\ work' = labels'
  BY DEF CommitUndo, UndoSet, LabelInv, NoTx, UndoTx, txvars
<1>3. labels' = Parent.labels
  <2>1. CASE CommitUndo
    BY <2>1, UndoneIsParent
  <2>2. CASE \E expected : UndoSet(expected)
    <3>1. commits[head].kind = "set" /\ labels' = labels
      BY <2>2 DEF UndoSet
    <3>2. LabelsInvert(commits[head], Parent, Snap(head))
      BY <1>1 DEF LabelInv, Parent
    <3> QED BY <3>1, <3>2 DEF LabelsInvert, LabelInv, LabelsAreHeads
  <2> QED BY <2>1, <2>2
<1>4. LabelsAreHeads'
  BY <1>2, <1>3 DEF LabelsAreHeads, Parent, Snap
<1>5. PatchTx' /\ UndoTx' /\ NoTx'
  BY <1>2 DEF PatchTx, UndoTx, NoTx
<1> QED BY <1>2, <1>4, <1>5 DEF LabelInv, Snap

LEMMA BeginUndoLabels ==
    ASSUME LabelInv, TagInv', NEW expected, BeginUndoPatch(expected)
    PROVE  LabelInv'
<1>1. /\ tx = "none" /\ tx' = "undo"
      /\ UNCHANGED <<tags, labels, commits, head, work, patches, pos, snaps>>
  BY DEF BeginUndoPatch, tables
<1>2. head \in 1 .. Len(commits) /\ commits \in Seq(CommitRows)
  BY LenProperties DEF BeginUndoPatch, LabelInv, TagInv, TypeInv, TypeOK
<1>3. commits[head].patches \in Seq(PatchRows)
  <2>1. commits[head] \in CommitRows
    BY <1>2, ElementOfSeq
  <2> QED BY <2>1 DEF CommitRows
<1>4. /\ 1 \in 1 .. Len(commits[head].patches) + 1
      /\ \A n \in DOMAIN commits[head].patches : n >= 1
  BY <1>3, LenProperties
<1>5. work = labels /\ patches = <<>> /\ pos = 1
  BY <1>1 DEF LabelInv, NoTx
<1>6. UndoTx'
  BY <1>1, <1>4, <1>5 DEF UndoTx
<1>7. PatchTx' /\ NoTx'
  BY <1>1 DEF PatchTx, NoTx
<1> QED BY <1>1, <1>6, <1>7, TxStep DEF tables

LEMMA BeginPatchLabels ==
    ASSUME LabelInv, TagInv', NEW f \in Fields, BeginPatch(f)
    PROVE  LabelInv'
<1>1. work = labels /\ patches = <<>> /\ pos = 1
  BY DEF BeginPatch, LabelInv, NoTx
<1>2. PatchesInvert(<<>>, f, labels, labels)
  <2>1. DOMAIN <<>> = {}
    BY EmptySeq
  <2> QED BY <2>1 DEF PatchesInvert
<1>3. PatchTx' /\ UndoTx' /\ NoTx'
  BY <1>1, <1>2 DEF BeginPatch, tables, PatchTx, UndoTx, NoTx
<1> QED BY <1>3, TxStep DEF BeginPatch

LEMMA LabelInvNext == DistinctEdits /\ LabelInv /\ [Next]_vars => LabelInv'
<1> SUFFICES ASSUME DistinctEdits, LabelInv, [Next]_vars PROVE LabelInv'
  OBVIOUS
<1>1. TagInv'
  BY TagInvNext DEF LabelInv
<1>2. ASSUME NEW ids \in SUBSET Ids, NEW excluded \in SUBSET Ids,
             NEW op \in {"add", "remove"}, NEW t \in Tags,
             ApplySet(ResolveSelection(ids, excluded), op, t)
      PROVE  LabelInv'
  BY <1>2, SelectionsAreBits, ApplySetLabels
<1>3. CASE ApplyPatch
  BY <1>1, <1>3, BeginPatchLabels, PatchStepLabels, CommitPatchLabels DEF ApplyPatch
<1>4. CASE Undo
  BY <1>1, <1>4, BeginUndoLabels, UndoPatchRowLabels, UndoLabels DEF Undo
<1>5. CASE Rollback
  <2>1. PatchTx' /\ UndoTx' /\ NoTx'
    BY <1>5 DEF Rollback, tables, PatchTx, UndoTx, NoTx
  <2> QED BY <1>1, <1>5, <2>1, TxStep DEF Rollback
<1>6. CASE UNCHANGED vars
  <2>1. PatchTx' /\ UndoTx' /\ NoTx'
    BY <1>6 DEF vars, PatchTx, UndoTx, NoTx, Parent, Snap, LabelInv
  <2> QED BY <1>1, <1>6, <2>1, TxStep DEF vars, tables
<1> QED BY <1>2, <1>3, <1>4, <1>5, <1>6 DEF Next

LEMMA LabelInvInit == Init => LabelInv
  BY TagInvInit
  DEF Init, LabelInv, LabelsAreHeads, Snap, At, PatchTx, UndoTx, NoTx

(* Undo is exact for labels when no request edits a label it already       *)
(* touched: the priors ApplyPatch stores, and the loop of Undo over them.  *)
THEOREM LabelsExact ==
    ASSUME DistinctEdits
    PROVE  Spec => []LabelsAreHeads
<1>1. LabelInv => LabelsAreHeads
  BY DEF LabelInv
<1>2. LabelInv /\ [Next]_vars => LabelInv'
  BY LabelInvNext
<1> QED BY <1>1, <1>2, LabelInvInit, PTL DEF Spec

(* Under the same assumption every commit ever made can be inverted from   *)
(* its row alone, which is what Undo and overlayAtCommit rely on.          *)
THEOREM AllCommitsInvert ==
    ASSUME DistinctEdits
    PROVE  Spec => []EveryCommitInverts
<1>1. LabelInv => EveryCommitInverts
  BY DEF LabelInv, TagInv, EveryCommitInverts
<1>2. LabelInv /\ [Next]_vars => LabelInv'
  BY LabelInvNext
<1> QED BY <1>1, <1>2, LabelInvInit, PTL DEF Spec

-----------------------------------------------------------------------------
(* Which label rows exist.  Unlike their values this needs no assumption   *)
(* on requests: an undo deletes exactly the rows its commit appended, and  *)
(* an UPDATE of a row that is gone creates none.                           *)

Present(rows) == {k \in Keys : rows[k] # NoLabel}

(* The rows appended by the patches before the p-th, and by all of them.   *)
AppendedBefore(ps, f, p) ==
    {Key(ps[n], f) : n \in {m \in DOMAIN ps : m < p /\ ps[m].prior = NoLabel}}
Appended(ps, f) ==
    {Key(ps[n], f) : n \in {m \in DOMAIN ps : ps[m].prior = NoLabel}}

RowsInvert(row, old, new) ==
    \/ row.kind = "set" /\ Present(old.labels) = Present(new.labels)
    \/ /\ row.kind = "patch"
       /\ row.field \in Fields
       /\ Present(old.labels) = Present(new.labels) \ Appended(row.patches, row.field)

PatchTxRows ==
    tx = "patch" =>
        /\ pos = 1
        /\ Gapless(work)
        /\ Present(labels) = Present(work) \ Appended(patches, field)

UndoTxRows ==
    LET row == commits[head] IN
    tx = "undo" =>
        /\ patches = <<>>
        /\ pos \in 1 .. Len(row.patches) + 1
        /\ Present(work) = Present(labels) \ AppendedBefore(row.patches, row.field, pos)

RowsInv ==
    /\ TagInv
    /\ Present(labels) = Present(Snap(head).labels)
    /\ \A c \in 1 .. Len(commits) :
           /\ RowsInvert(commits[c], Snap(commits[c].parent), Snap(c))
           /\ Gapless(Snap(c).labels)
    /\ PatchTxRows /\ UndoTxRows /\ NoTx

(* Whether lists have gaps only depends on which rows there are.           *)
LEMMA SameGaps ==
    ASSUME NEW a, NEW b, Present(a) = Present(b), Gapless(a)
    PROVE  Gapless(b)
<1>1. \A k \in Keys : a[k] # NoLabel <=> b[k] # NoLabel
  BY DEF Present
<1>2. \A s \in Samples, f \in Fields, i \in Idx : <<s, f, i>> \in Keys
  BY DEF Keys
<1> QED BY <1>1, <1>2 DEF Gapless

LEMMA ListsAreGapless == RowsInv => Gapless(labels)
<1> SUFFICES ASSUME RowsInv PROVE Gapless(labels)
  OBVIOUS
<1>1. Gapless(Snap(head).labels)
  <2>1. CASE head = 0
    <3>1. \A s \in Samples, f \in Fields, i \in Idx : Empty.labels[<<s, f, i>>] = NoLabel
      BY DEF Empty, Keys
    <3> QED BY <2>1, <3>1 DEF Snap, At, Gapless
  <2>2. CASE head # 0
    <3>1. head \in 1 .. Len(commits)
      BY <2>2, LenProperties DEF RowsInv, TagInv, TypeInv, TypeOK
    <3> QED BY <3>1 DEF RowsInv
  <2> QED BY <2>1, <2>2
<1> QED BY <1>1, SameGaps DEF RowsInv

(* A commit whose row inverts the rows it makes to those at HEAD.          *)
LEMMA CommitKeepsRows ==
    ASSUME RowsInv, TagInv', NEW row \in CommitRows, NEW d \in Data,
           commits' = Append(commits, row), snaps' = Append(snaps, d),
           row.parent = head, head' = Len(commits) + 1, tx' = "none",
           labels' = d.labels, work' = d.labels, patches' = <<>>, pos' = 1,
           RowsInvert(row, Snap(head), d), Gapless(d.labels)
    PROVE  RowsInv'
<1>1. TypeInv /\ row.parent \in 0 .. Len(commits)
  BY DEF RowsInv, TagInv, TypeInv, TypeOK
<1>2. d = At(snaps', head')
  BY <1>1, HistoryKept
<1>3. Present(labels') = Present(At(snaps', head').labels)
  BY <1>2
<1>4. ASSUME NEW c \in 1 .. Len(commits')
      PROVE  /\ RowsInvert(commits'[c], At(snaps', commits'[c].parent), At(snaps', c))
             /\ Gapless(At(snaps', c).labels)
  <2>1. CASE c \in 1 .. Len(commits)
    <3>1. RowsInvert(commits[c], Snap(commits[c].parent), Snap(c)) /\ Gapless(Snap(c).labels)
      BY <2>1 DEF RowsInv
    <3> QED BY <1>1, <2>1, <3>1, HistoryKept
  <2>2. CASE c = Len(commits) + 1
    BY <1>1, <2>2, HistoryKept
  <2> QED BY <1>1, <2>1, <2>2, HistoryKept
<1>5. PatchTxRows' /\ UndoTxRows' /\ NoTx'
  BY DEF PatchTxRows, UndoTxRows, NoTx
<1> QED BY <1>3, <1>4, <1>5 DEF RowsInv, Snap, Present, RowsInvert, Gapless

LEMMA ApplySetRows ==
    ASSUME RowsInv, NEW selected \in SUBSET Bits, NEW op \in {"add", "remove"},
           NEW t \in Tags, ApplySet(selected, op, t)
    PROVE  RowsInv'
<1> DEFINE delta == Delta(op, selected, tags[t])
           newTags == [tags EXCEPT ![t] = ApplyDelta(op, @, delta)]
           row == SetRow(op, t, delta)
           d == [tags |-> newTags, labels |-> labels]
<1>1. TypeInv /\ tags \in TagState /\ labels \in LabelState
  BY DEF RowsInv, TagInv, TypeInv, TypeOK
<1>2. delta \in SUBSET Bits /\ newTags \in TagState
  BY <1>1 DEF Delta, ApplyDelta, TagState
<1>3. row \in CommitRows /\ d \in Data
  BY <1>1, <1>2, RowTypes DEF TypeInv, Data
<1>4. /\ commits' = Append(commits, row) /\ snaps' = Append(snaps, d)
      /\ head' = Len(commits) + 1 /\ tx = "none"
      /\ UNCHANGED <<labels, tx, field, work, patches, pos>>
  BY DEF ApplySet, txvars
<1>5. TagInv'
  BY ApplySetTags DEF RowsInv
<1>6. row.parent = head /\ labels' = d.labels /\ work' = d.labels /\ patches' = <<>> /\ pos' = 1
  BY <1>4 DEF SetRow, RowsInv, NoTx
<1>7. RowsInvert(row, Snap(head), d)
  BY DEF RowsInvert, SetRow, RowsInv
<1>8. Gapless(d.labels)
  BY ListsAreGapless
<1> HIDE DEF row, d
<1> QED BY <1>3, <1>4, <1>5, <1>6, <1>7, <1>8, CommitKeepsRows

LEMMA CommitPatchRows == RowsInv /\ CommitPatch => RowsInv'
<1> SUFFICES ASSUME RowsInv, CommitPatch PROVE RowsInv'
  OBVIOUS
<1> DEFINE row == PatchRow(field, patches)
           d == [tags |-> tags, labels |-> work]
<1>1. row \in CommitRows /\ d \in Data
  BY RowTypes DEF RowsInv, TagInv, TypeInv, TypeOK, Data
<1>2. /\ commits' = Append(commits, row) /\ snaps' = Append(snaps, d)
      /\ row.parent = head /\ head' = Len(commits) + 1 /\ tx' = "none"
      /\ labels' = d.labels /\ work' = d.labels /\ patches' = <<>>
  BY DEF CommitPatch, PatchRow
<1>3. TagInv'
  BY CommitPatchTags DEF RowsInv
<1>4. /\ pos' = 1 /\ field \in Fields /\ Gapless(work)
      /\ Present(labels) = Present(work) \ Appended(patches, field)
  BY DEF CommitPatch, RowsInv, PatchTxRows, TagInv, TypeInv
<1>5. RowsInvert(row, Snap(head), d)
  BY <1>4 DEF RowsInvert, PatchRow, RowsInv
<1>6. Gapless(d.labels)
  BY <1>4
<1> HIDE DEF row, d
<1> QED BY <1>1, <1>2, <1>3, <1>4, <1>5, <1>6, CommitKeepsRows

(* A step of an open transaction, which leaves the tables alone.           *)
LEMMA TxStepRows ==
    ASSUME RowsInv, TagInv', UNCHANGED <<tables, snaps>>, PatchTxRows', UndoTxRows', NoTx'
    PROVE  RowsInv'
  BY DEF RowsInv, tables, Snap, Present, RowsInvert, Gapless

LEMMA PatchStepRows ==
    ASSUME RowsInv, TagInv', NEW s \in Samples, NEW i \in Idx, NEW v \in LabelValues,
           AppendLabel(s, i, v) \/ EditLabel(s, i, v)
    PROVE  RowsInv'
<1> DEFINE k == <<s, field, i>>
           p == [sample |-> s, idx |-> i,
                 prior |-> IF AppendLabel(s, i, v) THEN NoLabel ELSE work[k]]
<1>1. /\ tx = "patch" /\ field \in Fields /\ pos = 1 /\ Gapless(work)
      /\ Present(labels) = Present(work) \ Appended(patches, field)
      /\ patches \in Seq(PatchRows) /\ labels \in LabelState /\ work \in LabelState
  BY DEF AppendLabel, EditLabel, RowsInv, PatchTxRows, TagInv, TypeInv, TypeOK
<1>2. k \in Keys /\ work[k] \in Values
  BY <1>1 DEF Keys, LabelState
<1>3. /\ UNCHANGED <<tables, tx, field, pos, snaps>>
      /\ work' = [work EXCEPT ![k] = v]
  BY DEF AppendLabel, EditLabel
<1>4. PICK prior \in Values :
          /\ patches' = Append(patches, [sample |-> s, idx |-> i, prior |-> prior])
          /\ prior = NoLabel <=> work[k] = NoLabel
          /\ prior = NoLabel => IsNextIndex(work, s, field, i)
  <2>1. CASE AppendLabel(s, i, v)
    <3>1. i \in Nat /\ ~(i < i)
      BY BoundsAssumption DEF Idx
    <3>2. work[k] = NoLabel /\ IsNextIndex(work, s, field, i)
      BY <2>1, <3>1 DEF AppendLabel, IsNextIndex
    <3> QED BY <2>1, <3>2 DEF AppendLabel, Values
  <2>2. CASE EditLabel(s, i, v)
    BY <1>2, <2>2 DEF EditLabel
  <2> QED BY <2>1, <2>2
<1> DEFINE new == [sample |-> s, idx |-> i, prior |-> prior]
<1>5. new \in PatchRows /\ Key(new, field) = k /\ new.prior = prior
  BY DEF PatchRows, Key
<1> HIDE DEF new, k
<1>6. /\ Len(patches) \in Nat /\ DOMAIN patches = 1 .. Len(patches)
      /\ DOMAIN patches' = 1 .. Len(patches) + 1
      /\ \A n \in 1 .. Len(patches) : patches'[n] = patches[n]
      /\ patches'[Len(patches) + 1] = new
  BY <1>1, <1>4, <1>5, LenProperties, AppendKeeps DEF new
<1>7. DOMAIN patches' = DOMAIN patches \cup {Len(patches) + 1}
  BY <1>6
<1>8. Appended(patches', field) = Appended(patches, field) \cup (IF prior = NoLabel THEN {k} ELSE {})
  BY <1>5, <1>6, <1>7 DEF Appended
<1>9. Present(work') = Present(work) \cup {k}
  BY <1>1, <1>2, <1>3, NoLabelAssumption DEF Present, LabelState
<1>10. k \in Present(work) <=> prior # NoLabel
  BY <1>2, <1>4 DEF Present
<1>11. Present(labels') = Present(work') \ Appended(patches', field')
  BY <1>1, <1>3, <1>8, <1>9, <1>10 DEF tables
<1>12. Gapless(work')
  <2>1. CASE prior # NoLabel
    <3>1. Present(work') = Present(work)
      BY <1>9, <1>10, <2>1
    <3> QED BY <1>1, <3>1, SameGaps
  <2>2. CASE prior = NoLabel
    <3>1. IsNextIndex(work, s, field, i)
      BY <1>4, <2>2
    <3> SUFFICES ASSUME NEW t \in Samples, NEW f \in Fields, NEW a \in Idx, NEW b \in Idx,
                        a < b, work'[<<t, f, b>>] # NoLabel
                 PROVE  work'[<<t, f, a>>] # NoLabel
      BY DEF Gapless
    <3>2. <<t, f, a>> \in Keys /\ <<t, f, b>> \in Keys
      BY DEF Keys
    <3>3. <<t, f, b>> \in Present(work) \cup {k}
      BY <1>9, <3>2 DEF Present
    <3>4. a \in Int /\ b \in Int /\ i \in Int /\ i - 1 \in Int
      BY BoundsAssumption DEF Idx
    <3>5. CASE <<t, f, b>> \in Present(work)
      <4>1. work[<<t, f, a>>] # NoLabel
        BY <1>1, <3>5 DEF Gapless, Present
      <4> QED BY <1>9, <3>2, <4>1 DEF Present
    <3>6. CASE <<t, f, b>> = k
      <4>1. t = s /\ f = field /\ b = i
        BY <3>6 DEF k
      <4>2. i > 0 /\ i - 1 \in Idx
        BY <3>4, <4>1, BoundsAssumption DEF Idx
      <4>3. work[<<s, field, i - 1>>] # NoLabel
        BY <3>1, <4>2 DEF IsNextIndex
      <4>4. work[<<t, f, a>>] # NoLabel
        <5>1. CASE a = i - 1
          BY <4>1, <4>3, <5>1
        <5>2. CASE a < i - 1
          BY <1>1, <4>1, <4>2, <4>3, <5>2 DEF Gapless
        <5> QED BY <3>4, <4>1, <5>1, <5>2
      <4> QED BY <1>9, <3>2, <4>4 DEF Present
    <3> QED BY <3>3, <3>5, <3>6
  <2> QED BY <2>1, <2>2
<1>13. PatchTxRows' /\ UndoTxRows' /\ NoTx'
  BY <1>1, <1>3, <1>11, <1>12 DEF PatchTxRows, UndoTxRows, NoTx, Present, Appended, Gapless
<1> QED BY <1>3, <1>13, TxStepRows

(* What an open undo transaction knows of the rows of its commit.          *)
LEMMA UndoRowFacts ==
    ASSUME RowsInv, tx = "undo"
    PROVE  /\ head \in 1 .. Len(commits)
           /\ commits[head].field \in Fields /\ commits[head].patches \in Seq(PatchRows)
           /\ Present(Parent.labels) =
                  Present(labels) \ Appended(commits[head].patches, commits[head].field)
<1>1. head \in 1 .. Len(commits) /\ commits \in Seq(CommitRows)
  BY LenProperties DEF RowsInv, TagInv, TypeInv, TypeOK
<1>2. commits[head] \in CommitRows
  BY <1>1, ElementOfSeq
<1>3. commits[head].kind = "patch"
  BY DEF RowsInv, TagInv
<1>4. RowsInvert(commits[head], Parent, Snap(head))
  BY <1>1 DEF RowsInv, Parent
<1> QED BY <1>1, <1>2, <1>3, <1>4 DEF RowsInvert, CommitRows, RowsInv

LEMMA UndoPatchRowRows == RowsInv /\ TagInv' /\ UndoPatchRow => RowsInv'
<1> SUFFICES ASSUME RowsInv, TagInv', UndoPatchRow PROVE RowsInv'
  OBVIOUS
<1> DEFINE row == commits[head]
           ps == row.patches
           k == Key(ps[pos], row.field)
<1>1. /\ tx = "undo" /\ tx' = "undo" /\ UNCHANGED <<tables, snaps, patches>>
      /\ pos \in DOMAIN ps /\ pos' = pos + 1
      /\ work' = RestorePrior(work, k, ps[pos].prior)
  BY DEF UndoPatchRow
<1>2. /\ row.field \in Fields /\ ps \in Seq(PatchRows) /\ work \in LabelState
      /\ patches = <<>>
      /\ Present(work) = Present(labels) \ AppendedBefore(ps, row.field, pos)
  BY <1>1, UndoRowFacts DEF RowsInv, UndoTxRows, TagInv, TypeInv, TypeOK
<1> HIDE DEF ps
<1>3. /\ Len(ps) \in Nat /\ DOMAIN ps = 1 .. Len(ps) /\ ps[pos] \in PatchRows
  BY <1>1, <1>2, LenProperties, ElementOfSeq
<1>4. k \in Keys
  BY <1>2, <1>3 DEF Key, Keys, PatchRows
<1>5. AppendedBefore(ps, row.field, pos + 1) =
          AppendedBefore(ps, row.field, pos) \cup (IF ps[pos].prior = NoLabel THEN {k} ELSE {})
  <2>1. \A m \in DOMAIN ps : m < pos + 1 <=> m < pos \/ m = pos
    BY <1>1, <1>3
  <2>2. ~(pos < pos)
    BY <1>1, <1>3
  <2> QED BY <1>1, <2>1, <2>2 DEF AppendedBefore
<1> HIDE DEF k
<1>6. Present(work') = IF ps[pos].prior = NoLabel THEN Present(work) \ {k} ELSE Present(work)
  BY <1>1, <1>2, <1>4 DEF RestorePrior, Present, LabelState
<1>7. Present(work') = Present(labels) \ AppendedBefore(ps, row.field, pos + 1)
  BY <1>2, <1>5, <1>6
<1>8. pos' \in 1 .. Len(ps) + 1
  BY <1>1, <1>3
<1>9. PatchTxRows' /\ NoTx'
  BY <1>1 DEF PatchTxRows, NoTx
<1>10. UndoTxRows'
  BY <1>1, <1>2, <1>7, <1>8 DEF UndoTxRows, tables, ps, Present, AppendedBefore
<1> QED BY <1>1, <1>9, <1>10, TxStepRows

LEMMA UndoRows ==
    ASSUME RowsInv, TagInv', CommitUndo \/ \E expected : UndoSet(expected)
    PROVE  RowsInv'
<1>1. head \in 1 .. Len(commits)
  BY LenProperties DEF RowsInv, TagInv, TypeInv, TypeOK, CommitUndo, UndoSet
<1>2. /\ UNCHANGED <<commits, snaps>> /\ head' = commits[head].parent /\ tx' = "none"
      /\ pos' = 1 /\ patches' = <<>> /\ work' = labels'
  BY DEF CommitUndo, UndoSet, RowsInv, NoTx, UndoTxRows, txvars
<1>3. Present(labels') = Present(Parent.labels)
  <2>1. CASE CommitUndo
    <3> DEFINE ps == commits[head].patches
    <3>1. tx = "undo" /\ pos = Len(ps) + 1 /\ labels' = work
      BY <2>1 DEF CommitUndo
    <3>2. /\ ps \in Seq(PatchRows)
          /\ Present(Parent.labels) = Present(labels) \ Appended(ps, commits[head].field)
          /\ Present(work) = Present(labels) \ AppendedBefore(ps, commits[head].field, pos)
      BY <3>1, UndoRowFacts DEF RowsInv, UndoTxRows
    <3> HIDE DEF ps
    <3>3. \A m \in DOMAIN ps : m < pos
      BY <3>1, <3>2, LenProperties
    <3>4. AppendedBefore(ps, commits[head].field, pos) = Appended(ps, commits[head].field)
      BY <3>3 DEF AppendedBefore, Appended
    <3> QED BY <3>1, <3>2, <3>4
  <2>2. CASE \E expected : UndoSet(expected)
    <3>1. commits[head].kind = "set" /\ labels' = labels
      BY <2>2 DEF UndoSet
    <3>2. RowsInvert(commits[head], Parent, Snap(head))
      BY <1>1 DEF RowsInv, Parent
    <3> QED BY <3>1, <3>2 DEF RowsInvert, RowsInv
  <2> QED BY <2>1, <2>2
<1>4. PatchTxRows' /\ UndoTxRows' /\ NoTx'
  BY <1>2 DEF PatchTxRows, UndoTxRows, NoTx
<1> QED BY <1>2, <1>3, <1>4 DEF RowsInv, Parent, Snap, Present, RowsInvert, Gapless

LEMMA BeginRows ==
    ASSUME RowsInv, TagInv',
           (\E f \in Fields : BeginPatch(f)) \/ (\E expected : BeginUndoPatch(expected))
    PROVE  RowsInv'
<1>1. /\ tx = "none" /\ work = labels /\ patches = <<>> /\ pos = 1
      /\ tx' \in {"patch", "undo"}
      /\ UNCHANGED <<tables, work, patches, pos, snaps>>
  BY DEF BeginPatch, BeginUndoPatch, RowsInv, NoTx
<1>2. DOMAIN patches = {}
  BY <1>1, EmptySeq
<1>3. NoTx'
  BY <1>1 DEF NoTx
<1>4. PatchTxRows'
  <2>1. Gapless(work) /\ Appended(patches, field') = {}
    BY <1>1, <1>2, ListsAreGapless DEF Appended
  <2> QED BY <1>1, <2>1 DEF PatchTxRows, tables, Present, Appended, Gapless
<1>5. UndoTxRows'
  <2>1. CASE tx' = "patch"
    BY <2>1 DEF UndoTxRows
  <2>2. CASE tx' = "undo"
    <3> DEFINE ps == commits[head].patches
    <3>1. PICK expected : BeginUndoPatch(expected)
      BY <2>2 DEF BeginPatch
    <3>2. head \in 1 .. Len(commits) /\ commits \in Seq(CommitRows)
      BY <3>1, LenProperties DEF BeginUndoPatch, RowsInv, TagInv, TypeInv, TypeOK
    <3>3. commits[head] \in CommitRows
      BY <3>2, ElementOfSeq
    <3>4. ps \in Seq(PatchRows)
      BY <3>3 DEF CommitRows
    <3> HIDE DEF ps
    <3>5. 1 \in 1 .. Len(ps) + 1 /\ \A m \in DOMAIN ps : ~(m < 1)
      BY <3>4, LenProperties
    <3>6. AppendedBefore(ps, commits[head].field, 1) = {}
      BY <3>5 DEF AppendedBefore
    <3> QED BY <1>1, <3>5, <3>6 DEF UndoTxRows, tables, ps, Present, AppendedBefore
  <2> QED BY <1>1, <2>1, <2>2
<1> QED BY <1>1, <1>3, <1>4, <1>5, TxStepRows

LEMMA RowsInvNext == RowsInv /\ [Next]_vars => RowsInv'
<1> SUFFICES ASSUME RowsInv, [Next]_vars PROVE RowsInv'
  OBVIOUS
<1>1. TagInv'
  BY TagInvNext DEF RowsInv
<1>2. ASSUME NEW ids \in SUBSET Ids, NEW excluded \in SUBSET Ids,
             NEW op \in {"add", "remove"}, NEW t \in Tags,
             ApplySet(ResolveSelection(ids, excluded), op, t)
      PROVE  RowsInv'
  BY <1>2, SelectionsAreBits, ApplySetRows
<1>3. CASE ApplyPatch
  BY <1>1, <1>3, BeginRows, PatchStepRows, CommitPatchRows DEF ApplyPatch
<1>4. CASE Undo
  BY <1>1, <1>4, BeginRows, UndoPatchRowRows, UndoRows DEF Undo
<1>5. CASE Rollback
  <2>1. PatchTxRows' /\ UndoTxRows' /\ NoTx'
    BY <1>5 DEF Rollback, tables, PatchTxRows, UndoTxRows, NoTx
  <2> QED BY <1>1, <1>5, <2>1, TxStepRows DEF Rollback
<1>6. CASE UNCHANGED vars
  <2>1. PatchTxRows' /\ UndoTxRows' /\ NoTx'
    BY <1>6 DEF vars, PatchTxRows, UndoTxRows, NoTx, RowsInv, Present, Gapless, Appended, AppendedBefore
  <2> QED BY <1>1, <1>6, <2>1, TxStepRows DEF vars, tables
<1> QED BY <1>2, <1>3, <1>4, <1>5, <1>6 DEF Next

LEMMA RowsInvInit == Init => RowsInv
<1> SUFFICES ASSUME Init PROVE RowsInv
  OBVIOUS
<1>1. TagInv
  BY TagInvInit
<1>2. Len(commits) = 0 /\ labels = Snap(head).labels
  BY DEF Init, Snap, At
<1> QED BY <1>1, <1>2 DEF Init, RowsInv, PatchTxRows, UndoTxRows, NoTx

(* After any commits and undos, also of requests that edit a label twice,  *)
(* exactly the label rows exist that the commit at HEAD left.              *)
THEOREM RowsExact == Spec => []LabelRowsAreHeads
<1>1. RowsInv => LabelRowsAreHeads
  BY DEF RowsInv, Present, LabelRowsAreHeads
<1> QED BY <1>1, RowsInvInit, RowsInvNext, PTL DEF Spec

(* The idx of a label is its place in its list, wherever a client or a     *)
(* later patch can see the list.                                           *)
THEOREM PlacesAreIndexes == Spec => []PlaceIsIndex
<1>1. RowsInv => PlaceIsIndex
  BY ListsAreGapless DEF RowsInv, PatchTxRows, PlaceIsIndex
<1> QED BY <1>1, RowsInvInit, RowsInvNext, PTL DEF Spec

(* The log only grows, also over undos, and HEAD only moves to a commit    *)
(* that is new, or to its parent.                                          *)
THEOREM NothingIsRewritten == Spec => LogOnlyGrows
<1>1. TypeInv /\ [Next]_vars =>
          [/\ \A c \in DOMAIN commits : c \in DOMAIN commits' /\ commits'[c] = commits[c]
           /\ head' \in {head, Len(commits) + 1} \/ (head # 0 /\ head' = commits[head].parent)]_vars
  <2> SUFFICES ASSUME TypeInv, [Next]_vars
               PROVE  /\ \A c \in DOMAIN commits : c \in DOMAIN commits' /\ commits'[c] = commits[c]
                      /\ \/ head' \in {head, Len(commits) + 1}
                         \/ head # 0 /\ head' = commits[head].parent
    OBVIOUS
  <2>1. tx = "undo" => head # 0
    BY DEF TypeInv
  <2>2. ASSUME NEW row \in CommitRows, commits' = Append(commits, row), head' = Len(commits) + 1
        PROVE  \A c \in DOMAIN commits : c \in DOMAIN commits' /\ commits'[c] = commits[c]
    <3>1. commits \in Seq(CommitRows)
      BY DEF TypeInv, TypeOK
    <3> QED BY <2>2, <3>1, AppendKeeps, LenProperties
  <2>3. ASSUME NEW ids \in SUBSET Ids, NEW excluded \in SUBSET Ids,
               NEW op \in {"add", "remove"}, NEW t \in Tags,
               ApplySet(ResolveSelection(ids, excluded), op, t)
        PROVE  /\ \A c \in DOMAIN commits : c \in DOMAIN commits' /\ commits'[c] = commits[c]
               /\ head' = Len(commits) + 1
    <3> DEFINE row == SetRow(op, t, Delta(op, ResolveSelection(ids, excluded), tags[t]))
    <3>1. Delta(op, ResolveSelection(ids, excluded), tags[t]) \in SUBSET Bits
      BY SelectionsAreBits DEF Delta, TypeInv, TypeOK, TagState
    <3>2. row \in CommitRows /\ commits' = Append(commits, row) /\ head' = Len(commits) + 1
      BY <2>3, <3>1, RowTypes DEF TypeInv, ApplySet
    <3> HIDE DEF row
    <3> QED BY <2>2, <3>2
  <2>4. CASE CommitPatch
    <3>1. PatchRow(field, patches) \in CommitRows
      BY RowTypes DEF TypeInv, TypeOK
    <3>2. commits' = Append(commits, PatchRow(field, patches)) /\ head' = Len(commits) + 1
      BY <2>4 DEF CommitPatch
    <3> QED BY <2>2, <3>1, <3>2
  <2>5. CASE CommitUndo \/ \E expected : UndoSet(expected)
    BY <2>1, <2>5 DEF CommitUndo, UndoSet, TypeInv
  <2>6. CASE UNCHANGED <<commits, head>>
    BY <2>6
  <2> QED BY <2>3, <2>4, <2>5, <2>6 DEF Next, ApplyPatch, Undo, BeginPatch, AppendLabel,
             EditLabel, BeginUndoPatch, UndoPatchRow, Rollback, tables, vars
<1> QED BY <1>1, TypeInvariance, PTL DEF Spec, LogOnlyGrows

-----------------------------------------------------------------------------
(* Refinement.                                                             *)

Shown == [tags |-> tags, labels |-> labels]
Parents == [c \in 1 .. Len(commits) |-> commits[c].parent]

LEMMA ShownAtHead == LabelInv => Shown = Snap(head)
<1> SUFFICES ASSUME LabelInv PROVE Shown = Snap(head)
  OBVIOUS
<1>1. /\ head \in 0 .. Len(commits) /\ snaps \in Seq(Data) /\ Len(snaps) = Len(commits)
      /\ tags = Snap(head).tags /\ labels = Snap(head).labels
  BY DEF LabelInv, TagInv, TypeInv, TypeOK, TagsAreHeads, LabelsAreHeads
<1>2. CASE head = 0
  BY <1>1, <1>2 DEF Shown, Snap, At, Empty
<1>3. CASE head # 0
  <2>1. head \in 1 .. Len(snaps)
    BY <1>1, <1>3, LenProperties
  <2>2. snaps[head] \in Data
    BY <1>1, <2>1, ElementOfSeq
  <2> QED BY <1>1, <1>3, <2>2 DEF Shown, Snap, At, Data
<1> QED BY <1>2, <1>3

LEMMA ParentsIsSeq == TypeInv => Parents \in Seq(Nat) /\ Len(Parents) = Len(commits)
<1> SUFFICES ASSUME TypeInv PROVE Parents \in Seq(Nat) /\ Len(Parents) = Len(commits)
  OBVIOUS
<1>1. commits \in Seq(CommitRows) /\ Len(commits) \in Nat
  BY LenProperties DEF TypeInv, TypeOK
<1>2. ASSUME NEW c \in 1 .. Len(commits) PROVE commits[c].parent \in Nat
  <2>1. commits[c] \in CommitRows
    BY <1>1, ElementOfSeq
  <2> QED BY <2>1 DEF CommitRows
<1>3. Parents \in [1 .. Len(commits) -> Nat]
  BY <1>2 DEF Parents
<1>4. Parents \in Seq(Nat)
  BY <1>1, <1>3, SeqDef
<1>5. 1 .. Len(Parents) = 1 .. Len(commits) /\ Len(Parents) \in Nat
  BY <1>3, <1>4, LenProperties
<1> QED BY <1>1, <1>4, <1>5

(* A commit of the log is a commit of the dataset.                         *)
LEMMA CommitRefines ==
    ASSUME LabelInv, LabelInv', NEW row \in CommitRows, NEW d \in Data,
           commits' = Append(commits, row), snaps' = Append(snaps, d),
           row.parent = head, head' = Len(commits) + 1
    PROVE  Versioned!Next
<1>1. /\ TypeInv /\ TypeInv'
      /\ commits \in Seq(CommitRows) /\ Len(commits) \in Nat /\ Len(snaps) = Len(commits)
      /\ head \in Nat
  BY LenProperties DEF LabelInv, TagInv, TypeInv, TypeOK
<1>2. row.parent \in 0 .. Len(commits)
  BY DEF LabelInv, TagInv, TypeInv, TypeOK
<1>3. Shown' = d
  <2>1. At(snaps', head') = d
    BY <1>1, <1>2, HistoryKept
  <2>2. (Shown = Snap(head))'
    BY ShownAtHead, PTL
  <2> QED BY <2>1, <2>2 DEF Snap
<1>4. Parents' = Append(Parents, head)
  <2>1. (Parents \in Seq(Nat) /\ Len(Parents) = Len(commits))'
    BY <1>1, ParentsIsSeq, PTL
  <2>2. Parents \in Seq(Nat) /\ Len(Parents) = Len(commits)
    BY <1>1, ParentsIsSeq
  <2>3. /\ Append(Parents, head) \in Seq(Nat)
        /\ Len(Append(Parents, head)) = Len(commits) + 1
        /\ \A c \in 1 .. Len(commits) : Append(Parents, head)[c] = Parents[c]
        /\ Append(Parents, head)[Len(commits) + 1] = head
    BY <1>1, <2>2, AppendKeeps
  <2>4. Len(commits') = Len(commits) + 1
    BY <1>1, <1>2, HistoryKept
  <2>5. ASSUME NEW c \in 1 .. Len(commits') PROVE Parents'[c] = Append(Parents, head)[c]
    <3>1. Parents'[c] = commits'[c].parent
      BY DEF Parents
    <3>2. CASE c \in 1 .. Len(commits)
      <4>1. commits'[c] = commits[c]
        BY <1>1, <3>2, AppendKeeps
      <4> QED BY <2>3, <3>1, <3>2, <4>1 DEF Parents
    <3>3. CASE c = Len(commits) + 1
      <4>1. commits'[c] = row
        BY <1>1, <3>3, AppendKeeps
      <4> QED BY <2>3, <3>1, <3>3, <4>1
    <3>4. c \in 1 .. Len(commits) \/ c = Len(commits) + 1
      BY <1>1, <2>4
    <3> QED BY <3>2, <3>3, <3>4
  <2> QED BY <2>1, <2>3, <2>4, <2>5, SeqEqual
<1>5. Versioned!Commit
  BY <1>1, <1>3, <1>4 DEF Versioned!Commit, Shown, Parents
<1> QED BY <1>5 DEF Versioned!Next

(* A finished undo, of either kind, is an undo of the dataset.             *)
LEMMA UndoRefines ==
    ASSUME LabelInv, LabelInv', CommitUndo \/ \E expected : UndoSet(expected)
    PROVE  Versioned!Next
<1>1. /\ head \in 1 .. Len(commits) /\ head # 0
      /\ head' = commits[head].parent /\ UNCHANGED <<commits, snaps>>
  BY LenProperties
  DEF LabelInv, TagInv, TypeInv, TypeOK, CommitUndo, UndoSet
<1>2. Parents[head] = head' /\ Parents' = Parents
  BY <1>1 DEF Parents
<1>3. (Shown = Snap(head))'
  BY ShownAtHead, PTL
<1>4. Shown' = Versioned!At(head')
  BY <1>1, <1>3 DEF Snap, At, Versioned!At
<1>5. Versioned!Undo
  BY <1>1, <1>2, <1>4 DEF Versioned!Undo, Shown, Parents
<1> QED BY <1>5 DEF Versioned!Next

LEMMA RefinesInit == Init => Versioned!Init
<1> SUFFICES ASSUME Init PROVE Versioned!Init
  OBVIOUS
<1>1. Len(commits) = 0 /\ Len(snaps) = 0
  BY EmptySeq DEF Init
<1>2. LabelInv
  BY LabelInvInit
<1>3. Parents \in Seq(Nat) /\ Len(Parents) = 0
  BY <1>1, <1>2, ParentsIsSeq DEF LabelInv, TagInv
<1>4. Parents = <<>>
  BY <1>3, EmptySeq
<1> QED BY <1>4 DEF Init, Versioned!Init, Parents, Empty

LEMMA RefinesNext ==
    LabelInv /\ LabelInv' /\ [Next]_vars => [Versioned!Next]_(Versioned!vars)
<1> SUFFICES ASSUME LabelInv, LabelInv', [Next]_vars
             PROVE  [Versioned!Next]_(Versioned!vars)
  OBVIOUS
<1>1. UNCHANGED <<tags, labels, commits, head, snaps>> => UNCHANGED Versioned!vars
  BY DEF Versioned!vars
<1>2. /\ tags \in TagState /\ labels \in LabelState /\ work \in LabelState
      /\ TypeInv /\ TypeOK
  BY DEF LabelInv, TagInv, TypeInv, TypeOK
<1>3. ASSUME NEW ids \in SUBSET Ids, NEW excluded \in SUBSET Ids,
             NEW op \in {"add", "remove"}, NEW t \in Tags,
             ApplySet(ResolveSelection(ids, excluded), op, t)
      PROVE  Versioned!Next
  <2> DEFINE selected == ResolveSelection(ids, excluded)
             delta == Delta(op, selected, tags[t])
             newTags == [tags EXCEPT ![t] = ApplyDelta(op, @, delta)]
             row == SetRow(op, t, delta)
             d == [tags |-> newTags, labels |-> labels]
  <2>1. delta \in SUBSET Bits /\ newTags \in TagState
    <3>1. selected \in SUBSET Bits
      BY SelectionsAreBits
    <3> HIDE DEF selected
    <3> QED BY <1>2, <3>1 DEF Delta, ApplyDelta, TagState
  <2>2. row \in CommitRows /\ d \in Data
    BY <1>2, <2>1, RowTypes DEF Data
  <2>3. /\ commits' = Append(commits, row) /\ snaps' = Append(snaps, d)
        /\ row.parent = head /\ head' = Len(commits) + 1
    BY <1>3 DEF ApplySet, SetRow
  <2> HIDE DEF row, d
  <2> QED BY <2>2, <2>3, CommitRefines
<1>4. CASE CommitPatch
  <2> DEFINE row == PatchRow(field, patches)
             d == [tags |-> tags, labels |-> work]
  <2>1. row \in CommitRows /\ d \in Data
    BY <1>2, RowTypes DEF Data, TypeOK
  <2>2. /\ commits' = Append(commits, row) /\ snaps' = Append(snaps, d)
        /\ row.parent = head /\ head' = Len(commits) + 1
    BY <1>4 DEF CommitPatch, PatchRow
  <2> HIDE DEF row, d
  <2> QED BY <2>1, <2>2, CommitRefines
<1>5. CASE ApplyPatch
  BY <1>1, <1>4, <1>5 DEF ApplyPatch, BeginPatch, AppendLabel, EditLabel, tables
<1>6. CASE Undo
  BY <1>1, <1>6, UndoRefines DEF Undo, BeginUndoPatch, UndoPatchRow, tables
<1>7. CASE Rollback
  BY <1>1, <1>7 DEF Rollback, tables
<1>8. CASE UNCHANGED vars
  BY <1>1, <1>8 DEF vars
<1> QED BY <1>3, <1>5, <1>6, <1>7, <1>8 DEF Next

(* The catalog's tables and its three operations implement the abstract    *)
(* versioned dataset: a live read always shows exactly one version, and an *)
(* undo shows the parent of the version it left.                           *)
THEOREM LogImplementsVersionedDataset ==
    ASSUME DistinctEdits
    PROVE  Spec => ImplementsVersionedDataset
<1>1. LabelInv /\ [Next]_vars => LabelInv'
  BY LabelInvNext
<1> QED BY <1>1, LabelInvInit, RefinesInit, RefinesNext, PTL
        DEF Spec, ImplementsVersionedDataset, Versioned!Spec

-----------------------------------------------------------------------------
(* Pinned reads.  What commits do to one bit of a tag or to one label.     *)

TouchesTag(c, t, b) ==
    commits[c].kind = "set" /\ commits[c].value = t /\ b \in commits[c].bitmap
TouchesLabel(c, k) ==
    commits[c].kind = "patch" /\ k \in Touched(commits[c].patches, commits[c].field)

LEMMA LogFacts ==
    ASSUME LabelInv
    PROVE  /\ Len(commits) \in Nat /\ head \in 0 .. Len(commits)
           /\ \A c \in 0 .. Len(commits) : Snap(c) \in Data
           /\ \A c \in 1 .. Len(commits) :
                  /\ commits[c] \in CommitRows
                  /\ commits[c].parent \in 0 .. Len(commits) /\ commits[c].parent < c
<1>1. commits \in Seq(CommitRows) /\ snaps \in Seq(Data) /\ Len(snaps) = Len(commits)
  BY DEF LabelInv, TagInv, TypeInv, TypeOK
<1>2. Len(commits) \in Nat /\ head \in 0 .. Len(commits)
  BY <1>1, LenProperties DEF LabelInv, TagInv, TypeInv, TypeOK
<1>3. \A c \in 1 .. Len(commits) : commits[c] \in CommitRows /\ snaps[c] \in Data
  BY <1>1, ElementOfSeq
<1>4. Empty \in Data
  BY DEF Empty, Data, TagState, LabelState, Values
<1>5. \A c \in 0 .. Len(commits) : Snap(c) \in Data
  BY <1>2, <1>3, <1>4 DEF Snap, At
<1>6. ASSUME NEW c \in 1 .. Len(commits)
      PROVE  commits[c].parent \in 0 .. Len(commits) /\ commits[c].parent < c
  <2>1. commits[c].parent \in Nat /\ commits[c].parent < c
    BY <1>3 DEF CommitRows, LabelInv, TagInv, TypeInv, ParentsAreOlder
  <2> QED BY <1>2, <2>1
<1> QED BY <1>2, <1>3, <1>5, <1>6

(* Unwinding a commit sets the bits it touched to what they were before    *)
(* it, whatever they are now, and other bits are the same before and after.*)
LEMMA UnwindsTags ==
    ASSUME LabelInv, NEW c \in 1 .. Len(commits), NEW t \in Tags, NEW b \in Bits,
           NEW bits \in SUBSET Bits
    PROVE  LET before == Snap(commits[c].parent).tags[t]
           IN  /\ TouchesTag(c, t, b) =>
                      (b \in InvertDelta(commits[c].op, bits, commits[c].bitmap) <=> b \in before)
               /\ ~TouchesTag(c, t, b) => (b \in before <=> b \in Snap(c).tags[t])
<1>1. TagsInvert(commits[c], Snap(commits[c].parent), Snap(c))
  BY DEF LabelInv, TagInv
<1>2. Snap(c).tags \in TagState
  BY LogFacts DEF Data
<1>3. CASE commits[c].kind = "patch"
  BY <1>1, <1>3 DEF TagsInvert, TouchesTag
<1>4. CASE commits[c].kind = "set"
  <2>1. /\ commits[c].op \in {"add", "remove"}
        /\ Snap(commits[c].parent).tags =
               [Snap(c).tags EXCEPT ![commits[c].value] =
                    InvertDelta(commits[c].op, @, commits[c].bitmap)]
    BY <1>1, <1>4 DEF TagsInvert
  <2>2. CASE commits[c].value = t
    <3>1. Snap(commits[c].parent).tags[t] =
              InvertDelta(commits[c].op, Snap(c).tags[t], commits[c].bitmap)
      BY <1>2, <2>1, <2>2 DEF TagState
    <3> QED BY <1>4, <2>1, <2>2, <3>1 DEF InvertDelta, TouchesTag
  <2>3. CASE commits[c].value # t
    <3>1. Snap(commits[c].parent).tags[t] = Snap(c).tags[t]
      BY <1>2, <2>1, <2>3 DEF TagState
    <3> QED BY <2>3, <3>1 DEF TouchesTag
  <2> QED BY <2>2, <2>3
<1> QED BY <1>1, <1>3, <1>4 DEF TagsInvert

LEMMA LeastNumber ==
    ASSUME NEW S \in SUBSET Nat, S # {}
    PROVE  \E x \in S : \A y \in S : x <= y
<1>1. PICK x \in S : \A y \in S : <<y, x>> \notin OpToRel(<, Nat)
  BY NatLessThanWellFounded, WFMin
<1>2. \A y \in S : ~(y < x)
  BY <1>1 DEF OpToRel
<1> QED BY <1>2

LEMMA LastOf ==
    ASSUME NEW n \in Nat, NEW S \in SUBSET (1 .. n), S # {}
    PROVE  \E x \in S : \A y \in S : y <= x
<1> DEFINE D == {n - x : x \in S}
<1>1. D \in SUBSET Nat /\ D # {}
  <2>1. PICK x \in S : TRUE
    OBVIOUS
  <2>2. n - x \in D
    OBVIOUS
  <2>3. \A y \in S : n - y \in Nat
    OBVIOUS
  <2> QED BY <2>2, <2>3
<1>2. PICK d \in D : \A e \in D : d <= e
  <2> HIDE DEF D
  <2> QED BY <1>1, LeastNumber
<1>3. PICK x \in S : d = n - x
  BY <1>2
<1>4. ASSUME NEW y \in S PROVE y <= x
  <2>1. d <= n - y
    BY <1>2
  <2> QED BY <1>3, <2>1
<1> QED BY <1>4

(* The same for labels.                                                    *)
LEMMA UnwindsLabels ==
    ASSUME LabelInv, NEW c \in 1 .. Len(commits), NEW k \in Keys, NEW rows \in LabelState
    PROVE  LET before == Snap(commits[c].parent).labels[k]
           IN  /\ TouchesLabel(c, k) =>
                      OverlayPatches(rows, commits[c].patches, commits[c].field)[k] = before
               /\ commits[c].kind = "patch" /\ ~TouchesLabel(c, k) =>
                      OverlayPatches(rows, commits[c].patches, commits[c].field)[k] = rows[k]
               /\ ~TouchesLabel(c, k) => before = Snap(c).labels[k]
<1> DEFINE ps == commits[c].patches
           f  == commits[c].field
           ns == {n \in DOMAIN ps : Key(ps[n], f) = k}
<1>1. LabelsInvert(commits[c], Snap(commits[c].parent), Snap(c))
  BY DEF LabelInv
<1>2. ps \in Seq(PatchRows)
  BY LogFacts DEF CommitRows
<1>3. CASE commits[c].kind = "set"
  BY <1>1, <1>3 DEF LabelsInvert, TouchesLabel
<1>4. CASE commits[c].kind = "patch"
  <2>1. PatchesInvert(ps, f, Snap(commits[c].parent).labels, Snap(c).labels)
    BY <1>1, <1>4 DEF LabelsInvert
  <2>2. OverlayPatches(rows, ps, f)[k] =
            IF ns = {} THEN rows[k]
            ELSE ps[CHOOSE n \in ns : \A m \in ns : m <= n].prior
    BY DEF OverlayPatches
  <2>3. TouchesLabel(c, k) <=> ns # {}
    BY <1>4 DEF TouchesLabel, Touched
  <2>4. CASE ns = {}
    <3>1. k \in Keys \ Touched(ps, f)
      BY <2>4 DEF Touched
    <3> QED BY <2>1, <2>2, <2>3, <2>4, <3>1 DEF PatchesInvert
  <2>5. CASE ns # {}
    <3>1. ns \in SUBSET (1 .. Len(ps)) /\ Len(ps) \in Nat
      BY <1>2, LenProperties
    <3>2. \E n \in ns : \A m \in ns : m <= n
      <4> HIDE DEF ns, ps
      <4> QED BY <2>5, <3>1, LastOf
    <3> DEFINE last == CHOOSE n \in ns : \A m \in ns : m <= n
    <3>3. last \in ns
      <4> HIDE DEF ns
      <4> QED BY <3>2
    <3> HIDE DEF last
    <3>4. ps[last].prior = Snap(commits[c].parent).labels[k]
      BY <2>1, <3>3 DEF PatchesInvert
    <3> QED BY <2>2, <2>3, <2>5, <3>4 DEF last
  <2> QED BY <2>4, <2>5
<1> QED BY <1>1, <1>3, <1>4 DEF LabelsInvert

(* What a step of the writers does to the log.                             *)
LogKept ==
    /\ Len(commits) <= Len(commits')
    /\ \A c \in 1 .. Len(commits) : commits'[c] = commits[c]
    /\ \A c \in 0 .. Len(commits) : At(snaps', c) = Snap(c)

LEMMA AppendedCommit ==
    ASSUME LabelInv, NEW row \in CommitRows, NEW d \in Data, row.parent = head,
           commits' = Append(commits, row), snaps' = Append(snaps, d)
    PROVE  /\ LogKept
           /\ Len(commits') = Len(commits) + 1
           /\ commits'[Len(commits) + 1].parent = head
<1>1. TypeInv
  BY DEF LabelInv, TagInv
<1>2. row.parent \in 0 .. Len(commits)
  BY LogFacts
<1>3. /\ Len(commits) \in Nat /\ Len(commits') = Len(commits) + 1
      /\ \A c \in 1 .. Len(commits') :
             \/ /\ c \in 1 .. Len(commits) /\ commits'[c] = commits[c]
                /\ At(snaps', c) = Snap(c)
             \/ c = Len(commits) + 1 /\ commits'[c] = row
  BY <1>1, <1>2, HistoryKept
<1>4. ASSUME NEW c \in 1 .. Len(commits)
      PROVE  commits'[c] = commits[c] /\ At(snaps', c) = Snap(c)
  <2>1. c \in 1 .. Len(commits') /\ c # Len(commits) + 1
    BY <1>3
  <2> QED BY <1>3, <2>1
<1>5. At(snaps', 0) = Snap(0)
  BY DEF Snap, At
<1>6. commits'[Len(commits) + 1] = row
  <2>1. Len(commits) + 1 \in 1 .. Len(commits') /\ Len(commits) + 1 \notin 1 .. Len(commits)
    BY <1>3
  <2> QED BY <1>3, <2>1
<1>7. \A c \in 0 .. Len(commits) : c = 0 \/ c \in 1 .. Len(commits)
  BY <1>3
<1> QED BY <1>3, <1>4, <1>5, <1>6, <1>7 DEF LogKept

LEMMA LogSteps ==
    ASSUME LabelInv, Next
    PROVE  /\ LogKept
           /\ \/ UndoCommits
              \/ head' = head /\ Len(commits') = Len(commits)
              \/ /\ Len(commits') = Len(commits) + 1
                 /\ head' = Len(commits) + 1
                 /\ commits'[Len(commits) + 1].parent = head
<1>1. ASSUME UNCHANGED <<commits, snaps>> PROVE LogKept /\ Len(commits') = Len(commits)
  BY <1>1, LogFacts DEF LogKept, Snap
<1>2. CASE \E ids, excluded \in SUBSET Ids, op \in {"add", "remove"}, t \in Tags :
               ApplySet(ResolveSelection(ids, excluded), op, t)
  <2>1. PICK selected \in SUBSET Bits, op \in {"add", "remove"}, t \in Tags :
            ApplySet(selected, op, t)
    BY <1>2, SelectionsAreBits
  <2> DEFINE delta == Delta(op, selected, tags[t])
             newTags == [tags EXCEPT ![t] = ApplyDelta(op, @, delta)]
             row == SetRow(op, t, delta)
             d == [tags |-> newTags, labels |-> labels]
  <2>2. tags \in TagState /\ labels \in LabelState /\ TypeOK
    BY DEF LabelInv, TagInv, TypeInv, TypeOK
  <2>3. delta \in SUBSET Bits /\ newTags \in TagState
    BY <2>2 DEF Delta, ApplyDelta, TagState
  <2>4. row \in CommitRows /\ d \in Data
    BY <2>2, <2>3, RowTypes DEF Data
  <2>5. /\ commits' = Append(commits, row) /\ snaps' = Append(snaps, d)
        /\ row.parent = head /\ head' = Len(commits) + 1
    BY <2>1 DEF ApplySet, SetRow
  <2> HIDE DEF row, d
  <2> QED BY <2>4, <2>5, AppendedCommit
<1>3. CASE CommitPatch
  <2> DEFINE row == PatchRow(field, patches)
             d == [tags |-> tags, labels |-> work]
  <2>1. /\ field \in Fields \cup {"tags"} /\ patches \in Seq(PatchRows)
        /\ tags \in TagState /\ work \in LabelState /\ TypeOK
    BY DEF LabelInv, TagInv, TypeInv, TypeOK
  <2>2. row \in CommitRows /\ d \in Data
    BY <2>1, RowTypes DEF Data
  <2>3. /\ commits' = Append(commits, row) /\ snaps' = Append(snaps, d)
        /\ row.parent = head /\ head' = Len(commits) + 1
    BY <1>3 DEF CommitPatch, PatchRow
  <2> HIDE DEF row, d
  <2> QED BY <2>2, <2>3, AppendedCommit
<1>4. CASE \/ \E f \in Fields : BeginPatch(f)
           \/ \E s \in Samples, i \in Idx, v \in LabelValues :
                  AppendLabel(s, i, v) \/ EditLabel(s, i, v)
  BY <1>1, <1>4 DEF BeginPatch, AppendLabel, EditLabel, tables
<1>5. CASE \E expected \in 0 .. Len(commits) : UndoSet(expected)
  BY <1>1, <1>5 DEF UndoSet, UndoCommits
<1>6. CASE (\E expected \in 0 .. Len(commits) : BeginUndoPatch(expected)) \/ UndoPatchRow \/ Rollback
  BY <1>1, <1>6 DEF BeginUndoPatch, UndoPatchRow, Rollback, tables
<1>7. CASE CommitUndo
  BY <1>1, <1>7 DEF CommitUndo, UndoCommits
<1> QED BY <1>2, <1>3, <1>4, <1>5, <1>6, <1>7 DEF Next, ApplyPatch, Undo

-----------------------------------------------------------------------------
(* The invariant of a pinned read.                                         *)

(* Once the collected commits after the n-th are unwound, d will be e.     *)
TagsMeet(n, d, e) ==
    \A t \in Tags, b \in Bits :
        \/ \E i \in DOMAIN chain : n < i /\ TouchesTag(chain[i], t, b)
        \/ b \in d[t] <=> b \in e[t]
LabelsMeet(n, d, e) ==
    \A k \in Keys :
        \/ \E i \in DOMAIN chain : n < i /\ TouchesLabel(chain[i], k)
        \/ d[k] = e[k]

(* Unwinding a collected commit and then those after it leads to c.        *)
ChainMeets(c) ==
    \A i \in DOMAIN chain :
        /\ TagsMeet(i, Snap(commits[chain[i]].parent).tags, Snap(c).tags)
        /\ LabelsMeet(i, Snap(commits[chain[i]].parent).labels, Snap(c).labels)

(* x is h, or one of the commits made on top of h, one on the other, since *)
(* there were n of them.                                                   *)
OnTop(n, h, x) ==
    /\ n \in target .. Len(commits) /\ h \in 0 .. n
    /\ \/ x = h
       \/ /\ x \in n + 1 .. Len(commits)
          /\ \A c \in n + 1 .. x : commits[c].parent = IF c = n + 1 THEN h ELSE c - 1

(* What was read belongs to a commit that HEAD has only moved up from.     *)
TagsRead ==
    \E n \in Nat, h \in Nat :
        /\ rtags = Snap(h).tags /\ OnTop(n, h, head)
        /\ head = IF Len(commits) = n THEN h ELSE Len(commits)
LabelsRead ==
    \E n \in Nat, h \in Nat :
        /\ rlabels = Snap(h).labels /\ OnTop(n, h, head)
        /\ head = IF Len(commits) = n THEN h ELSE Len(commits)

(* The walk, at x, is still above that commit, or what was read will be x's. *)
TagsComing(x) ==
    \/ TagsMeet(0, rtags, Snap(x).tags)
    \/ \E n \in Nat, h \in Nat : rtags = Snap(h).tags /\ OnTop(n, h, x) /\ n < x
LabelsComing(x) ==
    \/ LabelsMeet(0, rlabels, Snap(x).labels)
    \/ \E n \in Nat, h \in Nat : rlabels = Snap(h).labels /\ OnTop(n, h, x) /\ n < x

Progress ==
    /\ rstep \in {"labels", "head"} => TagsRead
    /\ rstep = "head" => LabelsRead
    /\ rstep = "walk" => ChainMeets(cur) /\ TagsComing(cur) /\ LabelsComing(cur)
    /\ rstep = "unwind" =>
           /\ ChainMeets(target)
           /\ TagsMeet(0, rtags, Snap(target).tags)
           /\ LabelsMeet(0, rlabels, Snap(target).labels)
    /\ rstep = "done" => Exact

ReadInv ==
    /\ ReadTypeOK
    /\ rstep \in {"tags", "labels", "head"} => chain = <<>>
    /\ rstep = "walk" => cur # 0
    /\ ~undone => Progress

LEMMA ReadInvInit == Init /\ ReadInit => ReadInv
<1> SUFFICES ASSUME Init, ReadInit PROVE ReadInv
  OBVIOUS
<1>1. Len(commits) = 0 /\ <<>> \in Seq(1 .. Len(commits))
  BY EmptySeq DEF Init
<1>2. Empty.tags \in TagState /\ Empty.labels \in LabelState
  BY DEF Empty, TagState, LabelState, Values
<1>3. /\ rstep = "tags" /\ target = 0 /\ cur = 0 /\ undone = FALSE /\ reachable = FALSE
      /\ rtags = Empty.tags /\ rlabels = Empty.labels /\ chain = <<>>
  BY DEF ReadInit
<1>4. target \in 0 .. Len(commits) /\ cur \in 0 .. Len(commits)
  BY <1>1, <1>3
<1>5. chain \in Seq(1 .. Len(commits))
  BY <1>1, <1>3, Zenon
<1>6. rtags \in TagState /\ rlabels \in LabelState
  BY <1>2, <1>3, Zenon
<1>7. ReadTypeOK
  BY <1>3, <1>4, <1>5, <1>6, Zenon DEF ReadTypeOK
<1> QED BY <1>3, <1>7 DEF ReadInv, Progress

-----------------------------------------------------------------------------
(* The read's own steps.                                                   *)

LEMMA ReadTagsStep ==
    ASSUME LabelInv, ReadInv, NEW c \in 0 .. Len(commits), ReadTags(c), UNCHANGED vars
    PROVE  ReadInv'
<1>1. /\ target' = c /\ rtags' = tags /\ rstep' = "labels" /\ chain = <<>>
      /\ UNCHANGED <<rlabels, cur, chain, undone, commits, head, snaps>>
  BY DEF ReadTags, vars, ReadInv
<1>2. ReadTypeOK'
  BY <1>1 DEF ReadInv, ReadTypeOK, ReadTags, LabelInv, TagInv, TypeInv, TypeOK
<1>3. rtags' = Snap(head).tags
  BY <1>1 DEF LabelInv, TagInv, TagsAreHeads
<1>4. Len(commits) \in Nat /\ head \in 0 .. Len(commits)
  BY LogFacts
<1>5. OnTop(Len(commits), head, head)'
  BY <1>1, <1>4 DEF OnTop
<1>6. TagsRead'
  BY <1>1, <1>3, <1>4, <1>5 DEF TagsRead, Snap
<1> QED BY <1>1, <1>2, <1>6 DEF ReadInv, Progress

LEMMA ReadLabelsStep ==
    ASSUME LabelInv, ReadInv, ReadLabels, UNCHANGED vars
    PROVE  ReadInv'
<1>1. /\ rlabels' = labels /\ rstep = "labels" /\ rstep' = "head" /\ chain = <<>>
      /\ UNCHANGED <<rtags, target, cur, chain, undone, commits, head, snaps>>
  BY DEF ReadLabels, vars, ReadInv
<1>2. ReadTypeOK'
  BY <1>1 DEF ReadInv, ReadTypeOK, ReadLabels, LabelInv, TagInv, TypeInv, TypeOK
<1>3. rlabels' = Snap(head).labels
  BY <1>1 DEF LabelInv, LabelsAreHeads
<1>4. Len(commits) \in Nat /\ head \in 0 .. Len(commits) /\ target \in 0 .. Len(commits)
  BY LogFacts DEF ReadInv, ReadTypeOK
<1>5. OnTop(Len(commits), head, head)'
  BY <1>1, <1>4 DEF OnTop
<1>6. LabelsRead'
  BY <1>1, <1>3, <1>4, <1>5 DEF LabelsRead, Snap
<1>7. TagsRead => TagsRead'
  BY <1>1 DEF TagsRead, OnTop, Snap
<1> QED BY <1>1, <1>2, <1>6, <1>7 DEF ReadInv, Progress

(* With nothing collected, what meets is the same.                         *)
LEMMA MeetIsEqual ==
    ASSUME chain = <<>>, NEW d \in Data, NEW r \in TagState, NEW l \in LabelState
    PROVE  /\ TagsMeet(0, r, d.tags) <=> r = d.tags
           /\ LabelsMeet(0, l, d.labels) <=> l = d.labels
<1>1. DOMAIN chain = {}
  OBVIOUS
<1>2. d.tags \in TagState /\ d.labels \in LabelState
  BY DEF Data
<1>3. TagsMeet(0, r, d.tags) => r = d.tags
  <2> SUFFICES ASSUME TagsMeet(0, r, d.tags) PROVE r = d.tags
    OBVIOUS
  <2>1. \A t \in Tags : r[t] \in SUBSET Bits /\ d.tags[t] \in SUBSET Bits
    BY <1>2 DEF TagState
  <2>2. \A t \in Tags, b \in Bits : b \in r[t] <=> b \in d.tags[t]
    BY <1>1 DEF TagsMeet
  <2>3. \A t \in Tags : r[t] = d.tags[t]
    BY <2>1, <2>2
  <2> QED BY <1>2, <2>3 DEF TagState
<1>4. LabelsMeet(0, l, d.labels) => l = d.labels
  BY <1>1, <1>2 DEF LabelsMeet, LabelState
<1> QED BY <1>3, <1>4 DEF TagsMeet, LabelsMeet

LEMMA ReadHeadStep ==
    ASSUME LabelInv, ReadInv, ReadHead, UNCHANGED vars
    PROVE  ReadInv'
<1>1. /\ cur' = head /\ rstep = "head" /\ chain = <<>>
      /\ rstep' = IF head = target THEN "done" ELSE IF head = 0 THEN "error" ELSE "walk"
      /\ UNCHANGED <<rtags, rlabels, target, chain, undone, reachable, commits, head, snaps>>
  BY DEF ReadHead, vars, ReadInv
<1>2. Len(commits) \in Nat /\ head \in 0 .. Len(commits) /\ target \in 0 .. Len(commits)
  BY LogFacts DEF ReadInv, ReadTypeOK
<1>3. ReadTypeOK'
  <2>1. rstep' \in {"done", "error", "walk"} /\ cur' \in 0 .. Len(commits)
    BY <1>1, <1>2
  <2> QED BY <1>1, <2>1 DEF ReadInv, ReadTypeOK
<1>4. rtags \in TagState /\ rlabels \in LabelState /\ Snap(head) \in Data
  BY <1>2, LogFacts DEF ReadInv, ReadTypeOK
<1>5. ASSUME ~undone PROVE Progress'
  <2>1. TagsRead /\ LabelsRead
    BY <1>1, <1>5 DEF ReadInv, Progress
  <2>2. TagsComing(head) /\ (head = target => rtags = Snap(target).tags)
    <3>1. PICK n \in Nat, h \in Nat :
              /\ rtags = Snap(h).tags /\ OnTop(n, h, head)
              /\ head = IF Len(commits) = n THEN h ELSE Len(commits)
      BY <2>1 DEF TagsRead
    <3>2. CASE head = h
      BY <1>1, <1>4, <3>1, <3>2, MeetIsEqual DEF TagsComing
    <3>3. CASE head # h
      <4>1. n < head /\ target <= n
        BY <1>2, <3>1, <3>3 DEF OnTop
      <4> QED BY <1>2, <3>1, <4>1 DEF TagsComing
    <3> QED BY <3>2, <3>3
  <2>3. LabelsComing(head) /\ (head = target => rlabels = Snap(target).labels)
    <3>1. PICK n \in Nat, h \in Nat :
              /\ rlabels = Snap(h).labels /\ OnTop(n, h, head)
              /\ head = IF Len(commits) = n THEN h ELSE Len(commits)
      BY <2>1 DEF LabelsRead
    <3>2. CASE head = h
      BY <1>1, <1>4, <3>1, <3>2, MeetIsEqual DEF LabelsComing
    <3>3. CASE head # h
      <4>1. n < head /\ target <= n
        BY <1>2, <3>1, <3>3 DEF OnTop
      <4> QED BY <1>2, <3>1, <4>1 DEF LabelsComing
    <3> QED BY <3>2, <3>3
  <2>4. CASE head = target
    BY <1>1, <2>2, <2>3, <2>4 DEF Progress, Exact, Snap
  <2>5. CASE head # target
    <3>1. rstep' \in {"walk", "error"}
      BY <1>1, <2>5
    <3>2. ChainMeets(cur)'
      BY <1>1 DEF ChainMeets
    <3>3. TagsComing(cur)' /\ LabelsComing(cur)'
      BY <1>1, <2>2, <2>3
      DEF TagsComing, LabelsComing, TagsMeet, LabelsMeet, OnTop, TouchesTag, TouchesLabel, Snap
    <3> QED BY <3>1, <3>2, <3>3 DEF Progress
  <2> QED BY <2>4, <2>5
<1> QED BY <1>1, <1>3, <1>5 DEF ReadInv

(* Collecting a commit: what met the data after it meets the data before.  *)
LEMMA MeetAppended ==
    ASSUME LabelInv, chain \in Seq(1 .. Len(commits)), cur \in 1 .. Len(commits),
           chain' = Append(chain, cur), UNCHANGED <<commits, snaps>>,
           NEW n \in Nat, n <= Len(chain), NEW d, NEW p, p = commits[cur].parent
    PROVE  /\ TagsMeet(n, d, Snap(cur).tags) => TagsMeet(n, d, Snap(p).tags)'
           /\ LabelsMeet(n, d, Snap(cur).labels) => LabelsMeet(n, d, Snap(p).labels)'
<1>0. PICK last : last = Len(chain) + 1
  OBVIOUS
<1>1. Len(chain) \in Nat /\ DOMAIN chain = 1 .. Len(chain) /\ DOMAIN chain' = 1 .. last
  BY <1>0, LenProperties, AppendProperties
<1>2. chain'[last] = cur /\ \A i \in DOMAIN chain : chain'[i] = chain[i]
  BY <1>0, <1>1, AppendProperties
<1>3. last \in DOMAIN chain' /\ n < last /\ DOMAIN chain \subseteq DOMAIN chain'
  BY <1>0, <1>1
<1>4. Snap(p)' = Snap(p)
  BY DEF Snap
<1>5. ASSUME TagsMeet(n, d, Snap(cur).tags), NEW t \in Tags, NEW b \in Bits
      PROVE  \/ \E i \in DOMAIN chain' : n < i /\ TouchesTag(chain[i], t, b)'
             \/ b \in d[t] <=> b \in Snap(p).tags[t]
  <2>1. CASE TouchesTag(cur, t, b)
    <3>1. TouchesTag(chain[last], t, b)'
      BY <1>2, <2>1 DEF TouchesTag
    <3> QED BY <1>3, <3>1
  <2>2. CASE \E i \in DOMAIN chain : n < i /\ TouchesTag(chain[i], t, b)
    <3>1. PICK i \in DOMAIN chain : n < i /\ TouchesTag(chain[i], t, b)
      BY <2>2
    <3>2. TouchesTag(chain[i], t, b)'
      BY <1>2, <3>1 DEF TouchesTag
    <3> QED BY <1>3, <3>1, <3>2
  <2>3. CASE ~TouchesTag(cur, t, b) /\ (b \in d[t] <=> b \in Snap(cur).tags[t])
    <3>1. b \in Snap(p).tags[t] <=> b \in Snap(cur).tags[t]
      BY <2>3, UnwindsTags
    <3> QED BY <2>3, <3>1
  <2> QED BY <1>5, <2>1, <2>2, <2>3 DEF TagsMeet
<1>6. ASSUME LabelsMeet(n, d, Snap(cur).labels), NEW k \in Keys
      PROVE  \/ \E i \in DOMAIN chain' : n < i /\ TouchesLabel(chain[i], k)'
             \/ d[k] = Snap(p).labels[k]
  <2>1. CASE TouchesLabel(cur, k)
    <3>1. TouchesLabel(chain[last], k)'
      BY <1>2, <2>1 DEF TouchesLabel
    <3> QED BY <1>3, <3>1
  <2>2. CASE \E i \in DOMAIN chain : n < i /\ TouchesLabel(chain[i], k)
    <3>1. PICK i \in DOMAIN chain : n < i /\ TouchesLabel(chain[i], k)
      BY <2>2
    <3>2. TouchesLabel(chain[i], k)'
      BY <1>2, <3>1 DEF TouchesLabel
    <3> QED BY <1>3, <3>1, <3>2
  <2>3. CASE ~TouchesLabel(cur, k) /\ d[k] = Snap(cur).labels[k]
    <3>1. Snap(p).labels[k] = Snap(cur).labels[k]
      <4>1. Empty.labels \in LabelState
        BY DEF Empty, LabelState, Values
      <4> QED BY <2>3, <4>1, UnwindsLabels
    <3> QED BY <2>3, <3>1
  <2> QED BY <1>6, <2>1, <2>2, <2>3 DEF LabelsMeet
<1> QED BY <1>4, <1>5, <1>6 DEF TagsMeet, LabelsMeet

LEMMA WalkStep ==
    ASSUME LabelInv, ReadInv, Walk, UNCHANGED vars
    PROVE  ReadInv'
<1>1. /\ rstep = "walk" /\ cur # 0
      /\ UNCHANGED <<rtags, rlabels, target, undone, reachable, commits, head, snaps>>
  BY DEF Walk, vars, ReadInv
<1>2. /\ Len(commits) \in Nat /\ target \in 0 .. Len(commits) /\ cur \in 1 .. Len(commits)
      /\ chain \in Seq(1 .. Len(commits))
  BY <1>1, LogFacts DEF ReadInv, ReadTypeOK
<1>3. ~undone => ChainMeets(cur) /\ TagsComing(cur) /\ LabelsComing(cur)
  BY <1>1 DEF ReadInv, Progress
<1>4. CASE cur = target
  <2>1. rstep' = "unwind" /\ UNCHANGED <<cur, chain>>
    BY <1>4 DEF Walk
  <2>2. ReadTypeOK'
    BY <1>1, <2>1 DEF ReadInv, ReadTypeOK
  <2>3. \A n, h : OnTop(n, h, target) => ~(n < target)
    BY <1>2 DEF OnTop
  <2>4. ASSUME ~undone PROVE Progress'
    <3>1. /\ ChainMeets(target)
          /\ TagsMeet(0, rtags, Snap(target).tags) /\ LabelsMeet(0, rlabels, Snap(target).labels)
      BY <1>3, <1>4, <2>3, <2>4 DEF TagsComing, LabelsComing
    <3>2. /\ ChainMeets(target)'
          /\ TagsMeet(0, rtags, Snap(target).tags)' /\ LabelsMeet(0, rlabels, Snap(target).labels)'
      BY <1>1, <2>1, <3>1
      DEF ChainMeets, TagsMeet, LabelsMeet, TouchesTag, TouchesLabel, Snap
    <3> QED BY <2>1, <3>2 DEF Progress
  <2> QED BY <1>1, <2>1, <2>2, <2>4 DEF ReadInv
<1>5. CASE cur # target
  <2>1. PICK p : p = commits[cur].parent
    OBVIOUS
  <2>2. /\ cur' = p /\ chain' = Append(chain, cur)
        /\ rstep' \in {"walk", "error"} /\ (rstep' = "walk" => p # 0)
    BY <1>5, <2>1 DEF Walk
  <2>3. p \in 0 .. Len(commits) /\ p < cur
    BY <1>2, <2>1, LogFacts
  <2>4. ReadTypeOK'
    <3>1. chain' \in Seq(1 .. Len(commits'))
      BY <1>1, <1>2, <2>2, AppendProperties
    <3> QED BY <1>1, <2>2, <2>3, <3>1 DEF ReadInv, ReadTypeOK
  <2>5. Snap(p)' = Snap(p)
    BY <1>1 DEF Snap
  <2>6. \A n \in Nat : \A d : n <= Len(chain) =>
            /\ TagsMeet(n, d, Snap(cur).tags) => TagsMeet(n, d, Snap(p).tags)'
            /\ LabelsMeet(n, d, Snap(cur).labels) => LabelsMeet(n, d, Snap(p).labels)'
    BY <1>1, <1>2, <2>1, <2>2, MeetAppended
  <2>7. /\ Len(chain) \in Nat /\ DOMAIN chain = 1 .. Len(chain)
        /\ DOMAIN chain' = 1 .. Len(chain) + 1 /\ chain'[Len(chain) + 1] = cur
        /\ \A i \in DOMAIN chain : chain'[i] = chain[i]
    BY <1>2, <2>2, LenProperties, AppendProperties
  <2>8. ASSUME ~undone PROVE ChainMeets(p)'
    <3> SUFFICES ASSUME NEW i \in DOMAIN chain'
                 PROVE  /\ TagsMeet(i, Snap(commits[chain[i]].parent).tags, Snap(p).tags)'
                        /\ LabelsMeet(i, Snap(commits[chain[i]].parent).labels, Snap(p).labels)'
      BY DEF ChainMeets
    <3>1. CASE i \in DOMAIN chain
      <4>1. PICK d : d = Snap(commits[chain[i]].parent)
        OBVIOUS
      <4>2. Snap(commits[chain[i]].parent)' = d
        BY <1>1, <2>7, <3>1, <4>1 DEF Snap
      <4>3. TagsMeet(i, d.tags, Snap(cur).tags) /\ LabelsMeet(i, d.labels, Snap(cur).labels)
        BY <1>3, <2>8, <3>1, <4>1 DEF ChainMeets
      <4>4. TagsMeet(i, d.tags, Snap(p).tags)' /\ LabelsMeet(i, d.labels, Snap(p).labels)'
        BY <2>6, <2>7, <3>1, <4>3
      <4> QED BY <4>2, <4>4 DEF TagsMeet, LabelsMeet
    <3>2. CASE i \notin DOMAIN chain
      <4>1. i = Len(chain) + 1
        BY <2>7, <3>2
      <4>2. Snap(commits[chain[i]].parent)' = Snap(p)'
        BY <1>1, <2>1, <2>7, <4>1 DEF Snap
      <4> QED BY <4>2 DEF TagsMeet, LabelsMeet
    <3> QED BY <3>1, <3>2
  <2>9. \A n \in Nat, h \in Nat : OnTop(n, h, cur) /\ n < cur =>
            p = h \/ (OnTop(n, h, p)' /\ n < p)
    <3> SUFFICES ASSUME NEW n \in Nat, NEW h \in Nat, OnTop(n, h, cur), n < cur, p # h
                 PROVE  OnTop(n, h, p)' /\ n < p
      OBVIOUS
    <3>1. /\ n \in target .. Len(commits) /\ h \in 0 .. n /\ cur \in n + 1 .. Len(commits)
          /\ \A c \in n + 1 .. cur : commits[c].parent = IF c = n + 1 THEN h ELSE c - 1
      BY <1>2 DEF OnTop
    <3>2. p = cur - 1 /\ cur # n + 1
      BY <2>1, <3>1
    <3>3. p \in n + 1 .. Len(commits) /\ n + 1 .. p \subseteq n + 1 .. cur
      BY <1>2, <3>1, <3>2
    <3>4. n < p /\ \A c \in n + 1 .. p : commits[c].parent = IF c = n + 1 THEN h ELSE c - 1
      BY <1>2, <3>1, <3>3
    <3>5. OnTop(n, h, p)
      BY <3>1, <3>3, <3>4 DEF OnTop
    <3> QED BY <1>1, <3>4, <3>5 DEF OnTop
  <2>10. ASSUME ~undone PROVE TagsComing(p)'
    <3>1. CASE TagsMeet(0, rtags, Snap(cur).tags)
      <4>1. PICK d : d = rtags
        OBVIOUS
      <4>2. TagsMeet(0, d, Snap(p).tags)'
        BY <2>6, <2>7, <3>1, <4>1
      <4> QED BY <1>1, <4>1, <4>2 DEF TagsComing
    <3>2. CASE \E n \in Nat, h \in Nat : rtags = Snap(h).tags /\ OnTop(n, h, cur) /\ n < cur
      <4>1. PICK n \in Nat, h \in Nat : rtags = Snap(h).tags /\ OnTop(n, h, cur) /\ n < cur
        BY <3>2
      <4>2. CASE p = h
        BY <1>1, <2>5, <4>1, <4>2 DEF TagsComing, TagsMeet
      <4>3. CASE OnTop(n, h, p)' /\ n < p
        <5>1. Snap(h)' = Snap(h)
          BY <1>1 DEF Snap
        <5> QED BY <1>1, <4>1, <4>3, <5>1 DEF TagsComing
      <4> QED BY <2>9, <4>1, <4>2, <4>3
    <3> QED BY <1>3, <2>10, <3>1, <3>2 DEF TagsComing
  <2>11. ASSUME ~undone PROVE LabelsComing(p)'
    <3>1. CASE LabelsMeet(0, rlabels, Snap(cur).labels)
      <4>1. PICK d : d = rlabels
        OBVIOUS
      <4>2. LabelsMeet(0, d, Snap(p).labels)'
        BY <2>6, <2>7, <3>1, <4>1
      <4> QED BY <1>1, <4>1, <4>2 DEF LabelsComing
    <3>2. CASE \E n \in Nat, h \in Nat : rlabels = Snap(h).labels /\ OnTop(n, h, cur) /\ n < cur
      <4>1. PICK n \in Nat, h \in Nat : rlabels = Snap(h).labels /\ OnTop(n, h, cur) /\ n < cur
        BY <3>2
      <4>2. CASE p = h
        BY <1>1, <2>5, <4>1, <4>2 DEF LabelsComing, LabelsMeet
      <4>3. CASE OnTop(n, h, p)' /\ n < p
        <5>1. Snap(h)' = Snap(h)
          BY <1>1 DEF Snap
        <5> QED BY <1>1, <4>1, <4>3, <5>1 DEF LabelsComing
      <4> QED BY <2>9, <4>1, <4>2, <4>3
    <3> QED BY <1>3, <2>11, <3>1, <3>2 DEF LabelsComing
  <2>12. cur' = p => (ChainMeets(p)' => ChainMeets(cur)') /\ (TagsComing(p)' => TagsComing(cur)')
                     /\ (LabelsComing(p)' => LabelsComing(cur)')
    BY DEF ChainMeets, TagsComing, LabelsComing, TagsMeet, LabelsMeet, OnTop, Snap
  <2> QED BY <1>1, <2>2, <2>4, <2>8, <2>10, <2>11, <2>12 DEF ReadInv, Progress
<1> QED BY <1>4, <1>5

(* Dropping the first of the collected commits shifts the others.          *)
LEMMA MeetTail ==
    ASSUME NEW S, chain \in Seq(S), chain # <<>>, chain' = Tail(chain), commits' = commits,
           NEW n \in Nat, NEW d, NEW e
    PROVE  /\ TagsMeet(n + 1, d, e) => TagsMeet(n, d, e)'
           /\ LabelsMeet(n + 1, d, e) => LabelsMeet(n, d, e)'
<1>1. /\ Len(chain) \in Nat /\ DOMAIN chain = 1 .. Len(chain)
      /\ DOMAIN chain' = 1 .. Len(chain) - 1
      /\ \A i \in DOMAIN chain' : chain'[i] = chain[i + 1]
  BY LenProperties, HeadTailProperties
<1>2. \A i \in DOMAIN chain : n + 1 < i =>
          i - 1 \in DOMAIN chain' /\ n < i - 1 /\ chain'[i - 1] = chain[i]
  BY <1>1
<1>3. ASSUME NEW i \in DOMAIN chain, n + 1 < i, NEW t \in Tags, NEW b \in Bits,
             TouchesTag(chain[i], t, b)
      PROVE  \E j \in DOMAIN chain' : n < j /\ TouchesTag(chain[j], t, b)'
  <2>1. PICK j : j = i - 1
    OBVIOUS
  <2>2. j \in DOMAIN chain' /\ n < j /\ TouchesTag(chain[j], t, b)'
    BY <1>2, <1>3, <2>1 DEF TouchesTag
  <2> QED BY <2>2
<1>4. ASSUME NEW i \in DOMAIN chain, n + 1 < i, NEW k \in Keys, TouchesLabel(chain[i], k)
      PROVE  \E j \in DOMAIN chain' : n < j /\ TouchesLabel(chain[j], k)'
  <2>1. PICK j : j = i - 1
    OBVIOUS
  <2>2. j \in DOMAIN chain' /\ n < j /\ TouchesLabel(chain[j], k)'
    BY <1>2, <1>4, <2>1 DEF TouchesLabel
  <2> QED BY <2>2
<1>5. TagsMeet(n + 1, d, e) => TagsMeet(n, d, e)'
  BY <1>3 DEF TagsMeet
<1>6. LabelsMeet(n + 1, d, e) => LabelsMeet(n, d, e)'
  BY <1>4 DEF LabelsMeet
<1> QED BY <1>5, <1>6

LEMMA UnwindStep ==
    ASSUME LabelInv, ReadInv, Unwind, UNCHANGED vars
    PROVE  ReadInv'
<1>1. /\ rstep = "unwind" /\ chain # <<>> /\ chain' = Tail(chain)
      /\ UNCHANGED <<rstep, target, cur, undone, reachable, commits, head, snaps>>
  BY DEF Unwind, vars
<1>2. /\ Len(commits) \in Nat /\ target \in 0 .. Len(commits)
      /\ chain \in Seq(1 .. Len(commits)) /\ rtags \in TagState /\ rlabels \in LabelState
  BY LogFacts DEF ReadInv, ReadTypeOK
<1>3. PICK c : c = chain[1]
  OBVIOUS
<1>4. /\ c = Head(chain) /\ c \in 1 .. Len(commits)
      /\ Len(chain) \in Nat /\ DOMAIN chain = 1 .. Len(chain) /\ 1 \in DOMAIN chain
      /\ DOMAIN chain' = 1 .. Len(chain) - 1 /\ chain' \in Seq(1 .. Len(commits))
      /\ \A i \in DOMAIN chain' : chain'[i] = chain[i + 1]
  BY <1>1, <1>2, <1>3, LenProperties, HeadTailProperties
<1>5. commits[c] \in CommitRows
  BY <1>4, LogFacts
<1>6. PICK before : before = Snap(commits[c].parent)
  OBVIOUS
<1>7. \A t \in Tags :
          rtags'[t] = IF commits[c].kind = "set" /\ commits[c].value = t
                      THEN InvertDelta(commits[c].op, rtags[t], commits[c].bitmap)
                      ELSE rtags[t]
  BY <1>2, <1>4 DEF Unwind, TagState
<1>8. \A k \in Keys :
          rlabels'[k] = IF commits[c].kind = "set" THEN rlabels[k]
                        ELSE OverlayPatches(rlabels, commits[c].patches, commits[c].field)[k]
  BY <1>4 DEF Unwind
<1>9. ReadTypeOK'
  <2>1. rtags' \in TagState
    <3>1. CASE commits[c].kind = "set"
      <4>1. rtags' = [rtags EXCEPT ![commits[c].value] =
                          InvertDelta(commits[c].op, @, commits[c].bitmap)]
        BY <1>4, <3>1 DEF Unwind
      <4>2. \A bits \in SUBSET Bits :
                InvertDelta(commits[c].op, bits, commits[c].bitmap) \in SUBSET Bits
        BY <1>5 DEF CommitRows, InvertDelta
      <4> QED BY <1>2, <4>1, <4>2 DEF TagState
    <3>2. CASE commits[c].kind # "set"
      BY <1>2, <1>4, <3>2 DEF Unwind
    <3> QED BY <3>1, <3>2
  <2>2. rlabels' \in LabelState
    <3>1. CASE commits[c].kind = "set"
      BY <1>2, <1>4, <3>1 DEF Unwind
    <3>2. CASE commits[c].kind # "set"
      <4>1. commits[c].kind = "patch"
        BY <1>5, <3>2 DEF CommitRows
      <4>2. rlabels' = OverlayPatches(rlabels, commits[c].patches, commits[c].field)
        BY <1>4, <3>2 DEF Unwind
      <4>3. Snap(commits[c].parent).labels \in LabelState
        BY <1>4, LogFacts DEF Data
      <4>4. ASSUME NEW k \in Keys
            PROVE  OverlayPatches(rlabels, commits[c].patches, commits[c].field)[k] \in Values
        <5>1. CASE TouchesLabel(c, k)
          BY <1>2, <1>4, <4>3, <5>1, UnwindsLabels DEF LabelState
        <5>2. CASE ~TouchesLabel(c, k)
          BY <1>2, <1>4, <4>1, <5>2, UnwindsLabels DEF LabelState
        <5> QED BY <5>1, <5>2
      <4>5. OverlayPatches(rlabels, commits[c].patches, commits[c].field) =
                [k \in Keys |-> OverlayPatches(rlabels, commits[c].patches, commits[c].field)[k]]
        BY DEF OverlayPatches
      <4> HIDE DEF OverlayPatches
      <4> QED BY <4>2, <4>4, <4>5 DEF LabelState
    <3> QED BY <3>1, <3>2
  <2> QED BY <1>1, <1>4, <2>1, <2>2 DEF ReadInv, ReadTypeOK
<1>10. ASSUME ~undone PROVE Progress'
  <2>1. PICK d : d = Snap(target)
    OBVIOUS
  <2>2. /\ TagsMeet(0, rtags, d.tags) /\ LabelsMeet(0, rlabels, d.labels) /\ ChainMeets(target)
    BY <1>1, <1>10, <2>1 DEF ReadInv, Progress
  <2>3. \A n \in Nat : \A x, y :
            /\ TagsMeet(n + 1, x, y) => TagsMeet(n, x, y)'
            /\ LabelsMeet(n + 1, x, y) => LabelsMeet(n, x, y)'
    BY <1>1, <1>2, MeetTail
  <2>4. Snap(target)' = d
    BY <1>1, <2>1 DEF Snap
  <2>5. ChainMeets(target)'
    <3> SUFFICES ASSUME NEW i \in DOMAIN chain'
                 PROVE  /\ TagsMeet(i, Snap(commits[chain[i]].parent).tags, Snap(target).tags)'
                        /\ LabelsMeet(i, Snap(commits[chain[i]].parent).labels, Snap(target).labels)'
      BY DEF ChainMeets
    <3>1. i \in Nat /\ i + 1 \in DOMAIN chain /\ chain'[i] = chain[i + 1]
      BY <1>4
    <3>2. PICK x : x = Snap(commits[chain[i + 1]].parent)
      OBVIOUS
    <3>3. Snap(commits[chain[i]].parent)' = x
      BY <1>1, <3>1, <3>2 DEF Snap
    <3>4. TagsMeet(i + 1, x.tags, d.tags) /\ LabelsMeet(i + 1, x.labels, d.labels)
      BY <2>1, <2>2, <3>1, <3>2 DEF ChainMeets
    <3>5. TagsMeet(i, x.tags, d.tags)' /\ LabelsMeet(i, x.labels, d.labels)'
      BY <2>3, <3>1, <3>4
    <3> QED BY <2>4, <3>3, <3>5 DEF TagsMeet, LabelsMeet
  <2>6. /\ TagsMeet(0, before.tags, d.tags)' /\ LabelsMeet(0, before.labels, d.labels)'
    <3>1. TagsMeet(0 + 1, before.tags, d.tags) /\ LabelsMeet(0 + 1, before.labels, d.labels)
      BY <1>3, <1>4, <1>6, <2>1, <2>2 DEF ChainMeets
    <3> QED BY <2>3, <3>1
  <2>7. TagsMeet(0, rtags, d.tags)'
    <3> SUFFICES ASSUME NEW t \in Tags, NEW b \in Bits
                 PROVE  \/ \E i \in DOMAIN chain' : 0 < i /\ TouchesTag(chain[i], t, b)'
                        \/ b \in rtags'[t] <=> b \in d.tags[t]
      BY DEF TagsMeet
    <3>1. CASE TouchesTag(c, t, b)
      <4>1. b \in rtags'[t] <=> b \in before.tags[t]
        <5>1. rtags[t] \in SUBSET Bits
          BY <1>2 DEF TagState
        <5>2. b \in InvertDelta(commits[c].op, rtags[t], commits[c].bitmap)
                  <=> b \in Snap(commits[c].parent).tags[t]
          BY <1>4, <3>1, <5>1, UnwindsTags
        <5>3. rtags'[t] = InvertDelta(commits[c].op, rtags[t], commits[c].bitmap)
          BY <1>7, <3>1 DEF TouchesTag
        <5> QED BY <1>6, <5>2, <5>3
      <4> QED BY <2>6, <4>1 DEF TagsMeet
    <3>2. CASE ~TouchesTag(c, t, b)
      <4>1. b \in rtags'[t] <=> b \in rtags[t]
        BY <1>7, <3>2 DEF TouchesTag, InvertDelta
      <4>2. CASE b \in rtags[t] <=> b \in d.tags[t]
        BY <4>1, <4>2
      <4>3. CASE \E i \in DOMAIN chain : 0 < i /\ TouchesTag(chain[i], t, b)
        <5>1. PICK i \in DOMAIN chain : TouchesTag(chain[i], t, b)
          BY <4>3
        <5>2. PICK j : j = i - 1
          OBVIOUS
        <5>3. j \in DOMAIN chain' /\ 0 < j /\ chain'[j] = chain[i]
          BY <1>3, <1>4, <3>2, <5>1, <5>2
        <5>4. TouchesTag(chain[j], t, b)'
          BY <1>1, <5>1, <5>3 DEF TouchesTag
        <5> QED BY <5>3, <5>4
      <4> QED BY <2>2, <4>2, <4>3 DEF TagsMeet
    <3> QED BY <3>1, <3>2
  <2>8. LabelsMeet(0, rlabels, d.labels)'
    <3> SUFFICES ASSUME NEW k \in Keys
                 PROVE  \/ \E i \in DOMAIN chain' : 0 < i /\ TouchesLabel(chain[i], k)'
                        \/ rlabels'[k] = d.labels[k]
      BY DEF LabelsMeet
    <3>1. CASE TouchesLabel(c, k)
      <4>1. rlabels'[k] = before.labels[k]
        BY <1>2, <1>4, <1>6, <1>8, <3>1, UnwindsLabels DEF TouchesLabel
      <4> QED BY <2>6, <4>1 DEF LabelsMeet
    <3>2. CASE ~TouchesLabel(c, k)
      <4>1. rlabels'[k] = rlabels[k]
        <5>1. commits[c].kind \in {"set", "patch"}
          BY <1>5 DEF CommitRows
        <5> QED BY <1>2, <1>4, <1>8, <3>2, <5>1, UnwindsLabels
      <4>2. CASE rlabels[k] = d.labels[k]
        BY <4>1, <4>2
      <4>3. CASE \E i \in DOMAIN chain : 0 < i /\ TouchesLabel(chain[i], k)
        <5>1. PICK i \in DOMAIN chain : TouchesLabel(chain[i], k)
          BY <4>3
        <5>2. PICK j : j = i - 1
          OBVIOUS
        <5>3. j \in DOMAIN chain' /\ 0 < j /\ chain'[j] = chain[i]
          BY <1>3, <1>4, <3>2, <5>1, <5>2
        <5>4. TouchesLabel(chain[j], k)'
          BY <1>1, <5>1, <5>3 DEF TouchesLabel
        <5> QED BY <5>3, <5>4
      <4> QED BY <2>2, <4>2, <4>3 DEF LabelsMeet
    <3> QED BY <3>1, <3>2
  <2>9. TagsMeet(0, rtags, Snap(target).tags)' /\ LabelsMeet(0, rlabels, Snap(target).labels)'
    BY <2>4, <2>7, <2>8 DEF TagsMeet, LabelsMeet
  <2> QED BY <1>1, <2>5, <2>9 DEF Progress
<1> QED BY <1>1, <1>9, <1>10 DEF ReadInv

LEMMA ReturnStep ==
    ASSUME LabelInv, ReadInv, Return, UNCHANGED vars
    PROVE  ReadInv'
<1>1. /\ rstep = "unwind" /\ chain = <<>> /\ rstep' = "done"
      /\ UNCHANGED <<rtags, rlabels, target, cur, chain, undone, reachable, commits, head, snaps>>
  BY DEF Return, vars
<1>2. ReadTypeOK'
  BY <1>1 DEF ReadInv, ReadTypeOK
<1>3. ASSUME ~undone PROVE Exact'
  <2>1. rtags \in TagState /\ rlabels \in LabelState /\ Snap(target) \in Data
    BY LogFacts DEF ReadInv, ReadTypeOK
  <2>2. /\ TagsMeet(0, rtags, Snap(target).tags) /\ LabelsMeet(0, rlabels, Snap(target).labels)
    BY <1>1, <1>3 DEF ReadInv, Progress
  <2>3. Exact
    BY <1>1, <2>1, <2>2, MeetIsEqual DEF Exact
  <2> QED BY <1>1, <2>3 DEF Exact, Snap
<1> QED BY <1>1, <1>2, <1>3 DEF ReadInv, Progress

-----------------------------------------------------------------------------
(* The writers' steps.                                                     *)

LEMMA WriteStep ==
    ASSUME LabelInv, LabelInv', ReadInv, Write
    PROVE  ReadInv'
<1>1. /\ UNCHANGED <<rstep, target, rtags, rlabels, cur, chain, reachable>>
      /\ undone' = (undone \/ (UndoCommits /\ rstep \in {"labels", "head"}))
      /\ LogKept
      /\ \/ UndoCommits
         \/ head' = head /\ Len(commits') = Len(commits)
         \/ /\ Len(commits') = Len(commits) + 1
            /\ head' = Len(commits) + 1
            /\ commits'[Len(commits) + 1].parent = head
  BY LogSteps DEF Write
<1>2. /\ Len(commits) \in Nat /\ target \in 0 .. Len(commits) /\ cur \in 0 .. Len(commits)
      /\ chain \in Seq(1 .. Len(commits)) /\ undone \in BOOLEAN /\ head \in 0 .. Len(commits)
      /\ \A c \in 1 .. Len(commits) : commits[c].parent \in 0 .. Len(commits)
  BY LogFacts DEF ReadInv, ReadTypeOK
<1>3. /\ Len(commits) <= Len(commits')
      /\ \A c \in 1 .. Len(commits) : commits'[c] = commits[c]
      /\ \A c \in 0 .. Len(commits) : Snap(c)' = Snap(c)
  BY <1>1 DEF LogKept, Snap
<1>4. Len(commits') \in Nat
  <2>1. commits' \in Seq(CommitRows)
    BY DEF LabelInv, TagInv, TypeInv, TypeOK
  <2> QED BY <2>1, LenProperties
<1>5. 0 .. Len(commits) \subseteq 0 .. Len(commits') /\ 1 .. Len(commits) \subseteq 1 .. Len(commits')
  BY <1>2, <1>3, <1>4
<1>6. \A i \in DOMAIN chain : chain[i] \in 1 .. Len(commits)
  BY <1>2, ElementOfSeq, LenProperties
<1>7. ReadTypeOK'
  <2>1. undone' \in BOOLEAN
    BY <1>1, <1>2
  <2>2. chain' \in Seq(1 .. Len(commits'))
    BY <1>1, <1>2, <1>5
  <2>3. target' \in 0 .. Len(commits') /\ cur' \in 0 .. Len(commits')
    BY <1>1, <1>2, <1>5
  <2> QED BY <1>1, <2>1, <2>2, <2>3 DEF ReadInv, ReadTypeOK
<1>8. ASSUME NEW n \in Nat, NEW d, NEW e
      PROVE  (TagsMeet(n, d, e)' <=> TagsMeet(n, d, e)) /\ (LabelsMeet(n, d, e)' <=> LabelsMeet(n, d, e))
  BY <1>1, <1>3, <1>6 DEF TagsMeet, LabelsMeet, TouchesTag, TouchesLabel
<1>9. ASSUME NEW c \in 0 .. Len(commits), ChainMeets(c)
      PROVE  ChainMeets(c)'
  <2> SUFFICES ASSUME NEW i \in DOMAIN chain
               PROVE  /\ TagsMeet(i, Snap(commits[chain[i]].parent).tags, Snap(c).tags)'
                      /\ LabelsMeet(i, Snap(commits[chain[i]].parent).labels, Snap(c).labels)'
    BY <1>1 DEF ChainMeets
  <2>1. PICK d, e : d = Snap(commits[chain[i]].parent) /\ e = Snap(c)
    OBVIOUS
  <2>2. Snap(commits[chain[i]].parent)' = d /\ Snap(c)' = e
    BY <1>1, <1>2, <1>3, <1>6, <2>1 DEF Snap
  <2>3. i \in Nat /\ TagsMeet(i, d.tags, e.tags) /\ LabelsMeet(i, d.labels, e.labels)
    BY <1>2, <1>9, <2>1, LenProperties DEF ChainMeets
  <2>4. TagsMeet(i, d.tags, e.tags)' /\ LabelsMeet(i, d.labels, e.labels)'
    BY <1>8, <2>3
  <2> QED BY <2>2, <2>4 DEF TagsMeet, LabelsMeet
<1>10. ASSUME NEW n \in Nat, NEW h \in Nat, NEW x, OnTop(n, h, x)
       PROVE  OnTop(n, h, x)' /\ Snap(h)' = Snap(h)
  <2>1. n \in target .. Len(commits) /\ h \in 0 .. n
    BY <1>10 DEF OnTop
  <2>2. n \in target .. Len(commits') /\ h \in 0 .. Len(commits)
    BY <1>2, <1>3, <1>4, <2>1
  <2>3. CASE x = h
    BY <1>1, <1>3, <2>1, <2>2, <2>3 DEF OnTop
  <2>4. CASE /\ x \in n + 1 .. Len(commits)
             /\ \A c \in n + 1 .. x : commits[c].parent = IF c = n + 1 THEN h ELSE c - 1
    <3>1. x \in n + 1 .. Len(commits') /\ \A c \in n + 1 .. x : c \in 1 .. Len(commits)
      BY <1>2, <1>3, <1>4, <2>1, <2>4
    <3>2. \A c \in n + 1 .. x : commits'[c].parent = IF c = n + 1 THEN h ELSE c - 1
      BY <1>3, <2>4, <3>1
    <3> QED BY <1>1, <1>3, <2>1, <2>2, <3>1, <3>2 DEF OnTop
  <2> QED BY <1>10, <2>3, <2>4 DEF OnTop
(* A commit made meanwhile is on top of what was read.                     *)
<1>11. ASSUME rstep \in {"labels", "head"}, ~undone', NEW n \in Nat, NEW h \in Nat,
              OnTop(n, h, head), head = IF Len(commits) = n THEN h ELSE Len(commits)
       PROVE  OnTop(n, h, head)' /\ head' = IF Len(commits') = n THEN h ELSE Len(commits')
  <2>1. PICK x, y : x = head /\ y = head'
    OBVIOUS
  <2>2. OnTop(n, h, x)'
    BY <1>10, <1>11, <2>1
  <2>3. CASE head' = head /\ Len(commits') = Len(commits)
    BY <1>11, <2>1, <2>2, <2>3 DEF OnTop
  <2>4. CASE /\ Len(commits') = Len(commits) + 1
             /\ head' = Len(commits) + 1
             /\ commits'[Len(commits) + 1].parent = head
    <3>1. n \in target' .. Len(commits') /\ h \in 0 .. n /\ n <= Len(commits)
      BY <1>2, <1>3, <1>4, <2>2, <1>11 DEF OnTop
    <3>2. head' \in n + 1 .. Len(commits') /\ Len(commits') # n
      BY <1>2, <2>4, <3>1
    <3>3. ASSUME NEW c \in n + 1 .. Len(commits) + 1
          PROVE  commits'[c].parent = IF c = n + 1 THEN h ELSE c - 1
      <4>1. CASE c = Len(commits) + 1
        <5>1. commits'[c].parent = head /\ n \in Nat
          BY <2>4, <4>1
        <5>2. head = IF c = n + 1 THEN h ELSE c - 1
          BY <1>2, <1>11, <4>1
        <5> QED BY <5>1, <5>2
      <4>2. CASE c # Len(commits) + 1
        <5>1. c \in n + 1 .. Len(commits) /\ c \in 1 .. Len(commits)
          <6>1. PICK m \in Nat : m = Len(commits)
            BY <1>2
          <6>2. n \in Nat /\ c \in n + 1 .. m + 1 /\ c # m + 1
            BY <3>3, <4>2, <6>1
          <6>3. c \in n + 1 .. m /\ c \in 1 .. m
            BY <6>2
          <6> QED BY <6>1, <6>3
        <5>2. n < Len(commits) /\ x = Len(commits) /\ x # h
          <6>1. n < Len(commits) /\ h <= n
            BY <1>2, <3>1, <5>1
          <6>2. head = Len(commits)
            BY <1>2, <1>11, <6>1
          <6> QED BY <1>2, <2>1, <6>1, <6>2
        <5>3. commits'[c].parent = IF c = n + 1 THEN h ELSE c - 1
          BY <2>2, <5>1, <5>2 DEF OnTop
        <5> QED BY <5>3
      <4> QED BY <4>1, <4>2
    <3>4. OnTop(n, h, head)'
      BY <2>4, <3>1, <3>2, <3>3 DEF OnTop
    <3> QED BY <2>4, <3>2, <3>4
  <2> QED BY <1>1, <1>11, <2>3, <2>4
<1>12. ASSUME ~undone' PROVE Progress'
  <2>1. Progress
    BY <1>1, <1>12 DEF ReadInv
  <2>2. rstep \in {"labels", "head"} => TagsRead'
    <3> SUFFICES ASSUME rstep \in {"labels", "head"} PROVE TagsRead'
      OBVIOUS
    <3>1. PICK n \in Nat, h \in Nat :
              /\ rtags = Snap(h).tags /\ OnTop(n, h, head)
              /\ head = IF Len(commits) = n THEN h ELSE Len(commits)
      BY <2>1 DEF Progress, TagsRead
    <3>2. OnTop(n, h, head)' /\ head' = IF Len(commits') = n THEN h ELSE Len(commits')
      BY <1>11, <1>12, <3>1
    <3>3. Snap(h)' = Snap(h)
      BY <1>10, <3>1
    <3> QED BY <1>1, <3>1, <3>2, <3>3 DEF TagsRead
  <2>3. rstep = "head" => LabelsRead'
    <3> SUFFICES ASSUME rstep = "head" PROVE LabelsRead'
      OBVIOUS
    <3>1. PICK n \in Nat, h \in Nat :
              /\ rlabels = Snap(h).labels /\ OnTop(n, h, head)
              /\ head = IF Len(commits) = n THEN h ELSE Len(commits)
      BY <2>1 DEF Progress, LabelsRead
    <3>2. OnTop(n, h, head)' /\ head' = IF Len(commits') = n THEN h ELSE Len(commits')
      BY <1>11, <1>12, <3>1
    <3>3. Snap(h)' = Snap(h)
      BY <1>10, <3>1
    <3> QED BY <1>1, <3>1, <3>2, <3>3 DEF LabelsRead
  <2>4. rstep = "walk" => (ChainMeets(cur) /\ TagsComing(cur) /\ LabelsComing(cur))'
    <3> SUFFICES ASSUME rstep = "walk"
                 PROVE  ChainMeets(cur)' /\ TagsComing(cur)' /\ LabelsComing(cur)'
      OBVIOUS
    <3>1. ChainMeets(cur) /\ TagsComing(cur) /\ LabelsComing(cur)
      BY <2>1 DEF Progress
    <3>2. PICK x, r, l, d : x = cur /\ r = rtags /\ l = rlabels /\ d = Snap(x)
      OBVIOUS
    <3>3. x \in 0 .. Len(commits) /\ Snap(x)' = d
      BY <1>2, <1>3, <3>2
    <3>4. ChainMeets(cur)'
      <4>1. ChainMeets(x)'
        BY <1>9, <3>1, <3>2, <3>3
      <4> QED BY <1>1, <3>2, <4>1 DEF ChainMeets
    <3>5. TagsComing(cur)'
      <4>1. CASE TagsMeet(0, r, d.tags)
        <5>1. TagsMeet(0, r, d.tags)'
          BY <1>8, <4>1
        <5> QED BY <1>1, <3>2, <3>3, <5>1 DEF TagsComing
      <4>2. CASE \E n \in Nat, h \in Nat : r = Snap(h).tags /\ OnTop(n, h, x) /\ n < x
        <5>1. PICK n \in Nat, h \in Nat : r = Snap(h).tags /\ OnTop(n, h, x) /\ n < x
          BY <4>2
        <5>2. OnTop(n, h, x)' /\ Snap(h)' = Snap(h)
          BY <1>10, <5>1
        <5> QED BY <1>1, <3>2, <5>1, <5>2 DEF TagsComing
      <4> QED BY <3>1, <3>2, <4>1, <4>2 DEF TagsComing
    <3>6. LabelsComing(cur)'
      <4>1. CASE LabelsMeet(0, l, d.labels)
        <5>1. LabelsMeet(0, l, d.labels)'
          BY <1>8, <4>1
        <5> QED BY <1>1, <3>2, <3>3, <5>1 DEF LabelsComing
      <4>2. CASE \E n \in Nat, h \in Nat : l = Snap(h).labels /\ OnTop(n, h, x) /\ n < x
        <5>1. PICK n \in Nat, h \in Nat : l = Snap(h).labels /\ OnTop(n, h, x) /\ n < x
          BY <4>2
        <5>2. OnTop(n, h, x)' /\ Snap(h)' = Snap(h)
          BY <1>10, <5>1
        <5> QED BY <1>1, <3>2, <5>1, <5>2 DEF LabelsComing
      <4> QED BY <3>1, <3>2, <4>1, <4>2 DEF LabelsComing
    <3> QED BY <3>4, <3>5, <3>6
  <2>5. rstep = "unwind" =>
            /\ ChainMeets(target)'
            /\ TagsMeet(0, rtags, Snap(target).tags)' /\ LabelsMeet(0, rlabels, Snap(target).labels)'
    <3> SUFFICES ASSUME rstep = "unwind"
                 PROVE  /\ ChainMeets(target)'
                        /\ TagsMeet(0, rtags, Snap(target).tags)'
                        /\ LabelsMeet(0, rlabels, Snap(target).labels)'
      OBVIOUS
    <3>1. PICK x, r, l, d : x = target /\ r = rtags /\ l = rlabels /\ d = Snap(x)
      OBVIOUS
    <3>2. ChainMeets(x) /\ TagsMeet(0, r, d.tags) /\ LabelsMeet(0, l, d.labels)
      BY <2>1, <3>1 DEF Progress
    <3>3. x \in 0 .. Len(commits) /\ Snap(target)' = d
      BY <1>1, <1>2, <1>3, <3>1 DEF Snap
    <3>4. ChainMeets(x)' /\ TagsMeet(0, r, d.tags)' /\ LabelsMeet(0, l, d.labels)'
      BY <1>8, <1>9, <3>2, <3>3
    <3> QED BY <1>1, <3>1, <3>3, <3>4 DEF ChainMeets, TagsMeet, LabelsMeet
  <2>6. rstep = "done" => Exact'
    <3>1. Snap(target)' = Snap(target)
      BY <1>1, <1>2, <1>3 DEF Snap
    <3> QED BY <1>1, <2>1, <3>1 DEF Progress, Exact
  <2> QED BY <1>1, <2>2, <2>3, <2>4, <2>5, <2>6 DEF Progress
<1> QED BY <1>1, <1>7, <1>12 DEF ReadInv

LEMMA ReadInvNext ==
    LabelInv /\ LabelInv' /\ ReadInv /\ [PinnedNext]_<<vars, rvars>> => ReadInv'
<1> SUFFICES ASSUME LabelInv, LabelInv', ReadInv, [PinnedNext]_<<vars, rvars>>
             PROVE  ReadInv'
  OBVIOUS
<1>1. CASE Read /\ UNCHANGED vars
  <2>1. ASSUME NEW c \in 0 .. Len(commits), ReadTags(c) PROVE ReadInv'
    BY <1>1, <2>1, ReadTagsStep
  <2> QED BY <1>1, <2>1, ReadLabelsStep, ReadHeadStep, WalkStep, UnwindStep, ReturnStep DEF Read
<1>2. CASE Write
  BY <1>2, WriteStep
<1>3. CASE UNCHANGED <<vars, rvars>>
  BY <1>3
  DEF vars, rvars, ReadInv, ReadTypeOK, Progress, TagsRead, LabelsRead, TagsComing, LabelsComing,
      ChainMeets, TagsMeet, LabelsMeet, OnTop, TouchesTag, TouchesLabel, Snap, Exact
<1> QED BY <1>1, <1>2, <1>3 DEF PinnedNext

(* A read pinned to a commit returns that commit's data, whatever commits  *)
(* land while it runs, if no undo lands before it has read HEAD and no     *)
(* request edits a label twice.                                            *)
THEOREM PinnedReadsAreExact ==
    ASSUME DistinctEdits
    PROVE  PinnedSpec => []PinnedReadIsExact
<1>1. Init /\ ReadInit => LabelInv /\ ReadInv
  BY LabelInvInit, ReadInvInit
<1>2. [PinnedNext]_<<vars, rvars>> => [Next]_vars
  BY DEF PinnedNext, Write, vars
<1>3. LabelInv /\ ReadInv /\ [PinnedNext]_<<vars, rvars>> => (LabelInv /\ ReadInv)'
  BY <1>2, LabelInvNext, ReadInvNext
<1>4. ReadInv => PinnedReadIsExact
  BY DEF ReadInv, Progress, PinnedReadIsExact
<1> QED BY <1>1, <1>3, <1>4, PTL DEF PinnedSpec

(* Type correctness of the read.                                           *)
THEOREM PinnedReadTypes ==
    ASSUME DistinctEdits
    PROVE  PinnedSpec => []ReadTypeOK
<1>1. Init /\ ReadInit => LabelInv /\ ReadInv
  BY LabelInvInit, ReadInvInit
<1>2. [PinnedNext]_<<vars, rvars>> => [Next]_vars
  BY DEF PinnedNext, Write, vars
<1>3. LabelInv /\ ReadInv /\ [PinnedNext]_<<vars, rvars>> => (LabelInv /\ ReadInv)'
  BY <1>2, LabelInvNext, ReadInvNext
<1>4. ReadInv => ReadTypeOK
  BY DEF ReadInv
<1> QED BY <1>1, <1>3, <1>4, PTL DEF PinnedSpec

-----------------------------------------------------------------------------
(* Pinned reads that fail.                                                 *)

(* The function whose values are the Ancestors in a table of commits.      *)
UpFrom(cs) ==
    CHOOSE up : up = [d \in 0 .. Len(cs) |->
                         IF d = 0 THEN {} ELSE {d} \cup up[cs[d].parent]]

(* It exists, for parents are older: it is built commit by commit.         *)
LEMMA UpFromIsDefined ==
    ASSUME NEW cs, Len(cs) \in Nat,
           \A d \in 1 .. Len(cs) : cs[d].parent \in Nat /\ cs[d].parent < d
    PROVE  UpFrom(cs) = [d \in 0 .. Len(cs) |->
                            IF d = 0 THEN {} ELSE {d} \cup UpFrom(cs)[cs[d].parent]]
<1> DEFINE Step(up, d) == IF d = 0 THEN {} ELSE {d} \cup up[cs[d].parent]
           IsUp(up, n) == up = [d \in 0 .. n |-> Step(up, d)]
           Missing == {n \in 0 .. Len(cs) : ~ \E up : IsUp(up, n)}
<1>1. ASSUME Missing # {} PROVE FALSE
  <2>1. PICK n \in Missing : \A m \in Missing : n <= m
    <3>1. Missing \in SUBSET Nat
      OBVIOUS
    <3> HIDE DEF Missing
    <3> QED BY <1>1, <3>1, LeastNumber
  <2>2. n \in 0 .. Len(cs) /\ ~ \E up : IsUp(up, n)
    BY <2>1
  <2>3. n # 0
    <3> SUFFICES ASSUME n = 0 PROVE FALSE
      OBVIOUS
    <3> DEFINE none == [d \in 0 .. 0 |-> {}]
    <3>1. none = [d \in 0 .. 0 |-> Step(none, d)]
      OBVIOUS
    <3> QED BY <2>2, <3>1
  <2>4. n - 1 \in 0 .. Len(cs) /\ n - 1 \notin Missing
    <3>1. n - 1 \in 0 .. Len(cs) /\ ~(n <= n - 1)
      BY <2>2, <2>3
    <3> HIDE DEF Missing
    <3> QED BY <2>1, <3>1
  <2>5. PICK up : IsUp(up, n - 1)
    BY <2>4
  <2> DEFINE more == [d \in 0 .. n |-> Step(up, d)]
  <2>6. ASSUME NEW d \in 0 .. n PROVE more[d] = Step(more, d)
    <3>1. CASE d = 0
      BY <3>1
    <3>2. CASE d # 0
      <4>1. d \in 1 .. Len(cs) /\ cs[d].parent \in 0 .. n - 1 /\ cs[d].parent \in 0 .. n
        BY <2>2, <3>2
      <4>2. up[cs[d].parent] = more[cs[d].parent]
        <5>1. \A e \in 0 .. n - 1 : up[e] = Step(up, e)
          BY <2>5, Zenon
        <5>2. \A e \in 0 .. n : more[e] = Step(up, e)
          BY Zenon
        <5> HIDE DEF more, Step
        <5> QED BY <4>1, <5>1, <5>2
      <4> QED BY <3>2, <4>2
    <3> QED BY <3>1, <3>2
  <2>7. IsUp(more, n)
    BY <2>6, Zenon
  <2> QED BY <2>2, <2>7, Zenon
<1>2. \E up : IsUp(up, Len(cs))
  BY <1>1
<1>3. UpFrom(cs) = CHOOSE up : IsUp(up, Len(cs))
  BY Zenon DEF UpFrom
<1>4. IsUp(UpFrom(cs), Len(cs))
  <2> HIDE DEF IsUp
  <2> QED BY <1>2, <1>3, Zenon
<1> QED BY <1>4, Zenon

LEMMA AncestorsOf ==
    ASSUME NEW cs, Len(cs) \in Nat,
           \A d \in 1 .. Len(cs) : cs[d].parent \in Nat /\ cs[d].parent < d
    PROVE  /\ UpFrom(cs)[0] = {}
           /\ \A d \in 1 .. Len(cs) : UpFrom(cs)[d] = {d} \cup UpFrom(cs)[cs[d].parent]
<1>1. \A d \in 0 .. Len(cs) :
          UpFrom(cs)[d] = IF d = 0 THEN {} ELSE {d} \cup UpFrom(cs)[cs[d].parent]
  <2>1. PICK up : up = UpFrom(cs)
    OBVIOUS
  <2>2. up = [d \in 0 .. Len(cs) |-> IF d = 0 THEN {} ELSE {d} \cup up[cs[d].parent]]
    BY <2>1, UpFromIsDefined
  <2> QED BY <2>1, <2>2
<1>2. 0 \in 0 .. Len(cs) /\ \A d \in 1 .. Len(cs) : d \in 0 .. Len(cs) /\ d # 0
  OBVIOUS
<1> QED BY <1>1, <1>2

(* Commits that are added have no effect on the ancestors of older ones.   *)
LEMMA AncestorsStay ==
    ASSUME NEW cs, NEW ds, Len(cs) \in Nat, Len(ds) \in Nat, Len(cs) <= Len(ds),
           \A d \in 1 .. Len(cs) : ds[d] = cs[d],
           \A d \in 1 .. Len(ds) : ds[d].parent \in Nat /\ ds[d].parent < d
    PROVE  \A d \in 0 .. Len(cs) : UpFrom(ds)[d] = UpFrom(cs)[d]
<1> DEFINE Changed == {d \in 0 .. Len(cs) : UpFrom(ds)[d] # UpFrom(cs)[d]}
<1>1. \A d \in 1 .. Len(cs) : cs[d].parent \in Nat /\ cs[d].parent < d /\ d \in 1 .. Len(ds)
  OBVIOUS
<1>2. ASSUME Changed # {} PROVE FALSE
  <2>1. PICK d \in Changed : \A e \in Changed : d <= e
    <3>1. Changed \in SUBSET Nat
      OBVIOUS
    <3> HIDE DEF Changed
    <3> QED BY <1>2, <3>1, LeastNumber
  <2>2. d # 0 /\ d \in 1 .. Len(cs)
    <3>1. UpFrom(cs)[0] = {} /\ UpFrom(ds)[0] = {}
      BY <1>1, AncestorsOf
    <3>2. d \in 0 .. Len(cs) /\ UpFrom(ds)[d] # UpFrom(cs)[d]
      BY <2>1
    <3>3. d # 0
      BY <3>1, <3>2
    <3> QED BY <3>2, <3>3
  <2>3. UpFrom(cs)[d] = {d} \cup UpFrom(cs)[cs[d].parent]
    BY <1>1, <2>2, AncestorsOf
  <2>4. UpFrom(ds)[d] = {d} \cup UpFrom(ds)[ds[d].parent]
    BY <1>1, <2>2, AncestorsOf
  <2>5. cs[d].parent \in 0 .. Len(cs) /\ cs[d].parent \notin Changed
    BY <1>1, <2>1, <2>2
  <2> QED BY <2>1, <2>2, <2>3, <2>4, <2>5
<1> QED BY <1>2

(* A commit the read can reach stays within reach: it is an ancestor of    *)
(* HEAD until HEAD is read, and then of the commit the walk is at.         *)
WithinReach ==
    reachable /\ ~undone =>
        /\ rstep \in {"labels", "head"} => target \in UpFrom(commits)[head]
        /\ rstep = "walk" => target \in UpFrom(commits)[cur]
        /\ rstep # "error"

LEMMA WithinReachNext ==
    LabelInv /\ LabelInv' /\ ReadInv /\ WithinReach /\ [PinnedNext]_<<vars, rvars>> => WithinReach'
<1> SUFFICES ASSUME LabelInv, LabelInv', ReadInv, WithinReach, [PinnedNext]_<<vars, rvars>>
             PROVE  WithinReach'
  OBVIOUS
<1>1. /\ Len(commits) \in Nat /\ head \in 0 .. Len(commits)
      /\ \A c \in 1 .. Len(commits) :
             commits[c].parent \in Nat /\ commits[c].parent < c
      /\ cur \in 0 .. Len(commits) /\ (rstep = "walk" => cur # 0)
  BY LogFacts DEF ReadInv, ReadTypeOK
<1>2. /\ UpFrom(commits)[0] = {}
      /\ \A c \in 1 .. Len(commits) :
             UpFrom(commits)[c] = {c} \cup UpFrom(commits)[commits[c].parent]
  BY <1>1, AncestorsOf
<1>3. CASE Read /\ UNCHANGED vars
  <2>1. UpFrom(commits)' = UpFrom(commits) /\ commits' = commits /\ head' = head
    BY <1>3 DEF vars, UpFrom
  <2>2. ASSUME NEW c \in 0 .. Len(commits), ReadTags(c) PROVE WithinReach'
    <3>1. reachable' = (c \in UpFrom(commits)[head]) /\ target' = c /\ rstep' = "labels"
      BY <2>2 DEF ReadTags, Ancestors, UpFrom
    <3> QED BY <2>1, <3>1 DEF WithinReach
  <2>3. CASE ReadLabels
    BY <2>1, <2>3 DEF ReadLabels, WithinReach
  <2>4. CASE ReadHead
    BY <1>2, <2>1, <2>4 DEF ReadHead, WithinReach
  <2>5. CASE Walk
    <3>1. CASE cur = target
      BY <2>5, <3>1 DEF Walk, WithinReach
    <3>2. CASE cur # target
      <4>1. /\ rstep = "walk" /\ cur' = commits[cur].parent
            /\ rstep' = IF commits[cur].parent = 0 THEN "error" ELSE "walk"
            /\ UNCHANGED <<target, undone, reachable>>
        BY <2>5, <3>2 DEF Walk
      <4>2. ASSUME reachable, ~undone
            PROVE  target \in UpFrom(commits)[commits[cur].parent] /\ commits[cur].parent # 0
        <5>1. target \in UpFrom(commits)[cur] /\ cur \in 1 .. Len(commits)
          BY <1>1, <4>1, <4>2 DEF WithinReach
        <5> QED BY <1>2, <3>2, <5>1
      <4> QED BY <2>1, <4>1, <4>2 DEF WithinReach
    <3> QED BY <3>1, <3>2
  <2>6. CASE Unwind \/ Return
    BY <2>6 DEF Unwind, Return, WithinReach
  <2> QED BY <1>3, <2>2, <2>3, <2>4, <2>5, <2>6 DEF Read
<1>4. CASE Write
  <2>1. /\ UNCHANGED <<rstep, target, cur, reachable>>
        /\ undone' = (undone \/ (UndoCommits /\ rstep \in {"labels", "head"}))
        /\ LogKept
        /\ \/ UndoCommits
           \/ head' = head /\ Len(commits') = Len(commits)
           \/ /\ Len(commits') = Len(commits) + 1
              /\ head' = Len(commits) + 1
              /\ commits'[Len(commits) + 1].parent = head
    BY <1>4, LogSteps DEF Write
  <2>2. PICK new : new = commits'
    OBVIOUS
  <2>3. /\ Len(new) \in Nat
        /\ \A c \in 1 .. Len(new) : new[c].parent \in Nat /\ new[c].parent < c
    <3>1. new \in Seq(CommitRows) /\ \A c \in 1 .. Len(new) : new[c].parent < c
      BY <2>2 DEF LabelInv, TagInv, TypeInv, TypeOK, ParentsAreOlder
    <3>2. \A c \in 1 .. Len(new) : new[c] \in CommitRows
      BY <3>1, ElementOfSeq
    <3> QED BY <3>1, <3>2, LenProperties DEF CommitRows
  <2>4. Len(commits) <= Len(new) /\ \A c \in 1 .. Len(commits) : new[c] = commits[c]
    BY <2>1, <2>2 DEF LogKept
  <2>5. \A c \in 0 .. Len(commits) : UpFrom(new)[c] = UpFrom(commits)[c]
    BY <1>1, <2>3, <2>4, AncestorsStay
  <2>6. \A c \in 1 .. Len(new) : UpFrom(new)[c] = {c} \cup UpFrom(new)[new[c].parent]
    BY <2>3, AncestorsOf
  <2>7. UpFrom(commits)' = UpFrom(new)
    BY <2>2 DEF UpFrom
  <2>8. ASSUME reachable, ~undone', rstep \in {"labels", "head"}
        PROVE  target \in UpFrom(new)[head']
    <3>1. target \in UpFrom(new)[head]
      BY <1>1, <2>1, <2>5, <2>8 DEF WithinReach
    <3>2. ~UndoCommits
      BY <2>1, <2>8
    <3>3. CASE head' = head
      BY <3>1, <3>3
    <3>4. CASE /\ Len(commits') = Len(commits) + 1
               /\ head' = Len(commits) + 1
               /\ commits'[Len(commits) + 1].parent = head
      <4>1. head' \in 1 .. Len(new) /\ new[head'].parent = head
        BY <1>1, <2>2, <3>4
      <4> QED BY <2>6, <3>1, <4>1
    <3> QED BY <2>1, <3>2, <3>3, <3>4
  <2>9. ASSUME reachable, ~undone', rstep = "walk" PROVE target \in UpFrom(new)[cur]
    BY <1>1, <2>1, <2>5, <2>9 DEF WithinReach
  <2> QED BY <2>1, <2>7, <2>8, <2>9 DEF WithinReach
<1>5. CASE UNCHANGED <<vars, rvars>>
  BY <1>5 DEF vars, rvars, WithinReach, UpFrom
<1> QED BY <1>3, <1>4, <1>5 DEF PinnedNext

(* A pinned read fails only for a commit that was not on HEAD's chain when *)
(* the read began: the commits that land during it do not break its walk.  *)
THEOREM PinnedReadsSucceed ==
    ASSUME DistinctEdits
    PROVE  PinnedSpec => []PinnedReadSucceeds
<1>1. Init /\ ReadInit => LabelInv /\ ReadInv /\ WithinReach
  BY LabelInvInit, ReadInvInit DEF ReadInit, WithinReach
<1>2. [PinnedNext]_<<vars, rvars>> => [Next]_vars
  BY DEF PinnedNext, Write, vars
<1>3. LabelInv /\ ReadInv /\ WithinReach /\ [PinnedNext]_<<vars, rvars>>
          => (LabelInv /\ ReadInv /\ WithinReach)'
  BY <1>2, LabelInvNext, ReadInvNext, WithinReachNext
<1>4. WithinReach => PinnedReadSucceeds
  BY DEF WithinReach, PinnedReadSucceeds
<1> QED BY <1>1, <1>3, <1>4, PTL DEF PinnedSpec
=============================================================================
