----------------------------- MODULE PinnedRead -----------------------------
(***************************************************************************)
(* A read with at_commit (baseSamples and overlayAtCommit) next to the     *)
(* writers of CommitLog.  The read is not a transaction: it queries the    *)
(* tags, the labels, HEAD and then one commit row after another, each time *)
(* when the connection is free, and unwinds in memory what it read.        *)
(* Writers commit and undo between any two of those queries.               *)
(*                                                                         *)
(* Variants with a plausible bug stand before the definitions they vary,   *)
(* as in CommitLog.                                                        *)
(***************************************************************************)
EXTENDS CommitLog

VARIABLES
    rstep,     \* what the read does next
    target,    \* the commit it is pinned to (at_commit)
    rtags,     \* the tags it read, and unwinds (tagSets)
    rlabels,   \* the labels it read, and unwinds (labelsByID)
    cur,       \* the next commit of the walk from HEAD
    chain,     \* the commits collected so far, newest first
    undone,    \* history variable: an undo committed between the read of the
               \* tags and the read of HEAD
    reachable  \* history variable: target was on HEAD's chain when the tags were read

rvars == <<rstep, target, rtags, rlabels, cur, chain, undone, reachable>>

(* The commits on the way from c to the first commit.                      *)
Ancestors(c) ==
    LET up[d \in 0 .. Len(commits)] ==
            IF d = 0 THEN {} ELSE {d} \cup up[commits[d].parent]
    IN  up[c]

ReadTypeOK ==
    /\ rstep \in {"tags", "labels", "head", "walk", "unwind", "done", "error"}
    /\ target \in 0 .. Len(commits)
    /\ rtags \in TagState
    /\ rlabels \in LabelState
    /\ cur \in 0 .. Len(commits)
    /\ chain \in Seq(1 .. Len(commits))
    /\ undone \in BOOLEAN
    /\ reachable \in BOOLEAN

ReadInit ==
    /\ rstep = "tags"
    /\ target = 0
    /\ rtags = Empty.tags
    /\ rlabels = Empty.labels
    /\ cur = 0
    /\ chain = <<>>
    /\ undone = FALSE
    /\ reachable = FALSE

(* The pool's only connection is free.                                     *)
ConnectionFree == tx = "none"

ReadTags(c) ==
    /\ rstep = "tags"
    /\ ConnectionFree
    /\ target' = c
    /\ rtags' = tags
    /\ reachable' = (c \in Ancestors(head))
    /\ rstep' = "labels"
    /\ UNCHANGED <<rlabels, cur, chain, undone>>

ReadLabels ==
    /\ rstep = "labels"
    /\ ConnectionFree
    /\ rlabels' = labels
    /\ rstep' = "head"
    /\ UNCHANGED <<target, rtags, cur, chain, undone, reachable>>

(* Pinned to HEAD: what was read is returned.  With an empty log only      *)
(* commit 0 is found.                                                      *)
ReadHead ==
    /\ rstep = "head"
    /\ ConnectionFree
    /\ cur' = head
    /\ rstep' = IF head = target THEN "done"
                ELSE IF head = 0 THEN "error" ELSE "walk"
    /\ UNCHANGED <<target, rtags, rlabels, chain, undone, reachable>>

WalkCollectsTarget ==
    /\ rstep = "walk"
    /\ ConnectionFree
    /\ chain' = Append(chain, cur)
    /\ IF cur = target
       THEN rstep' = "unwind" /\ UNCHANGED cur
       ELSE /\ cur' = commits[cur].parent
            /\ rstep' = IF commits[cur].parent = 0 THEN "error" ELSE "walk"
    /\ UNCHANGED <<target, rtags, rlabels, undone, reachable>>

WalkTestsParentFirst ==
    /\ rstep = "walk"
    /\ ConnectionFree
    /\ IF commits[cur].parent = 0
       THEN rstep' = "error" /\ UNCHANGED <<cur, chain>>
       ELSE IF cur = target
       THEN rstep' = "unwind" /\ UNCHANGED <<cur, chain>>
       ELSE /\ chain' = Append(chain, cur)
            /\ cur' = commits[cur].parent
            /\ rstep' = "walk"
    /\ UNCHANGED <<target, rtags, rlabels, undone, reachable>>

(* One getCommitRow: stop at the target, else collect the commit and go to *)
(* its parent.                                                             *)
Walk ==
    /\ rstep = "walk"
    /\ ConnectionFree
    /\ IF cur = target
       THEN rstep' = "unwind" /\ UNCHANGED <<cur, chain>>
       ELSE /\ chain' = Append(chain, cur)
            /\ cur' = commits[cur].parent
            /\ rstep' = IF commits[cur].parent = 0 THEN "error" ELSE "walk"
    /\ UNCHANGED <<target, rtags, rlabels, undone, reachable>>

(* The inverse of a commit's patches in the order they were made: each     *)
(* sets its label to the stored prior value or removes it, so the last     *)
(* patch of a label decides.                                               *)
OverlayPatches(rows, ps, f) ==
    [k \in Keys |->
        LET ns == {n \in DOMAIN ps : Key(ps[n], f) = k} IN
        IF ns = {} THEN rows[k]
        ELSE ps[CHOOSE n \in ns : \A m \in ns : m <= n].prior]

Unwind ==
    /\ rstep = "unwind"
    /\ chain # <<>>
    /\ LET row == commits[Head(chain)] IN
       IF row.kind = "set"
       THEN /\ rtags' = [rtags EXCEPT ![row.value] = InvertDelta(row.op, @, row.bitmap)]
            /\ UNCHANGED rlabels
       ELSE /\ ConnectionFree
            /\ rlabels' = OverlayPatches(rlabels, row.patches, row.field)
            /\ UNCHANGED rtags
    /\ chain' = Tail(chain)
    /\ UNCHANGED <<rstep, target, cur, undone, reachable>>

Return ==
    /\ rstep = "unwind"
    /\ chain = <<>>
    /\ rstep' = "done"
    /\ UNCHANGED <<target, rtags, rlabels, cur, chain, undone, reachable>>

Read ==
    \/ \E c \in 0 .. Len(commits) : ReadTags(c)
    \/ ReadLabels \/ ReadHead \/ Walk \/ Unwind \/ Return

-----------------------------------------------------------------------------
UndoCommits == (\E expected \in 0 .. Len(commits) : UndoSet(expected)) \/ CommitUndo

Write ==
    /\ Next
    /\ undone' = (undone \/ (UndoCommits /\ rstep \in {"labels", "head"}))
    /\ UNCHANGED <<rstep, target, rtags, rlabels, cur, chain, reachable>>

PinnedNext == (Read /\ UNCHANGED vars) \/ Write

PinnedSpec == Init /\ ReadInit /\ [][PinnedNext]_<<vars, rvars>>

-----------------------------------------------------------------------------
Exact == rtags = Snap(target).tags /\ rlabels = Snap(target).labels

(* A pinned read returns the data of the commit it is pinned to, however   *)
(* many commits land while it runs, and however many undos land before it  *)
(* starts or after it read HEAD: unwinding a commit that the tags or the   *)
(* labels were read before does no harm.                                   *)
PinnedReadIsExact == rstep = "done" /\ ~undone => Exact

(* It fails only for a commit that was not on HEAD's chain when it began:  *)
(* commits that land meanwhile never make it fail.                         *)
PinnedReadSucceeds == rstep = "error" /\ ~undone => ~reachable
=============================================================================
