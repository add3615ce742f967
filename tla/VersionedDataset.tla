-------------------------- MODULE VersionedDataset --------------------------
(***************************************************************************)
(* What the catalog's commit log promises, with none of its machinery: the *)
(* curated data is one of a tree of versions.  A commit adds a version     *)
(* whose parent is the current one and moves to it; an undo moves back to  *)
(* the parent and shows exactly the data that was there when that parent   *)
(* was current.  How the data of an older version is recovered (a stored   *)
(* delta, stored prior values) is the business of CommitLog.               *)
(***************************************************************************)
EXTENDS Naturals, Sequences

CONSTANTS
    Data,       \* the states the curated data (tags and labels) can be in
    Empty       \* the data before the first commit

VARIABLES
    data,       \* the data a live read returns
    versions,   \* versions[v] is the data as it was when version v was made
    parents,    \* parents[v] is the version v was made from, 0 for none
    cur         \* the current version, 0 before the first commit

vars == <<data, versions, parents, cur>>

(* The data of version v; version 0 is the state before any commit.        *)
At(v) == IF v = 0 THEN Empty ELSE versions[v]

Init ==
    /\ data = Empty
    /\ versions = <<>>
    /\ parents = <<>>
    /\ cur = 0

(* A commit: the new version is the current one and is never rewritten.    *)
Commit ==
    /\ data' \in Data
    /\ versions' = Append(versions, data')
    /\ parents' = Append(parents, cur)
    /\ cur' = Len(versions) + 1

(* An undo: back to the parent, with the parent's data.                    *)
Undo ==
    /\ cur # 0
    /\ cur' = parents[cur]
    /\ data' = At(parents[cur])
    /\ UNCHANGED <<versions, parents>>

Next == Commit \/ Undo

Spec == Init /\ [][Next]_vars
=============================================================================
