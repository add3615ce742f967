----------------------------- MODULE MC_Pipeline -----------------------------
(* Instances of Pipeline for TLC.                                          *)
EXTENDS Pipeline

(* Sample 1 is a video, 2 and 3 are its frames, 4 names a parent that does *)
(* not exist.  Values and distances tie; one sample has no vector.         *)
MCTables == {
    [value |-> <<1, 2, 1, 1>>, parent |-> <<0, 1, 1, 9>>, distance |-> <<1, 0, NoVector, 1>>]}

(* A second version with another tag and another label, and a third with   *)
(* both changed again, on the video that a rollup loads.                   *)
MCDatasets == {
    [tags |-> <<{}, {"t"}, {"t"}, {}>>,    labels |-> <<{}, {"cat"}, {}, {}>>],
    [tags |-> <<{"t"}, {"t"}, {}, {}>>,    labels |-> <<{}, {"cat"}, {}, {}>>],
    [tags |-> <<{"t"}, {}, {}, {}>>,       labels |-> <<{"cat"}, {"cat"}, {}, {}>>]}
=============================================================================
