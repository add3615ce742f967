------------------------------ MODULE MC_Grid ------------------------------
(* The grid for TLC: a list, and what is left of it after a commit took    *)
(* its first sample out of the filter.                                     *)
EXTENDS Grid, TLC

CONSTANTS s1, s2, s3

MCSamples   == {s1, s2, s3}
MCPositions == {0, 1}
MCViews     == {{}, {1}, {0, 1}}
MCLists     == {0 :> s1 @@ 1 :> s2, 0 :> s2 @@ 1 :> s3}
=============================================================================
