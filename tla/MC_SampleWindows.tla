-------------------------- MODULE MC_SampleWindows --------------------------
(* The sample windows for TLC: an index run adds a third sample, in a      *)
(* second chunk, and tags are taken from the only sample that had one.     *)
EXTENDS SampleWindows, TLC

CONSTANTS Tagged

MCFilters == {All, Tagged}
MCCount   == All :> (0 :> 2 @@ 1 :> 3) @@ Tagged :> (0 :> 0 @@ 1 :> 0)
MCColumns == {1, 3}
=============================================================================
