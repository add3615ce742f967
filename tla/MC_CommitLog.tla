---------------------------- MODULE MC_CommitLog ----------------------------
(* Instances of CommitLog for TLC.  With IdWidth = 4, id 5 is one past the *)
(* width of a bitmap entry, and stands for any id above uint32: its bit is *)
(* that of sample 1.                                                       *)
EXTENDS CommitLog

MCIds == {2, 5}
MCSamples == {1, 2}
MCOneSample == {1}
=============================================================================
