---------------------------- MODULE MC_PinnedRead ----------------------------
(* Instances of PinnedRead for TLC.                                        *)
EXTENDS PinnedRead, TLC

(* With IdWidth = 2, id 3 is too wide for a bitmap entry; its bit is 1.    *)
MCIds == {1, 3}
MCSamples == {1}

(* Label values are only copied and compared.                              *)
LabelSymmetry == Permutations(LabelValues)
=============================================================================
