---------------------------- MODULE MC_Dashboard ----------------------------
(* The dashboard for TLC: two samples in a chunk of two, of which the      *)
(* screen may show one only, and a tag that either of them has.  A label   *)
(* that looks like an index is seen first or last.                         *)
EXTENDS Dashboard

CONSTANTS Tagged

Value(field, label, boxed) == [field |-> field, label |-> label, boxed |-> boxed]

MCFilters   == {NoFilter, Tagged}
MCLists     == NoFilter :> {<<1, 2>>} @@ Tagged :> {<<1>>, <<2>>}
MCLabelsOf  == <<
    <<Value("objects", "dog", TRUE), Value("objects", "cat", FALSE), Value("objects", "dog", TRUE)>>,
    <<Value("digits", "3", TRUE), Value("faces", NoLabel, TRUE), Value("objects", "dog", TRUE)>> >>
MCInherited == {"constructor"}
MCNumber    == "3" :> 3 @@ "7" :> 7
=============================================================================
