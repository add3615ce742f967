----------------------------- MODULE CursorWalk -----------------------------
(***************************************************************************)
(* A full walk of the matching samples by cursor: the SDK's samples() asks *)
(* for one page after another, and the server (ListSamples, paginate,      *)
(* resumeIndex) evaluates the filter anew for each page.  Between pages,   *)
(* curation and indexing change which samples match.                       *)
(*                                                                         *)
(* A sample stands for its place in the sort order, which does not change: *)
(* scalars are fixed and the id breaks ties.                               *)
(*                                                                         *)
(* Variants with a plausible bug stand before the definitions they vary,   *)
(* as in CommitLog.                                                        *)
(***************************************************************************)
EXTENDS Naturals, FiniteSets, FiniteSetsExt

CONSTANTS
    N,            \* samples 1 .. N, in sort order
    Limit,        \* page size
    MaxMutations  \* bound on the changes to the matching set during the walk

ASSUME WalkAssumption == N \in Nat /\ Limit \in Nat \ {0} /\ MaxMutations \in Nat

VARIABLES
    matching,   \* the samples the filter matches now
    cursor,     \* the sample of next_cursor, 0 for none
    walking,    \* the client asks for another page
    yielded,    \* how often the walk yielded each sample
    mutations,  \* changes to the matching set so far
    always,     \* history variable: samples that matched ever since the walk began
    restarts    \* history variable: pages whose cursor no longer matched

vars == <<matching, cursor, walking, yielded, mutations, always, restarts>>

Samples == 1 .. N

TypeOK ==
    /\ matching \subseteq Samples
    /\ cursor \in 0 .. N
    /\ walking \in BOOLEAN
    /\ yielded \in [Samples -> Nat]
    /\ mutations \in 0 .. MaxMutations
    /\ always \subseteq matching
    /\ restarts \in Nat

Init ==
    /\ matching \in SUBSET Samples
    /\ cursor = 0
    /\ walking = TRUE
    /\ yielded = [s \in Samples |-> 0]
    /\ mutations = 0
    /\ always = matching
    /\ restarts = 0

ResumeOrGiveUp(items, c) == IF c = 0 \/ c \in items THEN c ELSE N

(* The position to go on from: right after the cursor's sample, or the     *)
(* start if that sample does not match any more.                           *)
ResumeAfter(items, c) == IF c \in items THEN c ELSE 0

RestWithCursor(items, from) == {s \in items : s >= from}

Rest(items, from) == {s \in items : s > from}

(* The first Limit samples of the rest.                                    *)
Page(items, from) ==
    {s \in Rest(items, from) :
        Cardinality({r \in Rest(items, from) : r <= s}) <= Limit}

FetchAlwaysGoesOn ==
    LET from == ResumeAfter(matching, cursor)
        page == Page(matching, from)
    IN  /\ walking
        /\ yielded' = [s \in Samples |-> yielded[s] + IF s \in page THEN 1 ELSE 0]
        /\ cursor' = IF page = {} THEN cursor ELSE Max(page)
        /\ restarts' = restarts + IF cursor # 0 /\ from = 0 THEN 1 ELSE 0
        /\ UNCHANGED <<matching, mutations, always, walking>>

Fetch ==
    LET from == ResumeAfter(matching, cursor)
        page == Page(matching, from)
    IN  /\ walking
        /\ yielded' = [s \in Samples |-> yielded[s] + IF s \in page THEN 1 ELSE 0]
        /\ IF page = Rest(matching, from)
           THEN walking' = FALSE /\ cursor' = 0
           ELSE walking' = TRUE /\ cursor' = Max(page)
        /\ restarts' = restarts + IF cursor # 0 /\ from = 0 THEN 1 ELSE 0
        /\ UNCHANGED <<matching, mutations, always>>

(* A tag or label changes, or a sample is indexed.                         *)
Mutate(s) ==
    /\ walking
    /\ mutations < MaxMutations
    /\ matching' = IF s \in matching THEN matching \ {s} ELSE matching \cup {s}
    /\ always' = always \ {s}
    /\ mutations' = mutations + 1
    /\ UNCHANGED <<cursor, walking, yielded, restarts>>

(* The iterator is exhausted.                                              *)
Exhausted == ~walking /\ UNCHANGED vars

Next == Fetch \/ (\E s \in Samples : Mutate(s)) \/ Exhausted

Spec == Init /\ [][Next]_vars

(* The script consumes its iterator to the end.                            *)
FairSpec == Spec /\ WF_vars(Fetch)

-----------------------------------------------------------------------------
(* A walk yields every sample that matched all the time, wherever the      *)
(* samples around it came and went, the cursor's own included.             *)
NeverSkips == ~walking => \A s \in always : yielded[s] > 0

(* A sample is yielded again only because a page started over, and that    *)
(* costs a change each time: samples that come and go elsewhere than at    *)
(* the cursor never make the walk repeat itself.                           *)
RepeatsNeedMutations ==
    /\ \A s \in Samples : yielded[s] <= 1 + restarts
    /\ restarts <= mutations

(* The walk ends once the changes do.                                      *)
WalkEnds == <>~walking
=============================================================================
