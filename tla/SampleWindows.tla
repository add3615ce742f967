--------------------------- MODULE SampleWindows ---------------------------
(***************************************************************************)
(* What the dashboard shows of the dataset: which chunks of samples the    *)
(* grid asks for (web/src/components/Grid/PixiGrid.tsx), under which keys  *)
(* counts and chunks are cached, and how the cache is brought up to date   *)
(* after a commit of this dashboard (web/src/hooks/useSamples.ts).  An     *)
(* action is a task of the browser's event loop with the render it causes, *)
(* or a step of the server.                                                *)
(*                                                                         *)
(* Datasets are versions; data of a key is the version it was read from.   *)
(* The tag counts, the commit list and the total count are observed all    *)
(* along and invalidated together: the total count stands for the three.   *)
(*                                                                         *)
(* The query cache of react-query 5, external, is modelled from how the    *)
(* hooks use it.  Variants with a plausible bug stand before the           *)
(* definitions they vary.                                                  *)
(***************************************************************************)
EXTENDS Integers, FiniteSets

CONSTANTS
    Filters,     \* what the grid may be filtered by
    All,         \* no filter
    Count,       \* Count[f][v]: how many samples match in a version
    CHUNK_SIZE,  \* samples of a chunk
    Columns,     \* how many columns a resize may leave
    Rows,        \* how many rows are rendered at a time, overscan included
    MaxVersion,  \* bound on commits
    None         \* no data, no request under way

ASSUME FiltersAssumption == All \in Filters
ASSUME CountAssumption == Count \in [Filters -> [0 .. MaxVersion -> Nat]]
ASSUME SizesAssumption ==
    CHUNK_SIZE \in Nat \ {0} /\ Columns \subseteq Nat \ {0} /\ Rows \in Nat \ {0}
ASSUME VersionsAssumption == MaxVersion \in Nat
ASSUME NoneAssumption == None \notin Int

VARIABLES
    version,    \* the dataset's version
    pending,    \* versions this dashboard made and has not heard of yet
    settled,    \* the last version that a job of this dashboard settled with
    view,       \* filter, first rendered row and columns
    cache,      \* per key: the data, whether invalidated, the request under way
    lapsed      \* history: keys whose last request failed, or was under way
                \* when a job settled and not restarted

dataset == <<version, pending>>
vars    == <<dataset, settled, view, cache, lapsed>>

Asked == -1   \* a request the server has not answered

ChunkOf(i)  == (i \div CHUNK_SIZE) * CHUNK_SIZE
Offsets(f)  == {ChunkOf(i) : i \in UNION {0 .. Count[f][v] - 1 : v \in 0 .. MaxVersion}}

(* queryKey: ["count", filter] and ["samples", filter, offset].            *)
CountKey(f)    == <<"count", f>>
ChunkKey(f, o) == <<"samples", f, o>>
ChunkKeys == UNION {{ChunkKey(f, o) : o \in Offsets(f)} : f \in Filters}
Keys      == {CountKey(f) : f \in Filters} \cup ChunkKeys

Entry == [data : {None} \cup 0 .. MaxVersion,
          invalid : BOOLEAN,
          flight : {None, Asked} \cup 0 .. MaxVersion]
NoEntry == [data |-> None, invalid |-> FALSE, flight |-> None]

TypeOK ==
    /\ version \in 0 .. MaxVersion
    /\ settled \in 0 .. version
    /\ pending \subseteq 1 .. version
    /\ view \in [filter : Filters, first : Nat, columns : Columns]
    /\ cache \in [Keys -> Entry]
    /\ lapsed \subseteq Keys

-----------------------------------------------------------------------------
(* What a render needs.                                                    *)

Least(a, b)    == IF a < b THEN a ELSE b
Greatest(a, b) == IF a > b THEN a ELSE b

(* data: count = 0, while the count of a filter is not there.              *)
Shown(c, f) == LET v == c[CountKey(f)].data IN IF v = None THEN 0 ELSE Count[f][v]

rowCount(count, columns) == Greatest(1, (count + columns - 1) \div columns)
LastFirst(count, columns) == Greatest(0, rowCount(count, columns) - Rows)
LastRow(w, count) == Least(w.first + Rows, rowCount(count, w.columns)) - 1

neededUpToRow(w, count) ==
    LET last == Least(count - 1, LastRow(w, count) * w.columns)
    IN  {o \in Offsets(w.filter) : o >= ChunkOf(w.first * w.columns) /\ o <= ChunkOf(last)}

(* The chunks from the first rendered cell to the last one with a sample.  *)
neededOffsets(w, count) ==
    LET last == Least(count - 1, (LastRow(w, count) + 1) * w.columns - 1)
    IN  {o \in Offsets(w.filter) : o >= ChunkOf(w.first * w.columns) /\ o <= ChunkOf(last)}

(* The keys that the hooks observe in a render.                            *)
Observed(w, c) ==
    {CountKey(All), CountKey(w.filter)} \cup
        {ChunkKey(w.filter, o) : o \in neededOffsets(w, Shown(c, w.filter))}

(* A key that comes into use is asked for if it has no data, or stale data *)
(* (a count always, staleTime being 0); one that is on its way is joined.  *)
Fetched(c, keys, aged) ==
    [k \in Keys |->
        IF /\ k \in keys /\ c[k].flight = None
           /\ c[k].data = None \/ c[k].invalid \/ k \in aged \/ k \notin ChunkKeys
        THEN [c[k] EXCEPT !.flight = Asked]
        ELSE c[k]]

(* A render over a changed window or changed data; chunks of 30 s ago are  *)
(* aged.                                                                   *)
RenderWith(w, c) ==
    LET top     == LastFirst(Shown(c, w.filter), w.columns)
        clamped == [w EXCEPT !.first = Least(w.first, top)]
        new     == Observed(clamped, c) \ Observed(view, cache)
    IN  \E aged \in SUBSET (new \cap ChunkKeys) :
            /\ view' = clamped
            /\ cache' = Fetched(c, new, aged)
            /\ lapsed' = {k \in lapsed : cache'[k].flight = c[k].flight}

Init ==
    /\ version = 0 /\ pending = {} /\ settled = 0
    /\ view \in [filter : {All}, first : {0}, columns : Columns]
    /\ cache = [k \in Keys |->
                   IF k = CountKey(All) THEN [NoEntry EXCEPT !.flight = Asked] ELSE NoEntry]
    /\ lapsed = {}

-----------------------------------------------------------------------------
(* The user, the server, answers.                                          *)

Scroll ==
    /\ \E first \in 0 .. LastFirst(Shown(cache, view.filter), view.columns) :
           RenderWith([view EXCEPT !.first = first], cache)
    /\ UNCHANGED <<dataset, settled>>

Resize ==
    /\ \E columns \in Columns : RenderWith([view EXCEPT !.columns = columns], cache)
    /\ UNCHANGED <<dataset, settled>>

SetFilter ==
    /\ \E f \in Filters : RenderWith([view EXCEPT !.filter = f], cache)
    /\ UNCHANGED <<dataset, settled>>

(* The server evaluates a count or a page of samples.                      *)
Serve(k) ==
    /\ cache[k].flight = Asked
    /\ cache' = [cache EXCEPT ![k].flight = version]
    /\ UNCHANGED <<dataset, settled, view, lapsed>>

(* An answer arrives: it is the key's data now, and no longer invalid.     *)
Deliver(k) ==
    /\ cache[k].flight \notin {None, Asked}
    /\ RenderWith(view, [cache EXCEPT ![k] = [NoEntry EXCEPT !.data = cache[k].flight]])
    /\ UNCHANGED <<dataset, settled>>

(* A request and its retry fail: data stay.                                *)
Fail(k) ==
    /\ cache[k].flight # None
    /\ cache' = [cache EXCEPT ![k].flight = None]
    /\ lapsed' = lapsed \cup {k}
    /\ UNCHANGED <<dataset, settled, view>>

(* gcTime: what nobody uses and nobody loads is dropped.                   *)
Evict(k) ==
    /\ k \notin Observed(view, cache) /\ cache[k].flight = None
    /\ cache' = [cache EXCEPT ![k] = NoEntry]
    /\ lapsed' = lapsed \ {k}
    /\ UNCHANGED <<dataset, settled, view>>

-----------------------------------------------------------------------------
(* Commits.                                                                *)

OwnCommit ==
    /\ version < MaxVersion
    /\ version' = version + 1
    /\ pending' = pending \cup {version'}
    /\ UNCHANGED <<settled, view, cache, lapsed>>

ForeignCommit ==
    /\ version < MaxVersion
    /\ version' = version + 1
    /\ UNCHANGED <<pending, settled, view, cache, lapsed>>

InvalidateObserved(c) ==
    [k \in Keys |->
        IF k \notin Observed(view, c) THEN c[k]
        ELSE [c[k] EXCEPT !.invalid = c[k].data # None,
                          !.flight = IF c[k].data # None THEN Asked
                                     ELSE IF @ = None THEN Asked ELSE @]]

InvalidateLazily(c) == [k \in Keys |-> [c[k] EXCEPT !.invalid = c[k].data # None]]

(* invalidateQueries: all data are marked; the keys in use are asked for   *)
(* again, except that one without data joins the request under way.       *)
Invalidate(c) ==
    [k \in Keys |->
        [c[k] EXCEPT !.invalid = c[k].data # None,
                     !.flight = IF /\ k \in Observed(view, c)
                                   /\ c[k].data # None \/ @ = None
                                THEN Asked ELSE @]]

(* The poll of a job returns and invalidate() runs.                        *)
Settle ==
    \E v \in pending :
        /\ pending' = pending \ {v}
        /\ settled' = Greatest(settled, v)
        /\ cache' = Invalidate(cache)
        /\ lapsed' = {k \in Keys : /\ cache[k].flight # None
                                  /\ \/ k \notin Observed(view, cache)
                                     \/ cache[k].data = None}
        /\ UNCHANGED <<version, view>>

Next ==
    \/ Scroll \/ Resize \/ SetFilter
    \/ \E k \in Keys : Serve(k) \/ Deliver(k) \/ Fail(k) \/ Evict(k)
    \/ OwnCommit \/ ForeignCommit \/ Settle

Spec == Init /\ [][Next]_vars

(* Requests are answered or fail, and answers are taken: weak fairness of  *)
(* Serve(k) and of Deliver(k), spelled out because each is enabled exactly *)
(* until it or an equivalent happens.  Nothing is assumed of users, of     *)
(* commits and of the moment a poll returns.                               *)
FairSpec ==
    Spec /\ \A k \in Keys : /\ []<>(cache[k].flight # Asked)
                            /\ []<>(cache[k].flight \in {None, Asked})

-----------------------------------------------------------------------------
InUse(k) == k \in Observed(view, cache)

(* The chunks in use are exactly those with a cell on the screen: no card  *)
(* waits for a chunk that nobody asks for, however columns, the end of the *)
(* list and the ends of chunks fall (PixiGrid.tsx:131).                    *)
NeededIsVisible ==
    LET count == Shown(cache, view.filter)
        cells == {i \in 0 .. count - 1 :
                     /\ i >= view.first * view.columns
                     /\ i \div view.columns <= LastRow(view, count)}
    IN  {ChunkKey(view.filter, ChunkOf(i)) : i \in cells} = Observed(view, cache) \cap ChunkKeys

(* With nothing under way, what is in use is at least as new as the last   *)
(* commit of this dashboard whose job it saw settle (useSamples.ts:69),    *)
(* unless its last request failed, or was under way when the job settled   *)
(* and could not be restarted: then an answer from before the commit may   *)
(* stay for as long as the key is in use.                                  *)
SettledIsShown ==
    \A k \in Keys :
        InUse(k) /\ cache[k].flight = None =>
            \/ cache[k].data # None /\ cache[k].data >= settled
            \/ k \in lapsed

(* What is in use and older than that is replaced, whatever the user and   *)
(* other clients do meanwhile, with the same exceptions.                   *)
Outdated(k) ==
    InUse(k) /\ (cache[k].data = None \/ cache[k].data < settled)
OutdatedIsReplaced ==
    \A k \in Keys : Outdated(k) ~> (~Outdated(k) \/ k \in lapsed)
=============================================================================
