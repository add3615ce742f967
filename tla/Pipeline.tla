------------------------------ MODULE Pipeline ------------------------------
(***************************************************************************)
(* A filter's pipeline (internal/catalog/query.go): evaluate loads the     *)
(* samples, applies match, sort, sample and rollup stages in the order of  *)
(* the filter, and sorts by id if no stage sorted.                         *)
(*                                                                         *)
(* A load is no transaction.  It queries the tags, the labels, and for a   *)
(* query with at_commit HEAD and its chain, each when the connection is    *)
(* free; commits and undos of other clients land between any two.  A       *)
(* rollup to parents loads everything again.  That an overlay which no     *)
(* undo disturbed is the pinned commit's data is PinnedReadIsExact of      *)
(* PinnedRead, and taken from there.  Samples are those of the query's     *)
(* first statement: one that is indexed later is in none of its rows.      *)
(*                                                                         *)
(* A match stage of several predicates is as many stages of one.  The      *)
(* random numbers of a sample stage are a choice; a seed only makes the    *)
(* same choice again.                                                      *)
(*                                                                         *)
(* Variants with a plausible bug stand before the definitions they vary,   *)
(* as in CommitLog.                                                        *)
(***************************************************************************)
EXTENDS Integers, Sequences, FiniteSets, SequencesExt

CONSTANTS
    NumSamples,  \* samples 1 .. NumSamples, by id
    Tags,        \* tags
    Labels,      \* what a label can be
    Datasets,    \* the tags and labels that commits and undos give the samples
    Values,      \* the values of a scalar field
    Sizes,       \* sizes of sample stages
    Tables,      \* what commits do not change, see TablesAssumption
    MaxStages,   \* bound on the length of a pipeline
    MaxCommits   \* bound on the commits and undos that land during the query

SampleIds == 1 .. NumSamples
NoParent  == 0
NoVector  == -1

Data == [tags : [SampleIds -> SUBSET Tags], labels : [SampleIds -> SUBSET Labels]]

(* value: a scalar field; parent: parent_id, which may name no sample;     *)
(* distance: the distance of the sample's vector to the query's.           *)
ASSUME TablesAssumption ==
    \A t \in Tables :
        /\ t.value \in [SampleIds -> Values]
        /\ t.parent \in [SampleIds -> Nat]
        /\ t.distance \in [SampleIds -> Nat \cup {NoVector}]
ASSUME DatasetsAssumption == Datasets \subseteq Data
ASSUME BoundsAssumption ==
    {NumSamples, MaxStages, MaxCommits} \cup Sizes \cup Values \subseteq Nat

VARIABLES
    table,     \* the rows of table samples and of table embeddings
    live,      \* the data at HEAD
    atCommit,  \* the data at the commit the query is pinned to
    pinned,    \* the query has at_commit
    commits,   \* commits and undos that landed so far
    phase,     \* what the query does next
    read,      \* what the load has read: tagsByID and labelsByID
    working,   \* the rows the stages have left
    sorted,    \* a sort stage has been applied
    stages,    \* stages applied so far
    order,     \* history variable: the order the last stage that has one gives
    rolled,    \* history variable: a rollup loaded parents
    draw,      \* history variable: what the last stage drew from, if it was balanced
    version,   \* history variable: HEAD's data when the last load read the tags
    torn,      \* history variable: HEAD moved before that load read the labels
    undone     \* history variable: an undo landed between the read of the tags
               \* and the read of HEAD of a pinned load

rowVars   == <<working, sorted, stages, order, rolled, draw>>
load      == <<phase, read, version, torn, undone>>
data      == <<table, live, atCommit, pinned, commits>>
queryVars == <<rowVars, load, data>>

NoDraw == [field |-> "", size |-> 0, from |-> {}]

Nothing == [tags |-> [s \in SampleIds |-> {}], labels |-> [s \in SampleIds |-> {}]]

Row == [id : SampleIds, tags : SUBSET Tags, labels : SUBSET Labels]

Phases == {"tags", "labels", "head", "stages", "parentTags", "parentLabels", "done", "failed"}

QueryTypeOK ==
    /\ table \in Tables
    /\ {live, atCommit, read, version} \subseteq Data
    /\ {pinned, sorted, rolled, torn, undone} \subseteq BOOLEAN
    /\ commits \in 0 .. MaxCommits
    /\ stages \in 0 .. MaxStages
    /\ working \in Seq(Row)
    /\ phase \in Phases
    /\ order \in {"id", "asc", "desc", "near"}
    /\ draw \in [field : {"", "value", "tags"}, size : Sizes \cup {0}, from : SUBSET Row]

QueryInit ==
    /\ table \in Tables
    /\ live \in Datasets
    /\ pinned \in BOOLEAN
    /\ atCommit \in IF pinned THEN Datasets ELSE {live}
    /\ commits = 0
    /\ phase = "tags"
    /\ read = Nothing
    /\ working = <<>>
    /\ sorted = FALSE
    /\ stages = 0
    /\ order = "id"
    /\ rolled = FALSE
    /\ draw = NoDraw
    /\ version = live
    /\ torn = FALSE
    /\ undone = FALSE

-----------------------------------------------------------------------------
(* Orders.  A stage keeps some of the rows, named by their indexes: in the *)
(* order they had, or in another.                                          *)

Orderings(rows, kept) == {[k \in DOMAIN p |-> rows[p[k]]] : p \in SetToSeqs(kept)}

InPlace(rows, kept) ==
    {[k \in DOMAIN p |-> rows[p[k]]] :
        p \in {o \in SetToSeqs(kept) : \A i, j \in DOMAIN o : i < j => o[i] < o[j]}}

ById(rows, kept) ==
    {q \in Orderings(rows, kept) : \A i, j \in DOMAIN q : i < j => q[i].id < q[j].id}

(* A scalar, up or down; the id breaks ties, in both directions.           *)
Value(r) == table.value[r.id]

Less(dir, a, b) ==
    \/ Value(a) = Value(b) /\ a.id < b.id
    \/ dir = "asc"  /\ Value(a) < Value(b)
    \/ dir = "desc" /\ Value(a) > Value(b)

ByValue(rows, dir) ==
    {q \in Orderings(rows, DOMAIN rows) :
        \A i, j \in DOMAIN q : i < j => Less(dir, q[i], q[j])}

(* The vector search returns the candidates that have a vector, nearest    *)
(* first; equal distances come in any order (sort.Slice is not stable).    *)
HasVector(r) == table.distance[r.id] # NoVector

WithVector(rows) == {i \in DOMAIN rows : HasVector(rows[i])}

NearerSame(a, b) == table.distance[a.id] <= table.distance[b.id]

Search(rows) ==
    {q \in Orderings(rows, WithVector(rows)) :
        \A i, j \in DOMAIN q : i < j => NearerSame(q[i], q[j])}

-----------------------------------------------------------------------------
(* Predicates.                                                             *)

compareValue(v, want) ==
    [eq |-> v = want, neq |-> v # want, lt |-> v < want,
     lte |-> v <= want, gt |-> v > want, gte |-> v >= want]

Listed(v, wants) ==
    LET found == \E want \in wants : compareValue(v, want).eq
    IN  [in |-> found, not_in |-> ~found]

evalTagsPredicate(tags, want) ==
    [all  |-> want \subseteq tags,
     any  |-> want = {} \/ want \cap tags # {},
     none |-> want \cap tags = {}]

(* wants: the labels that satisfy every nested predicate.                  *)
evalElemMatch(labels, wants) == wants \cap labels # {}

-----------------------------------------------------------------------------
(* The load of the query and the load of a rollup, and the commits and     *)
(* undos of others.                                                        *)

baseSamples(d) ==
    [s \in SampleIds |-> [id |-> s, tags |-> d.tags[s], labels |-> d.labels[s]]]

ReadTags ==
    /\ phase \in {"tags", "parentTags"}
    /\ phase' = IF phase = "tags" THEN "labels" ELSE "parentLabels"
    /\ read' = [read EXCEPT !.tags = live.tags]
    /\ version' = live
    /\ torn' = FALSE
    /\ UNCHANGED <<rowVars, undone, data>>

(* Without at_commit these are the rows.                                   *)
ReadLabels ==
    /\ phase = "labels"
    /\ IF pinned
       THEN /\ read' = [read EXCEPT !.labels = live.labels]
            /\ phase' = "head"
            /\ UNCHANGED working
       ELSE /\ working' = baseSamples([read EXCEPT !.labels = live.labels])
            /\ read' = Nothing
            /\ phase' = "stages"
    /\ UNCHANGED <<sorted, stages, order, rolled, draw, version, torn, undone, data>>

OverlaySkipped == {read}

(* What overlayAtCommit makes of what was read: the pinned commit's data.  *)
(* An undone commit is not on the chain any more; what was read of it      *)
(* stays, wherever no commit of the chain overwrites it.                   *)
Between(a, b) == {x \in SUBSET (a \cup b) : a \cap b \subseteq x}

Overlay ==
    IF ~undone THEN {atCommit}
    ELSE {d \in Data : \A s \in SampleIds :
              /\ d.tags[s] \in Between(atCommit.tags[s], read.tags[s])
              /\ d.labels[s] \in Between(atCommit.labels[s], read.labels[s])}

(* HEAD and its chain; the query fails if the commit is not on the chain.  *)
ReadChain ==
    /\ phase = "head"
    /\ \/ phase' = "stages" /\ \E d \in Overlay : working' = baseSamples(d)
       \/ phase' = "failed" /\ UNCHANGED working
    /\ read' = Nothing
    /\ UNCHANGED <<sorted, stages, order, rolled, draw, version, torn, undone, data>>

(* HEAD moves, and with it the live tags and labels.                       *)
HeadMoves ==
    /\ phase \notin {"done", "failed"}
    /\ commits < MaxCommits
    /\ commits' = commits + 1
    /\ live' \in Datasets
    /\ torn' = (torn \/ phase \in {"labels", "parentLabels"})
    /\ \/ UNCHANGED undone
       \/ pinned /\ phase \in {"labels", "head"} /\ undone' = TRUE
    /\ UNCHANGED <<rowVars, phase, read, version, table, atCommit, pinned>>

-----------------------------------------------------------------------------
(* Stages.                                                                 *)

Stage(drawn) ==
    /\ phase = "stages"
    /\ stages < MaxStages
    /\ stages' = stages + 1
    /\ draw' = drawn
    /\ UNCHANGED <<load, data>>

Match(kept) ==
    /\ Stage(NoDraw)
    /\ working' \in InPlace(working, kept)
    /\ UNCHANGED <<sorted, order, rolled>>

MatchScalar ==
    \/ \E op \in {"eq", "neq", "lt", "lte", "gt", "gte"}, want \in Values :
           Match({i \in DOMAIN working : compareValue(Value(working[i]), want)[op]})
    \/ \E op \in {"in", "not_in"}, wants \in SUBSET Values :
           Match({i \in DOMAIN working : Listed(Value(working[i]), wants)[op]})

MatchTags ==
    \E op \in {"all", "any", "none"}, want \in SUBSET Tags :
        Match({i \in DOMAIN working : evalTagsPredicate(working[i].tags, want)[op]})

MatchLabels ==
    \E wants \in SUBSET Labels :
        Match({i \in DOMAIN working : evalElemMatch(working[i].labels, wants)})

(* The rows come back in the order of the search.                          *)
MatchNear ==
    /\ Stage(NoDraw)
    /\ \E limit \in {table.distance[s] : s \in SampleIds}, q \in Search(working) :
           working' \in InPlace(q, {i \in DOMAIN q : table.distance[q[i].id] <= limit})
    /\ order' = "near"
    /\ UNCHANGED <<sorted, rolled>>

SortScalar ==
    /\ Stage(NoDraw)
    /\ \E dir \in {"asc", "desc"} :
           /\ working' \in ByValue(working, dir)
           /\ order' = dir
    /\ sorted' = TRUE
    /\ UNCHANGED rolled

SortNearAppendingAll ==
    /\ Stage(NoDraw)
    /\ \E q \in Search(working), rest \in ById(working, DOMAIN working) : working' = q \o rest
    /\ order' = "near"
    /\ sorted' = TRUE
    /\ UNCHANGED rolled

(* Rows without a vector come last, by id.                                 *)
SortNear ==
    /\ Stage(NoDraw)
    /\ \E q \in Search(working),
          rest \in ById(working, DOMAIN working \ WithVector(working)) : working' = q \o rest
    /\ order' = "near"
    /\ sorted' = TRUE
    /\ UNCHANGED rolled

Least(a, b) == IF a < b THEN a ELSE b

IndexesOf(chosen) == {i \in DOMAIN working : working[i] \in chosen}

PickUnsorted(chosen) == working' \in InPlace(working, IndexesOf(chosen))

Pick(chosen) == working' \in ById(working, IndexesOf(chosen))

(* size samples, by id.                                                    *)
SampleAny(size) ==
    /\ Stage(NoDraw)
    /\ \E chosen \in kSubset(Least(size, Len(working)), ToSet(working)) : Pick(chosen)
    /\ order' = "id"
    /\ UNCHANGED <<sorted, rolled>>

(* balanceKey: the scalar, or the one tag of a sample; samples with no or  *)
(* several tags are one group.                                             *)
balanceKey(field, r) ==
    IF field = "value" THEN Value(r)
    ELSE IF Cardinality(r.tags) = 1 THEN r.tags ELSE {}

Keys(field, rows)       == {balanceKey(field, r) : r \in rows}
Group(field, rows, key) == {r \in rows : balanceKey(field, r) = key}
Quota(field, size, rows) == size \div (IF rows = {} THEN 1 ELSE Cardinality(Keys(field, rows)))

SampleBalancedUnfilled(field, size) ==
    /\ Stage([field |-> field, size |-> size, from |-> ToSet(working)])
    /\ \E quotas \in SUBSET ToSet(working) :
           /\ \A key \in Keys(field, ToSet(working)) :
                 LET group == Group(field, ToSet(working), key)
                 IN  Cardinality(quotas \cap group)
                         = Least(Quota(field, size, ToSet(working)), Cardinality(group))
           /\ Pick(quotas)
    /\ order' = "id"
    /\ UNCHANGED <<sorted, rolled>>

(* Every group gives its quota, or all it has; what is missing to size is  *)
(* filled from the rest, of whatever group.                                *)
SampleBalanced(field, size) ==
    /\ Stage([field |-> field, size |-> size, from |-> ToSet(working)])
    /\ \E quotas \in SUBSET ToSet(working) :
           /\ \A key \in Keys(field, ToSet(working)) :
                 LET group == Group(field, ToSet(working), key)
                 IN  Cardinality(quotas \cap group)
                         = Least(Quota(field, size, ToSet(working)), Cardinality(group))
           /\ LET rest == ToSet(working) \ quotas
                  need == Least(size - Cardinality(quotas), Cardinality(rest))
              IN  \E fill \in kSubset(need, rest) : Pick(quotas \cup fill)
    /\ order' = "id"
    /\ UNCHANGED <<sorted, rolled>>

(* Everything is loaded anew, from live HEAD whether or not the query is   *)
(* pinned, and the parents that exist are taken.  (No indexer of the       *)
(* repository writes parent_id yet; rows that have one are put in the      *)
(* database from outside.)                                                 *)
RollupParents ==
    /\ phase = "stages"
    /\ stages < MaxStages
    /\ stages' = stages + 1
    /\ draw' = NoDraw
    /\ phase' = "parentTags"
    /\ UNCHANGED <<working, sorted, order, rolled, read, version, torn, undone, data>>

Parents == {table.parent[r.id] : r \in ToSet(working)} \ {NoParent}

JoinParents ==
    /\ phase = "parentLabels"
    /\ working' \in ById(baseSamples([read EXCEPT !.labels = live.labels]), SampleIds \cap Parents)
    /\ order' = "id"
    /\ rolled' = TRUE
    /\ read' = Nothing
    /\ phase' = "stages"
    /\ UNCHANGED <<sorted, stages, draw, version, torn, undone, data>>

(* The first row of each value.                                            *)
RollupScalar ==
    /\ Stage(NoDraw)
    /\ working' \in ById(working,
           {j \in DOMAIN working :
               \A k \in 1 .. j - 1 : Value(working[k]) # Value(working[j])})
    /\ order' = "id"
    /\ UNCHANGED <<sorted, rolled>>

Finish ==
    /\ phase = "stages"
    /\ phase' = "done"
    /\ IF sorted THEN working' = working ELSE working' \in ById(working, DOMAIN working)
    /\ order' = IF sorted THEN order ELSE "id"
    /\ draw' = NoDraw
    /\ UNCHANGED <<sorted, stages, rolled, read, version, torn, undone, data>>

QueryNext ==
    \/ ReadTags \/ ReadLabels \/ ReadChain \/ HeadMoves \/ Finish
    \/ MatchScalar \/ MatchTags \/ MatchLabels \/ MatchNear \/ SortScalar \/ SortNear
    \/ \E size \in Sizes :
           \/ SampleAny(size)
           \/ \E field \in {"value", "tags"} : SampleBalanced(field, size)
    \/ RollupParents \/ JoinParents \/ RollupScalar

QuerySpec == QueryInit /\ [][QueryNext]_queryVars

-----------------------------------------------------------------------------
(* No stage, in whatever order they come, makes a sample appear twice:     *)
(* the joins of near and rollup and the fill of a balanced sample are by   *)
(* id.  The grid, the cursor and the count rely on it.                     *)
NoSampleTwice ==
    \A i, j \in 1 .. Len(working) : working[i].id = working[j].id => i = j

InOrder(given, a, b) ==
    CASE given = "id"   -> a.id < b.id
      [] given = "near" ->
            \/ HasVector(a) /\ (HasVector(b) => NearerSame(a, b))
            \/ ~HasVector(a) /\ ~HasVector(b) /\ a.id < b.id
      [] OTHER          -> Less(given, a, b)

(* docs/api.md: the order "must be total - the grid addresses samples by   *)
(* position".  A result is in the order of the last stage that gives one,  *)
(* and never depends on how the stages before it had ordered the rows; of  *)
(* a near order only ties are left open.                                   *)
ResultIsOrdered ==
    phase = "done" =>
        \A i, j \in 1 .. Len(working) : i < j => InOrder(order, working[i], working[j])

(* A balanced sample has the size asked for, if there are as many rows,    *)
(* and of every group at least an equal share of it, or all of the group:  *)
(* no group is starved for another.                                        *)
Drawn(key) == ToSet(working) \cap Group(draw.field, draw.from, key)

BalancedDraws ==
    draw # NoDraw =>
        /\ Len(working) = Least(draw.size, Cardinality(draw.from))
        /\ ToSet(working) \subseteq draw.from
        /\ \A key \in Keys(draw.field, draw.from) :
              Cardinality(Drawn(key)) >= Least(draw.size \div Cardinality(Keys(draw.field, draw.from)),
                                               Cardinality(Group(draw.field, draw.from, key)))

(* Whatever lands between its queries and its stages, a query shows rows   *)
(* of one version.  Those of a pinned query are of its commit, but for an  *)
(* undo between its read of the tags and of HEAD.  Those of another, and   *)
(* the parents a rollup loads even if the query is pinned, are of HEAD     *)
(* when the last load read the tags, but for labels of a load that HEAD    *)
(* moved in the middle of.                                                 *)
OfVersion(r) ==
    IF pinned /\ ~rolled
    THEN undone \/ (r.tags = atCommit.tags[r.id] /\ r.labels = atCommit.labels[r.id])
    ELSE r.tags = version.tags[r.id] /\ (torn \/ r.labels = version.labels[r.id])

RowsOfOneVersion ==
    phase \in {"stages", "done"} => \A i \in 1 .. Len(working) : OfVersion(working[i])
=============================================================================
