----------------------------- MODULE QueryProofs -----------------------------
(***************************************************************************)
(* Proofs about what queries return.  Of one query (Pipeline), for any     *)
(* samples, tables and pipelines: its rows come once, in the order of the  *)
(* last stage that gives one, drawn as balanced as there are rows, and of  *)
(* one version, whatever lands between its queries and stages.  Of a walk, *)
(* a query for each page (CursorWalk), for any number of samples, page     *)
(* size and changes: it skips nothing that matched all along, and repeats  *)
(* itself only because its cursor's sample stopped to match.               *)
(***************************************************************************)
EXTENDS Pipeline, CursorWalk, FiniteSetTheorems, SequenceTheorems, WellFoundedInduction, TLAPS

-----------------------------------------------------------------------------
(* Lists of rows.                                                          *)

(* Rows without duplicates, and rows in the order a stage gives.           *)
Distinct(rows)       == \A i, j \in 1 .. Len(rows) : rows[i].id = rows[j].id => i = j
Ordered(given, rows) ==
    \A i, j \in 1 .. Len(rows) : i < j => InOrder(given, rows[i], rows[j])

(* What a list of rows takes from another: each row at most once.          *)
Takes(q, rows) ==
    \E p \in [1 .. Len(q) -> 1 .. Len(rows)] :
        /\ \A k \in 1 .. Len(q) : q[k] = rows[p[k]]
        /\ \A i, j \in 1 .. Len(q) : p[i] = p[j] => i = j

LEMMA RowsProperties ==
    ASSUME NEW rows \in Seq(Row)
    PROVE  /\ Len(rows) \in Nat /\ DOMAIN rows = 1 .. Len(rows)
           /\ \A i \in 1 .. Len(rows) : rows[i] \in Row
           /\ IsFiniteSet(1 .. Len(rows)) /\ Cardinality(1 .. Len(rows)) = Len(rows)
<1>1. Len(rows) \in Nat /\ DOMAIN rows = 1 .. Len(rows)
  BY LenProperties
<1>2. \A i \in 1 .. Len(rows) : rows[i] \in Row
  BY ElementOfSeq
<1>3. PICK n \in Nat : n = Len(rows)
  BY <1>1
<1>4. IsFiniteSet(1 .. n) /\ Cardinality(1 .. n) = n
  BY FS_Interval
<1> QED BY <1>1, <1>2, <1>3, <1>4

LEMMA OrderingsTake ==
    ASSUME NEW rows \in Seq(Row), NEW kept \in SUBSET (DOMAIN rows), NEW q \in Orderings(rows, kept)
    PROVE  /\ q \in Seq(Row) /\ Len(q) = Cardinality(kept) /\ Takes(q, rows)
           /\ \A k \in 1 .. Len(q) : \E i \in kept : q[k] = rows[i]
           /\ \A i \in kept : \E k \in 1 .. Len(q) : q[k] = rows[i]
<1>1. IsFiniteSet(kept)
  BY RowsProperties, FS_Subset
<1>2. PICK n \in Nat : n = Cardinality(kept)
  BY <1>1, FS_CardinalityType
<1>3. PICK p \in SetToSeqs(kept) : q = [k \in DOMAIN p |-> rows[p[k]]]
  BY DEF Orderings
<1>4. p \in [1 .. n -> kept] /\ \A i, j \in 1 .. n : i # j => p[i] # p[j]
  BY <1>2, <1>3 DEF SetToSeqs
<1>5. kept \subseteq 1 .. Len(rows)
  BY RowsProperties
<1>6. q = [k \in 1 .. n |-> rows[p[k]]] /\ \A k \in 1 .. n : p[k] \in 1 .. Len(rows) /\ rows[p[k]] \in Row
  BY <1>3, <1>4, <1>5, RowsProperties
<1>7. q \in Seq(Row) /\ Len(q) = n
  BY <1>6
<1>8. Takes(q, rows)
  <2>1. p \in [1 .. Len(q) -> 1 .. Len(rows)]
    BY <1>4, <1>5, <1>7
  <2>2. \A k \in 1 .. Len(q) : q[k] = rows[p[k]]
    BY <1>6, <1>7
  <2>3. \A i, j \in 1 .. Len(q) : p[i] = p[j] => i = j
    BY <1>4, <1>7
  <2> QED BY <2>1, <2>2, <2>3, Zenon DEF Takes
<1>9. ASSUME NEW i \in kept PROVE \E k \in 1 .. n : q[k] = rows[i]
  <2>1. IsFiniteSet(1 .. n) /\ Cardinality(1 .. n) = n
    BY FS_Interval
  <2>2. p \in Injection(1 .. n, kept)
    BY <1>4 DEF Injection, IsInjective
  <2>3. p \in Surjection(1 .. n, kept)
    BY <1>1, <1>2, <2>1, <2>2, FS_Injection
  <2>4. PICK k \in 1 .. n : p[k] = i
    BY <2>3 DEF Surjection
  <2> QED BY <1>6, <2>4
<1> QED BY <1>2, <1>4, <1>6, <1>7, <1>8, <1>9

LEMMA InPlaceTakes ==
    ASSUME NEW rows \in Seq(Row), NEW kept \in SUBSET (DOMAIN rows), NEW q \in InPlace(rows, kept),
           NEW given
    PROVE  /\ q \in Orderings(rows, kept)
           /\ Ordered(given, rows) => Ordered(given, q)
<1>1. PICK p \in SetToSeqs(kept) :
          /\ q = [k \in DOMAIN p |-> rows[p[k]]]
          /\ \A i, j \in DOMAIN p : i < j => p[i] < p[j]
  BY DEF InPlace
<1>2. q \in Orderings(rows, kept)
  BY <1>1 DEF Orderings
<1>3. DOMAIN p = 1 .. Len(q) /\ \A k \in 1 .. Len(q) : p[k] \in 1 .. Len(rows)
  <2>1. q \in Seq(Row) /\ DOMAIN q = 1 .. Len(q) /\ DOMAIN rows = 1 .. Len(rows)
    BY <1>2, OrderingsTake, RowsProperties
  <2>2. p \in [DOMAIN p -> kept] /\ DOMAIN p = DOMAIN q
    BY <1>1 DEF SetToSeqs
  <2> QED BY <2>1, <2>2
<1>4. ASSUME Ordered(given, rows), NEW i \in 1 .. Len(q), NEW j \in 1 .. Len(q), i < j
      PROVE  InOrder(given, q[i], q[j])
  <2>1. p[i] < p[j] /\ q[i] = rows[p[i]] /\ q[j] = rows[p[j]]
    BY <1>1, <1>3, <1>4
  <2> QED BY <1>3, <1>4, <2>1 DEF Ordered
<1> QED BY <1>2, <1>4 DEF Ordered

LEMMA TakesDistinct ==
    ASSUME NEW rows, NEW q, Takes(q, rows), Distinct(rows)
    PROVE  Distinct(q)
BY DEF Takes, Distinct

(* A list takes as many rows as it names.                                  *)
LEMMA NumberOfRows ==
    ASSUME NEW rows \in Seq(Row), Distinct(rows), NEW chosen \in SUBSET ToSet(rows)
    PROVE  LET kept == {i \in DOMAIN rows : rows[i] \in chosen}
           IN  IsFiniteSet(chosen) /\ Cardinality(chosen) = Cardinality(kept)
<1> DEFINE kept == {i \in DOMAIN rows : rows[i] \in chosen}
           at == [i \in kept |-> rows[i]]
<1>1. DOMAIN rows = 1 .. Len(rows) /\ IsFiniteSet(1 .. Len(rows))
  BY RowsProperties
<1>2. IsFiniteSet(kept)
  <2>1. kept \in SUBSET (1 .. Len(rows))
    BY <1>1
  <2> HIDE DEF kept
  <2> QED BY <1>1, <2>1, FS_Subset
<1>3. at \in Bijection(kept, chosen)
  <2>1. at \in [kept -> chosen]
    OBVIOUS
  <2>2. \A c \in chosen : \E i \in kept : at[i] = c
    BY DEF ToSet
  <2>3. \A i, j \in kept : at[i] = at[j] => i = j
    BY <1>1 DEF Distinct
  <2> HIDE DEF kept, at
  <2> QED BY <2>1, <2>2, <2>3 DEF Bijection, Injection, Surjection, IsInjective
<1>4. ExistsBijection(kept, chosen)
  BY <1>3 DEF ExistsBijection
<1> HIDE DEF kept
<1>5. IsFiniteSet(chosen) /\ Cardinality(chosen) = Cardinality(kept)
  BY <1>2, <1>4, FS_Bijection
<1> QED BY <1>5 DEF kept

-----------------------------------------------------------------------------
(* The invariant.  At any time, and not only when the query is done, the   *)
(* rows are in the order of the last stage that gave one.                  *)

(* Before the query has rows, and between the two queries of a load.       *)
LoadInv ==
    /\ phase \in {"tags", "labels", "head"} =>
           order = "id" /\ working = <<>> /\ ~rolled
    /\ phase \in {"tags", "labels", "head", "parentTags", "parentLabels"} => draw = NoDraw
    /\ phase = "head" => pinned
    /\ phase \in {"labels", "parentLabels"} =>
           read.tags = version.tags /\ (torn \/ version = live)

QueryInv ==
    /\ QueryTypeOK
    /\ NoSampleTwice
    /\ Ordered(order, working)
    /\ RowsOfOneVersion
    /\ LoadInv
    /\ BalancedDraws

Draws == [field : {"", "value", "tags"}, size : Sizes \cup {0}, from : SUBSET Row]

LEMMA QueryInitially == QueryInit => QueryInv
<1> SUFFICES ASSUME QueryInit PROVE QueryInv
  OBVIOUS
<1>1. {NumSamples, MaxStages, MaxCommits} \subseteq Nat
  BY BoundsAssumption
<1>2. working = <<>> /\ Len(working) = 0 /\ draw = NoDraw /\ working \in Seq(Row)
  BY DEF QueryInit
<1>3. QueryTypeOK
  <2>1. commits \in 0 .. MaxCommits /\ stages \in 0 .. MaxStages
    BY <1>1 DEF QueryInit
  <2>2. draw \in Draws
    BY <1>2 DEF NoDraw, Draws
  <2>3. {live, atCommit, read, version} \subseteq Data /\ table \in Tables
    <3>1. Nothing \in Data
      BY DEF Nothing, Data
    <3>2. live \in Datasets /\ atCommit \in Datasets /\ version = live /\ read = Nothing
      BY DEF QueryInit
    <3> QED BY <3>1, <3>2, DatasetsAssumption DEF QueryInit
  <2>4. /\ pinned \in BOOLEAN /\ sorted \in BOOLEAN /\ rolled \in BOOLEAN
        /\ torn \in BOOLEAN /\ undone \in BOOLEAN
    BY Zenon DEF QueryInit
  <2>5. {pinned, sorted, rolled, torn, undone} \subseteq BOOLEAN
    BY <2>4, Zenon
  <2>6. phase \in Phases /\ order \in {"id", "asc", "desc", "near"}
    BY DEF QueryInit, Phases
  <2> QED BY <1>2, <2>1, <2>2, <2>3, <2>5, <2>6, Zenon DEF QueryTypeOK, Draws
<1>4. 1 .. Len(working) = {}
  BY <1>2
<1>5. BalancedDraws
  BY <1>2 DEF BalancedDraws
<1>6. LoadInv /\ RowsOfOneVersion
  BY DEF QueryInit, LoadInv, RowsOfOneVersion
<1> QED BY <1>2, <1>3, <1>4, <1>5, <1>6 DEF QueryInv, NoSampleTwice, Ordered

(* What the steps need to know of the working list.                        *)
LEMMA Working ==
    ASSUME QueryInv
    PROVE  /\ working \in Seq(Row) /\ Distinct(working) /\ Ordered(order, working)
           /\ DOMAIN working = 1 .. Len(working) /\ Len(working) \in Nat
           /\ \A i \in 1 .. Len(working) : working[i] \in Row
           /\ IsFiniteSet(ToSet(working)) /\ Cardinality(ToSet(working)) = Len(working)
           /\ commits \in Nat /\ MaxCommits \in Nat
<1>1. working \in Seq(Row) /\ Distinct(working) /\ Ordered(order, working)
  BY DEF QueryInv, QueryTypeOK, NoSampleTwice, Distinct
<1>2. {i \in DOMAIN working : working[i] \in ToSet(working)} = DOMAIN working
  BY DEF ToSet
<1>3. IsFiniteSet(ToSet(working)) /\ Cardinality(ToSet(working)) = Len(working)
  <2>1. ToSet(working) \in SUBSET ToSet(working)
    OBVIOUS
  <2>2. IsFiniteSet(ToSet(working)) /\ Cardinality(ToSet(working)) = Cardinality(DOMAIN working)
    BY <1>1, <1>2, <2>1, NumberOfRows
  <2> QED BY <1>1, <2>2, RowsProperties
<1>4. MaxCommits \in Nat /\ commits \in 0 .. MaxCommits
  BY BoundsAssumption DEF QueryInv, QueryTypeOK
<1> QED BY <1>1, <1>3, <1>4, RowsProperties

(* What every stage has to show.                                           *)
LEMMA StageKeeps ==
    ASSUME QueryInv, NEW d \in Draws, Stage(d), NEW q \in Seq(Row), working' = q, Distinct(q),
           NEW given \in {"id", "asc", "desc", "near"}, order' = given, Ordered(given, q),
           sorted' \in BOOLEAN, rolled' = rolled,
           \A k \in 1 .. Len(q) : OfVersion(q[k]),
           BalancedDraws'
    PROVE  QueryInv'
<1>1. /\ phase = "stages" /\ stages' = stages + 1 /\ stages < MaxStages /\ draw' = d
      /\ UNCHANGED <<phase, read, version, torn, undone, table, live, atCommit, pinned, commits>>
  BY DEF Stage, load, data
<1>2. stages' \in 0 .. MaxStages
  <2>1. stages \in 0 .. MaxStages /\ MaxStages \in Nat
    BY BoundsAssumption DEF QueryInv, QueryTypeOK
  <2> QED BY <1>1, <2>1
<1>3. QueryTypeOK'
  <2>1. QueryTypeOK
    BY DEF QueryInv
  <2>2. {pinned', sorted', rolled', torn', undone'} \subseteq BOOLEAN
    BY <1>1, <2>1, Zenon DEF QueryTypeOK
  <2>3. working' \in Seq(Row) /\ draw' \in Draws /\ order' \in {"id", "asc", "desc", "near"}
    BY <1>1
  <2>4. /\ {live', atCommit', read', version'} \subseteq Data
        /\ table' \in Tables /\ commits' \in 0 .. MaxCommits
        /\ phase' \in Phases
    BY <1>1, <2>1 DEF QueryTypeOK
  <2> QED BY <1>2, <2>2, <2>3, <2>4, Zenon DEF QueryTypeOK, Draws
<1>4. NoSampleTwice'
  BY DEF NoSampleTwice, Distinct
<1>5. Ordered(order, working)'
  <2>1. \A a, b : InOrder(given, a, b)' <=> InOrder(given, a, b)
    BY <1>1 DEF InOrder, Less, Value, HasVector, NearerSame
  <2> QED BY <2>1 DEF Ordered
<1>6. RowsOfOneVersion'
  BY <1>1 DEF RowsOfOneVersion, OfVersion
<1>7. LoadInv'
  BY <1>1 DEF LoadInv
<1> QED BY <1>3, <1>4, <1>5, <1>6, <1>7 DEF QueryInv

(* A stage that takes rows of the working list, and makes no balanced draw *)
LEMMA TakingStageKeeps ==
    ASSUME QueryInv, Stage(NoDraw), NEW q \in Seq(Row), working' = q, Distinct(q),
           \A k \in 1 .. Len(q) : \E i \in 1 .. Len(working) : q[k] = working[i],
           NEW given \in {"id", "asc", "desc", "near"}, order' = given, Ordered(given, q),
           sorted' \in BOOLEAN, rolled' = rolled
    PROVE  QueryInv'
<1>1. NoDraw \in Draws
  BY DEF NoDraw, Draws
<1>2. BalancedDraws'
  BY DEF Stage, BalancedDraws, NoDraw
<1>3. \A k \in 1 .. Len(q) : OfVersion(q[k])
  BY DEF QueryInv, RowsOfOneVersion, Stage
<1> QED BY <1>1, <1>2, <1>3, StageKeeps

LEMMA MatchKeeps ==
    ASSUME QueryInv, NEW kept \in SUBSET (DOMAIN working), Match(kept)
    PROVE  QueryInv'
<1>1. PICK q : q = working' /\ q \in InPlace(working, kept)
  BY DEF Match
<1>2. PICK given \in {"id", "asc", "desc", "near"} : given = order
  BY DEF QueryInv, QueryTypeOK
<1>3. /\ q \in Seq(Row) /\ Distinct(q) /\ Ordered(given, q)
      /\ \A k \in 1 .. Len(q) : \E i \in 1 .. Len(working) : q[k] = working[i]
  BY <1>1, <1>2, Working, InPlaceTakes, OrderingsTake, TakesDistinct
<1>4. Stage(NoDraw) /\ order' = given /\ sorted' = sorted /\ rolled' = rolled
  BY <1>2 DEF Match
<1>5. sorted' \in BOOLEAN
  BY <1>4 DEF QueryInv, QueryTypeOK
<1> QED BY <1>1, <1>3, <1>4, <1>5, TakingStageKeeps

LEMMA ByIdTakes ==
    ASSUME NEW rows \in Seq(Row), NEW kept \in SUBSET (DOMAIN rows), NEW q \in ById(rows, kept)
    PROVE  q \in Orderings(rows, kept) /\ Ordered("id", q)
<1>1. q \in Orderings(rows, kept) /\ \A i, j \in DOMAIN q : i < j => q[i].id < q[j].id
  BY DEF ById
<1>2. DOMAIN q = 1 .. Len(q)
  BY <1>1, OrderingsTake, LenProperties
<1> QED BY <1>1, <1>2 DEF Ordered, InOrder

(* A stage that leaves its rows by id, and draws nothing balanced.         *)
LEMMA ByIdKeeps ==
    ASSUME QueryInv, NEW kept \in SUBSET (DOMAIN working), Stage(NoDraw),
           working' \in ById(working, kept), order' = "id", UNCHANGED <<sorted, rolled>>
    PROVE  QueryInv'
<1>1. PICK q : q = working' /\ q \in ById(working, kept)
  OBVIOUS
<1>2. /\ q \in Seq(Row) /\ Distinct(q) /\ Ordered("id", q)
      /\ \A k \in 1 .. Len(q) : \E i \in 1 .. Len(working) : q[k] = working[i]
  BY <1>1, Working, ByIdTakes, OrderingsTake, TakesDistinct
<1>3. sorted' \in BOOLEAN /\ rolled' = rolled
  BY DEF QueryInv, QueryTypeOK
<1> QED BY <1>1, <1>2, <1>3, TakingStageKeeps

LEMMA SearchTakes ==
    ASSUME QueryInv, NEW q \in Search(working)
    PROVE  /\ q \in Orderings(working, WithVector(working)) /\ q \in Seq(Row) /\ Distinct(q)
           /\ \A k \in 1 .. Len(q) :
                  HasVector(q[k]) /\ \E i \in WithVector(working) : q[k] = working[i]
           /\ \A i, j \in 1 .. Len(q) : i < j => NearerSame(q[i], q[j])
           /\ Ordered("near", q)
<1>1. /\ q \in Orderings(working, WithVector(working))
      /\ \A i, j \in DOMAIN q : i < j => NearerSame(q[i], q[j])
  BY DEF Search
<1>2. WithVector(working) \in SUBSET (DOMAIN working)
  BY DEF WithVector
<1>3. /\ q \in Seq(Row) /\ Distinct(q)
      /\ \A k \in 1 .. Len(q) : \E i \in WithVector(working) : q[k] = working[i]
  BY <1>1, <1>2, Working, OrderingsTake, TakesDistinct
<1>4. DOMAIN q = 1 .. Len(q)
  BY <1>3, LenProperties
<1>5. \A k \in 1 .. Len(q) : HasVector(q[k])
  BY <1>3 DEF WithVector
<1> QED BY <1>1, <1>3, <1>4, <1>5 DEF Ordered, InOrder

-----------------------------------------------------------------------------
(* Load, another client's commit, and the end.                             *)

LEMMA BaseSamples ==
    ASSUME NEW d \in Data
    PROVE  /\ baseSamples(d) \in Seq(Row) /\ Distinct(baseSamples(d))
           /\ Ordered("id", baseSamples(d))
           /\ DOMAIN baseSamples(d) = SampleIds
           /\ \A i \in 1 .. Len(baseSamples(d)) :
                  /\ baseSamples(d)[i].tags = d.tags[baseSamples(d)[i].id]
                  /\ baseSamples(d)[i].labels = d.labels[baseSamples(d)[i].id]
<1>1. NumSamples \in Nat
  BY BoundsAssumption
<1>2. baseSamples(d) = [s \in 1 .. NumSamples |->
                           [id |-> s, tags |-> d.tags[s], labels |-> d.labels[s]]]
  BY DEF baseSamples, SampleIds
<1>3. \A s \in 1 .. NumSamples : [id |-> s, tags |-> d.tags[s], labels |-> d.labels[s]] \in Row
  BY DEF Row, SampleIds, Data
<1>4. baseSamples(d) \in Seq(Row) /\ Len(baseSamples(d)) = NumSamples
  BY <1>1, <1>2, <1>3
<1> QED BY <1>1, <1>2, <1>4 DEF Distinct, Ordered, InOrder, SampleIds

(* What the end of a load has to show.                                     *)
LEMMA LoadedKeeps ==
    ASSUME QueryInv, NEW d \in Data, working' = baseSamples(d), phase' = "stages",
           phase \in {"labels", "head"}, read' = Nothing,
           UNCHANGED <<sorted, stages, order, rolled, draw, version, torn, undone, data>>,
           \A r \in Row : r.tags = d.tags[r.id] /\ r.labels = d.labels[r.id] => OfVersion(r)
    PROVE  QueryInv'
<1>1. PICK q \in Seq(Row) :
          /\ q = working' /\ Distinct(q) /\ Ordered("id", q)
          /\ \A i \in 1 .. Len(q) : /\ q[i].tags = d.tags[q[i].id]
                                    /\ q[i].labels = d.labels[q[i].id]
  BY BaseSamples
<1>2. /\ UNCHANGED <<sorted, stages, order, rolled, draw, version, torn, undone>>
      /\ UNCHANGED <<table, live, atCommit, pinned, commits>>
  BY DEF data
<1>3. QueryTypeOK'
  <2>1. Nothing \in Data
    BY DEF Nothing, Data
  <2>2. QueryTypeOK
    BY DEF QueryInv
  <2>3. {pinned', sorted', rolled', torn', undone'} \subseteq BOOLEAN
    BY <1>2, <2>2, Zenon DEF QueryTypeOK
  <2>4. phase' \in Phases /\ {live', atCommit', read', version'} \subseteq Data
    BY <1>2, <2>1, <2>2 DEF QueryTypeOK, Phases
  <2>5. working' \in Seq(Row)
    BY <1>1
  <2> QED BY <1>2, <2>2, <2>3, <2>4, <2>5, Zenon DEF QueryTypeOK
<1>4. NoSampleTwice'
  BY <1>1 DEF NoSampleTwice, Distinct
<1>5. RowsOfOneVersion'
  <2>1. \A i \in 1 .. Len(q) : OfVersion(q[i])
    BY <1>1, ElementOfSeq
  <2> QED BY <1>1, <1>2, <2>1 DEF RowsOfOneVersion, OfVersion
<1>6. LoadInv'
  BY DEF LoadInv
<1>7. Ordered(order, working)'
  <2>1. order' = "id"
    BY <1>2 DEF QueryInv, LoadInv
  <2>2. \A i, j \in 1 .. Len(q) : i < j => q[i].id < q[j].id
    BY <1>1 DEF Ordered, InOrder
  <2> QED BY <1>1, <2>1, <2>2 DEF Ordered, InOrder
<1>8. BalancedDraws'
  BY <1>2 DEF QueryInv, LoadInv, BalancedDraws
<1> QED BY <1>3, <1>4, <1>5, <1>6, <1>7, <1>8 DEF QueryInv

(* What a step that leaves the rows alone has to show.                     *)
LEMMA RowsKeep ==
    ASSUME QueryInv, UNCHANGED <<working, sorted, order, rolled, table>>,
           draw' \in {draw, NoDraw}, QueryTypeOK', RowsOfOneVersion', LoadInv'
    PROVE  QueryInv'
<1>1. NoSampleTwice'
  BY DEF QueryInv, NoSampleTwice
<1>2. Ordered(order, working)'
  BY DEF QueryInv, Ordered, InOrder, Less, Value, HasVector, NearerSame
<1>3. BalancedDraws'
  <2>1. CASE draw' = NoDraw
    BY <2>1 DEF BalancedDraws
  <2>2. CASE draw' = draw
    <3>1. BalancedDraws' <=> BalancedDraws
      BY <2>2 DEF BalancedDraws, Drawn, Group, Keys, balanceKey, Value
    <3> QED BY <3>1 DEF QueryInv
  <2> QED BY <2>1, <2>2
<1> QED BY <1>1, <1>2, <1>3 DEF QueryInv

LEMMA ReadTagsKeeps == QueryInv /\ ReadTags => QueryInv'
<1> SUFFICES ASSUME QueryInv, ReadTags PROVE QueryInv'
  OBVIOUS
<1>1. /\ phase \in {"tags", "parentTags"} /\ phase' \in {"labels", "parentLabels"}
      /\ phase' = "labels" <=> phase = "tags"
      /\ read' = [read EXCEPT !.tags = live.tags] /\ version' = live /\ torn' = FALSE
      /\ UNCHANGED <<working, sorted, stages, order, rolled, draw, undone>>
      /\ UNCHANGED <<table, live, atCommit, pinned, commits>>
  BY DEF ReadTags, rowVars, data
<1>2. QueryTypeOK /\ LoadInv
  BY DEF QueryInv
<1>3. read \in Data /\ live \in Data
  BY <1>2 DEF QueryTypeOK
<1>4. read' \in Data /\ read'.tags = live.tags
  BY <1>1, <1>3 DEF Data
<1>5. QueryTypeOK'
  BY <1>1, <1>2, <1>4 DEF QueryTypeOK, Phases
<1>6. LoadInv'
  BY <1>1, <1>2, <1>4 DEF LoadInv
<1>7. RowsOfOneVersion'
  BY <1>1 DEF RowsOfOneVersion
<1> QED BY <1>1, <1>5, <1>6, <1>7, RowsKeep

LEMMA ReadLabelsKeeps == QueryInv /\ ReadLabels => QueryInv'
<1> SUFFICES ASSUME QueryInv, ReadLabels PROVE QueryInv'
  OBVIOUS
<1>1. PICK d : d = [read EXCEPT !.labels = live.labels]
  OBVIOUS
<1>2. QueryTypeOK /\ LoadInv /\ phase = "labels"
  BY DEF QueryInv, ReadLabels
<1>3. read \in Data /\ live \in Data
  BY <1>2 DEF QueryTypeOK
<1>4. d \in Data /\ d.tags = version.tags /\ d.labels = live.labels
  BY <1>1, <1>2, <1>3 DEF Data, LoadInv
<1>5. UNCHANGED <<sorted, stages, order, rolled, draw, version, torn, undone, data>>
  BY DEF ReadLabels
<1>6. CASE pinned
  <2>1. read' = d /\ phase' = "head" /\ working' = working
    BY <1>1, <1>6 DEF ReadLabels
  <2>2. UNCHANGED <<table, live, atCommit, pinned, commits>>
    BY <1>5 DEF data
  <2>3. QueryTypeOK'
    BY <1>2, <1>4, <1>5, <2>1, <2>2 DEF QueryTypeOK, Phases
  <2>4. LoadInv'
    BY <1>2, <1>5, <1>6, <2>1, <2>2 DEF LoadInv
  <2>5. RowsOfOneVersion'
    BY <2>1 DEF RowsOfOneVersion
  <2> QED BY <1>5, <2>1, <2>2, <2>3, <2>4, <2>5, RowsKeep
<1>7. CASE ~pinned
  <2>1. working' = baseSamples(d) /\ read' = Nothing /\ phase' = "stages"
    BY <1>1, <1>7 DEF ReadLabels
  <2>2. \A r \in Row : r.tags = d.tags[r.id] /\ r.labels = d.labels[r.id] => OfVersion(r)
    BY <1>2, <1>4, <1>7 DEF OfVersion, LoadInv
  <2> QED BY <1>2, <1>4, <1>5, <2>1, <2>2, LoadedKeeps
<1> QED BY <1>6, <1>7

LEMMA ReadChainKeeps == QueryInv /\ ReadChain => QueryInv'
<1> SUFFICES ASSUME QueryInv, ReadChain PROVE QueryInv'
  OBVIOUS
<1>1. QueryTypeOK /\ LoadInv /\ phase = "head" /\ read' = Nothing
  BY DEF QueryInv, ReadChain
<1>2. UNCHANGED <<sorted, stages, order, rolled, draw, version, torn, undone, data>>
  BY DEF ReadChain
<1>3. ASSUME NEW d \in Overlay, phase' = "stages", working' = baseSamples(d) PROVE QueryInv'
  <2>1. d \in Data /\ (undone \/ d = atCommit)
    BY <1>1 DEF Overlay, QueryTypeOK
  <2>2. ASSUME pinned, ~rolled PROVE QueryInv'
    <3>1. \A r \in Row : r.tags = d.tags[r.id] /\ r.labels = d.labels[r.id] => OfVersion(r)
      BY <2>1, <2>2 DEF OfVersion
    <3> QED BY <1>1, <1>2, <1>3, <2>1, <3>1, LoadedKeeps
  <2> QED BY <1>1, <2>2 DEF LoadInv
<1>4. ASSUME phase' = "failed", working' = working PROVE QueryInv'
  <2>1. UNCHANGED <<table, live, atCommit, pinned, commits>>
    BY <1>2 DEF data
  <2>2. Nothing \in Data
    BY DEF Nothing, Data
  <2>3. QueryTypeOK'
    BY <1>1, <1>2, <1>4, <2>1, <2>2 DEF QueryTypeOK, Phases
  <2>4. LoadInv' /\ RowsOfOneVersion'
    BY <1>4 DEF LoadInv, RowsOfOneVersion
  <2> QED BY <1>2, <1>4, <2>1, <2>3, <2>4, RowsKeep
<1>5. PICK w : w = working'
  OBVIOUS
<1>6. \/ phase' = "stages" /\ \E d \in Overlay : w = baseSamples(d)
      \/ phase' = "failed" /\ w = working
  BY <1>5, Zenon DEF ReadChain
<1> QED BY <1>3, <1>4, <1>5, <1>6

LEMMA HeadMovesKeeps == QueryInv /\ HeadMoves => QueryInv'
<1> SUFFICES ASSUME QueryInv, HeadMoves PROVE QueryInv'
  OBVIOUS
<1>1. /\ commits' = commits + 1 /\ commits < MaxCommits /\ live' \in Datasets
      /\ torn' = (torn \/ phase \in {"labels", "parentLabels"})
      /\ undone' = undone \/ (phase \in {"labels", "head"} /\ undone' = TRUE)
      /\ UNCHANGED <<working, sorted, stages, order, rolled, draw>>
      /\ UNCHANGED <<phase, read, version, table, atCommit, pinned>>
  BY DEF HeadMoves, rowVars
<1>2. QueryTypeOK /\ LoadInv /\ RowsOfOneVersion /\ commits \in Nat /\ MaxCommits \in Nat
  BY Working DEF QueryInv
<1>3. commits' \in 0 .. MaxCommits /\ live' \in Data
  BY <1>1, <1>2, DatasetsAssumption
<1>4. QueryTypeOK'
  <2>1. torn' \in BOOLEAN /\ undone' \in BOOLEAN
    BY <1>1, <1>2, Zenon DEF QueryTypeOK
  <2>2. {pinned', sorted', rolled', torn', undone'} \subseteq BOOLEAN
    BY <1>1, <1>2, <2>1, Zenon DEF QueryTypeOK
  <2>3. {live', atCommit', read', version'} \subseteq Data
    BY <1>1, <1>2, <1>3 DEF QueryTypeOK
  <2> QED BY <1>1, <1>2, <1>3, <2>2, <2>3, Zenon DEF QueryTypeOK
<1>5. LoadInv'
  BY <1>1, <1>2 DEF LoadInv
<1>6. RowsOfOneVersion'
  <2>1. phase \in {"stages", "done"} => torn' = torn /\ undone' = undone
    BY <1>1, <1>2 DEF QueryTypeOK
  <2> QED BY <1>1, <1>2, <2>1 DEF RowsOfOneVersion, OfVersion
<1> QED BY <1>1, <1>4, <1>5, <1>6, RowsKeep

LEMMA FinishKeeps == QueryInv /\ Finish => QueryInv'
<1> SUFFICES ASSUME QueryInv, Finish PROVE QueryInv'
  OBVIOUS
<1>1. /\ phase' = "done" /\ draw' = NoDraw
      /\ UNCHANGED <<sorted, stages, rolled, read, version, torn, undone>>
      /\ UNCHANGED <<table, live, atCommit, pinned, commits>>
  BY DEF Finish, data
<1>2. PICK q \in Seq(Row), given \in {"id", "asc", "desc", "near"} :
          /\ q = working' /\ order' = given /\ Distinct(q) /\ Ordered(given, q)
          /\ \A k \in 1 .. Len(q) : \E i \in 1 .. Len(working) : q[k] = working[i]
  <2>1. CASE sorted
    <3>1. working' = working /\ order' = order /\ order \in {"id", "asc", "desc", "near"}
      BY <2>1 DEF Finish, QueryInv, QueryTypeOK
    <3> QED BY <3>1, Working
  <2>2. CASE ~sorted
    <3>1. PICK q : q = working' /\ q \in ById(working, DOMAIN working)
      BY <2>2 DEF Finish
    <3>2. /\ q \in Seq(Row) /\ Distinct(q) /\ Ordered("id", q)
          /\ \A k \in 1 .. Len(q) : \E i \in 1 .. Len(working) : q[k] = working[i]
      <4>1. DOMAIN working \in SUBSET (DOMAIN working)
        OBVIOUS
      <4>2. q \in Orderings(working, DOMAIN working) /\ Ordered("id", q)
        BY <3>1, <4>1, Working, ByIdTakes
      <4> QED BY <4>1, <4>2, Working, OrderingsTake, TakesDistinct
    <3> QED BY <2>2, <3>1, <3>2 DEF Finish
  <2> QED BY <2>1, <2>2
<1>3. QueryTypeOK'
  <2>1. NoDraw \in Draws
    BY DEF NoDraw, Draws
  <2> QED BY <1>1, <1>2, <2>1 DEF QueryInv, QueryTypeOK, Draws, Phases
<1>4. NoSampleTwice'
  BY <1>2 DEF NoSampleTwice, Distinct
<1>5. RowsOfOneVersion' /\ LoadInv'
  <2>1. \A i \in 1 .. Len(working) : OfVersion(working[i])
    BY DEF QueryInv, RowsOfOneVersion, Finish
  <2> QED BY <1>1, <1>2, <2>1 DEF RowsOfOneVersion, OfVersion, LoadInv
<1>6. Ordered(order, working)'
  <2>1. \A a, b : InOrder(given, a, b)' <=> InOrder(given, a, b)
    BY <1>1 DEF InOrder, Less, Value, HasVector, NearerSame
  <2> QED BY <1>2, <2>1 DEF Ordered
<1>7. BalancedDraws'
  BY <1>1 DEF BalancedDraws
<1> QED BY <1>1, <1>3, <1>4, <1>5, <1>6, <1>7 DEF QueryInv

-----------------------------------------------------------------------------
(* Stages that order.                                                      *)

LEMMA MatchNearKeeps == QueryInv /\ MatchNear => QueryInv'
<1> SUFFICES ASSUME QueryInv, MatchNear PROVE QueryInv'
  OBVIOUS
<1> DEFINE Within(q, limit) == {i \in DOMAIN q : table.distance[q[i].id] <= limit}
<1>1. PICK near \in Search(working) :
          \E limit \in {table.distance[s] : s \in SampleIds} :
              working' \in InPlace(near, Within(near, limit))
  BY DEF MatchNear
<1>2. PICK q : \E kept \in SUBSET (DOMAIN near) : q = working' /\ q \in InPlace(near, kept)
  BY <1>1
<1>3. PICK kept \in SUBSET (DOMAIN near) : q = working' /\ q \in InPlace(near, kept)
  BY <1>2
<1>4. /\ near \in Seq(Row) /\ Distinct(near) /\ Ordered("near", near)
      /\ \A k \in 1 .. Len(near) : \E i \in WithVector(working) : near[k] = working[i]
  BY SearchTakes
<1>5. WithVector(working) \subseteq 1 .. Len(working) /\ DOMAIN near = 1 .. Len(near)
  BY <1>4, Working, LenProperties DEF WithVector
<1>6. /\ q \in Seq(Row) /\ Distinct(q) /\ Ordered("near", q)
      /\ \A k \in 1 .. Len(q) : \E i \in kept : q[k] = near[i]
  BY <1>3, <1>4, InPlaceTakes, OrderingsTake, TakesDistinct
<1>7. \A k \in 1 .. Len(q) : \E i \in 1 .. Len(working) : q[k] = working[i]
  BY <1>4, <1>5, <1>6
<1>8. Stage(NoDraw) /\ order' = "near" /\ sorted' = sorted /\ rolled' = rolled
  BY DEF MatchNear
<1>9. sorted' \in BOOLEAN
  BY <1>8 DEF QueryInv, QueryTypeOK
<1> QED BY <1>2, <1>6, <1>7, <1>8, <1>9, TakingStageKeeps

LEMMA SortScalarKeeps == QueryInv /\ SortScalar => QueryInv'
<1> SUFFICES ASSUME QueryInv, SortScalar PROVE QueryInv'
  OBVIOUS
<1>1. PICK q : q = working'
  OBVIOUS
<1>2. PICK dir \in {"asc", "desc"} :
          q = working' /\ order' = dir /\ q \in ByValue(working, dir)
  BY <1>1 DEF SortScalar
<1>3. /\ q \in Orderings(working, DOMAIN working)
      /\ \A i, j \in DOMAIN q : i < j => Less(dir, q[i], q[j])
  BY <1>2 DEF ByValue
<1>4. /\ q \in Seq(Row) /\ Distinct(q) /\ DOMAIN q = 1 .. Len(q)
      /\ \A k \in 1 .. Len(q) : \E i \in 1 .. Len(working) : q[k] = working[i]
  <2>1. DOMAIN working \in SUBSET (DOMAIN working) /\ DOMAIN working = 1 .. Len(working)
    BY Working
  <2>2. /\ q \in Seq(Row) /\ Takes(q, working)
        /\ \A k \in 1 .. Len(q) : \E i \in DOMAIN working : q[k] = working[i]
    BY <1>3, <2>1, Working, OrderingsTake
  <2> QED BY <2>1, <2>2, Working, TakesDistinct, LenProperties
<1>5. Ordered(dir, q)
  BY <1>3, <1>4 DEF Ordered, InOrder
<1>6. Stage(NoDraw) /\ sorted' = TRUE /\ rolled' = rolled /\ dir \in {"id", "asc", "desc", "near"}
  BY DEF SortScalar
<1>7. sorted' \in BOOLEAN
  BY <1>6
<1> QED BY <1>2, <1>4, <1>5, <1>6, <1>7, TakingStageKeeps

(* What the search returns and what it does not know are apart, by id.     *)
LEMMA SortNearKeeps == QueryInv /\ SortNear => QueryInv'
<1> SUFFICES ASSUME QueryInv, SortNear PROVE QueryInv'
  OBVIOUS
<1> DEFINE others == DOMAIN working \ WithVector(working)
<1>1. PICK q : q = working'
  OBVIOUS
<1>2. PICK near \in Search(working), rest \in ById(working, others) :
          q = working' /\ q = near \o rest
  BY <1>1 DEF SortNear
<1>3. /\ near \in Seq(Row) /\ Distinct(near)
      /\ \A k \in 1 .. Len(near) :
             HasVector(near[k]) /\ \E i \in WithVector(working) : near[k] = working[i]
      /\ \A i, j \in 1 .. Len(near) : i < j => NearerSame(near[i], near[j])
  BY SearchTakes
<1>4. /\ rest \in Seq(Row) /\ Distinct(rest)
      /\ \A i, j \in 1 .. Len(rest) : i < j => rest[i].id < rest[j].id
      /\ \A k \in 1 .. Len(rest) : \E i \in others : rest[k] = working[i]
  <2>1. others \in SUBSET (DOMAIN working)
    OBVIOUS
  <2> HIDE DEF others
  <2>2. rest \in Orderings(working, others) /\ Ordered("id", rest)
    BY <2>1, Working, ByIdTakes
  <2> QED BY <2>1, <2>2, Working, OrderingsTake, TakesDistinct DEF Ordered, InOrder
<1>5. \A k \in 1 .. Len(rest) : ~HasVector(rest[k])
  BY <1>4 DEF WithVector
<1>6. /\ WithVector(working) \subseteq 1 .. Len(working)
      /\ others \subseteq 1 .. Len(working) /\ others \cap WithVector(working) = {}
  BY Working DEF WithVector
<1> HIDE DEF others
<1>7. PICK n \in Nat, m \in Nat : n = Len(near) /\ m = Len(rest)
  BY <1>3, <1>4, LenProperties
<1>8. /\ q \in Seq(Row) /\ Len(q) = n + m
      /\ \A i \in 1 .. n + m : q[i] = IF i <= n THEN near[i] ELSE rest[i - n]
  BY <1>2, <1>3, <1>4, <1>7, ConcatProperties
<1>9. /\ \A i \in 1 .. n + m : i <= n => i \in 1 .. n /\ q[i] = near[i]
      /\ \A i \in 1 .. n + m : ~(i <= n) => i - n \in 1 .. m /\ q[i] = rest[i - n]
  BY <1>8
<1>10. \A k \in 1 .. Len(q) : \E i \in 1 .. Len(working) : q[k] = working[i]
  <2> SUFFICES ASSUME NEW k \in 1 .. n + m
               PROVE  \E i \in 1 .. Len(working) : q[k] = working[i]
    BY <1>8
  <2>1. CASE k <= n
    <3>1. PICK i \in WithVector(working) : near[k] = working[i]
      BY <1>3, <1>7, <1>9, <2>1
    <3> QED BY <1>6, <1>9, <2>1, <3>1
  <2>2. CASE ~(k <= n)
    <3>1. PICK i \in others : rest[k - n] = working[i]
      BY <1>4, <1>7, <1>9, <2>2
    <3> QED BY <1>6, <1>9, <2>2, <3>1
  <2> QED BY <2>1, <2>2
<1>11. ASSUME NEW i \in 1 .. n, NEW j \in 1 .. m PROVE near[i].id # rest[j].id
  <2>1. PICK a \in WithVector(working) : near[i] = working[a]
    BY <1>3, <1>7
  <2>2. PICK b \in others : rest[j] = working[b]
    BY <1>4, <1>7
  <2>3. a \in 1 .. Len(working) /\ b \in 1 .. Len(working) /\ a # b
    BY <1>6
  <2> QED BY <2>1, <2>2, <2>3, Working DEF Distinct
<1>12. Distinct(q)
  <2> SUFFICES ASSUME NEW i \in 1 .. n + m, NEW j \in 1 .. n + m, q[i].id = q[j].id
               PROVE  i = j
    BY <1>8 DEF Distinct
  <2>1. CASE i <= n /\ j <= n
    BY <1>3, <1>7, <1>9, <2>1 DEF Distinct
  <2>2. CASE ~(i <= n) /\ ~(j <= n)
    <3>1. i - n = j - n
      BY <1>4, <1>7, <1>9, <2>2 DEF Distinct
    <3> QED BY <3>1
  <2>3. CASE i <= n /\ ~(j <= n)
    BY <1>9, <1>11, <2>3
  <2>4. CASE ~(i <= n) /\ j <= n
    BY <1>9, <1>11, <2>4
  <2> QED BY <2>1, <2>2, <2>3, <2>4
<1>13. Ordered("near", q)
  <2> SUFFICES ASSUME NEW i \in 1 .. n + m, NEW j \in 1 .. n + m, i < j
               PROVE  InOrder("near", q[i], q[j])
    BY <1>8 DEF Ordered
  <2>1. CASE j <= n
    <3>1. i \in 1 .. n /\ j \in 1 .. n /\ q[i] = near[i] /\ q[j] = near[j]
      BY <1>9, <2>1
    <3>2. HasVector(near[i]) /\ NearerSame(near[i], near[j])
      BY <1>3, <1>7, <3>1
    <3> QED BY <3>1, <3>2 DEF InOrder
  <2>2. CASE i <= n /\ ~(j <= n)
    <3>1. HasVector(q[i]) /\ ~HasVector(q[j])
      BY <1>3, <1>5, <1>7, <1>9, <2>2
    <3> QED BY <3>1 DEF InOrder
  <2>3. CASE ~(i <= n)
    <3>1. i - n \in 1 .. m /\ j - n \in 1 .. m /\ q[i] = rest[i - n] /\ q[j] = rest[j - n] /\ i - n < j - n
      BY <1>9, <2>3
    <3>2. ~HasVector(q[i]) /\ ~HasVector(q[j]) /\ q[i].id < q[j].id
      BY <1>4, <1>5, <1>7, <3>1
    <3> QED BY <3>2 DEF InOrder
  <2> QED BY <2>1, <2>2, <2>3
<1>14. Stage(NoDraw) /\ order' = "near" /\ sorted' = TRUE /\ rolled' = rolled
  BY DEF SortNear
<1>15. sorted' \in BOOLEAN
  BY <1>14
<1> QED BY <1>2, <1>8, <1>10, <1>12, <1>13, <1>14, <1>15, TakingStageKeeps

-----------------------------------------------------------------------------
(* Rollups, and samples that are not balanced.                             *)

LEMMA SampleAnyKeeps ==
    ASSUME QueryInv, NEW size \in Sizes, SampleAny(size)
    PROVE  QueryInv'
<1>1. PICK chosen : Pick(chosen)
  BY DEF SampleAny
<1>2. IndexesOf(chosen) \in SUBSET (DOMAIN working)
  BY DEF IndexesOf
<1>3. working' \in ById(working, IndexesOf(chosen))
  BY <1>1 DEF Pick
<1> QED BY <1>2, <1>3, ByIdKeeps DEF SampleAny

LEMMA RollupScalarKeeps == QueryInv /\ RollupScalar => QueryInv'
<1> SUFFICES ASSUME QueryInv, RollupScalar PROVE QueryInv'
  OBVIOUS
<1>1. PICK kept \in SUBSET (DOMAIN working) : working' \in ById(working, kept)
  BY DEF RollupScalar
<1> QED BY <1>1, ByIdKeeps DEF RollupScalar

LEMMA RollupParentsKeeps == QueryInv /\ RollupParents => QueryInv'
<1> SUFFICES ASSUME QueryInv, RollupParents PROVE QueryInv'
  OBVIOUS
<1>1. /\ phase' = "parentTags" /\ stages' = stages + 1 /\ stages < MaxStages /\ draw' = NoDraw
      /\ UNCHANGED <<working, sorted, order, rolled, read, version, torn, undone>>
      /\ UNCHANGED <<table, live, atCommit, pinned, commits>>
  BY DEF RollupParents, data
<1>2. stages' \in 0 .. MaxStages
  <2>1. stages \in 0 .. MaxStages /\ MaxStages \in Nat
    BY BoundsAssumption DEF QueryInv, QueryTypeOK
  <2> QED BY <1>1, <2>1
<1>3. QueryTypeOK'
  <2>1. NoDraw \in Draws
    BY DEF NoDraw, Draws
  <2> QED BY <1>1, <1>2, <2>1 DEF QueryInv, QueryTypeOK, Draws, Phases
<1>4. LoadInv' /\ RowsOfOneVersion'
  BY <1>1 DEF LoadInv, RowsOfOneVersion
<1> QED BY <1>1, <1>3, <1>4, RowsKeep

(* Parents are rows of the live data that the rollup loaded.               *)
LEMMA JoinParentsKeeps == QueryInv /\ JoinParents => QueryInv'
<1> SUFFICES ASSUME QueryInv, JoinParents PROVE QueryInv'
  OBVIOUS
<1>1. PICK d : d = [read EXCEPT !.labels = live.labels]
  OBVIOUS
<1>2. QueryTypeOK /\ LoadInv /\ phase = "parentLabels"
  BY DEF QueryInv, JoinParents
<1>3. read \in Data /\ live \in Data
  BY <1>2 DEF QueryTypeOK
<1>4. d \in Data /\ d.tags = version.tags /\ d.labels = live.labels
  BY <1>1, <1>2, <1>3 DEF Data, LoadInv
<1> DEFINE all == baseSamples(d)
<1>5. PICK kept \in SUBSET SampleIds : working' \in ById(all, kept)
  BY <1>1 DEF JoinParents
<1>6. /\ all \in Seq(Row) /\ Distinct(all) /\ DOMAIN all = SampleIds
      /\ \A i \in 1 .. Len(all) : /\ all[i].tags = d.tags[all[i].id]
                                  /\ all[i].labels = d.labels[all[i].id]
  BY <1>4, BaseSamples
<1> HIDE DEF all
<1>7. PICK q : q = working' /\ q \in ById(all, kept)
  BY <1>5
<1>8. /\ q \in Seq(Row) /\ Distinct(q) /\ Ordered("id", q)
      /\ \A k \in 1 .. Len(q) : \E i \in kept : q[k] = all[i]
  BY <1>6, <1>7, ByIdTakes, OrderingsTake, TakesDistinct
<1>9. SampleIds = 1 .. Len(all)
  BY <1>6, LenProperties
<1>10. /\ order' = "id" /\ rolled' = TRUE /\ read' = Nothing /\ phase' = "stages"
       /\ UNCHANGED <<sorted, stages, draw, version, torn, undone>>
       /\ UNCHANGED <<table, live, atCommit, pinned, commits>>
  BY DEF JoinParents, data
<1>11. QueryTypeOK'
  <2>1. Nothing \in Data
    BY DEF Nothing, Data
  <2>2. sorted \in BOOLEAN /\ pinned \in BOOLEAN /\ torn \in BOOLEAN /\ undone \in BOOLEAN
    BY <1>2, Zenon DEF QueryTypeOK
  <2>3. {pinned', sorted', rolled', torn', undone'} \subseteq BOOLEAN
    BY <1>10, <2>2, Zenon
  <2> QED BY <1>2, <1>7, <1>8, <1>10, <2>1, <2>3 DEF QueryTypeOK, Phases
<1>12. NoSampleTwice' /\ LoadInv'
  BY <1>7, <1>8, <1>10 DEF NoSampleTwice, Distinct, LoadInv
<1>13. RowsOfOneVersion'
  <2>1. \A k \in 1 .. Len(q) : /\ q[k].tags = version.tags[q[k].id]
                               /\ torn \/ q[k].labels = version.labels[q[k].id]
    <3> SUFFICES ASSUME NEW k \in 1 .. Len(q)
                 PROVE  /\ q[k].tags = version.tags[q[k].id]
                        /\ torn \/ q[k].labels = version.labels[q[k].id]
      OBVIOUS
    <3>1. PICK i \in 1 .. Len(all) : q[k] = all[i]
      BY <1>8, <1>9
    <3>2. q[k].tags = d.tags[q[k].id] /\ q[k].labels = d.labels[q[k].id]
      BY <1>6, <3>1
    <3> QED BY <1>2, <1>4, <3>2 DEF LoadInv
  <2> QED BY <1>7, <1>10, <2>1 DEF RowsOfOneVersion, OfVersion
<1>14. Ordered(order, working)'
  <2>1. \A i, j \in 1 .. Len(q) : i < j => q[i].id < q[j].id
    BY <1>8 DEF Ordered, InOrder
  <2> QED BY <1>7, <1>10, <2>1 DEF Ordered, InOrder
<1>15. BalancedDraws'
  BY <1>2, <1>10 DEF LoadInv, BalancedDraws
<1> QED BY <1>11, <1>12, <1>13, <1>14, <1>15 DEF QueryInv

-----------------------------------------------------------------------------
(* Balanced samples.                                                       *)

(* How many rows the quotas and what fills them up are.                    *)
LEMMA FilledUp ==
    ASSUME NEW W, IsFiniteSet(W), NEW quotas \in SUBSET W, NEW size \in Nat,
           NEW fill \in kSubset(Least(size - Cardinality(quotas), Cardinality(W \ quotas)), W \ quotas)
    PROVE  /\ quotas \cup fill \in SUBSET W
           /\ Cardinality(quotas \cup fill) = Least(size, Cardinality(W))
<1>1. fill \in SUBSET (W \ quotas)
      /\ Cardinality(fill) = Least(size - Cardinality(quotas), Cardinality(W \ quotas))
  BY DEF kSubset
<1>2. IsFiniteSet(quotas) /\ IsFiniteSet(fill) /\ fill \in SUBSET W
  BY <1>1, FS_Subset
<1>3. PICK w \in Nat, n \in Nat : w = Cardinality(W) /\ n = Cardinality(quotas)
  BY <1>2, FS_CardinalityType
<1>4. Cardinality(W \ quotas) = w - n
  <2>1. W \cap quotas = quotas
    OBVIOUS
  <2>2. Cardinality(W \ quotas) = Cardinality(W) - Cardinality(W \cap quotas)
    BY FS_Difference
  <2> QED BY <1>3, <2>1, <2>2
<1>5. quotas \cap fill = {}
  BY <1>1
<1>6. Cardinality(quotas \cup fill) = n + Cardinality(fill)
  <2>1. Cardinality(quotas \cup fill) = n + Cardinality(fill) - Cardinality(quotas \cap fill)
    BY <1>2, <1>3, FS_Union
  <2>2. Cardinality(fill) \in Nat /\ Cardinality(quotas \cap fill) = 0
    BY <1>2, <1>5, FS_CardinalityType, FS_EmptySet
  <2> QED BY <1>3, <2>1, <2>2
<1>7. Cardinality(quotas \cup fill) = Least(size, w)
  BY <1>1, <1>3, <1>4, <1>6 DEF Least
<1> QED BY <1>2, <1>3, <1>7

LEMMA SampleBalancedKeeps ==
    ASSUME QueryInv, NEW field \in {"value", "tags"}, NEW size \in Sizes, SampleBalanced(field, size)
    PROVE  QueryInv'
<1>1. PICK W : W = ToSet(working)
  OBVIOUS
<1>2. PICK d : d = [field |-> field, size |-> size, from |-> W]
  OBVIOUS
<1>3. Stage(d) /\ order' = "id" /\ UNCHANGED <<sorted, rolled>>
  BY <1>1, <1>2 DEF SampleBalanced
<1>4. PICK quotas \in SUBSET W :
          /\ \A key \in Keys(field, W) :
                 Cardinality(quotas \cap Group(field, W, key))
                     = Least(Quota(field, size, W), Cardinality(Group(field, W, key)))
          /\ \E fill \in kSubset(Least(size - Cardinality(quotas), Cardinality(W \ quotas)), W \ quotas) :
                 Pick(quotas \cup fill)
  BY <1>1 DEF SampleBalanced
<1>5. PICK fill \in kSubset(Least(size - Cardinality(quotas), Cardinality(W \ quotas)), W \ quotas) :
          Pick(quotas \cup fill)
  BY <1>4
<1>6. PICK chosen : chosen = quotas \cup fill
  OBVIOUS
<1>7. size \in Nat /\ IsFiniteSet(W) /\ Cardinality(W) \in Nat /\ W \subseteq Row
  <2>1. size \in Nat
    BY BoundsAssumption
  <2>2. IsFiniteSet(W)
    BY <1>1, Working
  <2>3. W \subseteq Row
    BY <1>1, Working DEF ToSet
  <2> QED BY <2>1, <2>2, <2>3, FS_CardinalityType
<1>8. chosen \in SUBSET W /\ Cardinality(chosen) = Least(size, Cardinality(W))
  BY <1>4, <1>5, <1>6, <1>7, FilledUp
<1>9. PICK q : q = working' /\ q \in ById(working, IndexesOf(chosen))
  BY <1>5, <1>6 DEF Pick
<1>10. IndexesOf(chosen) \in SUBSET (DOMAIN working)
  BY DEF IndexesOf
<1>11. /\ q \in Seq(Row) /\ Distinct(q) /\ Ordered("id", q)
       /\ Len(q) = Cardinality(IndexesOf(chosen)) /\ DOMAIN q = 1 .. Len(q)
       /\ \A k \in 1 .. Len(q) : \E i \in IndexesOf(chosen) : q[k] = working[i]
       /\ \A i \in IndexesOf(chosen) : \E k \in 1 .. Len(q) : q[k] = working[i]
  BY <1>9, <1>10, Working, ByIdTakes, OrderingsTake, TakesDistinct, LenProperties
<1>12. Len(q) = Cardinality(chosen)
  <2>1. Cardinality(chosen) = Cardinality(IndexesOf(chosen))
    BY <1>1, <1>8, Working, NumberOfRows DEF IndexesOf
  <2> QED BY <1>11, <2>1
<1>13. ToSet(q) = chosen
  <2>1. \A c \in chosen : \E i \in IndexesOf(chosen) : c = working[i]
    BY <1>1, <1>8 DEF ToSet, IndexesOf
  <2>2. \A i \in IndexesOf(chosen) : working[i] \in chosen
    BY DEF IndexesOf
  <2>3. \A c \in chosen : \E k \in DOMAIN q : q[k] = c
    BY <1>11, <2>1
  <2>4. \A k \in DOMAIN q : q[k] \in chosen
    BY <1>11, <2>2
  <2> QED BY <2>3, <2>4 DEF ToSet
<1>14. ASSUME NEW key \in Keys(field, W)
       PROVE  Cardinality(chosen \cap Group(field, W, key))
                  >= Least(size \div Cardinality(Keys(field, W)), Cardinality(Group(field, W, key)))
  <2>1. PICK group : group = Group(field, W, key)
    OBVIOUS
  <2>2. W # {}
    BY DEF Keys
  <2>3. Cardinality(quotas \cap group) = Least(size \div Cardinality(Keys(field, W)), Cardinality(group))
    BY <1>4, <2>1, <2>2 DEF Quota
  <2>4. IsFiniteSet(chosen \cap group) /\ quotas \cap group \in SUBSET (chosen \cap group)
    <3>1. chosen \cap group \in SUBSET W
      BY <1>8
    <3>2. IsFiniteSet(chosen \cap group)
      BY <1>7, <3>1, FS_Subset
    <3> QED BY <1>6, <3>2
  <2>5. Cardinality(quotas \cap group) <= Cardinality(chosen \cap group)
        /\ Cardinality(quotas \cap group) \in Nat /\ Cardinality(chosen \cap group) \in Nat
    BY <2>4, FS_Subset, FS_CardinalityType
  <2> QED BY <2>1, <2>3, <2>5
<1>15. BalancedDraws'
  <2>1. draw' = d /\ working' = q /\ table' = table
    BY <1>3, <1>9 DEF Stage, data
  <2>2. d.field = field /\ d.size = size /\ d.from = W
    BY <1>2
  <2>3. \A key : Group(field, W, key)' = Group(field, W, key)
    BY <2>1 DEF Group, balanceKey, Value
  <2>4. Keys(field, W)' = Keys(field, W)
    BY <2>1 DEF Keys, balanceKey, Value
  <2>5. \A key : Drawn(key)' = chosen \cap Group(field, W, key)
    BY <1>13, <2>1, <2>2, <2>3 DEF Drawn
  <2> QED BY <1>8, <1>12, <1>13, <1>14, <2>1, <2>2, <2>3, <2>4, <2>5 DEF BalancedDraws
<1>16. d \in Draws
  BY <1>2, <1>7 DEF Draws
<1>17. \A k \in 1 .. Len(q) : OfVersion(q[k])
  <2>1. \A i \in IndexesOf(chosen) : i \in 1 .. Len(working)
    BY <1>10, Working
  <2> QED BY <1>3, <1>11, <2>1 DEF QueryInv, RowsOfOneVersion, Stage
<1>18. sorted' \in BOOLEAN /\ rolled' = rolled
  BY <1>3 DEF QueryInv, QueryTypeOK
<1> QED BY <1>3, <1>9, <1>11, <1>15, <1>16, <1>17, <1>18, StageKeeps

-----------------------------------------------------------------------------
(* Every step.                                                             *)

LEMMA QueryKeeps == QueryInv /\ [QueryNext]_queryVars => QueryInv'
<1> SUFFICES ASSUME QueryInv, [QueryNext]_queryVars PROVE QueryInv'
  OBVIOUS
<1>1. CASE MatchScalar
  <2>1. PICK kept \in SUBSET (DOMAIN working) : Match(kept)
    BY <1>1 DEF MatchScalar
  <2> QED BY <2>1, MatchKeeps
<1>2. CASE MatchTags
  <2>1. PICK kept \in SUBSET (DOMAIN working) : Match(kept)
    BY <1>2 DEF MatchTags
  <2> QED BY <2>1, MatchKeeps
<1>3. CASE MatchLabels
  <2>1. PICK kept \in SUBSET (DOMAIN working) : Match(kept)
    BY <1>3 DEF MatchLabels
  <2> QED BY <2>1, MatchKeeps
<1>4. CASE UNCHANGED queryVars
  <2>1. UNCHANGED <<table, live, atCommit, pinned, commits, working, sorted, stages, phase, order,
                    read, version, torn, undone, rolled, draw>>
    BY <1>4 DEF queryVars, rowVars, load, data
  <2>2. QueryTypeOK' <=> QueryTypeOK
    BY <2>1 DEF QueryTypeOK
  <2>3. Ordered(order, working)' <=> Ordered(order, working)
    BY <2>1 DEF Ordered, InOrder, Less, Value, HasVector, NearerSame
  <2>4. BalancedDraws' <=> BalancedDraws
    BY <2>1 DEF BalancedDraws, Drawn, Group, Keys, balanceKey, Value
  <2> QED BY <2>1, <2>2, <2>3, <2>4
          DEF QueryInv, NoSampleTwice, RowsOfOneVersion, OfVersion, LoadInv
<1> QED BY <1>1, <1>2, <1>3, <1>4, ReadTagsKeeps, ReadLabelsKeeps, ReadChainKeeps, HeadMovesKeeps,
           FinishKeeps, MatchNearKeeps, SortScalarKeeps, SortNearKeeps, SampleAnyKeeps,
           SampleBalancedKeeps, RollupParentsKeeps, JoinParentsKeeps, RollupScalarKeeps
        DEF QueryNext

LEMMA QueryCorrect == QuerySpec => []QueryInv
  BY QueryInitially, QueryKeeps, PTL DEF QuerySpec

-----------------------------------------------------------------------------
(* The properties of module Pipeline.                                      *)

(* Rows, draws and the query's state keep their types.                     *)
THEOREM QueryTypeCorrect == QuerySpec => []QueryTypeOK
  BY QueryCorrect, PTL DEF QueryInv

(* Whatever stages there are, in whatever order, no sample comes twice:    *)
(* joins with the search's results and with parents are by id, and a draw  *)
(* is filled up from rows it does not have yet.                            *)
THEOREM SamplesComeOnce == QuerySpec => []NoSampleTwice
  BY QueryCorrect, PTL DEF QueryInv

(* A result is in the order of the last stage that gives one, whatever the *)
(* stages before it left, for any ties of values and distances.            *)
THEOREM ResultsAreOrdered == QuerySpec => []ResultIsOrdered
<1>1. QueryInv => ResultIsOrdered
  BY DEF QueryInv, Ordered, ResultIsOrdered
<1> QED BY <1>1, QueryCorrect, PTL

(* Whatever commits and undos land between the queries and the stages, the *)
(* rows of a pinned query are its commit's, and others those of one HEAD;  *)
(* what is excepted is an undo in the middle of a pinned load, and labels  *)
(* when HEAD moves in the middle of another.                               *)
THEOREM RowsAreOfOneVersion == QuerySpec => []RowsOfOneVersion
  BY QueryCorrect, PTL DEF QueryInv

(* A balanced sample has the size asked for or takes all there is, and of  *)
(* every group an equal share or all of it.                                *)
THEOREM DrawsAreBalanced == QuerySpec => []BalancedDraws
  BY QueryCorrect, PTL DEF QueryInv

-----------------------------------------------------------------------------
(* A walk: least and greatest samples.                                     *)

LEMMA LeastNumber ==
    ASSUME NEW S \in SUBSET Nat, S # {}
    PROVE  \E x \in S : \A y \in S : x <= y
<1>1. PICK x \in S : \A y \in S : <<y, x>> \notin OpToRel(<, Nat)
  BY NatLessThanWellFounded, WFMin
<1>2. \A y \in S : ~(y < x)
  BY <1>1 DEF OpToRel
<1> QED BY <1>2

LEMMA GreatestSample ==
    ASSUME NEW S \in SUBSET Samples, S # {}
    PROVE  Max(S) \in S /\ \A y \in S : y <= Max(S)
<1>1. N \in Nat
  BY WalkAssumption
<1>2. \A s \in S : s \in 1 .. N /\ N - s \in Nat
  BY <1>1 DEF Samples
<1> DEFINE below == {N - s : s \in S}
<1>3. below \in SUBSET Nat /\ below # {}
  BY <1>2
<1>4. PICK d \in below : \A e \in below : d <= e
  BY <1>3, LeastNumber
<1>5. PICK x \in S : d = N - x
  OBVIOUS
<1>6. \A y \in S : x >= y
  <2> SUFFICES ASSUME NEW y \in S PROVE x >= y
    OBVIOUS
  <2>1. N - x <= N - y
    BY <1>4, <1>5
  <2> QED BY <1>1, <1>2, <2>1
<1>7. Max(S) \in S /\ \A y \in S : Max(S) >= y
  BY <1>6 DEF Max
<1> QED BY <1>2, <1>7

-----------------------------------------------------------------------------
(* Pages.                                                                  *)

(* A page holds the first samples of the rest: all of them up to its last. *)
LEMMA Pages ==
    ASSUME NEW items \in SUBSET Samples, NEW from \in 0 .. N
    PROVE  /\ Page(items, from) \subseteq Rest(items, from)
           /\ Rest(items, from) \subseteq Samples
           /\ Rest(items, from) # {} => Page(items, from) # {}
           /\ \A m \in Page(items, from) : \A s \in Rest(items, from) :
                  s <= m => s \in Page(items, from)
<1>1. N \in Nat /\ Limit \in Nat /\ Limit >= 1
  BY WalkAssumption
<1>2. Rest(items, from) \subseteq items /\ Rest(items, from) \subseteq Nat /\ items \subseteq Nat
  <2>1. Samples \subseteq Nat
    BY <1>1 DEF Samples
  <2> QED BY <2>1 DEF Rest
<1>3. IsFiniteSet(Rest(items, from))
  <2>1. IsFiniteSet(Samples)
    BY <1>1, FS_Interval DEF Samples
  <2>2. Rest(items, from) \in SUBSET Samples
    BY <1>2
  <2> QED BY <2>1, <2>2, FS_Subset
<1> DEFINE upTo(s) == {r \in Rest(items, from) : r <= s}
<1>4. \A s : IsFiniteSet(upTo(s)) /\ Cardinality(upTo(s)) \in Nat
  BY <1>3, FS_Subset, FS_CardinalityType
<1>5. ASSUME NEW m \in Page(items, from), NEW s \in Rest(items, from), s <= m
      PROVE  s \in Page(items, from)
  <2>1. m \in Rest(items, from) /\ Cardinality(upTo(m)) <= Limit
    BY DEF Page
  <2>2. upTo(s) \subseteq upTo(m)
    BY <1>2, <1>5, <2>1
  <2>3. Cardinality(upTo(s)) <= Cardinality(upTo(m))
    BY <1>4, <2>2, FS_Subset
  <2>4. Cardinality(upTo(s)) <= Limit
    BY <1>1, <1>4, <2>1, <2>3
  <2> QED BY <2>4 DEF Page
<1>6. ASSUME Rest(items, from) # {} PROVE Page(items, from) # {}
  <2>1. PICK x \in Rest(items, from) : \A y \in Rest(items, from) : x <= y
    BY <1>2, <1>6, LeastNumber
  <2>2. upTo(x) = {x}
    BY <1>2, <2>1
  <2>3. Cardinality(upTo(x)) = 1
    BY <2>2, FS_Singleton
  <2>4. Cardinality(upTo(x)) <= Limit
    BY <1>1, <2>3
  <2> QED BY <2>4 DEF Page
<1> QED BY <1>2, <1>5, <1>6 DEF Page

-----------------------------------------------------------------------------
(* The walk.                                                               *)

(* Up to the cursor every sample that always matched was yielded, and only *)
(* those up to the cursor were yielded since the walk last started over.   *)
(* A cursor that does not match any more has cost a change that no restart *)
(* was counted for yet.                                                    *)
WalkInv ==
    /\ TypeOK
    /\ walking => \A s \in always : s <= cursor => yielded[s] > 0
    /\ ~walking => \A s \in always : yielded[s] > 0
    /\ \A s \in Samples : yielded[s] <= 1 + restarts
    /\ walking => \A s \in Samples : s > cursor => yielded[s] <= restarts
    /\ restarts <= mutations
    /\ walking /\ cursor # 0 /\ cursor \notin matching => restarts + 1 <= mutations

LEMMA WalkInit == Init => WalkInv
<1> SUFFICES ASSUME Init PROVE WalkInv
  OBVIOUS
<1>1. N \in Nat /\ MaxMutations \in Nat
  BY WalkAssumption
<1>2. \A s \in Samples : s > 0 /\ yielded[s] = 0
  BY <1>1 DEF Init, Samples
<1> QED BY <1>1, <1>2 DEF Init, WalkInv, TypeOK, Samples

LEMMA FetchKeeps == WalkInv /\ Fetch => WalkInv'
<1> SUFFICES ASSUME WalkInv, Fetch PROVE WalkInv'
  OBVIOUS
<1>1. /\ TypeOK /\ N \in Nat /\ walking /\ restarts \in Nat /\ mutations \in Nat
      /\ cursor \in 0 .. N /\ \A s \in Samples : s \in Nat /\ s > 0 /\ yielded[s] \in Nat
  BY WalkAssumption DEF WalkInv, TypeOK, Fetch, Samples
<1>2. PICK from \in 0 .. N : from = ResumeAfter(matching, cursor)
  BY <1>1 DEF ResumeAfter
<1>3. PICK page \in SUBSET Samples : page = Page(matching, from)
  BY <1>1, <1>2, Pages DEF TypeOK
<1>4. from <= cursor /\ (from = cursor \/ (from = 0 /\ cursor # 0 /\ cursor \notin matching))
  BY <1>1, <1>2 DEF ResumeAfter
<1>5. PICK again \in {0, 1} : again = IF cursor # 0 /\ from = 0 THEN 1 ELSE 0
  OBVIOUS
<1>6. /\ yielded' = [s \in Samples |-> yielded[s] + IF s \in page THEN 1 ELSE 0]
      /\ IF page = Rest(matching, from)
         THEN walking' = FALSE /\ cursor' = 0
         ELSE walking' = TRUE /\ cursor' = Max(page)
      /\ restarts' = restarts + again
      /\ UNCHANGED <<matching, mutations, always>>
  BY <1>2, <1>3, <1>5 DEF Fetch
<1>7. /\ page \subseteq Rest(matching, from) /\ Rest(matching, from) \subseteq Samples
      /\ Rest(matching, from) # {} => page # {}
      /\ \A m \in page : \A s \in Rest(matching, from) : s <= m => s \in page
  BY <1>1, <1>2, <1>3, Pages DEF TypeOK
<1>8. page # Rest(matching, from) =>
          /\ Max(page) \in page
          /\ \A s \in page : s <= Max(page)
  BY <1>7, GreatestSample
<1>9. \A s \in page : s \in matching /\ s > from
  BY <1>7 DEF Rest
<1>10. \A s \in always : s \in matching /\ s \in Samples
  BY <1>1 DEF TypeOK
<1>11. \A s \in Samples : yielded'[s] = yielded[s] + IF s \in page THEN 1 ELSE 0
  BY <1>6
<1>12. TypeOK'
  <2>1. cursor' \in 0 .. N
    <3>1. 0 \in 0 .. N /\ Samples \subseteq 0 .. N
      BY <1>1 DEF Samples
    <3>2. cursor' = 0 \/ cursor' \in page
      BY <1>6, <1>8
    <3> QED BY <1>3, <3>1, <3>2
  <2>2. yielded' \in [Samples -> Nat]
    BY <1>1, <1>6
  <2>3. walking' \in BOOLEAN
    BY <1>6, Zenon
  <2>4. restarts' \in Nat
    BY <1>1, <1>6
  <2> QED BY <1>1, <1>6, <2>1, <2>2, <2>3, <2>4 DEF TypeOK
<1>13. \A s \in always : s <= cursor => yielded'[s] > 0
  BY <1>1, <1>10, <1>11 DEF WalkInv
<1>14. ASSUME NEW s \in always, walking' => s <= cursor'
       PROVE  yielded'[s] > 0
  <2>1. CASE s <= from
    BY <1>1, <1>4, <1>10, <1>13, <2>1
  <2>2. CASE s > from
    <3>1. s \in Rest(matching, from)
      BY <1>10, <2>2 DEF Rest
    <3>2. s \in page
      BY <1>6, <1>7, <1>8, <1>14, <3>1
    <3> QED BY <1>1, <1>10, <1>11, <3>2
  <2> QED BY <1>1, <1>10, <2>1, <2>2
<1>15. ASSUME NEW s \in Samples
       PROVE  /\ yielded'[s] <= 1 + restarts'
              /\ walking' /\ s > cursor' => yielded'[s] <= restarts'
  <2>1. /\ yielded[s] <= 1 + restarts
        /\ s > cursor => yielded[s] <= restarts
    BY <1>1 DEF WalkInv
  <2>2. again = 0 => from = cursor
    BY <1>4, <1>5
  <2>3. s \in page => s > from
    BY <1>9
  <2>4. walking' /\ s > cursor' => s \notin page /\ (s > cursor \/ again = 1)
    <3>1. walking' => cursor' = Max(page) /\ Max(page) \in page /\ \A q \in page : q <= Max(page)
      BY <1>6, <1>8
    <3>2. walking' => cursor' > from
      BY <1>9, <3>1
    <3> QED BY <1>1, <1>3, <2>2, <3>1, <3>2
  <2> QED BY <1>1, <1>6, <1>11, <2>1, <2>2, <2>3, <2>4
<1>16. restarts' <= mutations'
  <2>1. again = 1 => cursor # 0 /\ cursor \notin matching
    BY <1>4, <1>5
  <2> QED BY <1>1, <1>6, <2>1 DEF WalkInv
<1>17. walking' => cursor' \in matching'
  BY <1>6, <1>8, <1>9
<1>18. ~walking' \/ cursor' \in Nat
  BY <1>12 DEF TypeOK
<1> QED BY <1>6, <1>12, <1>14, <1>15, <1>16, <1>17 DEF WalkInv

LEMMA MutateKeeps ==
    ASSUME WalkInv, NEW x \in Samples, Mutate(x)
    PROVE  WalkInv'
<1>1. /\ TypeOK /\ N \in Nat /\ MaxMutations \in Nat /\ restarts \in Nat /\ mutations \in Nat
  BY WalkAssumption DEF WalkInv, TypeOK
<1>2. mutations' = mutations + 1 /\ mutations' \in 0 .. MaxMutations
  BY <1>1 DEF Mutate, TypeOK
<1>3. always' \subseteq always /\ always' \subseteq matching' /\ matching' \subseteq Samples
  BY <1>1 DEF Mutate, TypeOK
<1>4. TypeOK'
  BY <1>1, <1>2, <1>3 DEF Mutate, TypeOK
<1>5. restarts + 1 <= mutations' /\ restarts <= mutations'
  BY <1>1, <1>2 DEF WalkInv
<1> QED BY <1>3, <1>4, <1>5 DEF WalkInv, Mutate

LEMMA WalkNext == WalkInv /\ [Next]_vars => WalkInv'
<1>1. WalkInv /\ UNCHANGED vars => WalkInv'
  BY DEF vars, WalkInv, TypeOK
<1> QED BY <1>1, FetchKeeps, MutateKeeps DEF Next, Exhausted

LEMMA WalkCorrect == Spec => []WalkInv
  BY WalkInit, WalkNext, PTL DEF Spec

-----------------------------------------------------------------------------
(* The properties of module CursorWalk.                                    *)

(* Samples, cursors and counts keep their types.                           *)
THEOREM CursorWalkTypeCorrect == Spec => []TypeOK
  BY WalkCorrect, PTL DEF WalkInv

(* Whatever comes and goes between pages, the cursor's sample included,    *)
(* the walk yields every sample that matched all along.                    *)
THEOREM WalksSkipNothing == Spec => []NeverSkips
<1>1. WalkInv => NeverSkips
  BY DEF WalkInv, NeverSkips
<1> QED BY <1>1, WalkCorrect, PTL

(* A sample is yielded again only after the walk started over, which costs *)
(* a change each time.                                                     *)
THEOREM RepeatsCostMutations == Spec => []RepeatsNeedMutations
<1>1. WalkInv => RepeatsNeedMutations
  BY DEF WalkInv, RepeatsNeedMutations
<1> QED BY <1>1, WalkCorrect, PTL
=============================================================================
