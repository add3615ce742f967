----------------------------- MODULE GridProofs -----------------------------
(***************************************************************************)
(* Proofs about Grid, for every value of its constants: type correctness,  *)
(* that thumbnails only reach sprites of cells that had their sample, and  *)
(* that the texture cache holds the latest thumbnails and no others.       *)
(***************************************************************************)
EXTENDS Grid, SequenceTheorems, FiniteSetTheorems, TLAPS

-----------------------------------------------------------------------------
(* Types, with what ties sprites to cells.                                 *)

GridInv ==
    /\ TypeOK
    /\ DOMAIN pool = DOMAIN cells
    /\ DOMAIN cells \subseteq Positions

(* A list in view is a set of cells.                                       *)
LEMMA SeenIsCells ==
    ASSUME NEW list \in Lists, NEW view \in Views, NEW loaded \in BOOLEAN
    PROVE  /\ Seen(list, view, loaded) \in Cells
           /\ DOMAIN Seen(list, view, loaded) = view
           /\ view \subseteq Positions
<1>1. view \subseteq Positions /\ list \in [Positions -> Samples]
  BY ListsAssumption, ViewsAssumption
<1>2. Seen(list, view, loaded) \in [view -> Samples \cup {None}]
  BY <1>1 DEF Seen
<1> QED BY <1>1, <1>2 DEF Cells, Seen

(* Cells are functions on visible positions.                               *)
LEMMA CellsAreFunctions ==
    ASSUME NEW c \in Cells
    PROVE  /\ DOMAIN c \subseteq Positions
           /\ c \in [DOMAIN c -> Samples \cup {None}]
  BY DEF Cells

LEMMA FunctionsAreCells ==
    ASSUME NEW D \in SUBSET Positions, NEW c \in [D -> Samples \cup {None}]
    PROVE  c \in Cells
  BY DEF Cells

LEMMA GridInvInit == Init => GridInv
<1> SUFFICES ASSUME Init PROVE GridInv
  OBVIOUS
<1>1. Nothing \in [{} -> Samples \cup {None}] /\ DOMAIN Nothing = {}
  BY DEF Nothing
<1>2. Nothing \in Cells
  BY <1>1, FunctionsAreCells
<1> QED BY <1>1, <1>2, EmptySeq DEF Init, GridInv, TypeOK

(* A draw.                                                                 *)
LEMMA DrawTypes ==
    ASSUME GridInv, NEW new \in Cells, Draw(new)
    PROVE  GridInv'
<1>1. new \in [DOMAIN new -> Samples \cup {None}] /\ DOMAIN new \subseteq Positions
  BY CellsAreFunctions
<1>2. pool \in [DOMAIN pool -> Samples \cup {None}]
  BY CellsAreFunctions DEF GridInv, TypeOK
<1>3. Pool(new) \in [DOMAIN new -> Samples \cup {None}] /\ DOMAIN Pool(new) = DOMAIN new
  BY <1>2 DEF Pool
<1>4. Pool(new) \in Cells
  BY <1>1, <1>3, FunctionsAreCells
<1>5. Wanted(new) \subseteq Loads
  <2>1. \A i \in DOMAIN new : new[i] # None => new[i] \in Samples /\ i \in Positions
    BY <1>1
  <2>2. ASSUME NEW l \in Wanted(new) PROVE l \in Loads
    <3>1. PICK i \in DOMAIN new :
              new[i] # None /\ l = [index |-> i, url |-> new[i], mine |-> TRUE]
      BY DEF Wanted
    <3> QED BY <2>1, <3>1 DEF Loads
  <2> QED BY <2>2
<1>6. Orphaned(new) \subseteq Loads
  BY DEF Orphaned, Loads, GridInv, TypeOK
<1>7. /\ DOMAIN occupants' = DOMAIN new
      /\ \A i \in DOMAIN new : occupants'[i] \subseteq Samples
  BY <1>1 DEF Draw, GridInv, TypeOK
<1> QED BY <1>1, <1>3, <1>4, <1>5, <1>6, <1>7 DEF Draw, textures, GridInv, TypeOK

-----------------------------------------------------------------------------
(* The order of thumbnails.                                                *)

NoRepeats(s) == \A i, j \in DOMAIN s : s[i] = s[j] => i = j
After(s, i)  == {s[j] : j \in i + 1 .. Len(s)}

(* What a thumbnail that is touched does to an order without repetitions:  *)
(* it comes last, and what comes after any other one grows by it.          *)
Touched(s, url, order) ==
    /\ order \in Seq(Samples)
    /\ Len(order) \in {Len(s), Len(s) + 1} \ {0}
    /\ order[Len(order)] = url
    /\ NoRepeats(order)
    /\ Entries(order) = Entries(s) \cup {url}
    /\ \A k \in 1 .. Len(order) - 1 : \E m \in DOMAIN s :
           s[m] = order[k] /\ After(order, k) = After(s, m) \cup {url}

LEMMA TouchedOrder ==
    ASSUME NEW s \in Seq(Samples), NoRepeats(s), NEW url \in Samples,
           NEW order, order = Append(Without(s, url), url)
    PROVE  Touched(s, url, order)
<1>1. Len(s) \in Nat /\ DOMAIN s = 1 .. Len(s) /\ \A k \in 1 .. Len(s) : s[k] \in Samples
  BY LenProperties, ElementOfSeq
<1>2. CASE \A k \in DOMAIN s : s[k] # url
  <2>1. Without(s, url) = s
    BY <1>2 DEF Without
  <2>2. /\ order \in Seq(Samples) /\ Len(order) = Len(s) + 1
        /\ \A k \in 1 .. Len(s) : order[k] = s[k]
        /\ order[Len(s) + 1] = url
    BY <2>1, AppendProperties
  <2>3. DOMAIN order = 1 .. Len(s) + 1
    BY <2>2, LenProperties
  <2>4. NoRepeats(order)
    BY <1>1, <1>2, <2>2, <2>3 DEF NoRepeats
  <2>5. Entries(order) = Entries(s) \cup {url}
    BY <1>1, <2>2, <2>3 DEF Entries
  <2>6. ASSUME NEW k \in 1 .. Len(order) - 1
        PROVE  \E m \in DOMAIN s :
                  s[m] = order[k] /\ After(order, k) = After(s, m) \cup {url}
    <3>1. k \in DOMAIN s /\ s[k] = order[k]
      BY <1>1, <2>2
    <3>2. After(order, k) = After(s, k) \cup {url}
      BY <1>1, <2>2, <3>1 DEF After
    <3> QED BY <3>1, <3>2
  <2>7. Len(order) \in {Len(s), Len(s) + 1} \ {0} /\ order[Len(order)] = url
    BY <1>1, <2>2
  <2> QED BY <2>2, <2>4, <2>5, <2>6, <2>7 DEF Touched
<1>3. CASE \E k \in DOMAIN s : s[k] = url
  <2>1. PICK i \in 1 .. Len(s) :
            s[i] = url /\ i = CHOOSE k \in DOMAIN s : s[k] = url
    BY <1>1, <1>3
  <2> DEFINE w == SubSeq(s, 1, i - 1) \o SubSeq(s, i + 1, Len(s))
  <2>2. order = Append(w, url)
    BY <1>3, <2>1 DEF Without
  <2>3. i \in 1 .. Len(s) /\ s[i] = url /\ Len(s) \in Nat
    BY <1>1, <2>1
  <2>4. /\ SubSeq(s, 1, i - 1) \in Seq(Samples) /\ Len(SubSeq(s, 1, i - 1)) = i - 1
        /\ \A k \in 1 .. i - 1 : SubSeq(s, 1, i - 1)[k] = s[k]
    <3>1. \A k \in 1 .. i - 1 : s[k] \in Samples
      BY <1>1, <2>3
    <3> HIDE DEF w
    <3>2. i - 1 \in Int /\ i \in Nat
      BY <2>3
    <3>3. /\ SubSeq(s, 1, i - 1) \in Seq(Samples)
          /\ Len(SubSeq(s, 1, i - 1)) = IF 1 <= i - 1 THEN i - 1 - 1 + 1 ELSE 0
          /\ \A k \in 1 .. (i - 1) - 1 + 1 : SubSeq(s, 1, i - 1)[k] = s[1 + k - 1]
      BY <3>1, <3>2, SubSeqProperties
    <3> QED BY <2>3, <3>3
  <2>5. /\ SubSeq(s, i + 1, Len(s)) \in Seq(Samples)
        /\ Len(SubSeq(s, i + 1, Len(s))) = Len(s) - i
        /\ \A k \in 1 .. Len(s) - i : SubSeq(s, i + 1, Len(s))[k] = s[i + k]
    <3>1. \A k \in i + 1 .. Len(s) : s[k] \in Samples
      BY <1>1, <2>3
    <3>2. i + 1 \in Int /\ Len(s) \in Int /\ i \in Nat
      BY <1>1, <2>3
    <3> HIDE DEF w
    <3>3. /\ SubSeq(s, i + 1, Len(s)) \in Seq(Samples)
          /\ Len(SubSeq(s, i + 1, Len(s))) =
                IF i + 1 <= Len(s) THEN Len(s) - (i + 1) + 1 ELSE 0
          /\ \A k \in 1 .. Len(s) - (i + 1) + 1 :
                SubSeq(s, i + 1, Len(s))[k] = s[(i + 1) + k - 1]
      BY <3>1, <3>2, SubSeqProperties
    <3>4. \A k \in 1 .. Len(s) - i :
              k \in 1 .. Len(s) - (i + 1) + 1 /\ (i + 1) + k - 1 = i + k
      BY <2>3
    <3>5. (IF i + 1 <= Len(s) THEN Len(s) - (i + 1) + 1 ELSE 0) = Len(s) - i
      BY <2>3
    <3> QED BY <3>3, <3>4, <3>5
  <2>6. /\ w \in Seq(Samples) /\ Len(w) = Len(s) - 1
        /\ \A k \in 1 .. Len(s) - 1 : w[k] = IF k < i THEN s[k] ELSE s[k + 1]
    <3> DEFINE a == SubSeq(s, 1, i - 1)
               b == SubSeq(s, i + 1, Len(s))
    <3>1. a \in Seq(Samples) /\ b \in Seq(Samples) /\ w = a \o b
      BY <2>4, <2>5
    <3>2. /\ Len(a) = i - 1 /\ \A k \in 1 .. i - 1 : a[k] = s[k]
          /\ Len(b) = Len(s) - i /\ \A k \in 1 .. Len(s) - i : b[k] = s[i + k]
      BY <2>4, <2>5
    <3> HIDE DEF w, a, b
    <3>3. /\ w \in Seq(Samples) /\ Len(w) = Len(a) + Len(b)
          /\ \A k \in 1 .. Len(a) + Len(b) :
                w[k] = IF k <= Len(a) THEN a[k] ELSE b[k - Len(a)]
      BY <3>1, ConcatProperties
    <3>4. Len(a) + Len(b) = Len(s) - 1
      BY <1>1, <2>3, <3>2
    <3>5. ASSUME NEW k \in 1 .. Len(s) - 1 PROVE w[k] = IF k < i THEN s[k] ELSE s[k + 1]
      <4>1. w[k] = IF k <= i - 1 THEN a[k] ELSE b[k - (i - 1)]
        BY <3>2, <3>3, <3>4
      <4>2. CASE k < i
        BY <1>1, <2>3, <3>2, <4>1, <4>2
      <4>3. CASE k >= i
        <5>1. k - (i - 1) \in 1 .. Len(s) - i /\ i + (k - (i - 1)) = k + 1
          BY <1>1, <2>3, <4>3
        <5>2. b[k - (i - 1)] = s[i + (k - (i - 1))]
          BY <3>2, <5>1
        <5>3. ~(k <= i - 1) /\ ~(k < i)
          BY <1>1, <2>3, <4>3
        <5> QED BY <4>1, <5>1, <5>2, <5>3
      <4> QED BY <1>1, <2>3, <4>2, <4>3
    <3> QED BY <3>3, <3>4, <3>5
  <2> HIDE DEF w
  <2>7. /\ order \in Seq(Samples) /\ Len(order) = Len(s)
        /\ \A k \in 1 .. Len(s) - 1 : order[k] = IF k < i THEN s[k] ELSE s[k + 1]
        /\ order[Len(s)] = url
    <3>1. /\ order \in Seq(Samples) /\ Len(order) = Len(w) + 1
          /\ \A k \in 1 .. Len(w) : order[k] = w[k]
          /\ order[Len(w) + 1] = url
      BY <2>2, <2>6, AppendProperties
    <3>2. Len(w) + 1 = Len(s)
      BY <1>1, <2>6
    <3> QED BY <1>1, <2>6, <3>1, <3>2
  <2>8. DOMAIN order = 1 .. Len(s)
    BY <2>7, LenProperties
  <2> DEFINE from(k) == IF k = Len(s) THEN i ELSE IF k < i THEN k ELSE k + 1
  <2>9. ASSUME NEW k \in 1 .. Len(s) PROVE from(k) \in 1 .. Len(s) /\ order[k] = s[from(k)]
    <3>1. CASE k = Len(s)
      BY <2>3, <2>7, <3>1
    <3>2. CASE k # Len(s)
      <4>1. k \in 1 .. Len(s) - 1 /\ order[k] = IF k < i THEN s[k] ELSE s[k + 1]
        BY <2>3, <2>7, <3>2
      <4> QED BY <2>3, <3>2, <4>1
    <3> QED BY <3>1, <3>2
  <2>10. ASSUME NEW k \in 1 .. Len(s), NEW m \in 1 .. Len(s), from(k) = from(m)
         PROVE  k = m
    <3>1. i \in Int /\ k \in Int /\ m \in Int /\ k <= Len(s) /\ m <= Len(s)
      BY <2>3
    <3> QED BY <2>3, <2>10, <3>1
  <2> HIDE DEF from
  <2>11. NoRepeats(order)
    <3> SUFFICES ASSUME NEW k \in 1 .. Len(s), NEW m \in 1 .. Len(s), order[k] = order[m]
                 PROVE  k = m
      BY <2>8 DEF NoRepeats
    <3>1. s[from(k)] = s[from(m)] /\ from(k) \in DOMAIN s /\ from(m) \in DOMAIN s
      BY <1>1, <2>9
    <3>2. from(k) = from(m)
      BY <3>1 DEF NoRepeats
    <3> QED BY <2>10, <3>2
  <2>12. Entries(order) = Entries(s) \cup {url}
    <3>1. \A x \in Entries(order) : x \in Entries(s)
      BY <1>1, <2>8, <2>9 DEF Entries
    <3>2. ASSUME NEW k \in 1 .. Len(s) PROVE s[k] \in Entries(order)
      <4>1. \E m \in 1 .. Len(s) : order[m] = s[k]
        <5>1. CASE k < i
          BY <1>1, <2>3, <2>7, <5>1
        <5>2. CASE k = i
          BY <1>1, <2>3, <2>7, <5>2
        <5>3. CASE k > i
          <6>1. k - 1 \in 1 .. Len(s) /\ order[k - 1] = s[k]
            BY <1>1, <2>3, <2>7, <5>3
          <6> QED BY <6>1
        <5>4. k < i \/ k = i \/ k > i
          BY <2>3
        <5> QED BY <5>1, <5>2, <5>3, <5>4
      <4> QED BY <2>8, <4>1 DEF Entries
    <3>3. url \in Entries(order)
      BY <2>3, <3>2
    <3> QED BY <1>1, <3>1, <3>2, <3>3 DEF Entries
  <2>13. ASSUME NEW k \in 1 .. Len(order) - 1
         PROVE  \E m \in DOMAIN s :
                   s[m] = order[k] /\ After(order, k) = After(s, m) \cup {url}
    <3> DEFINE m == IF k < i THEN k ELSE k + 1
    <3>1. m \in 1 .. Len(s) /\ s[m] = order[k]
      BY <1>1, <2>3, <2>7
    <3>2. \A x \in After(order, k) : x \in After(s, m) \cup {url}
      BY <1>1, <2>3, <2>7 DEF After
    <3>3. ASSUME NEW j \in m + 1 .. Len(s) PROVE s[j] \in After(order, k)
      <4>1. CASE j < i
        BY <1>1, <2>3, <2>7, <4>1 DEF After
      <4>2. CASE j = i
        BY <1>1, <2>3, <2>7, <4>2 DEF After
      <4>3. CASE j > i
        <5>1. j - 1 \in k + 1 .. Len(order) /\ order[j - 1] = s[j]
          BY <1>1, <2>3, <2>7, <4>3
        <5> QED BY <5>1 DEF After
      <4> QED BY <1>1, <2>3, <3>1, <4>1, <4>2, <4>3
    <3>4. url \in After(order, k)
      BY <1>1, <2>7 DEF After
    <3>5. After(order, k) = After(s, m) \cup {url}
      BY <3>2, <3>3, <3>4 DEF After
    <3> HIDE DEF m
    <3> QED BY <1>1, <3>1, <3>5
  <2>14. Len(order) \in {Len(s), Len(s) + 1} \ {0} /\ order[Len(order)] = url
    BY <2>3, <2>7
  <2> QED BY <2>7, <2>11, <2>12, <2>13, <2>14 DEF Touched
<1> QED BY <1>2, <1>3

(* As many different thumbnails as places, if none is repeated.            *)
LEMMA NoRepeatsCounts ==
    ASSUME NEW s \in Seq(Samples), NoRepeats(s)
    PROVE  IsFiniteSet(Entries(s)) /\ Cardinality(Entries(s)) = Len(s)
<1>1. Len(s) \in Nat /\ DOMAIN s = 1 .. Len(s)
  BY LenProperties
<1>2. s \in Bijection(1 .. Len(s), Entries(s))
  BY <1>1, LenProperties DEF NoRepeats, Entries, Bijection, Injection, Surjection, IsInjective
<1>3. ExistsBijection(1 .. Len(s), Entries(s))
  BY <1>2 DEF ExistsBijection
<1>4. IsFiniteSet(1 .. Len(s)) /\ Cardinality(1 .. Len(s)) = Len(s)
  BY <1>1, FS_Interval
<1> QED BY <1>3, <1>4, FS_Bijection

(* At most as many come after a place as there are places after it.        *)
LEMMA AfterCounts ==
    ASSUME NEW s \in Seq(Samples), NEW i \in 1 .. Len(s)
    PROVE  /\ IsFiniteSet(After(s, i))
           /\ Cardinality(After(s, i)) \in Nat
           /\ Cardinality(After(s, i)) <= Len(s) - i
<1>1. Len(s) \in Nat
  BY LenProperties
<1> DEFINE f == [j \in i + 1 .. Len(s) |-> s[j]]
<1>2. f \in Surjection(i + 1 .. Len(s), After(s, i))
  BY DEF After, Surjection
<1>3. IsFiniteSet(i + 1 .. Len(s)) /\ Cardinality(i + 1 .. Len(s)) = Len(s) - i
  <2>1. i + 1 \in Int /\ Len(s) \in Int
    BY <1>1
  <2>2. /\ IsFiniteSet(i + 1 .. Len(s))
        /\ Cardinality(i + 1 .. Len(s)) = IF i + 1 > Len(s) THEN 0 ELSE Len(s) - (i + 1) + 1
    BY <2>1, FS_Interval
  <2>3. (IF i + 1 > Len(s) THEN 0 ELSE Len(s) - (i + 1) + 1) = Len(s) - i
    BY <1>1
  <2> QED BY <2>2, <2>3
<1> HIDE DEF f
<1>4. IsFiniteSet(After(s, i)) /\ Cardinality(After(s, i)) <= Cardinality(i + 1 .. Len(s))
  BY <1>2, <1>3, FS_Surjection
<1> QED BY <1>3, <1>4, FS_CardinalityType

-----------------------------------------------------------------------------
(* The cache: the order has no repetitions, holds what is resident, and    *)
(* what comes after a thumbnail in it is what arrived after the thumbnail; *)
(* a thumbnail that is not in it had MAX_TEXTURES others arrive after it.  *)

LruInv ==
    /\ NoRepeats(lruOrder)
    /\ Len(lruOrder) <= MAX_TEXTURES
    /\ resident = Entries(lruOrder)
    /\ \A k \in DOMAIN lruOrder : \E i \in DOMAIN arrived :
           arrived[i] = lruOrder[k] /\ After(arrived, i) = After(lruOrder, k)
    /\ \A i \in DOMAIN arrived : arrived[i] \notin resident =>
           MAX_TEXTURES <= Cardinality(After(arrived, i) \ {arrived[i]})

LEMMA LruInvInit == Init => LruInv
<1> SUFFICES ASSUME Init PROVE LruInv
  OBVIOUS
<1>1. lruOrder = <<>> /\ arrived = <<>> /\ resident = {}
  BY DEF Init
<1>2. DOMAIN lruOrder = {} /\ DOMAIN arrived = {} /\ Len(lruOrder) = 0
  BY <1>1
<1> QED BY <1>1, <1>2, CapAssumption DEF LruInv, NoRepeats, Entries

(* An order that is too long by one loses its first thumbnail.             *)
LEMMA LatestOrder ==
    ASSUME NEW order \in Seq(Samples), NEW n \in Nat, Len(order) <= n + 1, NEW t,
           t = Latest(order, n)
    PROVE  /\ t \in Seq(Samples) /\ Len(t) <= n
           /\ \E d \in {0, 1} :
                  /\ Len(order) = Len(t) + d
                  /\ d = 1 => Len(t) = n
                  /\ \A j \in 1 .. Len(t) : t[j] = order[j + d]
<1>1. Len(order) \in Nat /\ \A k \in 1 .. Len(order) : order[k] \in Samples
  BY LenProperties, ElementOfSeq
<1>2. CASE Len(order) <= n
  <2>1. t = order
    BY <1>1, <1>2 DEF Latest
  <2>2. /\ Len(order) = Len(t) + 0 /\ \A j \in 1 .. Len(t) : t[j] = order[j + 0]
    BY <1>1, <2>1
  <2> QED BY <1>2, <2>1, <2>2
<1>3. CASE Len(order) = n + 1
  <2>1. t = SubSeq(order, 2, n + 1)
    <3>1. (n + 1) - n + 1 = 2 /\ n + 1 > n
      OBVIOUS
    <3> QED BY <1>3, <3>1 DEF Latest
  <2>2. \A k \in 2 .. n + 1 : order[k] \in Samples
    BY <1>1, <1>3
  <2>3. /\ t \in Seq(Samples)
        /\ Len(t) = IF 2 <= n + 1 THEN (n + 1) - 2 + 1 ELSE 0
        /\ \A j \in 1 .. (n + 1) - 2 + 1 : t[j] = order[2 + j - 1]
    BY <2>1, <2>2, SubSeqProperties
  <2>4. (IF 2 <= n + 1 THEN (n + 1) - 2 + 1 ELSE 0) = n
    OBVIOUS
  <2>5. \A j \in 1 .. n : j \in 1 .. (n + 1) - 2 + 1 /\ 2 + j - 1 = j + 1
    OBVIOUS
  <2> QED BY <1>3, <2>3, <2>4, <2>5
<1>4. Len(order) <= n \/ Len(order) = n + 1
  BY <1>1
<1> QED BY <1>2, <1>3, <1>4

(* A touch keeps all that.                                                 *)
LEMMA TouchLru ==
    ASSUME TypeOK, LruInv, NEW url \in Samples, touch(url), arrived' = Append(arrived, url)
    PROVE  LruInv' /\ lruOrder' \in Seq(Samples) /\ resident' \subseteq Samples
<1> DEFINE s == lruOrder
           order == Append(Without(s, url), url)
           t == Latest(order, MAX_TEXTURES)
<1>1. s \in Seq(Samples) /\ NoRepeats(s) /\ Len(s) <= MAX_TEXTURES /\ Len(s) \in Nat
      /\ MAX_TEXTURES \in Nat /\ MAX_TEXTURES > 0 /\ DOMAIN s = 1 .. Len(s)
  BY LenProperties, CapAssumption DEF TypeOK, LruInv
<1>2. lruOrder' = t /\ resident' = (resident \cup {url}) \ (Entries(order) \ Entries(t))
  BY DEF touch
<1>3. /\ order \in Seq(Samples)
      /\ Len(order) \in {Len(s), Len(s) + 1} \ {0}
      /\ order[Len(order)] = url
      /\ NoRepeats(order)
      /\ Entries(order) = Entries(s) \cup {url}
      /\ \A k \in 1 .. Len(order) - 1 : \E m \in DOMAIN s :
             s[m] = order[k] /\ After(order, k) = After(s, m) \cup {url}
  <2>1. order = Append(Without(s, url), url)
    OBVIOUS
  <2>2. s \in Seq(Samples) /\ NoRepeats(s)
    BY <1>1
  <2> HIDE DEF s, order
  <2>3. Touched(s, url, order)
    BY <2>1, <2>2, TouchedOrder
  <2> QED BY <2>3 DEF Touched
<1> HIDE DEF s, order
<1>4. /\ t \in Seq(Samples) /\ Len(t) <= MAX_TEXTURES
      /\ \E d \in {0, 1} :
             /\ Len(order) = Len(t) + d
             /\ d = 1 => Len(t) = MAX_TEXTURES
             /\ \A j \in 1 .. Len(t) : t[j] = order[j + d]
  <2>1. Len(order) <= MAX_TEXTURES + 1
    BY <1>1, <1>3
  <2> QED BY <1>1, <1>3, <2>1, LatestOrder
<1> HIDE DEF t
<1>5. PICK d \in {0, 1} :
          /\ Len(order) = Len(t) + d
          /\ d = 1 => Len(t) = MAX_TEXTURES
          /\ \A j \in 1 .. Len(t) : t[j] = order[j + d]
  BY <1>4
<1>6. /\ Len(t) \in Nat /\ Len(order) \in Nat /\ Len(order) > 0 /\ Len(t) > 0
      /\ DOMAIN t = 1 .. Len(t) /\ DOMAIN order = 1 .. Len(order)
      /\ t[Len(t)] = url
  <2>1. /\ Len(t) \in Nat /\ Len(order) \in Nat /\ Len(order) > 0
        /\ DOMAIN t = 1 .. Len(t) /\ DOMAIN order = 1 .. Len(order)
    <3>1. Len(order) \in Nat /\ Len(order) # 0
      BY <1>1, <1>3
    <3>2. Len(t) \in Nat /\ DOMAIN t = 1 .. Len(t) /\ DOMAIN order = 1 .. Len(order)
      BY <1>3, <1>4, LenProperties
    <3> QED BY <3>1, <3>2
  <2>2. Len(t) > 0
    <3>1. d = 1 => Len(t) > 0
      BY <1>1, <1>5
    <3>2. d = 0 => Len(t) > 0
      BY <1>5, <2>1
    <3> QED BY <3>1, <3>2
  <2>3. Len(t) \in 1 .. Len(t) /\ Len(t) + d = Len(order)
    BY <1>5, <2>1, <2>2
  <2> QED BY <1>3, <1>5, <2>1, <2>2, <2>3
<1>7. \A j \in 1 .. Len(t) : j + d \in 1 .. Len(order)
  BY <1>5, <1>6
<1>8. NoRepeats(t)
  <2> SUFFICES ASSUME NEW i \in 1 .. Len(t), NEW j \in 1 .. Len(t), t[i] = t[j]
               PROVE  i = j
    BY <1>6 DEF NoRepeats
  <2>1. order[i + d] = order[j + d]
    BY <1>5
  <2>2. i + d = j + d
    BY <1>3, <1>6, <1>7, <2>1 DEF NoRepeats
  <2> QED BY <1>5, <2>2
<1>9. \A x \in Entries(t) : x \in Entries(order)
  BY <1>5, <1>6, <1>7 DEF Entries
<1>10. resident' = Entries(t)
  BY <1>2, <1>3, <1>9 DEF LruInv, s
<1>11. ASSUME NEW j \in 1 .. Len(t) PROVE After(t, j) = After(order, j + d)
  <2>1. ASSUME NEW x \in After(t, j) PROVE x \in After(order, j + d)
    <3>1. PICK k \in j + 1 .. Len(t) : x = t[k]
      BY DEF After
    <3>2. k \in 1 .. Len(t) /\ k + d \in j + d + 1 .. Len(order)
      BY <1>5, <1>6
    <3>3. x = order[k + d]
      BY <1>5, <3>1, <3>2
    <3> QED BY <3>2, <3>3 DEF After
  <2>2. ASSUME NEW x \in After(order, j + d) PROVE x \in After(t, j)
    <3>1. PICK k \in j + d + 1 .. Len(order) : x = order[k]
      BY DEF After
    <3>2. k - d \in 1 .. Len(t) /\ k - d \in j + 1 .. Len(t) /\ (k - d) + d = k
      BY <1>5, <1>6
    <3>3. x = t[k - d]
      BY <1>5, <3>1, <3>2
    <3> QED BY <3>2, <3>3 DEF After
  <2> QED BY <2>1, <2>2
<1>12. /\ DOMAIN arrived = 1 .. Len(arrived) /\ Len(arrived) \in Nat
       /\ arrived' \in Seq(Samples) /\ arrived \in Seq(Samples)
       /\ Len(arrived') = Len(arrived) + 1
       /\ DOMAIN arrived' = 1 .. Len(arrived) + 1
       /\ \A i \in 1 .. Len(arrived) : arrived'[i] = arrived[i]
       /\ arrived'[Len(arrived) + 1] = url
  <2>1. arrived \in Seq(Samples)
    BY DEF TypeOK
  <2>2. /\ arrived' \in Seq(Samples) /\ Len(arrived') = Len(arrived) + 1
        /\ \A i \in 1 .. Len(arrived) : arrived'[i] = arrived[i]
        /\ arrived'[Len(arrived) + 1] = url
    BY <2>1, AppendProperties
  <2> QED BY <2>1, <2>2, LenProperties
<1>13. ASSUME NEW i \in 1 .. Len(arrived)
       PROVE  After(arrived', i) = After(arrived, i) \cup {url}
  BY <1>12 DEF After
<1>14. ASSUME NEW k \in 1 .. Len(t)
       PROVE  \E i \in DOMAIN arrived' :
                  arrived'[i] = t[k] /\ After(arrived', i) = After(t, k)
  <2>1. CASE k = Len(t)
    <3>1. After(arrived', Len(arrived) + 1) = {} /\ After(t, Len(t)) = {}
      BY <1>6, <1>12 DEF After
    <3> QED BY <1>6, <1>12, <2>1, <3>1
  <2>2. CASE k # Len(t)
    <3>1. k + d \in 1 .. Len(order) - 1
      <4>1. k \in 1 .. Len(t) - 1
        <5>1. Len(t) \in Nat
          BY <1>6
        <5> QED BY <2>2, <5>1
      <4> QED BY <1>5, <1>6, <4>1
    <3>2. PICK m \in DOMAIN s :
              s[m] = order[k + d] /\ After(order, k + d) = After(s, m) \cup {url}
      BY <1>3, <3>1
    <3>3. PICK i \in DOMAIN arrived :
              arrived[i] = s[m] /\ After(arrived, i) = After(s, m)
      BY <3>2 DEF LruInv, s
    <3>4. arrived'[i] = t[k] /\ i \in DOMAIN arrived'
      BY <1>5, <1>12, <3>2, <3>3
    <3>5. After(arrived', i) = After(t, k)
      BY <1>11, <1>12, <1>13, <3>2, <3>3
    <3> QED BY <3>4, <3>5
  <2> QED BY <2>1, <2>2
<1>15. ASSUME NEW i \in DOMAIN arrived', arrived'[i] \notin Entries(t)
       PROVE  MAX_TEXTURES <= Cardinality(After(arrived', i) \ {arrived'[i]})
  <2> DEFINE x == arrived'[i]
  <2>1. i \in 1 .. Len(arrived) /\ x = arrived[i] /\ x # url
    <3>1. url \in Entries(t)
      BY <1>6 DEF Entries
    <3> QED BY <1>12, <1>15, <3>1
  <2>2. After(arrived', i) = After(arrived, i) \cup {url}
    BY <1>13, <2>1
  <2>3. IsFiniteSet(After(arrived', i) \ {x}) /\ Cardinality(After(arrived', i) \ {x}) \in Nat
    <3>1. i \in 1 .. Len(arrived')
      BY <1>12
    <3>2. IsFiniteSet(After(arrived', i))
      BY <1>12, <3>1, AfterCounts
    <3> QED BY <3>2, FS_RemoveElement, FS_CardinalityType
  <2> HIDE DEF x
  <2>4. CASE x \notin resident
    <3>1. MAX_TEXTURES <= Cardinality(After(arrived, i) \ {x})
      BY <1>12, <2>1, <2>4 DEF LruInv
    <3>2. (After(arrived, i) \ {x}) \in SUBSET (After(arrived', i) \ {x})
      BY <2>2
    <3>3. /\ IsFiniteSet(After(arrived, i) \ {x})
          /\ Cardinality(After(arrived, i) \ {x}) <= Cardinality(After(arrived', i) \ {x})
      BY <2>3, <3>2, FS_Subset
    <3>4. Cardinality(After(arrived, i) \ {x}) \in Nat
      BY <3>3, FS_CardinalityType
    <3>5. MAX_TEXTURES <= Cardinality(After(arrived', i) \ {x})
      BY <1>1, <2>3, <3>1, <3>3, <3>4
    <3> QED BY <3>5 DEF x
  <2>5. CASE x \in resident
    <3>1. x \in Entries(order)
      BY <1>3, <2>5 DEF LruInv, s
    <3>2. PICK k \in 1 .. Len(order) : order[k] = x
      BY <1>6, <3>1 DEF Entries
    <3>3. d = 1 /\ k = 1 /\ Len(t) = MAX_TEXTURES
      <4>1. ~(k - d \in 1 .. Len(t))
        <5>1. k - d \in 1 .. Len(t) => t[k - d] = order[(k - d) + d] /\ (k - d) + d = k
          BY <1>5
        <5>2. k - d \in 1 .. Len(t) => x \in Entries(t)
          BY <1>6, <3>2, <5>1 DEF Entries
        <5> QED BY <1>15, <5>2 DEF x
      <4> QED BY <1>5, <1>6, <3>2, <4>1
    <3>4. 1 \in 1 .. Len(order) - 1
      BY <1>5, <1>6, <3>3
    <3>5. PICK m \in DOMAIN s :
              s[m] = order[1] /\ After(order, 1) = After(s, m) \cup {url}
      BY <1>3, <3>4
    <3>6. PICK o \in DOMAIN arrived :
              arrived[o] = s[m] /\ After(arrived, o) = After(s, m)
      BY <3>5 DEF LruInv, s
    <3>7. i <= o
      <4> SUFFICES ASSUME ~(i <= o) PROVE FALSE
        OBVIOUS
      <4>1. i \in o + 1 .. Len(arrived)
        BY <1>12, <2>1
      <4>2. x \in After(s, m)
        BY <2>1, <3>6, <4>1 DEF After
      <4>3. PICK j \in m + 1 .. Len(s) : s[j] = x
        BY <4>2 DEF After
      <4>4. j \in DOMAIN s /\ j # m /\ s[j] = s[m]
        BY <1>1, <3>2, <3>3, <3>5, <4>3
      <4> QED BY <1>1, <3>5, <4>4 DEF NoRepeats
    <3>8. After(arrived, o) \subseteq After(arrived, i)
      BY <1>12, <2>1, <3>7 DEF After
    <3>9. Entries(t) \in SUBSET (After(arrived', i) \ {x})
      <4>1. ASSUME NEW y \in Entries(t) PROVE y \in After(order, 1)
        <5>1. PICK j \in 1 .. Len(t) : y = t[j]
          BY <1>6 DEF Entries
        <5>2. j + 1 \in 1 + 1 .. Len(order) /\ y = order[j + 1]
          BY <1>5, <1>6, <3>3, <5>1
        <5> QED BY <5>2 DEF After
      <4>2. After(order, 1) \subseteq After(arrived', i)
        BY <2>2, <3>5, <3>6, <3>8
      <4> QED BY <1>15, <4>1, <4>2 DEF x
    <3>10. Cardinality(Entries(t)) = MAX_TEXTURES
      BY <1>4, <1>8, <3>3, NoRepeatsCounts
    <3>11. Cardinality(Entries(t)) <= Cardinality(After(arrived', i) \ {x})
      BY <2>3, <3>9, FS_Subset
    <3> QED BY <3>10, <3>11 DEF x
  <2> QED BY <2>4, <2>5
<1>16. Entries(t) \subseteq Samples
  <2>1. \A j \in 1 .. Len(t) : t[j] \in Samples
    BY <1>4, ElementOfSeq
  <2> QED BY <1>6, <2>1 DEF Entries
<1> QED BY <1>2, <1>4, <1>6, <1>8, <1>10, <1>14, <1>15, <1>16 DEF LruInv

-----------------------------------------------------------------------------
(* The steps.                                                              *)

LEMMA ArriveTypes ==
    ASSUME GridInv, LruInv, NEW url \in Samples, Arrive(url)
    PROVE  GridInv' /\ LruInv'
<1>1. LruInv' /\ lruOrder' \in Seq(Samples) /\ resident' \subseteq Samples
  BY TouchLru DEF GridInv, Arrive
<1>2. arrived' \in Seq(Samples)
  BY AppendProperties DEF GridInv, TypeOK, Arrive
<1>3. pool \in [DOMAIN pool -> Samples \cup {None}] /\ DOMAIN pool \subseteq Positions
  BY CellsAreFunctions DEF GridInv, TypeOK
<1>4. TexturesSet(url) \in [DOMAIN pool -> Samples \cup {None}]
  BY <1>3 DEF TexturesSet
<1>5. TexturesSet(url) \in Cells /\ DOMAIN TexturesSet(url) = DOMAIN pool
  BY <1>3, <1>4, FunctionsAreCells
<1> QED BY <1>1, <1>2, <1>5 DEF GridInv, TypeOK, Arrive

LEMMA NextTypes == GridInv /\ LruInv /\ [Next]_vars => GridInv' /\ LruInv'
<1> SUFFICES ASSUME GridInv, LruInv, [Next]_vars PROVE GridInv' /\ LruInv'
  OBVIOUS
<1>1. CASE Render
  <2>1. PICK new \in Cells : Draw(new)
    BY <1>1, SeenIsCells DEF Render
  <2>2. UNCHANGED <<lruOrder, resident, arrived>>
    BY <2>1 DEF Draw, textures
  <2> QED BY <2>1, <2>2, DrawTypes DEF LruInv
<1>2. ASSUME NEW url \in Samples, Arrive(url) PROVE GridInv' /\ LruInv'
  BY <1>2, ArriveTypes
<1>3. ASSUME NEW url \in Samples, LoadFails(url) PROVE GridInv' /\ LruInv'
  BY <1>3 DEF LoadFails, sprites, textures, GridInv, TypeOK, LruInv
<1>4. CASE UNCHANGED vars
  BY <1>4 DEF vars, sprites, textures, GridInv, TypeOK, LruInv
<1> QED BY <1>1, <1>2, <1>3, <1>4 DEF Next

(* Every state has the types of TypeOK.                                    *)
THEOREM GridTypeCorrect == Spec => []TypeOK
<1>1. Init => GridInv /\ LruInv
  BY GridInvInit, LruInvInit
<1>2. GridInv /\ LruInv => TypeOK
  BY DEF GridInv
<1> QED BY <1>1, <1>2, NextTypes, PTL DEF Spec

(* The invariant of the order says what is resident.                       *)
LEMMA LruInvIsLatest == GridInv /\ LruInv => ResidentAreLatest
<1> SUFFICES ASSUME GridInv, LruInv PROVE ResidentAreLatest
  OBVIOUS
<1>1. /\ arrived \in Seq(Samples) /\ DOMAIN arrived = 1 .. Len(arrived) /\ Len(arrived) \in Nat
      /\ lruOrder \in Seq(Samples) /\ DOMAIN lruOrder = 1 .. Len(lruOrder)
      /\ Len(lruOrder) \in Nat /\ MAX_TEXTURES \in Nat
  BY LenProperties, CapAssumption DEF GridInv, TypeOK
<1> DEFINE Others(i) == After(arrived, i) \ {arrived[i]}
<1>2. ASSUME NEW x \in resident
      PROVE  \E i \in DOMAIN arrived : arrived[i] = x /\ Cardinality(Others(i)) < MAX_TEXTURES
  <2>1. PICK k \in DOMAIN lruOrder : lruOrder[k] = x
    BY DEF LruInv, Entries
  <2>2. PICK i \in DOMAIN arrived : arrived[i] = x /\ After(arrived, i) = After(lruOrder, k)
    BY <2>1 DEF LruInv
  <2>3. /\ IsFiniteSet(After(lruOrder, k)) /\ Cardinality(After(lruOrder, k)) \in Nat
        /\ Cardinality(After(lruOrder, k)) <= Len(lruOrder) - k
    BY <1>1, AfterCounts
  <2>4. Others(i) \in SUBSET After(lruOrder, k)
    BY <2>2
  <2>5. IsFiniteSet(Others(i)) /\ Cardinality(Others(i)) <= Cardinality(After(lruOrder, k))
    BY <2>3, <2>4, FS_Subset
  <2>6. Cardinality(Others(i)) \in Nat
    BY <2>5, FS_CardinalityType
  <2>7. Len(lruOrder) <= MAX_TEXTURES
    BY DEF LruInv
  <2>8. Cardinality(Others(i)) < MAX_TEXTURES
    <3> HIDE DEF Others
    <3> QED BY <1>1, <2>3, <2>5, <2>6, <2>7
  <2> QED BY <2>2, <2>8
<1>3. ASSUME NEW i \in DOMAIN arrived, Cardinality(Others(i)) < MAX_TEXTURES
      PROVE  arrived[i] \in resident
  <2>1. IsFiniteSet(After(arrived, i))
    BY <1>1, AfterCounts
  <2>2. Cardinality(Others(i)) \in Nat
    BY <2>1, FS_RemoveElement, FS_CardinalityType
  <2>3. ~(MAX_TEXTURES <= Cardinality(Others(i)))
    BY <1>1, <1>3, <2>2
  <2> QED BY <2>3 DEF LruInv
<1> HIDE DEF Others
<1>4. resident = {arrived[i] : i \in {i \in DOMAIN arrived : Cardinality(Others(i)) < MAX_TEXTURES}}
  BY <1>2, <1>3
<1> QED BY <1>4 DEF ResidentAreLatest, Others, After

(* What is resident is the last MAX_TEXTURES different thumbnails that     *)
(* arrived, for any cap, any lists and any number of loads: the cap of     *)
(* textureCache.ts holds, and it unloads what was loaded longest ago.      *)
THEOREM CacheIsLatest == Spec => []ResidentAreLatest
<1>1. Init => GridInv /\ LruInv
  BY GridInvInit, LruInvInit
<1> QED BY <1>1, NextTypes, LruInvIsLatest, PTL DEF Spec

-----------------------------------------------------------------------------
(* Sprites only carry what their cell had.                                 *)

(* A call that may still set a sprite was made for a sample that the cell  *)
(* had since the sprite was made.                                          *)
SpriteInv ==
    /\ ImagesWereHere
    /\ \A l \in loads : l.mine => l.index \in DOMAIN pool /\ l.url \in occupants[l.index]

LEMMA DrawKeepsSprites ==
    ASSUME GridInv, SpriteInv, NEW new \in Cells, Draw(new)
    PROVE  SpriteInv'
<1>1. /\ DOMAIN pool' = DOMAIN new /\ pool' = Pool(new)
      /\ DOMAIN occupants = DOMAIN pool
      /\ \A i \in DOMAIN new : occupants'[i] =
             (IF i \in DOMAIN pool THEN occupants[i] ELSE {}) \cup ({new[i]} \ {None})
  BY DEF Draw, Pool, GridInv, TypeOK
<1>2. ImagesWereHere'
  BY <1>1 DEF Pool, SpriteInv, ImagesWereHere
<1>3. ASSUME NEW l \in Orphaned(new), l.mine
      PROVE  l.index \in DOMAIN pool' /\ l.url \in occupants'[l.index]
  <2>1. PICK k \in loads : l = [k EXCEPT !.mine = k.mine /\ k.index \in DOMAIN new]
    BY DEF Orphaned
  <2>2. k \in Loads
    BY DEF GridInv, TypeOK
  <2>3. l.index = k.index /\ l.url = k.url /\ k.mine /\ k.index \in DOMAIN new
    BY <1>3, <2>1, <2>2 DEF Loads
  <2> QED BY <1>1, <2>3 DEF SpriteInv
<1>4. ASSUME NEW l \in Wanted(new)
      PROVE  l.index \in DOMAIN pool' /\ l.url \in occupants'[l.index]
  <2>1. PICK i \in DOMAIN new :
            new[i] # None /\ l = [index |-> i, url |-> new[i], mine |-> TRUE]
    BY DEF Wanted
  <2> QED BY <1>1, <2>1
<1> QED BY <1>2, <1>3, <1>4 DEF Draw, SpriteInv

LEMMA NextKeepsSprites == GridInv /\ SpriteInv /\ [Next]_vars => SpriteInv'
<1> SUFFICES ASSUME GridInv, SpriteInv, [Next]_vars PROVE SpriteInv'
  OBVIOUS
<1>1. CASE Render
  BY <1>1, SeenIsCells, DrawKeepsSprites DEF Render
<1>2. ASSUME NEW url \in Samples, Arrive(url) PROVE SpriteInv'
  <2>1. pool' = TexturesSet(url) /\ DOMAIN pool' = DOMAIN pool /\ occupants' = occupants
    BY <1>2 DEF Arrive, TexturesSet
  <2>2. \A l \in loads' : l \in loads
    BY <1>2 DEF Arrive
  <2> QED BY <2>1, <2>2 DEF TexturesSet, SpriteInv, ImagesWereHere
<1>3. ASSUME NEW url \in Samples, LoadFails(url) PROVE SpriteInv'
  BY <1>3 DEF LoadFails, sprites, textures, SpriteInv, ImagesWereHere
<1>4. CASE UNCHANGED vars
  BY <1>4 DEF vars, sprites, textures, SpriteInv, ImagesWereHere
<1> QED BY <1>1, <1>2, <1>3, <1>4 DEF Next

(* However scrolls, answers, failures and late thumbnails interleave, a    *)
(* sprite carries a thumbnail of a sample its cell had (PixiGrid.tsx:188). *)
THEOREM ImagesBelong == Spec => []ImagesWereHere
<1>1. Init => SpriteInv
  BY DEF Init, Nothing, SpriteInv, ImagesWereHere
<1>2. Init => GridInv /\ LruInv
  BY GridInvInit, LruInvInit
<1>3. SpriteInv => ImagesWereHere
  BY DEF SpriteInv
<1> QED BY <1>1, <1>2, <1>3, NextTypes, NextKeepsSprites, PTL DEF Spec
=============================================================================
