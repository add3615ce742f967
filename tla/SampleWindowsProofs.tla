------------------------ MODULE SampleWindowsProofs ------------------------
(***************************************************************************)
(* Proofs about SampleWindows, for every value of its constants: types;    *)
(* that what is in use is as new as the last settled commit, unless its    *)
(* request failed or could not be restarted; and that the chunks in use    *)
(* are those of the cells on the screen.                                   *)
(***************************************************************************)
EXTENDS SampleWindows, TLAPS

-----------------------------------------------------------------------------
(* Windows.                                                                *)

(* Row counts and the last row to scroll to are natural numbers.           *)
LEMMA RowsAreNat ==
    ASSUME NEW count \in Nat, NEW columns \in Columns
    PROVE  rowCount(count, columns) \in Nat /\ LastFirst(count, columns) \in Nat
<1>1. columns \in Nat /\ columns > 0 /\ Rows \in Nat
  BY SizesAssumption
<1>2. (count + columns - 1) \div columns \in Nat
  BY <1>1
<1>3. rowCount(count, columns) \in Nat
  BY <1>2 DEF rowCount, Greatest
<1> QED BY <1>1, <1>3 DEF LastFirst, Greatest

Windows == [filter : Filters, first : Nat, columns : Columns]
Caches  == [Keys -> Entry]

(* Keys of counts and of chunks.                                           *)
LEMMA KeysOf ==
    ASSUME NEW f \in Filters
    PROVE  CountKey(f) \in Keys /\ \A o \in Offsets(f) : ChunkKey(f, o) \in Keys
  BY DEF Keys, ChunkKeys

LEMMA ShownIsNat ==
    ASSUME NEW c \in Caches, NEW f \in Filters
    PROVE  Shown(c, f) \in Nat
<1>1. c[CountKey(f)].data \in {None} \cup 0 .. MaxVersion
  BY KeysOf DEF Caches, Entry
<1> QED BY <1>1, CountAssumption DEF Shown

LEMMA ObservedAreKeys ==
    ASSUME NEW w \in Windows, NEW c \in Caches
    PROVE  Observed(w, c) \subseteq Keys
<1>1. w.filter \in Filters
  BY DEF Windows
<1>2. neededOffsets(w, Shown(c, w.filter)) \subseteq Offsets(w.filter)
  BY DEF neededOffsets
<1> QED BY <1>1, <1>2, KeysOf, FiltersAssumption DEF Observed

(* What is observed only depends on the data that is there.                *)
LEMMA ObservedByData ==
    ASSUME NEW w \in Windows, NEW c, NEW d,
           c[CountKey(w.filter)].data = d[CountKey(w.filter)].data
    PROVE  Observed(w, c) = Observed(w, d)
<1>1. Shown(c, w.filter) = Shown(d, w.filter)
  BY DEF Shown
<1> QED BY <1>1 DEF Observed

-----------------------------------------------------------------------------
(* What a render does to the cache: it asks for keys that come into use,   *)
(* unless their data are there and valid, and leaves the others alone.     *)

LEMMA RenderSteps ==
    ASSUME NEW w \in Windows, NEW c \in Caches, RenderWith(w, c)
    PROVE  /\ view' \in Windows /\ cache' \in Caches
           /\ lapsed' = {k \in lapsed : cache'[k].flight = c[k].flight}
           /\ \A k \in Keys : cache'[k].data = c[k].data
           /\ \A k \in Keys : cache'[k].flight = Asked \/ cache'[k] = c[k]
           /\ Observed(view', cache') = Observed(view', c)
           /\ \A k \in Observed(view', c) \ Observed(view, cache) :
                  cache'[k].flight = None => c[k].data # None /\ ~c[k].invalid
<1> DEFINE top     == LastFirst(Shown(c, w.filter), w.columns)
           clamped == [w EXCEPT !.first = Least(w.first, top)]
           new     == Observed(clamped, c) \ Observed(view, cache)
<1>1. PICK aged \in SUBSET (new \cap ChunkKeys) :
          /\ view' = clamped
          /\ cache' = Fetched(c, new, aged)
          /\ lapsed' = {k \in lapsed : cache'[k].flight = c[k].flight}
  BY DEF RenderWith
<1>2. w.filter \in Filters /\ w.first \in Nat /\ w.columns \in Columns
  BY DEF Windows
<1>3. top \in Nat
  BY <1>2, ShownIsNat, RowsAreNat
<1>4. clamped \in Windows
  <2> HIDE DEF top
  <2>1. Least(w.first, top) \in Nat
    BY <1>2, <1>3 DEF Least
  <2> QED BY <2>1 DEF Windows
<1> HIDE DEF clamped, new
<1>5. \A k \in Keys : c[k] \in Entry
  BY DEF Caches
<1>6. ASSUME NEW k \in Keys
      PROVE  /\ cache'[k] \in Entry
             /\ cache'[k].data = c[k].data
             /\ cache'[k].flight = Asked \/ cache'[k] = c[k]
             /\ k \in new /\ cache'[k].flight = None => c[k].data # None /\ ~c[k].invalid
  <2>1. cache'[k] = IF /\ k \in new /\ c[k].flight = None
                       /\ c[k].data = None \/ c[k].invalid \/ k \in aged \/ k \notin ChunkKeys
                    THEN [c[k] EXCEPT !.flight = Asked]
                    ELSE c[k]
    BY <1>1 DEF Fetched
  <2>2. /\ [c[k] EXCEPT !.flight = Asked] \in Entry
        /\ [c[k] EXCEPT !.flight = Asked].data = c[k].data
        /\ [c[k] EXCEPT !.flight = Asked].flight = Asked
    BY <1>5 DEF Entry
  <2>3. Asked # None
    BY NoneAssumption DEF Asked
  <2> QED BY <1>5, <2>1, <2>2, <2>3
<1>7. cache' \in Caches
  <2>1. cache' = [k \in Keys |-> cache'[k]]
    BY <1>1 DEF Fetched
  <2> QED BY <1>6, <2>1 DEF Caches
<1>8. Observed(view', cache') = Observed(view', c)
  <2>1. clamped.filter \in Filters
    BY <1>4 DEF Windows
  <2>2. cache'[CountKey(clamped.filter)].data = c[CountKey(clamped.filter)].data
    BY <1>6, <2>1, KeysOf
  <2> QED BY <1>1, <1>4, <2>2, ObservedByData
<1>9. ASSUME NEW k \in Observed(view', c) \ Observed(view, cache), cache'[k].flight = None
      PROVE  c[k].data # None /\ ~c[k].invalid
  <2>1. k \in Keys /\ k \in new
    BY <1>1, <1>4, ObservedAreKeys DEF new
  <2> QED BY <1>6, <1>9, <2>1
<1> QED BY <1>1, <1>4, <1>6, <1>7, <1>8, <1>9

-----------------------------------------------------------------------------
(* Types.                                                                  *)

(* The entry of a key in a request's states.                               *)
LEMMA EntryUpdates ==
    ASSUME NEW c \in Caches, NEW k \in Keys,
           NEW flight \in {None, Asked} \cup 0 .. MaxVersion
    PROVE  /\ [c EXCEPT ![k].flight = flight] \in Caches
           /\ [c EXCEPT ![k].flight = flight][k] = [c[k] EXCEPT !.flight = flight]
           /\ \A j \in Keys \ {k} : [c EXCEPT ![k].flight = flight][j] = c[j]
<1>1. c \in [Keys -> Entry]
  BY DEF Caches
<1>2. [c[k] EXCEPT !.flight = flight] \in Entry
  BY <1>1 DEF Entry
<1> QED BY <1>1, <1>2 DEF Caches

(* What an answer makes of a key's entry.                                  *)
LEMMA EntryAnswered ==
    ASSUME NEW c \in Caches, NEW k \in Keys, c[k].flight \notin {None, Asked}
    PROVE  LET e == [NoEntry EXCEPT !.data = c[k].flight]
           IN  /\ c[k].flight \in 0 .. MaxVersion
               /\ e.data = c[k].flight /\ e.invalid = FALSE /\ e.flight = None
               /\ [c EXCEPT ![k] = e] \in Caches
               /\ [c EXCEPT ![k] = e][k] = e
               /\ \A j \in Keys \ {k} : [c EXCEPT ![k] = e][j] = c[j]
<1> DEFINE e == [NoEntry EXCEPT !.data = c[k].flight]
<1>1. c \in [Keys -> Entry]
  BY DEF Caches
<1>2. c[k].flight \in 0 .. MaxVersion
  BY <1>1 DEF Entry
<1>3. e \in Entry /\ e.data = c[k].flight /\ e.invalid = FALSE /\ e.flight = None
  BY <1>2 DEF Entry, NoEntry
<1> HIDE DEF e
<1>4. /\ [c EXCEPT ![k] = e] \in Caches
      /\ [c EXCEPT ![k] = e][k] = e
      /\ \A j \in Keys \ {k} : [c EXCEPT ![k] = e][j] = c[j]
  BY <1>1, <1>3 DEF Caches
<1> QED BY <1>2, <1>3, <1>4 DEF e

(* invalidateQueries keeps the data.                                       *)
LEMMA InvalidateSteps ==
    ASSUME NEW c \in Caches
    PROVE  /\ Invalidate(c) \in Caches
           /\ \A k \in Keys :
                  /\ Invalidate(c)[k].data = c[k].data
                  /\ Invalidate(c)[k].invalid <=> c[k].data # None
                  /\ Invalidate(c)[k].flight =
                         IF k \in Observed(view, c) /\ (c[k].data # None \/ c[k].flight = None)
                         THEN Asked ELSE c[k].flight
<1>1. c \in [Keys -> Entry]
  BY DEF Caches
<1> DEFINE flight(k) == IF k \in Observed(view, c) /\ (c[k].data # None \/ c[k].flight = None)
                        THEN Asked ELSE c[k].flight
           entry(k)  == [c[k] EXCEPT !.invalid = c[k].data # None, !.flight = flight(k)]
<1>2. ASSUME NEW k \in Keys
      PROVE  /\ entry(k) \in Entry
             /\ entry(k).data = c[k].data
             /\ entry(k).invalid <=> c[k].data # None
             /\ entry(k).flight = flight(k)
  <2>1. flight(k) \in {None, Asked} \cup 0 .. MaxVersion
    BY <1>1 DEF Entry
  <2> HIDE DEF flight
  <2> QED BY <1>1, <2>1 DEF Entry
<1>3. Invalidate(c) = [k \in Keys |-> entry(k)]
  BY DEF Invalidate
<1> HIDE DEF entry
<1> QED BY <1>2, <1>3 DEF Caches

LEMMA TypeInit == Init => TypeOK
<1> SUFFICES ASSUME Init PROVE TypeOK
  OBVIOUS
<1>1. NoEntry \in Entry /\ [NoEntry EXCEPT !.flight = Asked] \in Entry
  BY DEF NoEntry, Entry
<1> HIDE DEF Entry, NoEntry
<1>2. cache \in [Keys -> Entry]
  BY <1>1 DEF Init
<1>3. view \in Windows
  BY FiltersAssumption DEF Init, Windows
<1>4. version \in 0 .. MaxVersion /\ settled \in 0 .. version /\ pending \subseteq 1 .. version
  BY VersionsAssumption DEF Init
<1> QED BY <1>2, <1>3, <1>4 DEF TypeOK, Init, Windows

LEMMA TypeNext == TypeOK /\ [Next]_vars => TypeOK'
<1> SUFFICES ASSUME TypeOK, [Next]_vars PROVE TypeOK'
  OBVIOUS
<1>1. view \in Windows /\ cache \in Caches /\ lapsed \subseteq Keys
  BY DEF TypeOK, Windows, Caches
<1>2. ASSUME view' \in Windows, cache' \in Caches, lapsed' \subseteq Keys,
             UNCHANGED <<dataset, settled>>
      PROVE  TypeOK'
  BY <1>2 DEF TypeOK, Windows, Caches, dataset
<1>3. ASSUME NEW w \in Windows, NEW c \in Caches, RenderWith(w, c),
             UNCHANGED <<dataset, settled>>
      PROVE  TypeOK'
  BY <1>1, <1>2, <1>3, RenderSteps
<1>4. CASE Scroll
  <2>1. PICK first \in 0 .. LastFirst(Shown(cache, view.filter), view.columns) :
            RenderWith([view EXCEPT !.first = first], cache)
    BY <1>4 DEF Scroll
  <2>2. first \in Nat
    BY <1>1, ShownIsNat, RowsAreNat DEF Windows
  <2>3. [view EXCEPT !.first = first] \in Windows
    BY <1>1, <2>2 DEF Windows
  <2> QED BY <1>1, <1>3, <1>4, <2>1, <2>3 DEF Scroll
<1>5. CASE Resize
  <2>1. PICK columns \in Columns : RenderWith([view EXCEPT !.columns = columns], cache)
    BY <1>5 DEF Resize
  <2>2. [view EXCEPT !.columns = columns] \in Windows
    BY <1>1 DEF Windows
  <2> QED BY <1>1, <1>3, <1>5, <2>1, <2>2 DEF Resize
<1>6. CASE SetFilter
  <2>1. PICK f \in Filters : RenderWith([view EXCEPT !.filter = f], cache)
    BY <1>6 DEF SetFilter
  <2>2. [view EXCEPT !.filter = f] \in Windows
    BY <1>1 DEF Windows
  <2> QED BY <1>1, <1>3, <1>6, <2>1, <2>2 DEF SetFilter
<1>7. ASSUME NEW k \in Keys, Serve(k) PROVE TypeOK'
  <2>1. version \in {None, Asked} \cup 0 .. MaxVersion
    BY DEF TypeOK
  <2> QED BY <1>1, <1>2, <1>7, <2>1, EntryUpdates DEF Serve
<1>8. ASSUME NEW k \in Keys, Deliver(k) PROVE TypeOK'
  <2>1. [cache EXCEPT ![k] = [NoEntry EXCEPT !.data = cache[k].flight]] \in Caches
    BY <1>1, <1>8, EntryAnswered DEF Deliver
  <2> QED BY <1>1, <1>3, <1>8, <2>1 DEF Deliver
<1>9. ASSUME NEW k \in Keys, Fail(k) PROVE TypeOK'
  BY <1>1, <1>2, <1>9, EntryUpdates DEF Fail
<1>10. ASSUME NEW k \in Keys, Evict(k) PROVE TypeOK'
  <2>1. NoEntry \in Entry
    BY DEF NoEntry, Entry
  <2>2. [cache EXCEPT ![k] = NoEntry] \in Caches
    BY <1>1, <2>1 DEF Caches
  <2> QED BY <1>1, <1>2, <1>10, <2>2 DEF Evict
<1>11. ASSUME OwnCommit \/ ForeignCommit PROVE TypeOK'
  <2>1. /\ version < MaxVersion /\ version' = version + 1
        /\ UNCHANGED <<settled, view, cache, lapsed>>
        /\ pending' \subseteq pending \cup {version'}
    BY <1>11 DEF OwnCommit, ForeignCommit
  <2>2. version \in Nat /\ version' \in 0 .. MaxVersion /\ 0 .. version \subseteq 0 .. version'
    BY <2>1, VersionsAssumption DEF TypeOK
  <2>3. version' \in 1 .. version' /\ 1 .. version \subseteq 1 .. version'
    BY <2>1, <2>2
  <2>4. pending' \subseteq 1 .. version'
    BY <2>1, <2>3 DEF TypeOK
  <2> QED BY <2>1, <2>2, <2>4 DEF TypeOK
<1>12. CASE Settle
  <2>1. PICK v \in pending :
            /\ pending' = pending \ {v}
            /\ settled' = Greatest(settled, v)
            /\ cache' = Invalidate(cache)
            /\ lapsed' \subseteq Keys
            /\ UNCHANGED <<version, view>>
    BY <1>12 DEF Settle
  <2>2. settled' \in 0 .. version /\ pending' \subseteq 1 .. version
    BY <2>1, VersionsAssumption DEF TypeOK, Greatest
  <2>3. cache' \in Caches
    BY <1>1, <2>1, InvalidateSteps
  <2> QED BY <1>1, <2>1, <2>2, <2>3 DEF TypeOK, Caches
<1>13. CASE UNCHANGED vars
  BY <1>13 DEF TypeOK, vars, dataset
<1> QED BY <1>4, <1>5, <1>6, <1>7, <1>8, <1>9, <1>10, <1>11, <1>12, <1>13 DEF Next

(* Versions, windows, keys and their data keep their types whatever the    *)
(* filters, columns and sizes are.                                         *)
THEOREM WindowsTypeCorrect == Spec => []TypeOK
  BY TypeInit, TypeNext, PTL DEF Spec

-----------------------------------------------------------------------------
(* What is in use.                                                         *)

(* A key that has not lapsed is either asked for, or on its way from a     *)
(* version that is new enough, or valid and new enough, or not in use.     *)
CurrentEntry(e, inUse, s) ==
    /\ e.flight \notin {None, Asked} => e.flight >= s
    /\ e.flight = None /\ e.data # None /\ ~e.invalid => e.data >= s
    /\ e.flight = None /\ inUse => e.data # None /\ ~e.invalid

WindowInv ==
    /\ TypeOK
    /\ \A k \in Keys \ lapsed : CurrentEntry(cache[k], InUse(k), settled)

LEMMA AskedIsCurrent ==
    ASSUME NEW e, e.flight = Asked, NEW inUse, NEW s
    PROVE  CurrentEntry(e, inUse, s)
  BY NoneAssumption DEF CurrentEntry, Asked

(* Nothing is needed of an empty list.                                     *)
LEMMA NothingNeeded ==
    ASSUME NEW w \in Windows, w.first = 0
    PROVE  neededOffsets(w, 0) = {}
<1>1. /\ w.columns \in Nat /\ w.columns > 0 /\ Rows \in Nat /\ Rows > 0
      /\ CHUNK_SIZE \in Nat /\ CHUNK_SIZE > 0
  <2>1. w.columns \in Columns
    BY DEF Windows
  <2>2. w.columns \in Nat \ {0} /\ Rows \in Nat \ {0} /\ CHUNK_SIZE \in Nat \ {0}
    BY <2>1, SizesAssumption
  <2> QED BY <2>2
<1>2. rowCount(0, w.columns) \in Nat /\ rowCount(0, w.columns) >= 1
  <2>1. (0 + w.columns - 1) \div w.columns \in Int
    BY <1>1
  <2> QED BY <2>1 DEF rowCount, Greatest
<1>3. LastRow(w, 0) + 1 \in Nat
  BY <1>1, <1>2, w.first = 0 DEF LastRow, Least
<1>4. (LastRow(w, 0) + 1) * w.columns \in Nat
  BY <1>1, <1>3
<1>5. Least(0 - 1, (LastRow(w, 0) + 1) * w.columns - 1) = -1
  BY <1>4 DEF Least
<1>6. ChunkOf(-1) < 0
  <2>1. (-1) \div CHUNK_SIZE = -1
    BY <1>1
  <2> QED BY <1>1, <2>1 DEF ChunkOf
<1>7. ChunkOf(w.first * w.columns) = 0
  <2>1. w.first * w.columns = 0
    BY <1>1, w.first = 0
  <2> QED BY <1>1, <2>1 DEF ChunkOf
<1>8. Offsets(w.filter) \subseteq Int
  BY <1>1, CountAssumption DEF Offsets, ChunkOf, Windows
<1>9. \A o \in Offsets(w.filter) : ~(o >= 0 /\ o <= ChunkOf(-1))
  <2>1. ChunkOf(-1) \in Int
    BY <1>1 DEF ChunkOf
  <2> QED BY <1>6, <1>8, <2>1
<1> QED BY <1>5, <1>7, <1>9 DEF neededOffsets

LEMMA WindowInvInit == Init => WindowInv
<1> SUFFICES ASSUME Init PROVE WindowInv
  OBVIOUS
<1>1. TypeOK
  BY TypeInit
<1>2. view \in Windows /\ view.filter = All /\ view.first = 0
  BY <1>1 DEF Init, TypeOK, Windows
<1>3. cache[CountKey(All)].data = None
  BY KeysOf, FiltersAssumption DEF Init, NoEntry
<1>4. Observed(view, cache) = {CountKey(All)}
  BY <1>2, <1>3, NothingNeeded DEF Observed, Shown
<1>5. ASSUME NEW k \in Keys
      PROVE  CurrentEntry(cache[k], InUse(k), settled)
  <2>1. CASE k = CountKey(All)
    <3>1. cache[k].flight = Asked
      BY <2>1 DEF Init, NoEntry
    <3> QED BY <3>1, AskedIsCurrent DEF InUse
  <2>2. CASE k # CountKey(All)
    <3>1. cache[k].flight = None /\ cache[k].data = None /\ ~InUse(k)
      BY <1>4, <2>2 DEF Init, NoEntry, InUse
    <3> QED BY <3>1 DEF CurrentEntry
  <2> QED BY <2>1, <2>2
<1> QED BY <1>1, <1>5 DEF WindowInv

(* A render over entries that are current as far as they were in use.      *)
LEMMA RenderKeeps ==
    ASSUME TypeOK, TypeOK', NEW w \in Windows, NEW c \in Caches, RenderWith(w, c),
           settled' = settled,
           \A k \in Keys \ lapsed : CurrentEntry(c[k], InUse(k), settled)
    PROVE  WindowInv'
<1> SUFFICES ASSUME NEW k \in Keys, k \notin lapsed'
             PROVE  CurrentEntry(cache'[k], InUse(k)', settled)
  BY DEF WindowInv
<1>1. /\ lapsed' = {j \in lapsed : cache'[j].flight = c[j].flight}
      /\ cache'[k].data = c[k].data
      /\ cache'[k].flight = Asked \/ cache'[k] = c[k]
      /\ Observed(view', cache') = Observed(view', c)
      /\ k \in Observed(view', c) \ Observed(view, cache) =>
             (cache'[k].flight = None => c[k].data # None /\ ~c[k].invalid)
  BY RenderSteps
<1>2. CASE cache'[k].flight = Asked
  BY <1>2, AskedIsCurrent DEF InUse
<1>3. CASE cache'[k] = c[k]
  <2>1. k \notin lapsed
    BY <1>1, <1>3
  <2>2. CurrentEntry(c[k], InUse(k), settled)
    BY <2>1
  <2>3. InUse(k)' => InUse(k) \/ (c[k].flight = None => c[k].data # None /\ ~c[k].invalid)
    BY <1>1, <1>3 DEF InUse
  <2> QED BY <1>3, <2>2, <2>3 DEF CurrentEntry
<1> QED BY <1>1, <1>2, <1>3

(* A step that leaves the data, the window and what is in use alone.       *)
LEMMA InUseKept ==
    ASSUME TypeOK, view' = view, \A f \in Filters :
               f = view.filter => cache'[CountKey(f)].data = cache[CountKey(f)].data
    PROVE  Observed(view', cache') = Observed(view, cache)
<1>1. view \in Windows /\ view.filter \in Filters
  BY DEF TypeOK, Windows
<1>2. Observed(view, cache') = Observed(view, cache)
  BY <1>1, ObservedByData
<1> QED BY <1>2

LEMMA WindowInvNext == WindowInv /\ [Next]_vars => WindowInv'
<1> SUFFICES ASSUME WindowInv, [Next]_vars PROVE WindowInv'
  OBVIOUS
<1>1. TypeOK /\ TypeOK'
  BY TypeNext DEF WindowInv
<1>2. view \in Windows /\ cache \in Caches /\ settled \in Nat /\ version \in Nat
      /\ settled <= version
  BY <1>1, VersionsAssumption DEF TypeOK, Windows, Caches
<1>3. \A k \in Keys \ lapsed : CurrentEntry(cache[k], InUse(k), settled)
  BY DEF WindowInv
<1>4. CASE Scroll
  <2>1. PICK first \in 0 .. LastFirst(Shown(cache, view.filter), view.columns) :
            RenderWith([view EXCEPT !.first = first], cache)
    BY <1>4 DEF Scroll
  <2>2. first \in Nat
    BY <1>2, ShownIsNat, RowsAreNat DEF Windows
  <2>3. [view EXCEPT !.first = first] \in Windows
    BY <1>2, <2>2 DEF Windows
  <2> QED BY <1>1, <1>2, <1>3, <1>4, <2>1, <2>3, RenderKeeps DEF Scroll
<1>5. CASE Resize
  <2>1. PICK columns \in Columns : RenderWith([view EXCEPT !.columns = columns], cache)
    BY <1>5 DEF Resize
  <2>2. [view EXCEPT !.columns = columns] \in Windows
    BY <1>2 DEF Windows
  <2> QED BY <1>1, <1>2, <1>3, <1>5, <2>1, <2>2, RenderKeeps DEF Resize
<1>6. CASE SetFilter
  <2>1. PICK f \in Filters : RenderWith([view EXCEPT !.filter = f], cache)
    BY <1>6 DEF SetFilter
  <2>2. [view EXCEPT !.filter = f] \in Windows
    BY <1>2 DEF Windows
  <2> QED BY <1>1, <1>2, <1>3, <1>6, <2>1, <2>2, RenderKeeps DEF SetFilter
<1>7. ASSUME NEW k \in Keys, Serve(k) PROVE WindowInv'
  <2>1. version \in {None, Asked} \cup 0 .. MaxVersion
    BY <1>1 DEF TypeOK
  <2>2. /\ cache'[k] = [cache[k] EXCEPT !.flight = version]
        /\ \A j \in Keys \ {k} : cache'[j] = cache[j]
    BY <1>2, <1>7, <2>1, EntryUpdates DEF Serve
  <2>3. cache[k] \in Entry
    BY <1>2 DEF Caches
  <2>4. cache'[k].data = cache[k].data /\ cache'[k].flight = version
    BY <2>2, <2>3 DEF Entry
  <2>5. Observed(view', cache') = Observed(view, cache)
    BY <1>1, <1>7, <2>2, <2>4, InUseKept, KeysOf DEF Serve
  <2>6. CurrentEntry(cache'[k], InUse(k)', settled)
    BY <1>2, <2>4, NoneAssumption DEF CurrentEntry
  <2>7. settled' = settled /\ lapsed' = lapsed
    BY <1>7 DEF Serve
  <2> QED BY <1>1, <1>3, <2>2, <2>5, <2>6, <2>7 DEF WindowInv, InUse
<1>8. ASSUME NEW k \in Keys, Deliver(k) PROVE WindowInv'
  <2> DEFINE e == [NoEntry EXCEPT !.data = cache[k].flight]
             c == [cache EXCEPT ![k] = e]
  <2>1. cache[k].flight \notin {None, Asked}
    BY <1>8 DEF Deliver
  <2>2. /\ cache[k].flight \in 0 .. MaxVersion
        /\ e.data = cache[k].flight /\ e.invalid = FALSE /\ e.flight = None
        /\ c \in Caches /\ c[k] = e /\ \A j \in Keys \ {k} : c[j] = cache[j]
    BY <1>2, <2>1, EntryAnswered
  <2>3. RenderWith(view, c) /\ settled' = settled
    BY <1>8 DEF Deliver
  <2> HIDE DEF e, c
  <2>4. k \notin lapsed => CurrentEntry(c[k], InUse(k), settled)
    <3>1. k \notin lapsed => cache[k].flight >= settled
      BY <1>3, <2>1 DEF CurrentEntry
    <3>2. cache[k].flight # None
      BY <2>1
    <3> QED BY <2>2, <3>1, <3>2 DEF CurrentEntry
  <2>5. \A j \in Keys \ lapsed : CurrentEntry(c[j], InUse(j), settled)
    BY <1>3, <2>2, <2>4
  <2> QED BY <1>1, <1>2, <2>2, <2>3, <2>5, RenderKeeps
<1>9. ASSUME NEW k \in Keys, Fail(k) PROVE WindowInv'
  <2>1. /\ cache'[k] = [cache[k] EXCEPT !.flight = None]
        /\ \A j \in Keys \ {k} : cache'[j] = cache[j]
    BY <1>2, <1>9, EntryUpdates DEF Fail
  <2>2. cache[k] \in Entry
    BY <1>2 DEF Caches
  <2>3. cache'[k].data = cache[k].data
    BY <2>1, <2>2 DEF Entry
  <2>4. Observed(view', cache') = Observed(view, cache)
    BY <1>1, <1>9, <2>1, <2>3, InUseKept, KeysOf DEF Fail
  <2>5. settled' = settled /\ lapsed' = lapsed \cup {k}
    BY <1>9 DEF Fail
  <2> QED BY <1>1, <1>3, <2>1, <2>4, <2>5 DEF WindowInv, InUse
<1>10. ASSUME NEW k \in Keys, Evict(k) PROVE WindowInv'
  <2>1. cache'[k] = NoEntry /\ \A j \in Keys \ {k} : cache'[j] = cache[j]
    BY <1>2, <1>10 DEF Evict, Caches
  <2>2. k \notin Observed(view, cache)
    BY <1>10 DEF Evict
  <2>3. k # CountKey(view.filter)
    BY <2>2 DEF Observed
  <2>4. Observed(view', cache') = Observed(view, cache)
    BY <1>1, <1>10, <2>1, <2>3, InUseKept, KeysOf DEF Evict
  <2>5. CurrentEntry(cache'[k], InUse(k)', settled)
    BY <2>1, <2>2, <2>4 DEF CurrentEntry, NoEntry, InUse
  <2>6. settled' = settled /\ lapsed' = lapsed \ {k}
    BY <1>10 DEF Evict
  <2> QED BY <1>1, <1>3, <2>1, <2>4, <2>5, <2>6 DEF WindowInv, InUse
<1>11. ASSUME OwnCommit \/ ForeignCommit PROVE WindowInv'
  <2>1. UNCHANGED <<settled, view, cache, lapsed>>
    BY <1>11 DEF OwnCommit, ForeignCommit
  <2> QED BY <1>1, <1>3, <2>1 DEF WindowInv, InUse
<1>12. CASE Settle
  <2>1. /\ cache' = Invalidate(cache) /\ view' = view
        /\ lapsed' = {k \in Keys : /\ cache[k].flight # None
                                  /\ \/ k \notin Observed(view, cache)
                                     \/ cache[k].data = None}
    BY <1>12 DEF Settle
  <2>2. \A k \in Keys :
            /\ cache'[k].data = cache[k].data
            /\ cache'[k].invalid <=> cache[k].data # None
            /\ cache'[k].flight =
                   IF k \in Observed(view, cache) /\ (cache[k].data # None \/ cache[k].flight = None)
                   THEN Asked ELSE cache[k].flight
    BY <1>2, <2>1, InvalidateSteps
  <2>3. Observed(view', cache') = Observed(view, cache)
    BY <1>1, <2>1, <2>2, InUseKept, KeysOf
  <2>4. ASSUME NEW k \in Keys, k \notin lapsed'
        PROVE  CurrentEntry(cache'[k], InUse(k)', settled')
    <3>1. CASE cache'[k].flight = Asked
      BY <3>1, AskedIsCurrent DEF InUse
    <3>2. CASE cache'[k].flight # Asked
      <4>1. cache'[k].flight = None /\ k \notin Observed(view, cache)
        BY <2>1, <2>2, <2>4, <3>2
      <4> QED BY <2>2, <2>3, <4>1 DEF CurrentEntry, InUse
    <3> QED BY <3>1, <3>2
  <2> QED BY <1>1, <2>4 DEF WindowInv
<1>13. CASE UNCHANGED vars
  BY <1>1, <1>3, <1>13 DEF WindowInv, InUse, vars
<1> QED BY <1>4, <1>5, <1>6, <1>7, <1>8, <1>9, <1>10, <1>11, <1>12, <1>13 DEF Next

(* What is in use with nothing under way is as new as the last commit this *)
(* dashboard saw settle, whatever the filters, the windows, the commits of *)
(* others and the order of answers: only a failed request, or one that was *)
(* under way and not restarted, leaves older data.                         *)
THEOREM SettledDataAreShown == Spec => []SettledIsShown
<1>1. WindowInv => SettledIsShown
  BY DEF WindowInv, CurrentEntry, SettledIsShown
<1> QED BY <1>1, WindowInvInit, WindowInvNext, PTL DEF Spec
-----------------------------------------------------------------------------
(* Rows, columns and chunks.                                               *)

LEMMA DivBounds ==
    ASSUME NEW n \in Int, NEW d \in Nat \ {0}
    PROVE  /\ n \div d \in Int
           /\ (n \div d) * d \in Int
           /\ (n \div d) * d <= n /\ n < (n \div d) * d + d
  BY SMTT(30)

LEMMA TimesKeepsOrder ==
    ASSUME NEW a \in Int, NEW b \in Int, NEW d \in Nat \ {0}, a <= b
    PROVE  a * d \in Int /\ b * d \in Int /\ a * d <= b * d
  BY SMTT(30)

LEMMA TimesPlusOne ==
    ASSUME NEW a \in Int, NEW d \in Nat \ {0}
    PROVE  (a + 1) * d = a * d + d /\ a * d \in Int
  BY SMTT(30)

(* A quotient is the only number whose multiple is within a divisor.       *)
LEMMA DivIsUnique ==
    ASSUME NEW n \in Int, NEW d \in Nat \ {0}, NEW q \in Int,
           q * d <= n, n < q * d + d
    PROVE  n \div d = q
<1> DEFINE p == n \div d
<1>1. p \in Int /\ p * d \in Int /\ q * d \in Int /\ p * d <= n /\ n < p * d + d
  BY DivBounds, TimesPlusOne
<1> HIDE DEF p
<1>2. (p + 1) * d = p * d + d /\ (q + 1) * d = q * d + d
  BY <1>1, TimesPlusOne
<1>3. ~(p + 1 <= q)
  <2>1. p + 1 <= q => (p + 1) * d <= q * d
    BY <1>1, TimesKeepsOrder
  <2> QED BY <1>1, <1>2, <2>1
<1>4. ~(q + 1 <= p)
  <2>1. q + 1 <= p => (q + 1) * d <= p * d
    BY <1>1, TimesKeepsOrder
  <2> QED BY <1>1, <1>2, <2>1
<1> QED BY <1>1, <1>3, <1>4 DEF p

(* A chunk's offset is its first sample, and grows with the position.      *)
LEMMA ChunkBounds ==
    ASSUME NEW i \in Int
    PROVE  /\ ChunkOf(i) \in Int
           /\ ChunkOf(i) <= i /\ i < ChunkOf(i) + CHUNK_SIZE
  BY SizesAssumption, DivBounds DEF ChunkOf

LEMMA ChunkKeepsOrder ==
    ASSUME NEW i \in Int, NEW j \in Int, i <= j
    PROVE  ChunkOf(i) <= ChunkOf(j)
<1> DEFINE p == i \div CHUNK_SIZE
           q == j \div CHUNK_SIZE
<1>1. CHUNK_SIZE \in Nat \ {0}
  BY SizesAssumption
<1>2. /\ p \in Int /\ p * CHUNK_SIZE \in Int /\ p * CHUNK_SIZE <= i
      /\ q \in Int /\ q * CHUNK_SIZE \in Int /\ j < q * CHUNK_SIZE + CHUNK_SIZE
  BY <1>1, DivBounds
<1> HIDE DEF p, q
<1>3. ~(q + 1 <= p)
  <2>1. q + 1 <= p => (q + 1) * CHUNK_SIZE <= p * CHUNK_SIZE
    BY <1>1, <1>2, TimesKeepsOrder
  <2>2. (q + 1) * CHUNK_SIZE = q * CHUNK_SIZE + CHUNK_SIZE
    BY <1>1, <1>2, TimesPlusOne
  <2> QED BY <1>1, <1>2, <2>1, <2>2
<1>4. p <= q
  BY <1>2, <1>3
<1>5. p * CHUNK_SIZE <= q * CHUNK_SIZE
  BY <1>1, <1>2, <1>4, TimesKeepsOrder
<1> QED BY <1>5 DEF ChunkOf, p, q

LEMMA OffsetsAreChunks ==
    ASSUME NEW f \in Filters, NEW o \in Offsets(f)
    PROVE  o \in Nat /\ ChunkOf(o) = o
<1>1. PICK v \in 0 .. MaxVersion : \E i \in 0 .. Count[f][v] - 1 : o = ChunkOf(i)
  BY DEF Offsets
<1>2. PICK i \in 0 .. Count[f][v] - 1 : o = ChunkOf(i)
  BY <1>1
<1>3. i \in Nat /\ CHUNK_SIZE \in Nat \ {0}
  BY CountAssumption, SizesAssumption
<1> DEFINE q == i \div CHUNK_SIZE
<1>4. q \in Int /\ q * CHUNK_SIZE \in Int
  BY <1>3, DivBounds
<1>5. o \in Nat
  BY <1>2, <1>3 DEF ChunkOf
<1>6. o = q * CHUNK_SIZE
  BY <1>2 DEF ChunkOf
<1> HIDE DEF q
<1>7. o \div CHUNK_SIZE = q
  BY <1>3, <1>4, <1>5, <1>6, DivIsUnique
<1> QED BY <1>5, <1>6, <1>7 DEF ChunkOf

(* Of the offset of a position's chunk and the offset of a chunk that      *)
(* starts no later than the position, the first is the larger.             *)
LEMMA SameChunk ==
    ASSUME NEW f \in Filters, NEW o \in Offsets(f), NEW i \in Int,
           ChunkOf(i) <= o, o <= i
    PROVE  ChunkOf(i) = o
<1>1. o \in Int /\ ChunkOf(o) = o
  BY OffsetsAreChunks
<1>2. o <= ChunkOf(i)
  BY <1>1, ChunkKeepsOrder
<1> QED BY <1>1, <1>2, ChunkBounds

(* The first rendered row has a cell with a sample, if there is any.       *)
LEMMA FirstRowIsFilled ==
    ASSUME NEW count \in Nat, NEW columns \in Columns, NEW first \in Nat,
           first <= LastFirst(count, columns)
    PROVE  /\ first + 1 <= rowCount(count, columns)
           /\ count > 0 => first * columns <= count - 1
<1> DEFINE q == (count + columns - 1) \div columns
           rows == rowCount(count, columns)
<1>1. columns \in Nat \ {0} /\ Rows \in Nat \ {0}
  BY SizesAssumption
<1>2. q \in Int /\ q * columns \in Int /\ q * columns <= count + columns - 1
  BY <1>1, DivBounds
<1>3. rows = Greatest(1, q)
  BY DEF rowCount
<1> HIDE DEF q
<1>4. rows \in Nat /\ rows >= 1
  BY <1>2, <1>3 DEF Greatest
<1>5. first <= Greatest(0, rows - Rows)
  BY DEF LastFirst
<1> HIDE DEF rows
<1>6. first + 1 <= rows
  BY <1>1, <1>4, <1>5 DEF Greatest
<1>7. ASSUME count > 0 PROVE first * columns <= count - 1
  <2>1. CASE first = 0
    <3>1. first * columns = 0
      BY <1>1, <2>1
    <3> QED BY <1>7, <3>1
  <2>2. CASE first # 0
    <3>1. first + 1 <= q
      BY <1>2, <1>3, <1>6, <2>2 DEF Greatest
    <3>2. (first + 1) * columns <= q * columns
      BY <1>1, <1>2, <3>1, TimesKeepsOrder
    <3>3. (first + 1) * columns = first * columns + columns /\ first * columns \in Int
      BY <1>1, TimesPlusOne
    <3> QED BY <1>1, <1>2, <3>2, <3>3
  <2> QED BY <2>1, <2>2
<1> QED BY <1>6, <1>7 DEF rows

(* The offsets of a window that does not go beyond the last row are those  *)
(* of its cells with a sample.                                             *)
LEMMA OffsetsOfCells ==
    ASSUME NEW w \in Windows, NEW count \in Nat,
           \A i \in 0 .. count - 1 : ChunkOf(i) \in Offsets(w.filter),
           w.first <= LastFirst(count, w.columns)
    PROVE  neededOffsets(w, count) =
               {ChunkOf(i) : i \in {i \in 0 .. count - 1 :
                                       /\ i >= w.first * w.columns
                                       /\ i \div w.columns <= LastRow(w, count)}}
<1> DEFINE columns == w.columns
           start == w.first * columns
           row   == LastRow(w, count)
           end   == (row + 1) * columns - 1
           last  == Least(count - 1, end)
<1>1. /\ columns \in Nat \ {0} /\ w.columns \in Columns /\ w.first \in Nat
      /\ w.filter \in Filters /\ Rows \in Nat \ {0}
  BY SizesAssumption DEF Windows
<1>2. /\ w.first + 1 <= rowCount(count, w.columns)
      /\ count > 0 => start <= count - 1
      /\ rowCount(count, w.columns) \in Nat
  BY <1>1, FirstRowIsFilled, RowsAreNat
<1>3. row \in Int /\ w.first <= row
  BY <1>1, <1>2 DEF LastRow, Least
<1> HIDE DEF row
<1>4. start \in Int /\ row * columns \in Int /\ start <= row * columns
  BY <1>1, <1>3, TimesKeepsOrder
<1>5. end = row * columns + columns - 1
  BY <1>1, <1>3, TimesPlusOne
<1>6. end \in Int /\ start <= end
  BY <1>1, <1>4, <1>5
<1>7. neededOffsets(w, count) =
          {o \in Offsets(w.filter) : o >= ChunkOf(start) /\ o <= ChunkOf(last)}
  BY DEF neededOffsets, row
<1> HIDE DEF start
<1>8. ASSUME NEW i \in 0 .. count - 1, i >= start, i \div columns <= row
      PROVE  ChunkOf(i) \in neededOffsets(w, count)
  <2> DEFINE q == i \div columns
  <2> i \in Int
    OBVIOUS
  <2>1. q \in Int /\ q * columns \in Int /\ i < q * columns + columns
    BY <1>1, DivBounds
  <2>2. q <= row
    BY <1>8
  <2> HIDE DEF q
  <2>3. q * columns <= row * columns
    BY <1>1, <1>3, <2>1, <2>2, TimesKeepsOrder
  <2>4. i <= end
    BY <1>1, <1>4, <1>5, <2>1, <2>3
  <2>5. last \in Int /\ i <= last
    <3> HIDE DEF end
    <3> QED BY <1>6, <2>4 DEF Least
  <2> HIDE DEF last
  <2>6. ChunkOf(start) <= ChunkOf(i) /\ ChunkOf(i) <= ChunkOf(last)
    BY <1>4, <1>8, <2>5, ChunkKeepsOrder
  <2>7. ChunkOf(start) \in Int /\ ChunkOf(i) \in Int /\ ChunkOf(last) \in Int
    BY <1>4, <2>5, ChunkBounds
  <2> QED BY <1>7, <2>6, <2>7
<1>9. ASSUME NEW o \in neededOffsets(w, count)
      PROVE  \E i \in 0 .. count - 1 : i >= start /\ i \div columns <= row /\ o = ChunkOf(i)
  <2>1. o \in Offsets(w.filter) /\ o >= ChunkOf(start) /\ o <= ChunkOf(last)
    BY <1>7
  <2>2. o \in Nat
    BY <1>1, <2>1, OffsetsAreChunks
  <2>3. last \in Int /\ last <= count - 1 /\ last <= end
        /\ (count > 0 => start <= last)
    <3> HIDE DEF end
    <3> QED BY <1>2, <1>6 DEF Least
  <2> HIDE DEF last
  <2>4. o <= last /\ count > 0
    BY <2>1, <2>2, <2>3, ChunkBounds
  <2>5. PICK i \in Int : /\ i = Greatest(o, start)
                         /\ o <= i /\ start <= i /\ i <= last /\ (i = o \/ i = start)
    BY <1>4, <2>2, <2>3, <2>4 DEF Greatest
  <2>6. ChunkOf(i) = o
    <3>1. CASE i = o
      BY <1>1, <2>1, <3>1, OffsetsAreChunks
    <3>2. CASE i = start
      <4>1. ChunkOf(i) <= o /\ o <= i
        BY <2>1, <2>2, <2>5, <3>2, <1>4, ChunkBounds
      <4> QED BY <1>1, <2>1, <4>1, SameChunk
    <3> QED BY <2>5, <3>1, <3>2
  <2>7. i \div columns <= row
    <3> DEFINE q == i \div columns
    <3>1. q \in Int /\ q * columns \in Int /\ q * columns <= i
      BY <1>1, DivBounds
    <3> HIDE DEF q
    <3>2. q * columns < row * columns + columns
      BY <1>1, <1>4, <1>5, <2>3, <2>5, <3>1
    <3>3. ~(row + 1 <= q)
      <4>1. row + 1 <= q => (row + 1) * columns <= q * columns
        BY <1>1, <1>3, <3>1, TimesKeepsOrder
      <4>2. (row + 1) * columns = row * columns + columns
        BY <1>1, <1>3, TimesPlusOne
      <4> QED BY <1>1, <1>4, <3>1, <3>2, <4>1, <4>2
    <3> QED BY <1>3, <3>1, <3>3 DEF q
  <2>8. i \in 0 .. count - 1
    BY <2>2, <2>3, <2>5
  <2> QED BY <2>5, <2>6, <2>7, <2>8
<1>10. neededOffsets(w, count) \subseteq
           {ChunkOf(i) : i \in {i \in 0 .. count - 1 : i >= start /\ i \div columns <= row}}
  BY <1>9
<1>11. {ChunkOf(i) : i \in {i \in 0 .. count - 1 : i >= start /\ i \div columns <= row}}
           \subseteq neededOffsets(w, count)
  BY <1>8
<1> QED BY <1>10, <1>11 DEF start, row

-----------------------------------------------------------------------------
(* The window never starts beyond the last row to scroll to.               *)

WindowFits == view.first <= LastFirst(Shown(cache, view.filter), view.columns)

LEMMA ShownByData ==
    ASSUME NEW f, NEW c, NEW d, c[CountKey(f)].data = d[CountKey(f)].data
    PROVE  Shown(c, f) = Shown(d, f)
  BY DEF Shown

LEMMA RenderFits ==
    ASSUME NEW w \in Windows, NEW c \in Caches, RenderWith(w, c)
    PROVE  WindowFits'
<1> DEFINE top == LastFirst(Shown(c, w.filter), w.columns)
<1>1. w.filter \in Filters /\ w.first \in Nat /\ w.columns \in Columns
  BY DEF Windows
<1>2. top \in Nat
  BY <1>1, ShownIsNat, RowsAreNat
<1>3. view' = [w EXCEPT !.first = Least(w.first, top)]
  BY DEF RenderWith
<1>4. /\ view'.filter = w.filter /\ view'.columns = w.columns
      /\ view'.first = Least(w.first, top)
  <2> HIDE DEF top
  <2> QED BY <1>3 DEF Windows
<1>5. Shown(cache', w.filter) = Shown(c, w.filter)
  BY <1>1, RenderSteps, KeysOf, ShownByData
<1>6. LastFirst(Shown(cache', view'.filter), view'.columns) = top
  BY <1>4, <1>5
<1> HIDE DEF top
<1>7. view'.first <= top
  BY <1>1, <1>2, <1>4 DEF Least
<1> QED BY <1>6, <1>7 DEF WindowFits

LEMMA WindowFitsInit == Init => WindowFits
<1> SUFFICES ASSUME Init PROVE WindowFits
  OBVIOUS
<1>1. TypeOK
  BY TypeInit
<1>2. view.first = 0 /\ view.filter \in Filters /\ view.columns \in Columns
  BY FiltersAssumption DEF Init
<1>3. LastFirst(Shown(cache, view.filter), view.columns) \in Nat
  BY <1>1, <1>2, ShownIsNat, RowsAreNat DEF TypeOK, Caches
<1> QED BY <1>2, <1>3 DEF WindowFits

LEMMA WindowFitsNext == TypeOK /\ WindowFits /\ [Next]_vars => WindowFits'
<1> SUFFICES ASSUME TypeOK, WindowFits, [Next]_vars PROVE WindowFits'
  OBVIOUS
<1>1. view \in Windows /\ cache \in Caches /\ view.filter \in Filters
  BY DEF TypeOK, Windows, Caches
<1>2. ASSUME UNCHANGED view,
             cache'[CountKey(view.filter)].data = cache[CountKey(view.filter)].data
      PROVE  WindowFits'
  <2>1. Shown(cache', view.filter) = Shown(cache, view.filter)
    BY <1>2, ShownByData
  <2> QED BY <1>2, <2>1 DEF WindowFits
<1>3. CountKey(view.filter) \in Keys
  BY <1>1, KeysOf
<1>4. CASE Scroll
  <2>1. PICK first \in 0 .. LastFirst(Shown(cache, view.filter), view.columns) :
            RenderWith([view EXCEPT !.first = first], cache)
    BY <1>4 DEF Scroll
  <2>2. first \in Nat
    BY <1>1, ShownIsNat, RowsAreNat DEF Windows
  <2>3. [view EXCEPT !.first = first] \in Windows
    BY <1>1, <2>2 DEF Windows
  <2> QED BY <1>1, <2>1, <2>3, RenderFits
<1>5. CASE Resize
  <2>1. PICK columns \in Columns : RenderWith([view EXCEPT !.columns = columns], cache)
    BY <1>5 DEF Resize
  <2>2. [view EXCEPT !.columns = columns] \in Windows
    BY <1>1 DEF Windows
  <2> QED BY <1>1, <2>1, <2>2, RenderFits
<1>6. CASE SetFilter
  <2>1. PICK f \in Filters : RenderWith([view EXCEPT !.filter = f], cache)
    BY <1>6 DEF SetFilter
  <2>2. [view EXCEPT !.filter = f] \in Windows
    BY <1>1 DEF Windows
  <2> QED BY <1>1, <2>1, <2>2, RenderFits
<1>7. ASSUME NEW k \in Keys, Serve(k) \/ Fail(k) PROVE WindowFits'
  <2>1. PICK flight \in {None, Asked} \cup 0 .. MaxVersion :
            cache' = [cache EXCEPT ![k].flight = flight] /\ UNCHANGED view
    BY <1>7 DEF Serve, Fail, TypeOK
  <2>2. cache'[k].data = cache[k].data /\ \A j \in Keys \ {k} : cache'[j] = cache[j]
    BY <1>1, <2>1, EntryUpdates DEF Caches, Entry
  <2> QED BY <1>2, <1>3, <2>1, <2>2
<1>8. ASSUME NEW k \in Keys, Deliver(k) PROVE WindowFits'
  <2>1. [cache EXCEPT ![k] = [NoEntry EXCEPT !.data = cache[k].flight]] \in Caches
    BY <1>1, <1>8, EntryAnswered DEF Deliver
  <2> QED BY <1>1, <1>8, <2>1, RenderFits DEF Deliver
<1>9. ASSUME NEW k \in Keys, Evict(k) PROVE WindowFits'
  <2>1. k # CountKey(view.filter)
    BY <1>9 DEF Evict, Observed
  <2>2. cache'[CountKey(view.filter)] = cache[CountKey(view.filter)]
    BY <1>1, <1>3, <1>9, <2>1 DEF Evict, Caches
  <2> QED BY <1>2, <1>9, <2>2 DEF Evict
<1>10. CASE OwnCommit \/ ForeignCommit
  BY <1>2, <1>10 DEF OwnCommit, ForeignCommit
<1>11. CASE Settle
  <2>1. cache' = Invalidate(cache) /\ UNCHANGED view
    BY <1>11 DEF Settle
  <2> QED BY <1>1, <1>2, <1>3, <2>1, InvalidateSteps
<1>12. CASE UNCHANGED vars
  BY <1>2, <1>12 DEF vars
<1> QED BY <1>4, <1>5, <1>6, <1>7, <1>8, <1>9, <1>10, <1>11, <1>12 DEF Next

(* A count that is shown is one of a version, so its samples' chunks exist. *)
LEMMA ShownHaveChunks ==
    ASSUME NEW c \in Caches, NEW f \in Filters, NEW i \in 0 .. Shown(c, f) - 1
    PROVE  ChunkOf(i) \in Offsets(f)
<1>1. c[CountKey(f)].data \in {None} \cup 0 .. MaxVersion
  BY KeysOf DEF Caches, Entry
<1>2. c[CountKey(f)].data # None
  BY DEF Shown
<1>3. PICK v \in 0 .. MaxVersion : i \in 0 .. Count[f][v] - 1
  BY <1>1, <1>2 DEF Shown
<1> QED BY <1>3 DEF Offsets

(* The chunks in use are those of the cells on the screen, whatever the    *)
(* numbers of samples, columns and rows and the size of a chunk are: the   *)
(* offsets that PixiGrid.tsx:131 computes leave out no cell and add none.  *)
THEOREM VisibleIsNeeded == Spec => []NeededIsVisible
<1>1. TypeOK /\ WindowFits => NeededIsVisible
  <2> SUFFICES ASSUME TypeOK, WindowFits PROVE NeededIsVisible
    OBVIOUS
  <2> DEFINE f     == view.filter
             count == Shown(cache, f)
             cells == {i \in 0 .. count - 1 :
                          /\ i >= view.first * view.columns
                          /\ i \div view.columns <= LastRow(view, count)}
  <2>1. view \in Windows /\ cache \in Caches /\ f \in Filters /\ count \in Nat
    BY ShownIsNat DEF TypeOK, Windows, Caches
  <2>2. \A i \in 0 .. count - 1 : ChunkOf(i) \in Offsets(f)
    BY <2>1, ShownHaveChunks
  <2>3. view.first <= LastFirst(count, view.columns)
    BY DEF WindowFits
  <2>4. neededOffsets(view, count) = {ChunkOf(i) : i \in cells}
    <3> HIDE DEF count
    <3> QED BY <2>1, <2>2, <2>3, OffsetsOfCells
  <2>5. neededOffsets(view, count) \subseteq Offsets(f)
    BY DEF neededOffsets
  <2>6. \A g \in Filters : CountKey(g) \notin ChunkKeys
    BY DEF CountKey, ChunkKey, ChunkKeys
  <2>7. \A o \in Offsets(f) : ChunkKey(f, o) \in ChunkKeys
    BY <2>1 DEF ChunkKeys
  <2>8. Observed(view, cache) =
            {CountKey(All), CountKey(f)} \cup {ChunkKey(f, o) : o \in neededOffsets(view, count)}
    BY DEF Observed
  <2>9. NeededIsVisible <=>
            {ChunkKey(f, ChunkOf(i)) : i \in cells} = Observed(view, cache) \cap ChunkKeys
    BY DEF NeededIsVisible
  <2> HIDE DEF f, count, cells
  <2>10. Observed(view, cache) \cap ChunkKeys = {ChunkKey(f, o) : o \in neededOffsets(view, count)}
    BY <2>1, <2>5, <2>6, <2>7, <2>8, FiltersAssumption
  <2>11. {ChunkKey(f, o) : o \in neededOffsets(view, count)} =
             {ChunkKey(f, ChunkOf(i)) : i \in cells}
    BY <2>4
  <2> QED BY <2>9, <2>10, <2>11
<1>2. TypeOK /\ [Next]_vars => TypeOK'
  BY TypeNext
<1>3. TypeOK /\ WindowFits /\ [Next]_vars => WindowFits'
  BY WindowFitsNext
<1> QED BY <1>1, <1>2, <1>3, TypeInit, WindowFitsInit, PTL DEF Spec
=============================================================================
