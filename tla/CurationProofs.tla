---------------------------- MODULE CurationProofs ----------------------------
(***************************************************************************)
(* Proofs about Curation, for any clients and any bounds: an undo that     *)
(* names its HEAD erases a commit its client was shown, a look at the list *)
(* erases at most one, and the history is exactly what was not undone.     *)
(***************************************************************************)
EXTENDS Curation, SequenceTheorems, WellFoundedInduction, TLAPS

-----------------------------------------------------------------------------
(* The invariant.                                                          *)

Undone == {e.commit : e \in erased}
Alive  == Commits \ Undone

(* The commits that are not undone form a line that ends at HEAD: no undo  *)
(* brings HEAD back to a commit that was undone.                           *)
LineInv ==
    /\ cur \notin Undone
    /\ \A c \in Alive : c <= cur /\ parents[c] \notin Undone
    /\ \A c \in Commits : parents[c] < c
    /\ \A c, d \in Alive : c < d => c <= parents[d]
    /\ \A d, e \in erased : d.commit = e.commit => d = e

(* What undos that name a HEAD are based on: jobs in the queue, and those  *)
(* that had their effect.                                                  *)
ClaimOf(j) == [by |-> j.by, look |-> j.look, expected |-> j.expected]
Claims     == {ClaimOf(j) : j \in {i \in queue \cup erased : i.expected # 0}}

(* A look at the list gave its client one HEAD, which the client knows     *)
(* until its next look.                                                    *)
LooksInv ==
    /\ \A k \in Clients : known[k] # 0 => known[k] \in shown[k]
    /\ \A c \in Claims :
           /\ c.expected \in shown[c.by]
           /\ c.look <= looks[c.by]
           /\ c.look = looks[c.by] => c.expected = known[c.by]
    /\ \A c, d \in Claims : c.by = d.by /\ c.look = d.look => c.expected = d.expected

NamedInv == \A e \in erased : e.expected # 0 => e.commit = e.expected

BoundsInv ==
    /\ Len(parents) <= MaxCommits
    /\ \A j \in queue : j.id <= requests
    /\ \A k \in Clients : reading[k].on => looks[k] < MaxLooks

CurationInv == TypeOK /\ BoundsInv /\ LineInv /\ LooksInv /\ NamedInv

-----------------------------------------------------------------------------
LEMMA CurationInit == Init => CurationInv
<1> SUFFICES ASSUME Init PROVE CurationInv
  OBVIOUS
<1>1. parents = <<>> /\ versions = <<>> /\ cur = 0 /\ data = NoData
  BY DEF Init, Dataset!Init
<1>2. Commits = {} /\ Len(parents) = 0
  BY <1>1 DEF Commits
<1>3. {MaxCommits, MaxLooks, MaxRequests} \subseteq Nat
  BY LimitsAssumption
<1>4. queue = {} /\ erased = {} /\ \A k \in Clients : known[k] = 0
  BY DEF Init
<1>5. TypeOK
  <2>1. parents \in Seq(0 .. MaxCommits) /\ versions \in Seq({NoData})
    BY <1>1, EmptySeq
  <2>2. NotReading \in [on : BOOLEAN, head : 0 .. Len(parents)]
    BY <1>2 DEF NotReading
  <2> QED BY <1>1, <1>2, <1>3, <1>4, <2>1, <2>2 DEF Init, TypeOK
<1>6. Claims = {} /\ Undone = {}
  BY <1>4 DEF Claims, Undone
<1>7. BoundsInv
  BY <1>2, <1>3, <1>4 DEF BoundsInv, Init, NotReading
<1>8. LineInv
  BY <1>1, <1>2, <1>4, <1>6 DEF LineInv, Alive
<1>9. LooksInv /\ NamedInv
  BY <1>4, <1>6 DEF LooksInv, NamedInv
<1> QED BY <1>5, <1>7, <1>8, <1>9 DEF CurationInv

(* Numbers that the invariant bounds.                                      *)
LEMMA Numbers ==
    ASSUME CurationInv
    PROVE  /\ MaxCommits \in Nat /\ MaxLooks \in Nat /\ MaxRequests \in Nat
           /\ Len(parents) \in Nat /\ Len(parents) <= MaxCommits
           /\ cur \in Nat /\ cur <= Len(parents) /\ requests \in Nat
           /\ \A c \in Commits : c \in Nat /\ c # 0
           /\ \A c \in Commits : parents[c] \in Nat
<1>1. MaxCommits \in Nat /\ MaxLooks \in Nat /\ MaxRequests \in Nat
  BY LimitsAssumption
<1>2. Len(parents) \in Nat /\ parents \in Seq(0 .. MaxCommits)
  BY LenProperties DEF CurationInv, TypeOK
<1>3. \A c \in 1 .. Len(parents) : parents[c] \in 0 .. MaxCommits
  BY <1>2, ElementOfSeq
<1> QED BY <1>1, <1>2, <1>3 DEF CurationInv, TypeOK, BoundsInv, Commits

-----------------------------------------------------------------------------
(* Looks.                                                                  *)

LEMMA ReadHeadKeeps ==
    ASSUME CurationInv, NEW k \in Clients, ReadHead(k)
    PROVE  CurationInv'
<1>1. /\ UNCHANGED <<data, versions, parents, cur, queue, requests, looks, known, shown, erased>>
      /\ reading' = [reading EXCEPT ![k] = [on |-> TRUE, head |-> cur]]
      /\ looks[k] < MaxLooks
  BY DEF ReadHead, dataset
<1>2. TypeOK'
  BY <1>1 DEF CurationInv, TypeOK, Commits
<1>3. BoundsInv'
  BY <1>1 DEF CurationInv, TypeOK, BoundsInv
<1> QED BY <1>1, <1>2, <1>3 DEF CurationInv, LineInv, LooksInv, NamedInv, Claims, ClaimOf,
                                Alive, Undone, Commits

LEMMA ReadChainKeeps ==
    ASSUME CurationInv, NEW k \in Clients, ReadChain(k)
    PROVE  CurationInv'
<1>1. reading[k] \in [on : BOOLEAN, head : 0 .. Len(parents)]
  BY DEF CurationInv, TypeOK
<1>2. PICK marked \in 0 .. Len(parents) : marked = Marked(k)
  BY <1>1, Numbers DEF Marked
<1>3. /\ known' = [known EXCEPT ![k] = marked]
      /\ shown' = [shown EXCEPT ![k] = @ \cup ({marked} \ {0})]
      /\ reading' = [reading EXCEPT ![k] = NotReading]
      /\ looks' = [looks EXCEPT ![k] = @ + 1]
      /\ UNCHANGED <<data, versions, parents, cur, queue, requests, erased>>
      /\ reading[k].on
  BY <1>2 DEF ReadChain, dataset
<1>4. /\ TypeOK /\ looks[k] \in Nat /\ looks[k] < MaxLooks /\ MaxLooks \in Nat
      /\ \A c \in Clients : looks[c] \in Nat
  BY <1>3, Numbers DEF CurationInv, TypeOK, BoundsInv
<1>5. {marked} \ {0} \subseteq Commits
  BY Numbers DEF Commits
<1>6. /\ known'[k] = marked /\ looks'[k] = looks[k] + 1
      /\ shown'[k] = shown[k] \cup ({marked} \ {0})
      /\ \A c \in Clients \ {k} :
             known'[c] = known[c] /\ looks'[c] = looks[c] /\ shown'[c] = shown[c]
  BY <1>3, <1>4 DEF TypeOK
<1>7. TypeOK'
  <2>1. NotReading \in [on : BOOLEAN, head : 0 .. Len(parents)]
    BY Numbers DEF NotReading
  <2>2. /\ reading' \in [Clients -> [on : BOOLEAN, head : 0 .. Len(parents)]]
        /\ known' \in [Clients -> 0 .. Len(parents)]
    BY <1>3, <1>4, <2>1 DEF TypeOK
  <2>3. looks' \in [Clients -> 0 .. MaxLooks]
    BY <1>3, <1>4 DEF TypeOK
  <2>4. shown' \in [Clients -> SUBSET Commits]
    BY <1>3, <1>4, <1>5 DEF TypeOK
  <2> QED BY <1>3, <1>4, <2>2, <2>3, <2>4 DEF TypeOK, Commits
<1>8. BoundsInv'
  <2>1. ~reading'[k].on /\ \A c \in Clients \ {k} : reading'[c] = reading[c]
    BY <1>3, <1>4 DEF TypeOK, NotReading
  <2> QED BY <1>3, <1>6, <2>1 DEF CurationInv, BoundsInv
<1>9. LooksInv'
  <2>1. Claims' = Claims /\ \A c \in Claims : c.by \in Clients
    BY <1>3, <1>4 DEF Claims, ClaimOf, TypeOK, Queued
  <2>2. \A c \in Clients : known'[c] # 0 => known'[c] \in shown'[c]
    BY <1>6 DEF CurationInv, LooksInv
  <2>3. ASSUME NEW c \in Claims
        PROVE  /\ c.expected \in shown'[c.by]
               /\ c.look <= looks'[c.by]
               /\ c.look = looks'[c.by] => c.expected = known'[c.by]
    <3>1. c.by \in Clients /\ c.look \in Nat
      BY <1>4, <2>1 DEF Claims, ClaimOf, TypeOK, Queued
    <3>2. /\ c.expected \in shown[c.by] /\ c.look <= looks[c.by]
          /\ c.look = looks[c.by] => c.expected = known[c.by]
      BY DEF CurationInv, LooksInv
    <3> QED BY <1>4, <1>6, <3>1, <3>2
  <2>4. \A c, d \in Claims : c.by = d.by /\ c.look = d.look => c.expected = d.expected
    BY DEF CurationInv, LooksInv
  <2> QED BY <2>1, <2>2, <2>3, <2>4 DEF LooksInv
<1>10. LineInv' /\ NamedInv'
  BY <1>3 DEF CurationInv, LineInv, NamedInv, Alive, Undone, Commits
<1> QED BY <1>7, <1>8, <1>9, <1>10 DEF CurationInv

-----------------------------------------------------------------------------
(* Requests.                                                               *)

LEMMA EnqueueKeeps ==
    ASSUME CurationInv, NEW k \in Clients, NEW kind \in {"commit", "undo"},
           NEW expected \in {0, known[k]}, Enqueue(k, kind, expected)
    PROVE  CurationInv'
<1> DEFINE job == [id |-> requests + 1, by |-> k, kind |-> kind,
                   expected |-> expected, look |-> looks[k]]
<1>1. /\ requests < MaxRequests /\ requests' = requests + 1
      /\ queue' = queue \cup {job}
      /\ UNCHANGED <<data, versions, parents, cur, reading, looks, known, shown, erased>>
  BY DEF Enqueue, dataset, clients
<1>2. TypeOK /\ requests \in Nat /\ MaxRequests \in Nat /\ Len(parents) \in Nat /\ MaxCommits \in Nat
      /\ Len(parents) <= MaxCommits /\ looks[k] \in 0 .. MaxLooks
      /\ known[k] \in 0 .. Len(parents)
  BY Numbers DEF CurationInv, TypeOK
<1>3. requests + 1 \in 1 .. MaxRequests /\ expected \in 0 .. MaxCommits
  BY <1>1, <1>2
<1>4. job \in Queued
  BY <1>2, <1>3 DEF Queued
<1>5. job.id = requests + 1 /\ job.by = k /\ job.expected = expected /\ job.look = looks[k]
  OBVIOUS
<1> HIDE DEF job
<1>6. \A j \in queue : j.id \in Nat /\ j.id <= requests
  BY <1>2 DEF CurationInv, TypeOK, BoundsInv, Queued
<1>7. TypeOK'
  <2>1. \A i, j \in queue' : i.id = j.id => i = j
    BY <1>1, <1>2, <1>5, <1>6 DEF TypeOK
  <2>2. queue' \subseteq Queued /\ requests' \in 0 .. MaxRequests
    BY <1>1, <1>2, <1>3, <1>4 DEF TypeOK
  <2> QED BY <1>1, <1>2, <2>1, <2>2 DEF TypeOK, Commits
<1>8. BoundsInv'
  <2>1. \A j \in queue' : j.id <= requests'
    BY <1>1, <1>2, <1>5, <1>6
  <2> QED BY <1>1, <2>1 DEF CurationInv, BoundsInv
<1>9. LooksInv'
  <2> DEFINE claim == [by |-> k, look |-> looks[k], expected |-> expected]
  <2>1. ClaimOf(job) = claim
    BY <1>5 DEF ClaimOf
  <2>2. Claims' \subseteq Claims \cup (IF expected = 0 THEN {} ELSE {claim})
    BY <1>1, <1>5, <2>1 DEF Claims
  <2>3. claim.by = k /\ claim.look = looks[k] /\ claim.expected = expected
    OBVIOUS
  <2> HIDE DEF claim
  <2>4. ASSUME expected # 0
        PROVE  expected = known[k] /\ expected \in shown[k]
    BY <2>4 DEF CurationInv, LooksInv
  <2>5. ASSUME NEW c \in Claims'
        PROVE  /\ c.expected \in shown[c.by]
               /\ c.look <= looks[c.by]
               /\ c.look = looks[c.by] => c.expected = known[c.by]
    <3>1. CASE c \in Claims
      BY <3>1 DEF CurationInv, LooksInv
    <3>2. CASE c \notin Claims
      <4>1. c = claim /\ expected # 0
        BY <2>2, <2>5, <3>2
      <4>2. looks[k] <= looks[k]
        BY <1>2, Numbers
      <4> QED BY <2>3, <2>4, <4>1, <4>2
    <3> QED BY <3>1, <3>2
  <2>6. ASSUME NEW c \in Claims', NEW d \in Claims', c.by = d.by, c.look = d.look
        PROVE  c.expected = d.expected
    <3>1. CASE c \in Claims /\ d \in Claims
      BY <2>6, <3>1 DEF CurationInv, LooksInv
    <3>2. CASE c \notin Claims \/ d \notin Claims
      <4>1. c = claim \/ d = claim
        BY <2>2, <2>6, <3>2
      <4>2. c.look = looks[k] /\ c.by = k
        BY <2>3, <2>6, <4>1
      <4> QED BY <2>5, <2>6, <4>2
    <3> QED BY <3>1, <3>2
  <2>7. \A c \in Clients : known[c] # 0 => known[c] \in shown[c]
    BY DEF CurationInv, LooksInv
  <2> QED BY <1>1, <2>5, <2>6, <2>7 DEF LooksInv
<1>10. LineInv' /\ NamedInv'
  BY <1>1 DEF CurationInv, LineInv, NamedInv, Alive, Undone, Commits
<1> QED BY <1>7, <1>8, <1>9, <1>10 DEF CurationInv

-----------------------------------------------------------------------------
(* Jobs.                                                                   *)

(* A job that is done leaves the queue, with no more claims than there     *)
(* were.                                                                   *)
LEMMA FewerClaims ==
    ASSUME CurationInv, UNCHANGED <<looks, known, shown>>, Claims' \subseteq Claims
    PROVE  LooksInv'
  BY DEF CurationInv, LooksInv

LEMMA CommitKeeps ==
    ASSUME CurationInv, NEW j \in queue, RunCommit(j)
    PROVE  CurationInv'
<1>1. /\ Len(parents) < MaxCommits
      /\ data' \in {NoData} /\ versions' = Append(versions, data')
      /\ parents' = Append(parents, cur) /\ cur' = Len(versions) + 1
      /\ queue' = queue \ {j} /\ erased' = erased
      /\ UNCHANGED <<requests, reading, looks, known, shown>>
  BY DEF RunCommit, Dataset!Commit, Done, clients
<1>2. /\ TypeOK /\ MaxCommits \in Nat /\ Len(parents) \in Nat /\ Len(parents) <= MaxCommits
      /\ cur \in Nat /\ cur <= Len(parents) /\ Len(versions) = Len(parents)
  BY Numbers DEF CurationInv, TypeOK
<1>3. cur \in 0 .. MaxCommits
  BY <1>2
<1>4. /\ parents' \in Seq(0 .. MaxCommits) /\ Len(parents') = Len(parents) + 1
      /\ \A i \in 1 .. Len(parents) : parents'[i] = parents[i]
      /\ parents'[Len(parents) + 1] = cur
  BY <1>1, <1>2, <1>3, AppendProperties DEF TypeOK
<1>5. versions' \in Seq({NoData}) /\ Len(versions') = Len(versions) + 1
  BY <1>1, <1>2, AppendProperties DEF TypeOK
<1> DEFINE new == Len(parents) + 1
<1>6. /\ Commits' = Commits \cup {new} /\ new \notin Commits /\ cur' = new
      /\ 0 .. Len(parents) \subseteq 0 .. Len(parents')
      /\ \A c \in Commits : c \in Nat /\ c # 0 /\ c < new
  BY <1>1, <1>2, <1>4 DEF Commits
<1>7. TypeOK'
  <2>1. cur' \in 0 .. Len(parents')
    BY <1>2, <1>4, <1>6
  <2>2. /\ reading' \in [Clients -> [on : BOOLEAN, head : 0 .. Len(parents')]]
        /\ known' \in [Clients -> 0 .. Len(parents')]
    <3>1. /\ reading \in [Clients -> [on : BOOLEAN, head : 0 .. Len(parents)]]
          /\ known \in [Clients -> 0 .. Len(parents)]
      BY <1>2 DEF TypeOK
    <3>2. [on : BOOLEAN, head : 0 .. Len(parents)] \subseteq [on : BOOLEAN, head : 0 .. Len(parents')]
      BY <1>6
    <3>3. known' \in [Clients -> 0 .. Len(parents')]
      BY <1>1, <1>6, <3>1
    <3>4. reading' \in [Clients -> [on : BOOLEAN, head : 0 .. Len(parents')]]
      BY <1>1, <3>1, <3>2
    <3> QED BY <3>3, <3>4
  <2>3. shown' \in [Clients -> SUBSET Commits']
    <3>1. shown \in [Clients -> SUBSET Commits] /\ SUBSET Commits \subseteq SUBSET Commits'
      BY <1>2, <1>6 DEF TypeOK
    <3> QED BY <1>1, <3>1
  <2>4. erased' \subseteq [job : 1 .. MaxRequests, by : Clients, commit : Commits',
                           expected : 0 .. MaxCommits, look : 0 .. MaxLooks]
    BY <1>1, <1>2, <1>6 DEF TypeOK
  <2> QED BY <1>1, <1>2, <1>4, <1>5, <2>1, <2>2, <2>3, <2>4 DEF TypeOK
<1>8. BoundsInv'
  BY <1>1, <1>2, <1>4 DEF CurationInv, BoundsInv
<1>9. LineInv'
  <2>1. Undone' = Undone /\ Undone \subseteq Commits
    BY <1>1, <1>2 DEF Undone, TypeOK
  <2>2. Alive' = Alive \cup {new} /\ Alive \subseteq Commits /\ cur \notin Undone
    BY <1>6, <2>1 DEF Alive, CurationInv, LineInv
  <2>3. \A c \in Commits : parents'[c] = parents[c] /\ parents[c] \in Nat
    BY <1>4, Numbers DEF Commits
  <2>4. parents'[new] = cur
    BY <1>4
  <2> HIDE DEF new
  <2>5. \A c \in Commits' : parents'[c] < c
    BY <1>2, <1>6, <2>3, <2>4 DEF CurationInv, LineInv, new
  <2>6. \A c \in Alive' : c <= cur' /\ parents'[c] \notin Undone'
    <3>1. \A c \in Alive : c <= new
      BY <1>2, <1>6, <2>2 DEF new
    <3>2. new <= new
      BY <1>2 DEF new
    <3> QED BY <1>6, <2>1, <2>2, <2>3, <2>4, <3>1, <3>2 DEF CurationInv, LineInv
  <2>7. \A c, d \in Alive' : c < d => c <= parents'[d]
    <3>1. \A c, d \in Alive : c < d => c <= parents'[d]
      BY <2>2, <2>3 DEF CurationInv, LineInv
    <3>2. \A c \in Alive : c <= parents'[new]
      BY <2>4 DEF CurationInv, LineInv
    <3>3. \A c \in Alive : ~(new < c)
      BY <1>2, <1>6, <2>2 DEF new
    <3>4. ~(new < new)
      BY <1>2 DEF new
    <3> QED BY <2>2, <3>1, <3>2, <3>3, <3>4
  <2>8. cur' \notin Undone'
    BY <1>6, <2>1
  <2> QED BY <1>1, <2>5, <2>6, <2>7, <2>8 DEF LineInv, CurationInv
<1>10. LooksInv'
  <2>1. Claims' \subseteq Claims
    BY <1>1 DEF Claims
  <2> QED BY <1>1, <2>1, FewerClaims
<1>11. NamedInv'
  BY <1>1 DEF CurationInv, NamedInv
<1> QED BY <1>7, <1>8, <1>9, <1>10, <1>11 DEF CurationInv

LEMMA UndoKeeps ==
    ASSUME CurationInv, NEW j \in queue, RunUndo(j)
    PROVE  CurationInv'
<1> DEFINE e == Erasure(j)
<1>1. /\ j.expected \in {0, cur} /\ cur # 0
      /\ cur' = parents[cur] /\ UNCHANGED <<versions, parents>>
      /\ queue' = queue \ {j} /\ erased' = erased \cup {e}
      /\ UNCHANGED <<requests, reading, looks, known, shown>>
  BY DEF RunUndo, Dataset!Undo, Done, clients
<1>2. TypeOK /\ j \in Queued
  BY DEF CurationInv, TypeOK
<1>3. /\ e.job = j.id /\ e.by = j.by /\ e.commit = cur /\ e.expected = j.expected /\ e.look = j.look
      /\ ClaimOf(e) = ClaimOf(j)
  BY DEF Erasure, ClaimOf
<1>4. /\ cur \in Commits /\ cur \in Nat /\ Len(parents) \in Nat /\ cur <= Len(parents)
      /\ \A c \in Commits : c \in Nat /\ c # 0 /\ parents[c] \in Nat /\ parents[c] < c
      /\ Commits' = Commits
  BY <1>1, Numbers DEF Commits, CurationInv, LineInv
<1>5. e \in [job : 1 .. MaxRequests, by : Clients, commit : Commits,
             expected : 0 .. MaxCommits, look : 0 .. MaxLooks]
  BY <1>2, <1>4 DEF Erasure, Queued
<1> HIDE DEF e
<1>6. TypeOK'
  <2>1. cur' \in 0 .. Len(parents')
    BY <1>1, <1>4
  <2>2. queue' \subseteq Queued /\ \A i, k \in queue' : i.id = k.id => i = k
    BY <1>1, <1>2 DEF TypeOK
  <2> QED BY <1>1, <1>2, <1>4, <1>5, <2>1, <2>2 DEF TypeOK
<1>7. BoundsInv'
  BY <1>1 DEF CurationInv, BoundsInv
<1>8. LineInv'
  <2>1. Undone' = Undone \cup {cur}
    BY <1>1, <1>3 DEF Undone
  <2>2. Alive' = Alive \ {cur} /\ Alive \subseteq Commits /\ cur \in Alive
    BY <1>4, <2>1 DEF Alive, CurationInv, LineInv
  <2>3. cur' \notin Undone'
    BY <1>1, <1>4, <2>1, <2>2 DEF CurationInv, LineInv
  <2>4. \A c \in Alive' : c <= cur' /\ parents[c] # cur
    <3> SUFFICES ASSUME NEW c \in Alive, c # cur PROVE c <= cur' /\ parents[c] # cur
      BY <2>2
    <3>1. c <= cur /\ c \in Nat /\ parents[c] < c /\ parents[c] \in Nat
      BY <1>4, <2>2 DEF CurationInv, LineInv
    <3>2. c < cur
      BY <1>4, <3>1
    <3>3. c <= parents[cur]
      BY <2>2, <3>2 DEF CurationInv, LineInv
    <3>4. parents[c] # cur
      BY <1>4, <3>1
    <3> QED BY <1>1, <3>3, <3>4
  <2>5. \A d \in erased : d.commit # cur
    BY DEF CurationInv, LineInv, Undone
  <2>6. \A c, d \in erased' : c.commit = d.commit => c = d
    BY <1>1, <1>3, <2>5 DEF CurationInv, LineInv
  <2> QED BY <1>1, <1>4, <2>1, <2>2, <2>3, <2>4, <2>6 DEF CurationInv, LineInv
<1>9. LooksInv'
  <2>1. Claims' \subseteq Claims
    <3> SUFFICES ASSUME NEW i \in queue' \cup erased', i.expected # 0
                 PROVE  ClaimOf(i) \in Claims
      BY DEF Claims
    <3>1. CASE i = e
      BY <1>3, <3>1 DEF Claims
    <3>2. CASE i # e
      BY <1>1, <3>2 DEF Claims
    <3> QED BY <3>1, <3>2
  <2> QED BY <1>1, <2>1, FewerClaims
<1>10. NamedInv'
  BY <1>1, <1>3 DEF CurationInv, NamedInv
<1> QED BY <1>6, <1>7, <1>8, <1>9, <1>10 DEF CurationInv

LEMMA DropKeeps ==
    ASSUME CurationInv, NEW j \in queue, Drop(j)
    PROVE  CurationInv'
<1>1. /\ queue' = queue \ {j}
      /\ UNCHANGED <<data, versions, parents, cur, requests, reading, looks, known, shown, erased>>
  BY DEF Drop, Done, clients, dataset
<1>2. TypeOK' /\ BoundsInv'
  BY <1>1 DEF CurationInv, TypeOK, BoundsInv, Commits
<1>3. LooksInv'
  <2>1. Claims' \subseteq Claims
    BY <1>1 DEF Claims
  <2> QED BY <1>1, <2>1, FewerClaims
<1>4. LineInv' /\ NamedInv'
  BY <1>1 DEF CurationInv, LineInv, NamedInv, Alive, Undone, Commits
<1> QED BY <1>2, <1>3, <1>4 DEF CurationInv

LEMMA CurationNext == CurationInv /\ [Next]_vars => CurationInv'
<1> SUFFICES ASSUME CurationInv, [Next]_vars PROVE CurationInv'
  OBVIOUS
<1>1. ASSUME NEW k \in Clients, RequestCommit(k) PROVE CurationInv'
  BY <1>1, EnqueueKeeps DEF RequestCommit
<1>2. ASSUME NEW k \in Clients, RequestUndo(k) PROVE CurationInv'
  BY <1>2, EnqueueKeeps DEF RequestUndo
<1>3. CASE UNCHANGED vars
  BY <1>3 DEF vars, dataset, clients, CurationInv, TypeOK, BoundsInv, LineInv, LooksInv, NamedInv,
              Claims, ClaimOf, Alive, Undone, Commits
<1> QED BY <1>1, <1>2, <1>3, ReadHeadKeeps, ReadChainKeeps, CommitKeeps, UndoKeeps, DropKeeps
        DEF Next

LEMMA CurationCorrect == Spec => []CurationInv
  BY CurationInit, CurationNext, PTL DEF Spec

-----------------------------------------------------------------------------
(* The properties of module Curation.                                      *)

(* Clients, jobs and the dataset keep their types.                         *)
THEOREM CurationTypeCorrect == Spec => []TypeOK
  BY CurationCorrect, PTL DEF CurationInv

(* An undo that names a HEAD erases a commit its client was shown as HEAD, *)
(* however many clients there are and whatever lies in between.            *)
THEOREM ErasedWasShown == Spec => []UndoErasesOnlyShown
<1>1. CurationInv => UndoErasesOnlyShown
  <2> SUFFICES ASSUME CurationInv, NEW e \in erased, e.expected # 0
               PROVE  e.commit \in shown[e.by]
    BY DEF UndoErasesOnlyShown
  <2>1. ClaimOf(e) \in Claims /\ ClaimOf(e).expected = e.expected /\ ClaimOf(e).by = e.by
    BY DEF Claims, ClaimOf
  <2> QED BY <2>1 DEF CurationInv, LooksInv, NamedInv
<1> QED BY <1>1, CurationCorrect, PTL

(* One look erases at most one commit, by one job, however often its undo  *)
(* is sent again: HEAD does not come back to a commit that was undone.     *)
THEOREM ErasedOncePerLook == Spec => []OneUndoPerLook
<1>1. CurationInv => OneUndoPerLook
  <2> SUFFICES ASSUME CurationInv, NEW d \in erased, NEW e \in erased,
                      d.expected # 0, e.expected # 0, d.by = e.by, d.look = e.look
               PROVE  d = e
    BY DEF OneUndoPerLook
  <2>1. ClaimOf(d) \in Claims /\ ClaimOf(e) \in Claims
    BY DEF Claims
  <2>2. /\ ClaimOf(d).by = ClaimOf(e).by /\ ClaimOf(d).look = ClaimOf(e).look
        /\ ClaimOf(d).expected = d.expected /\ ClaimOf(e).expected = e.expected
    BY DEF ClaimOf
  <2>3. d.expected = e.expected
    BY <2>1, <2>2 DEF CurationInv, LooksInv
  <2> QED BY <2>3 DEF CurationInv, NamedInv, LineInv
<1> QED BY <1>1, CurationCorrect, PTL

-----------------------------------------------------------------------------
(* The history.                                                            *)

(* A set of numbers that is not empty has a least element.                 *)
LEMMA LeastNumber ==
    ASSUME NEW S \in SUBSET Nat, S # {}
    PROVE  \E x \in S : \A y \in S : x <= y
<1>1. PICK x \in S : \A y \in S : <<y, x>> \notin OpToRel(<, Nat)
  BY NatLessThanWellFounded, WFMin
<1>2. \A y \in S : ~(y < x)
  BY <1>1 DEF OpToRel
<1> QED BY <1>2

(* The function whose value at HEAD is the Chain.                          *)
UpFrom(ps) ==
    CHOOSE up : up = [c \in 0 .. Len(ps) |-> IF c = 0 THEN {} ELSE {c} \cup up[ps[c]]]

(* It exists, for parents are older: it is built commit by commit.         *)
LEMMA UpFromIsDefined ==
    ASSUME NEW ps, Len(ps) \in Nat,
           \A c \in 1 .. Len(ps) : ps[c] \in Nat /\ ps[c] < c
    PROVE  UpFrom(ps) = [c \in 0 .. Len(ps) |->
                            IF c = 0 THEN {} ELSE {c} \cup UpFrom(ps)[ps[c]]]
<1> DEFINE Step(up, c) == IF c = 0 THEN {} ELSE {c} \cup up[ps[c]]
           IsUp(up, n) == up = [c \in 0 .. n |-> Step(up, c)]
           Missing == {n \in 0 .. Len(ps) : ~ \E up : IsUp(up, n)}
<1>1. ASSUME Missing # {} PROVE FALSE
  <2>1. PICK n \in Missing : \A m \in Missing : n <= m
    <3>1. Missing \in SUBSET Nat
      OBVIOUS
    <3> HIDE DEF Missing
    <3> QED BY <1>1, <3>1, LeastNumber
  <2>2. n \in 0 .. Len(ps) /\ ~ \E up : IsUp(up, n)
    BY <2>1
  <2>3. n # 0
    <3> SUFFICES ASSUME n = 0 PROVE FALSE
      OBVIOUS
    <3> DEFINE none == [c \in 0 .. 0 |-> {}]
    <3>1. none = [c \in 0 .. 0 |-> Step(none, c)]
      OBVIOUS
    <3> QED BY <2>2, <3>1
  <2>4. n - 1 \in 0 .. Len(ps) /\ n - 1 \notin Missing
    <3>1. n - 1 \in 0 .. Len(ps) /\ ~(n <= n - 1)
      BY <2>2, <2>3
    <3> HIDE DEF Missing
    <3> QED BY <2>1, <3>1
  <2>5. PICK up : IsUp(up, n - 1)
    BY <2>4
  <2> DEFINE more == [c \in 0 .. n |-> Step(up, c)]
  <2>6. ASSUME NEW c \in 0 .. n PROVE more[c] = Step(more, c)
    <3>1. CASE c = 0
      BY <3>1
    <3>2. CASE c # 0
      <4>1. c \in 1 .. Len(ps) /\ ps[c] \in 0 .. n - 1 /\ ps[c] \in 0 .. n
        BY <2>2, <3>2
      <4>2. up[ps[c]] = more[ps[c]]
        <5>1. \A e \in 0 .. n - 1 : up[e] = Step(up, e)
          BY <2>5, Zenon
        <5>2. \A e \in 0 .. n : more[e] = Step(up, e)
          BY Zenon
        <5> HIDE DEF more, Step
        <5> QED BY <4>1, <5>1, <5>2
      <4> QED BY <3>2, <4>2
    <3> QED BY <3>1, <3>2
  <2>7. IsUp(more, n)
    BY <2>6, Zenon
  <2> QED BY <2>2, <2>7, Zenon
<1>2. \E up : IsUp(up, Len(ps))
  <2>1. Len(ps) \in 0 .. Len(ps)
    OBVIOUS
  <2> HIDE DEF IsUp
  <2> QED BY <1>1, <2>1
<1>3. UpFrom(ps) = CHOOSE up : IsUp(up, Len(ps))
  BY Zenon DEF UpFrom
<1>4. IsUp(UpFrom(ps), Len(ps))
  <2> HIDE DEF IsUp
  <2> QED BY <1>2, <1>3, Zenon
<1> QED BY <1>4, Zenon

(* From a commit that was not undone, the parents lead through all such    *)
(* commits that are older: LineInv leaves them nowhere else to go.         *)
LEMMA UpFromAlive ==
    ASSUME CurationInv, NEW x \in Alive \cup {0}
    PROVE  UpFrom(parents)[x] = {c \in Alive : c <= x}
<1>1. PICK n \in Nat : n = Len(parents)
  BY Numbers
<1>2. PICK live : live = Alive
  OBVIOUS
<1>3. PICK up : up = UpFrom(parents)
  OBVIOUS
<1>4. live \subseteq 1 .. n
  BY <1>1, <1>2 DEF Alive, Commits
<1>5. \A c \in 1 .. n : parents[c] \in Nat /\ parents[c] < c
  BY <1>1, Numbers DEF CurationInv, LineInv, Commits
<1>6. \A c \in live : parents[c] \in live \cup {0}
  <2> SUFFICES ASSUME NEW c \in live, parents[c] # 0 PROVE parents[c] \in live
    OBVIOUS
  <2>1. parents[c] \in Commits
    BY <1>1, <1>4, <1>5 DEF Commits
  <2>2. parents[c] \notin Undone
    BY <1>2 DEF CurationInv, LineInv
  <2> QED BY <1>2, <2>1, <2>2 DEF Alive
<1>7. \A c, d \in live : c < d => c <= parents[d]
  BY <1>2 DEF CurationInv, LineInv
<1>8. up[0] = {} /\ \A c \in 1 .. n : up[c] = {c} \cup up[parents[c]]
  <2>1. up = [c \in 0 .. n |-> IF c = 0 THEN {} ELSE {c} \cup up[parents[c]]]
    BY <1>1, <1>3, <1>5, UpFromIsDefined
  <2>2. \A c \in 0 .. n : up[c] = IF c = 0 THEN {} ELSE {c} \cup up[parents[c]]
    BY <2>1, Zenon
  <2>3. 0 \in 0 .. n /\ \A c \in 1 .. n : c \in 0 .. n /\ c # 0
    OBVIOUS
  <2> QED BY <2>2, <2>3, Zenon
<1> DEFINE Wrong == {c \in live \cup {0} : up[c] # {b \in live : b <= c}}
<1>9. ASSUME Wrong # {} PROVE FALSE
  <2>1. PICK c \in Wrong : \A d \in Wrong : c <= d
    <3>1. Wrong \in SUBSET Nat
      BY <1>4
    <3> HIDE DEF Wrong
    <3> QED BY <1>9, <3>1, LeastNumber
  <2>2. c \in live \cup {0} /\ up[c] # {b \in live : b <= c}
    BY <2>1
  <2>3. c # 0
    <3> HIDE DEF Wrong
    <3>1. ASSUME NEW b \in live PROVE ~(b <= 0)
      <4>1. b \in 1 .. n
        BY <1>4
      <4> QED BY <4>1
    <3> QED BY <1>8, <2>2, <3>1
  <2>4. c \in live /\ c \in 1 .. n /\ parents[c] \in live \cup {0}
        /\ parents[c] < c /\ parents[c] \in Nat
    BY <1>4, <1>5, <1>6, <2>2, <2>3
  <2>5. parents[c] \notin Wrong
    <3>1. ~(c <= parents[c])
      BY <2>4
    <3> HIDE DEF Wrong
    <3> QED BY <2>1, <3>1
  <2>6. up[c] = {c} \cup {b \in live : b <= parents[c]}
    BY <1>8, <2>4, <2>5
  <2>7. {b \in live : b <= c} = {c} \cup {b \in live : b <= parents[c]}
    <3>1. PICK p \in Nat : p = parents[c] /\ p < c
      BY <2>4
    <3>2. c \in live /\ c \in Nat /\ \A b \in live : b \in Nat /\ (b < c => b <= p)
      BY <1>4, <1>7, <2>4, <3>1
    <3> HIDE DEF Wrong
    <3>3. ASSUME NEW b \in live PROVE b <= c <=> b = c \/ b <= p
      <4>1. b \in Nat /\ c \in Nat /\ p \in Nat /\ p < c /\ (b < c => b <= p)
        BY <3>1, <3>2
      <4> QED BY <4>1
    <3> QED BY <3>1, <3>2, <3>3
  <2> QED BY <2>2, <2>6, <2>7
<1> QED BY <1>2, <1>3, <1>9

(* What GET /api/commits lists are the commits that were not undone, and   *)
(* no commit is missing but by an undo of its own: concurrent commits      *)
(* never fork away from each other.                                        *)
THEOREM OnlyUndoneCommitsLeave == Spec => []OnlyUndoneLeavesHistory
<1>1. CurationInv => OnlyUndoneLeavesHistory
  <2> SUFFICES ASSUME CurationInv PROVE Commits \ Chain = Undone
    BY DEF OnlyUndoneLeavesHistory, Undone
  <2>1. Chain = UpFrom(parents)[cur]
    BY Zenon DEF Chain, UpFrom
  <2>2. cur \in Alive \cup {0} /\ \A c \in Alive : c <= cur
    BY Numbers DEF CurationInv, LineInv, Alive, Commits
  <2>3. Chain = {c \in Alive : c <= cur}
    BY <2>1, <2>2, UpFromAlive
  <2>4. Undone \subseteq Commits
    BY DEF CurationInv, TypeOK, Undone
  <2> QED BY <2>2, <2>3, <2>4 DEF Alive
<1> QED BY <1>1, CurationCorrect, PTL
=============================================================================
