--------------------------- MODULE ThumbnailsProofs ---------------------------
(***************************************************************************)
(* Proofs about Thumbnails, for any requests and any number of writes: a   *)
(* cached or answered image lacks blocks only under an overlap, and a      *)
(* temporary file is left behind only where the file system refused to     *)
(* rename or remove it.                                                    *)
(***************************************************************************)
EXTENDS Thumbnails, TLAPS

-----------------------------------------------------------------------------
(* Names refer to files that some request made or emptied.                 *)

Closed   == {"rename", "serve", "answered", "lost"}
Opened(f) == {r \in Requests : file[r] = f}

(* A request has no file before it creates one, and one that is past its   *)
(* encoder wrote every block.                                              *)
StepsInv ==
    /\ \A r \in Requests :
           /\ step[r] \in {"stat", "create"} => file[r] = NoFile /\ written[r] = 0
           /\ step[r] \in {"encode", "rename"} => file[r] # NoFile
           /\ file[r] # NoFile /\ step[r] \in Closed => written[r] = Blocks
           /\ step[r] \in {"serve", "answered"} => outName # NoFile
    /\ tmpName # NoFile => Opened(tmpName) # {}
    /\ outName # NoFile => Opened(outName) # {}

(* The request that opened a file last: all it wrote is there.             *)
LastOpenedBy(q, f) == file[q] = f /\ 1 .. written[q] \subseteq content[f]
FilesInv == \A f \in Files : Opened(f) # {} => \E q \in Requests : LastOpenedBy(q, f)

(* The temporary name belongs to a request that will rename or remove it,  *)
(* or was refused to.                                                      *)
Owned ==
    tmpName # NoFile =>
        \E r \in Opened(tmpName) : step[r] \in {"encode", "rename", "refused"}

(* An answer that lacked blocks had company.                               *)
Company ==
    \A r \in Requests : step[r] = "answered" /\ served[r] # Whole =>
        \E q \in Requests \ {r} : file[q] # NoFile

CacheInv == TypeOK /\ StepsInv /\ FilesInv /\ Owned /\ Company

LEMMA CacheInit == Init => CacheInv
<1> SUFFICES ASSUME Init PROVE CacheInv
  OBVIOUS
<1>1. TypeOK
  BY BlocksAssumption DEF Init, TypeOK, Steps
<1>2. \A f \in Files : Opened(f) = {}
  BY NoFileAssumption DEF Init, Opened, Files
<1> QED BY <1>1, <1>2 DEF Init, CacheInv, StepsInv, FilesInv, Owned, Company, Closed

-----------------------------------------------------------------------------
(* A file that lacks blocks is still written to, or was given up on.       *)
LEMMA PartialFiles ==
    ASSUME CacheInv, NEW f \in Files, Opened(f) # {}, content[f] # Whole, f # NoFile
    PROVE  \E r \in Requests : Writing(r, f) \/ GaveUpOn(r, f)
<1>1. PICK q \in Requests : LastOpenedBy(q, f)
  BY DEF CacheInv, FilesInv
<1>2. content[f] \subseteq Whole /\ written[q] \in 0 .. Blocks /\ step[q] \in Steps
  BY DEF CacheInv, TypeOK
<1>3. written[q] # Blocks
  BY <1>1, <1>2 DEF LastOpenedBy, Whole
<1>4. step[q] \in {"encode", "failed", "refused"}
  BY <1>1, <1>2, <1>3 DEF LastOpenedBy, CacheInv, StepsInv, Closed, Steps
<1>5. written[q] < Blocks
  BY <1>2, <1>3, BlocksAssumption
<1> QED BY <1>1, <1>4, <1>5 DEF LastOpenedBy, Writing, GaveUpOn

-----------------------------------------------------------------------------
(* Each action keeps the invariant.                                        *)

(* A step that leaves names, files and answers alone.                      *)
LEMMA StepOnly ==
    ASSUME CacheInv, NEW r \in Requests, NEW s \in Steps, To(r, s),
           UNCHANGED <<tmpName, outName, content, file, written, served>>,
           step[r] \in {"stat", "create"}, s \in {"create", "serve", "failed"},
           s = "serve" => outName # NoFile
    PROVE  CacheInv'
<1>1. TypeOK /\ file[r] = NoFile /\ written[r] = 0
  BY DEF CacheInv, StepsInv
<1>2. step' = [step EXCEPT ![r] = s]
  BY DEF To
<1>3. TypeOK'
  BY <1>1, <1>2 DEF TypeOK
<1>4. StepsInv'
  BY <1>1, <1>2 DEF CacheInv, TypeOK, StepsInv, Closed, Opened
<1>5. FilesInv'
  BY DEF CacheInv, FilesInv, LastOpenedBy, Opened
<1>6. Owned'
  BY <1>1, <1>2 DEF CacheInv, TypeOK, Owned, Opened
<1>7. Company'
  BY <1>1, <1>2 DEF CacheInv, TypeOK, Company
<1> QED BY <1>3, <1>4, <1>5, <1>6, <1>7 DEF CacheInv

LEMMA CreateKeeps ==
    ASSUME CacheInv, NEW r \in Requests, Create(r)
    PROVE  CacheInv'
<1>1. TypeOK /\ step[r] = "create" /\ file[r] = NoFile /\ written[r] = 0
  BY DEF CacheInv, StepsInv, Create
<1>2. PICK f \in Files :
          /\ f # NoFile /\ f = IF tmpName = NoFile THEN r ELSE tmpName
          /\ tmpName' = f
          /\ content' = [content EXCEPT ![f] = {}]
          /\ file' = [file EXCEPT ![r] = f]
          /\ step' = [step EXCEPT ![r] = "encode"]
          /\ UNCHANGED <<outName, written, served>>
  BY <1>1, NoFileAssumption DEF Create, To, TypeOK, Files
<1>3. TypeOK'
  BY <1>1, <1>2 DEF TypeOK, Steps
<1>4. file'[r] = f /\ \A q \in Requests \ {r} : file'[q] = file[q]
  BY <1>1, <1>2 DEF TypeOK
<1>5. r \in Opened(f)' /\ \A g \in Files : Opened(g) \subseteq Opened(g)'
  BY <1>1, <1>4, NoFileAssumption DEF Opened, Files
<1>6. StepsInv'
  <2>1. outName # NoFile => outName \in Files
    BY <1>1 DEF TypeOK
  <2> QED BY <1>1, <1>2, <1>4, <1>5, <2>1 DEF CacheInv, TypeOK, StepsInv, Closed
<1>7. FilesInv'
  <2> SUFFICES ASSUME NEW g \in Files, Opened(g)' # {}
               PROVE  \E q \in Requests : LastOpenedBy(q, g)'
    BY DEF FilesInv
  <2>1. CASE g = f
    <3>1. written'[r] = 0
      BY <1>1, <1>2
    <3>2. LastOpenedBy(r, g)'
      BY <1>4, <2>1, <3>1 DEF LastOpenedBy
    <3> QED BY <3>2
  <2>2. CASE g # f
    <3>1. Opened(g) # {}
      BY <1>4, <2>2 DEF Opened
    <3>2. PICK q \in Requests : LastOpenedBy(q, g)
      BY <3>1 DEF CacheInv, FilesInv
    <3>3. q # r
      BY <1>1, <3>2, NoFileAssumption DEF LastOpenedBy, Files
    <3>4. content'[g] = content[g]
      BY <1>1, <1>2, <2>2 DEF TypeOK
    <3>5. LastOpenedBy(q, g)'
      BY <1>2, <1>4, <3>2, <3>3, <3>4 DEF LastOpenedBy
    <3> QED BY <3>5
  <2> QED BY <2>1, <2>2
<1>8. Owned'
  <2>1. step'[r] = "encode"
    BY <1>1, <1>2 DEF TypeOK
  <2> QED BY <1>2, <1>5, <2>1 DEF Owned
<1>9. Company'
  <2>1. \A q \in Requests : file[q] # NoFile => file'[q] # NoFile
    BY <1>1, <1>4
  <2>2. \A q \in Requests : step'[q] = "answered" => step[q] = "answered"
    BY <1>1, <1>2 DEF TypeOK
  <2> QED BY <1>2, <2>1, <2>2 DEF CacheInv, Company
<1> QED BY <1>3, <1>6, <1>7, <1>8, <1>9 DEF CacheInv

LEMMA WriteKeeps ==
    ASSUME CacheInv, NEW r \in Requests, WriteBlock(r)
    PROVE  CacheInv'
<1>1. TypeOK /\ step[r] = "encode" /\ written[r] < Blocks /\ file[r] # NoFile
  BY DEF CacheInv, StepsInv, WriteBlock
<1>2. PICK f \in Files :
          /\ f = file[r]
          /\ content' = [content EXCEPT ![f] = @ \cup {written[r] + 1}]
          /\ written' = [written EXCEPT ![r] = @ + 1]
          /\ UNCHANGED <<tmpName, outName, step, file, served>>
  BY <1>1 DEF WriteBlock, TypeOK
<1>3. written[r] + 1 \in 1 .. Blocks
  BY <1>1, BlocksAssumption DEF TypeOK
<1>4. TypeOK'
  <2>1. content' \in [Files -> SUBSET Whole]
    BY <1>1, <1>2, <1>3 DEF TypeOK, Whole
  <2>2. written' \in [Requests -> 0 .. Blocks]
    BY <1>1, <1>2, <1>3, BlocksAssumption DEF TypeOK
  <2> QED BY <1>1, <1>2, <2>1, <2>2 DEF TypeOK
<1>5. \A q \in Requests \ {r} : written'[q] = written[q]
  BY <1>1, <1>2 DEF TypeOK
<1>6. StepsInv'
  BY <1>1, <1>2, <1>5 DEF CacheInv, StepsInv, Closed, Opened
<1>7. FilesInv'
  <2> SUFFICES ASSUME NEW g \in Files, Opened(g)' # {}
               PROVE  \E q \in Requests : LastOpenedBy(q, g)'
    BY DEF FilesInv
  <2>1. Opened(g) # {}
    BY <1>2 DEF Opened
  <2>2. PICK q \in Requests : LastOpenedBy(q, g)
    BY <2>1 DEF CacheInv, FilesInv
  <2>3. content[g] \subseteq content'[g]
    BY <1>1, <1>2 DEF TypeOK
  <2>4. CASE q = r
    <3>1. g = f /\ written'[r] = written[r] + 1 /\ written[r] \in Nat
      BY <1>1, <1>2, <2>2, <2>4, BlocksAssumption DEF LastOpenedBy, TypeOK
    <3>2. written[r] + 1 \in content'[g]
      BY <1>1, <1>2, <3>1 DEF TypeOK
    <3>3. 1 .. written'[r] = (1 .. written[r]) \cup {written[r] + 1}
      BY <3>1
    <3>4. LastOpenedBy(r, g)'
      BY <1>2, <2>2, <2>3, <2>4, <3>2, <3>3 DEF LastOpenedBy
    <3> QED BY <3>4
  <2>5. CASE q # r
    <3>1. LastOpenedBy(q, g)'
      BY <1>2, <1>5, <2>2, <2>3, <2>5 DEF LastOpenedBy
    <3> QED BY <3>1
  <2> QED BY <2>4, <2>5
<1>8. Owned' /\ Company'
  BY <1>2 DEF CacheInv, Owned, Company, Opened
<1> QED BY <1>4, <1>6, <1>7, <1>8 DEF CacheInv

LEMMA EncodeFailsKeeps ==
    ASSUME CacheInv, NEW r \in Requests, EncodeFails(r)
    PROVE  CacheInv'
  BY DEF EncodeFails, To, CacheInv, TypeOK, StepsInv, FilesInv, LastOpenedBy, Owned, Company,
         Closed, Opened, Steps

LEMMA CloseKeeps ==
    ASSUME CacheInv, NEW r \in Requests, Close(r)
    PROVE  CacheInv'
  BY DEF Close, To, CacheInv, TypeOK, StepsInv, FilesInv, LastOpenedBy, Owned, Company,
         Closed, Opened, Steps

LEMMA RenameKeeps ==
    ASSUME CacheInv, NEW r \in Requests, Rename(r)
    PROVE  CacheInv'
  BY DEF Rename, To, CacheInv, TypeOK, StepsInv, FilesInv, LastOpenedBy, Owned, Company,
         Closed, Opened, Steps

LEMMA ServeKeeps ==
    ASSUME CacheInv, NEW r \in Requests, Serve(r)
    PROVE  CacheInv'
<1>1. TypeOK /\ step[r] = "serve" /\ outName \in Files /\ outName # NoFile /\ Opened(outName) # {}
  BY DEF CacheInv, StepsInv, TypeOK, Serve
<1>2. /\ served' = [served EXCEPT ![r] = content[outName]]
      /\ step' = [step EXCEPT ![r] = "answered"]
      /\ UNCHANGED <<tmpName, outName, content, file, written>>
  BY DEF Serve, To
<1>3. TypeOK'
  BY <1>1, <1>2 DEF TypeOK, Steps
<1>4. StepsInv'
  BY <1>1, <1>2 DEF CacheInv, TypeOK, StepsInv, Closed, Opened
<1>5. FilesInv' /\ Owned'
  BY <1>1, <1>2 DEF CacheInv, TypeOK, FilesInv, LastOpenedBy, Owned, Opened
<1>6. Company'
  <2>1. content[outName] # Whole => \E q \in Requests \ {r} : file[q] # NoFile
    BY <1>1, PartialFiles DEF Writing, GaveUpOn
  <2>2. served'[r] = content[outName] /\ \A q \in Requests \ {r} : served'[q] = served[q]
    BY <1>1, <1>2 DEF TypeOK
  <2>3. \A q \in Requests \ {r} : step'[q] = step[q]
    BY <1>1, <1>2 DEF TypeOK
  <2> QED BY <1>2, <2>1, <2>2, <2>3 DEF CacheInv, Company
<1> QED BY <1>3, <1>4, <1>5, <1>6 DEF CacheInv

LEMMA CacheNext == CacheInv /\ [Next]_vars => CacheInv'
<1> SUFFICES ASSUME CacheInv, [Next]_vars PROVE CacheInv'
  OBVIOUS
<1>1. ASSUME NEW r \in Requests, Stat(r) PROVE CacheInv'
  BY <1>1, StepOnly DEF Stat, Steps
<1>2. ASSUME NEW r \in Requests, SourceFails(r) PROVE CacheInv'
  BY <1>2, StepOnly DEF SourceFails, Steps
<1>3. CASE UNCHANGED vars
  BY <1>3 DEF vars, CacheInv, TypeOK, StepsInv, FilesInv, LastOpenedBy, Owned, Company, Opened
<1> QED BY <1>1, <1>2, <1>3, CreateKeeps, WriteKeeps, EncodeFailsKeeps, CloseKeeps, RenameKeeps,
           ServeKeeps DEF Next, Request, AllDone

LEMMA CacheCorrect == Spec => []CacheInv
  BY CacheInit, CacheNext, PTL DEF Spec

-----------------------------------------------------------------------------
(* The properties of module Thumbnails.                                    *)

(* Names, files and requests keep their types.                             *)
THEOREM ThumbnailsTypeCorrect == Spec => []TypeOK
  BY CacheCorrect, PTL DEF CacheInv

(* Whatever the requests overlap, the cached file lacks blocks only while  *)
(* one still writes to it or after one gave up on it, and an answer only   *)
(* if another request made or emptied a file.                              *)
THEOREM PartialNeedsOverlap == Spec => []PartialOnlyUnderOverlap
<1>1. CacheInv => PartialOnlyUnderOverlap
  <2> SUFFICES ASSUME CacheInv PROVE PartialOnlyUnderOverlap
    OBVIOUS
  <2>1. outName # NoFile => outName \in Files /\ Opened(outName) # {}
    BY DEF CacheInv, TypeOK, StepsInv
  <2> QED BY <2>1, PartialFiles DEF PartialOnlyUnderOverlap, CacheInv, Company
<1> QED BY <1>1, CacheCorrect, PTL

(* Requests that all ended, whichever of them failed or lost theirs to     *)
(* another one, leave a temporary file only where the file system refused  *)
(* to rename or to remove it.                                              *)
THEOREM NothingIsLeft == Spec => []NoLeftovers
<1>1. CacheInv => NoLeftovers
  BY DEF CacheInv, Owned, Opened, NoLeftovers, Ended
<1> QED BY <1>1, CacheCorrect, PTL
=============================================================================
