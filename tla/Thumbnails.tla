------------------------------ MODULE Thumbnails ------------------------------
(***************************************************************************)
(* The cache of generated images (internal/thumbnail, GetOrGenerate) for   *)
(* one sample: concurrent requests, each in a goroutine of its own, that   *)
(* look for the cached file, and generate it under a temporary name if it  *)
(* is not there.  The temporary name is the same for all of them.          *)
(*                                                                         *)
(* The file system is modelled by what the calls do to names and files: a  *)
(* name refers to a file, os.Create empties the file the name refers to    *)
(* rather than making another one, a writer keeps its file and its own     *)
(* offset when a name changes, and os.Rename moves whatever file the name  *)
(* refers to by then.  Every request encodes the same bytes.               *)
(*                                                                         *)
(* Variants with a plausible bug stand before the definitions they vary,   *)
(* as in CommitLog.                                                        *)
(***************************************************************************)
EXTENDS Naturals, FiniteSets

CONSTANTS
    Requests,    \* concurrent requests for the image
    Blocks,      \* writes an encoder makes
    NoFile       \* a name that refers to nothing

ASSUME BlocksAssumption == Blocks \in Nat \ {0}
ASSUME NoFileAssumption == NoFile \notin Requests

Files == Requests   \* a request makes at most one file, named after it
Whole == 1 .. Blocks

VARIABLES
    tmpName,   \* the file the temporary name refers to
    outName,   \* the file the final name refers to
    content,   \* the blocks of each file
    step,      \* what each request does next
    file,      \* the file each request writes to
    written,   \* blocks each request has written
    served     \* the content each request answered with, once it did

vars == <<tmpName, outName, content, step, file, written, served>>

Steps == {"stat", "create", "encode", "rename", "serve",
          "answered", "failed", "lost", "refused"}

TypeOK ==
    /\ tmpName \in Files \cup {NoFile}
    /\ outName \in Files \cup {NoFile}
    /\ content \in [Files -> SUBSET Whole]
    /\ step \in [Requests -> Steps]
    /\ file \in [Requests -> Files \cup {NoFile}]
    /\ written \in [Requests -> 0 .. Blocks]
    /\ served \in [Requests -> SUBSET Whole]

Init ==
    /\ tmpName = NoFile
    /\ outName = NoFile
    /\ content = [f \in Files |-> {}]
    /\ step = [r \in Requests |-> "stat"]
    /\ file = [r \in Requests |-> NoFile]
    /\ written = [r \in Requests |-> 0]
    /\ served = [r \in Requests |-> {}]

To(r, s) == step' = [step EXCEPT ![r] = s]

(* os.Stat of the final name: any file there is taken for the image.       *)
Stat(r) ==
    /\ step[r] = "stat"
    /\ To(r, IF outName # NoFile THEN "serve" ELSE "create")
    /\ UNCHANGED <<tmpName, outName, content, file, written, served>>

(* os.Create of the temporary name, after the source was decoded.          *)
Create(r) ==
    /\ step[r] = "create"
    /\ tmpName' = IF tmpName = NoFile THEN r ELSE tmpName
    /\ content' = [content EXCEPT ![tmpName'] = {}]
    /\ file' = [file EXCEPT ![r] = tmpName']
    /\ To(r, "encode")
    /\ UNCHANGED <<outName, written, served>>

(* The encoder's next write, to the request's file at its own offset.      *)
WriteBlock(r) ==
    /\ step[r] = "encode"
    /\ written[r] < Blocks
    /\ content' = [content EXCEPT ![file[r]] = @ \cup {written[r] + 1}]
    /\ written' = [written EXCEPT ![r] = @ + 1]
    /\ UNCHANGED <<tmpName, outName, step, file, served>>

(* An undecodable source, which fails before there is any file, or a write *)
(* that fails: the temporary name is removed, whoever it belongs to.  The  *)
(* file system may refuse that too, and nothing looks at the error.        *)
SourceFails(r) ==
    /\ step[r] = "create"
    /\ To(r, "failed")
    /\ UNCHANGED <<tmpName, outName, content, file, written, served>>

EncodeFailsLeavingFile(r) ==
    /\ step[r] = "encode"
    /\ To(r, "failed")
    /\ UNCHANGED <<tmpName, outName, content, file, written, served>>

EncodeFails(r) ==
    /\ step[r] = "encode"
    /\ \/ tmpName' = NoFile /\ To(r, "failed")
       \/ tmpName' = tmpName /\ To(r, "refused")
    /\ UNCHANGED <<outName, content, file, written, served>>

CloseEarly(r) ==
    /\ step[r] = "encode"
    /\ written[r] > 0
    /\ To(r, "rename")
    /\ UNCHANGED <<tmpName, outName, content, file, written, served>>

Close(r) ==
    /\ step[r] = "encode"
    /\ written[r] = Blocks
    /\ To(r, "rename")
    /\ UNCHANGED <<tmpName, outName, content, file, written, served>>

RenameLosesCache(r) ==
    /\ step[r] = "rename"
    /\ IF tmpName = NoFile
       THEN To(r, "lost") /\ outName' = NoFile /\ UNCHANGED tmpName
       ELSE outName' = tmpName /\ tmpName' = NoFile /\ To(r, "serve")
    /\ UNCHANGED <<content, file, written, served>>

(* os.Rename, which fails if the temporary name is gone, or for a reason   *)
(* of the file system; in neither case is the temporary name removed.      *)
Rename(r) ==
    /\ step[r] = "rename"
    /\ \/ /\ tmpName = NoFile
          /\ To(r, "lost") /\ UNCHANGED <<tmpName, outName>>
       \/ /\ tmpName # NoFile
          /\ outName' = tmpName /\ tmpName' = NoFile /\ To(r, "serve")
       \/ /\ tmpName # NoFile
          /\ To(r, "refused") /\ UNCHANGED <<tmpName, outName>>
    /\ UNCHANGED <<content, file, written, served>>

(* http.ServeFile of the final name, marked immutable.                     *)
Serve(r) ==
    /\ step[r] = "serve"
    /\ served' = [served EXCEPT ![r] = content[outName]]
    /\ To(r, "answered")
    /\ UNCHANGED <<tmpName, outName, content, file, written>>

Request(r) ==
    \/ Stat(r) \/ Create(r) \/ WriteBlock(r) \/ Close(r) \/ Rename(r) \/ Serve(r)
    \/ SourceFails(r) \/ EncodeFails(r)

Ended == \A r \in Requests : step[r] \in {"answered", "failed", "lost", "refused"}

AllDone == Ended /\ UNCHANGED vars

Next == (\E r \in Requests : Request(r)) \/ AllDone

Spec == Init /\ [][Next]_vars

FairSpec == Spec /\ \A r \in Requests : WF_vars(Request(r))

-----------------------------------------------------------------------------
Writing(r, f) == file[r] = f /\ step[r] = "encode"
GaveUpOn(r, f) ==
    file[r] = f /\ step[r] \in {"failed", "refused"} /\ written[r] < Blocks

(* The cached file lacks blocks only while another request still writes to *)
(* it, or after one that had emptied it gave up: a request alone, or one   *)
(* that comes after the others are done, finds the whole image.  So an     *)
(* answer lacks blocks only if another request made or emptied a file.     *)
(* (It may: "cached immutably", as docs/api.md says, it then stays.)       *)
PartialOnlyUnderOverlap ==
    /\ outName # NoFile /\ content[outName] # Whole =>
           \E r \in Requests : Writing(r, outName) \/ GaveUpOn(r, outName)
    /\ \A r \in Requests : step[r] = "answered" /\ served[r] # Whole =>
           \E q \in Requests \ {r} : file[q] # NoFile

(* A temporary file that is left when all requests ended is one that the   *)
(* file system refused to rename or to remove for one of its writers: no   *)
(* order of overlapping requests that fail, or lose theirs to another one, *)
(* leaves a file.                                                          *)
NoLeftovers ==
    Ended /\ tmpName # NoFile => \E r \in Requests : file[r] = tmpName /\ step[r] = "refused"

(* If no source, no write and no rename of an existing file fails, the     *)
(* cache ends up with the whole image and keeps it, also when requests     *)
(* lose their temporary file to others.                                    *)
CacheBecomesWhole ==
    [](\A r \in Requests : step[r] \notin {"failed", "refused"})
        => <>[](outName # NoFile /\ content[outName] = Whole)
=============================================================================
