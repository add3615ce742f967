------------------------------ MODULE Curation ------------------------------
(***************************************************************************)
(* Clients of one dataset: dashboards and SDK scripts that look at the     *)
(* commit list, commit, and undo, through requests that the server checks, *)
(* queues as jobs and runs later (internal/server/commits.go, the SDK's    *)
(* client.py, the dashboard's App.tsx).  The commit log is what CommitLog  *)
(* implements: the versioned dataset.  A job has its effect at most once,  *)
(* as Jobs shows; it may also be cancelled, fail or be lost in a crash     *)
(* before it has any, and its client need not learn which: a client may    *)
(* send the same request again at any time.                                *)
(*                                                                         *)
(* Variants with a plausible bug stand before the definitions they vary,   *)
(* as in CommitLog.                                                        *)
(***************************************************************************)
EXTENDS Naturals, Sequences, FiniteSets, FiniteSetsExt

CONSTANTS
    Dashboards,    \* browser tabs
    Scripts,       \* SDK clients, which pass client.head() as expected_head
    MaxCommits,    \* bound on the number of commits
    MaxLooks,      \* bound on how often a client reads the commit list
    MaxRequests    \* bound on the number of jobs

Clients == Dashboards \cup Scripts
NoData  == "data"   \* tags and labels do not matter here

ASSUME ClientsAssumption == Dashboards \cap Scripts = {}
ASSUME LimitsAssumption  == {MaxCommits, MaxLooks, MaxRequests} \subseteq Nat

VARIABLES
    data, versions, parents, cur,   \* the versioned dataset; cur is HEAD
    queue,     \* jobs queued or running, without an effect yet
    requests,  \* number of jobs queued so far
    reading,   \* reading[k]: k's list is under way; the HEAD it has read
    looks,     \* looks[k]: commit lists that k has got
    known,     \* known[k]: the commit marked is_head in the last list, 0 for none
    shown,     \* history variable: shown[k] is every commit that was marked for k
    erased     \* history variable: the undos that took effect

dataset == <<data, versions, parents, cur>>
clients == <<reading, looks, known, shown>>
vars    == <<dataset, queue, requests, clients, erased>>

Dataset == INSTANCE VersionedDataset WITH Data <- {NoData}, Empty <- NoData

Commits == 1 .. Len(parents)
NotReading == [on |-> FALSE, head |-> 0]

(* Undo jobs carry the client's expected_head (0 for none), and for the    *)
(* properties which list of the client's it was taken from.                *)
Queued ==
    [id : 1 .. MaxRequests, by : Clients, kind : {"commit", "undo"},
     expected : 0 .. MaxCommits, look : 0 .. MaxLooks]

TypeOK ==
    /\ parents \in Seq(0 .. MaxCommits)
    /\ cur \in 0 .. Len(parents)
    /\ versions \in Seq({NoData}) /\ Len(versions) = Len(parents)
    /\ queue \subseteq Queued
    /\ \A i, j \in queue : i.id = j.id => i = j
    /\ requests \in 0 .. MaxRequests
    /\ reading \in [Clients -> [on : BOOLEAN, head : 0 .. Len(parents)]]
    /\ looks \in [Clients -> 0 .. MaxLooks]
    /\ known \in [Clients -> 0 .. Len(parents)]
    /\ shown \in [Clients -> SUBSET Commits]
    /\ erased \subseteq [job : 1 .. MaxRequests, by : Clients, commit : Commits,
                      expected : 0 .. MaxCommits, look : 0 .. MaxLooks]

Init ==
    /\ Dataset!Init
    /\ queue = {}
    /\ requests = 0
    /\ reading = [k \in Clients |-> NotReading]
    /\ looks = [k \in Clients |-> 0]
    /\ known = [k \in Clients |-> 0]
    /\ shown = [k \in Clients |-> {}]
    /\ erased = {}

-----------------------------------------------------------------------------
(* GET /api/commits: HEAD in one query, the chain from HEAD in another.    *)

Chain ==
    LET up[c \in 0 .. Len(parents)] == IF c = 0 THEN {} ELSE {c} \cup up[parents[c]]
    IN  up[cur]

(* A script asks for one row (client.head()), a dashboard for 50: all that *)
(* there are.  Rows come by descending id.                                 *)
Rows(k) == IF k \in Scripts /\ Chain # {} THEN {Max(Chain)} ELSE Chain

(* The row marked is_head.                                                 *)
Marked(k) == IF reading[k].head \in Rows(k) THEN reading[k].head ELSE 0

ReadHead(k) ==
    /\ ~reading[k].on
    /\ looks[k] < MaxLooks
    /\ reading' = [reading EXCEPT ![k] = [on |-> TRUE, head |-> cur]]
    /\ UNCHANGED <<dataset, queue, requests, looks, known, shown, erased>>

ReadChain(k) ==
    /\ reading[k].on
    /\ reading' = [reading EXCEPT ![k] = NotReading]
    /\ looks' = [looks EXCEPT ![k] = @ + 1]
    /\ known' = [known EXCEPT ![k] = Marked(k)]
    /\ shown' = [shown EXCEPT ![k] = @ \cup ({Marked(k)} \ {0})]
    /\ UNCHANGED <<dataset, queue, requests, erased>>

-----------------------------------------------------------------------------
(* Requests.                                                               *)

Enqueue(k, kind, expected) ==
    /\ requests < MaxRequests
    /\ requests' = requests + 1
    /\ queue' = queue \cup {[id |-> requests + 1, by |-> k, kind |-> kind,
                             expected |-> expected, look |-> looks[k]]}
    /\ UNCHANGED <<dataset, clients, erased>>

RequestCommit(k) == Enqueue(k, "commit", 0)

(* The handler refuses an undo that could not succeed now; a dashboard     *)
(* that knows no HEAD offers none.  What happens to HEAD between the check *)
(* and the queue might as well happen while the job is queued.             *)
RequestUndo(k) ==
    /\ k \in Dashboards => known[k] # 0
    /\ cur # 0
    /\ known[k] \in {0, cur}
    /\ Enqueue(k, "undo", known[k])

-----------------------------------------------------------------------------
(* The jobs' transactions.                                                 *)

Done(j) == queue' = queue \ {j} /\ UNCHANGED <<requests, clients>>

RunCommitFromKnown(j) ==
    /\ j.kind = "commit"
    /\ Len(parents) < MaxCommits
    /\ data' = data
    /\ versions' = Append(versions, data)
    /\ parents' = Append(parents, known[j.by])
    /\ cur' = Len(parents) + 1
    /\ Done(j)
    /\ UNCHANGED erased

(* The parent is HEAD as the transaction reads it.                         *)
RunCommit(j) ==
    /\ j.kind = "commit"
    /\ Len(parents) < MaxCommits
    /\ Dataset!Commit
    /\ Done(j)
    /\ UNCHANGED erased

(* What the undo of HEAD by a job leaves in the history variable.          *)
Erasure(j) ==
    [job |-> j.id, by |-> j.by, commit |-> cur, expected |-> j.expected, look |-> j.look]

RunUndoUnchecked(j) ==
    /\ j.kind = "undo"
    /\ Dataset!Undo
    /\ erased' = erased \cup {Erasure(j)}
    /\ Done(j)

(* expected_head is compared again inside the transaction.                 *)
RunUndo(j) ==
    /\ j.kind = "undo"
    /\ j.expected \in {0, cur}
    /\ Dataset!Undo
    /\ erased' = erased \cup {Erasure(j)}
    /\ Done(j)

(* The job ends without an effect: HEAD moved, it is cancelled, it fails,  *)
(* or the server crashes.                                                  *)
Drop(j) ==
    /\ Done(j)
    /\ UNCHANGED <<dataset, erased>>

Next ==
    \/ \E k \in Clients : ReadHead(k) \/ ReadChain(k) \/ RequestCommit(k) \/ RequestUndo(k)
    \/ \E j \in queue : RunCommit(j) \/ RunUndo(j) \/ Drop(j)

Spec == Init /\ [][Next]_vars

-----------------------------------------------------------------------------
(* An undo that names a HEAD erases a commit that was shown to its client  *)
(* as HEAD, whatever other clients committed and undid between the list,   *)
(* the request and the job: nobody erases work he has not seen.            *)
UndoErasesOnlyShown ==
    \A e \in erased : e.expected # 0 => e.commit \in shown[e.by]

(* One look at the list erases at most one commit, however often the undo  *)
(* is sent again, and whichever of the jobs had its effect before it was   *)
(* cancelled, timed out or lost: HEAD never comes back to a commit.        *)
OneUndoPerLook ==
    \A d, e \in erased :
        d.expected # 0 /\ e.expected # 0 /\ d.by = e.by /\ d.look = e.look => d = e

(* A commit leaves the history only by an undo of its own: concurrent      *)
(* commits never fork away from each other.                                *)
OnlyUndoneLeavesHistory == Commits \ Chain = {e.commit : e \in erased}
=============================================================================
