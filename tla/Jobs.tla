-------------------------------- MODULE Jobs --------------------------------
(***************************************************************************)
(* The job manager of internal/jobs: every mutation runs in a goroutine of *)
(* its own, whose bookkeeping is kept twice, in the manager's memory       *)
(* (`live`, what GET /api/jobs/{id} answers from) and in table jobs (`db`, *)
(* what GET /api/jobs answers from and what survives a restart).  The two  *)
(* are written one after the other, and a cancel, a poll, a crash or the   *)
(* work of another job can come between any two steps.                     *)
(*                                                                         *)
(* The work of a commit or an undo is one SQLite transaction, whose commit *)
(* is the only step with an effect; ApplySet and ApplyPatch end with a     *)
(* query after it, getCommit, whose error is returned as any other.  The   *)
(* work of an index job is one insert for each file of a walk, and an      *)
(* operator job has no effect of its own.                                  *)
(*                                                                         *)
(* Variants with a plausible bug stand before the definitions they vary,   *)
(* as in CommitLog.                                                        *)
(***************************************************************************)
EXTENDS Naturals, FiniteSets

CONSTANTS
    Jobs,        \* jobs ever requested; newID never repeats
    Mutations,   \* those that commit or undo; the others index or call an operator
    MaxFiles,    \* bound on the files an index job finds
    MaxCrashes   \* bound on the number of crashes of the server

ASSUME MutationsAssumption == Mutations \subseteq Jobs
ASSUME MaxFilesAssumption == MaxFiles \in Nat
ASSUME MaxCrashesAssumption == MaxCrashes \in Nat

Active   == {"queued", "running"}
Terminal == {"succeeded", "failed", "canceled"}
Statuses == {"none"} \cup Active \cup Terminal

VARIABLES
    db,        \* status in table jobs, "none" for no row
    applied,   \* the number of the job's transactions and inserts that committed
    live,      \* status in the manager's map, "none" for no entry
    cancels,   \* jobs with an entry in the manager's cancel map
    canceled,  \* jobs whose context is cancelled
    pc,        \* where the job's goroutine is
    outcome,   \* the status the goroutine is about to finish with
    up,        \* the server is running
    crashes,   \* number of crashes so far
    asking,    \* jobs that a poll has not found in the map, about to read the table
    unread,    \* history variable: mutations whose query after the commit failed
    told,      \* history variable: the last status a poll of the job returned
    refused    \* history variable: jobs that a client who was given the id was
               \* refused a cancel of

durable == <<db, applied>>
memory  == <<live, cancels, canceled, pc, outcome>>
polls   == <<asking, told>>
vars    == <<db, applied, live, cancels, canceled, pc, outcome, up, crashes,
             asking, unread, told, refused>>

Steps == {"idle", "inserted", "spawned", "marking", "working", "inserting",
          "applied", "deciding", "finishing", "persisting", "ended", "dead"}

TypeOK ==
    /\ db \in [Jobs -> Statuses]
    /\ applied \in [Jobs -> Nat]
    /\ live \in [Jobs -> Statuses]
    /\ cancels \subseteq Jobs
    /\ canceled \subseteq Jobs
    /\ pc \in [Jobs -> Steps]
    /\ outcome \in [Jobs -> {"none", "ok", "error"} \cup Terminal]
    /\ up \in BOOLEAN
    /\ crashes \in 0 .. MaxCrashes
    /\ asking \subseteq Jobs
    /\ unread \subseteq Mutations
    /\ told \in [Jobs -> Statuses]
    /\ refused \subseteq Jobs

Init ==
    /\ db = [j \in Jobs |-> "none"]
    /\ applied = [j \in Jobs |-> 0]
    /\ live = [j \in Jobs |-> "none"]
    /\ cancels = {}
    /\ canceled = {}
    /\ pc = [j \in Jobs |-> "idle"]
    /\ outcome = [j \in Jobs |-> "none"]
    /\ up = TRUE
    /\ crashes = 0
    /\ asking = {}
    /\ unread = {}
    /\ told = [j \in Jobs |-> "none"]
    /\ refused = {}

-----------------------------------------------------------------------------
(* Enqueue: the row first, the map entries and the goroutine after it.     *)

InsertRow(j) ==
    /\ up /\ pc[j] = "idle"
    /\ db' = [db EXCEPT ![j] = "queued"]
    /\ pc' = [pc EXCEPT ![j] = "inserted"]
    /\ UNCHANGED <<applied, live, cancels, canceled, outcome, up, crashes, polls, unread, refused>>

Spawn(j) ==
    /\ up /\ pc[j] = "inserted"
    /\ live' = [live EXCEPT ![j] = "queued"]
    /\ cancels' = cancels \cup {j}
    /\ pc' = [pc EXCEPT ![j] = "spawned"]
    /\ UNCHANGED <<durable, canceled, outcome, up, crashes, polls, unread, refused>>

-----------------------------------------------------------------------------
(* run: check the context, mark the job running in memory, then in the     *)
(* table, do the work, and finish with what the context and the work say.  *)

StartDropsCanceled(j) ==
    /\ up /\ pc[j] = "spawned"
    /\ IF j \in canceled
       THEN /\ pc' = [pc EXCEPT ![j] = "ended"]
            /\ UNCHANGED live
       ELSE /\ live' = [live EXCEPT ![j] = "running"]
            /\ pc' = [pc EXCEPT ![j] = "marking"]
    /\ UNCHANGED <<durable, cancels, canceled, outcome, up, crashes, polls, unread, refused>>

StartForgetsCancel(j) ==
    /\ up /\ pc[j] = "spawned"
    /\ IF j \in canceled
       THEN /\ outcome' = [outcome EXCEPT ![j] = "canceled"]
            /\ pc' = [pc EXCEPT ![j] = "finishing"]
            /\ UNCHANGED live
       ELSE /\ live' = [live EXCEPT ![j] = "running"]
            /\ pc' = [pc EXCEPT ![j] = "marking"]
            /\ UNCHANGED outcome
    /\ cancels' = cancels \ {j}
    /\ UNCHANGED <<durable, canceled, up, crashes, polls, unread, refused>>

Start(j) ==
    /\ up /\ pc[j] = "spawned"
    /\ IF j \in canceled
       THEN /\ outcome' = [outcome EXCEPT ![j] = "canceled"]
            /\ pc' = [pc EXCEPT ![j] = "finishing"]
            /\ UNCHANGED live
       ELSE /\ live' = [live EXCEPT ![j] = "running"]
            /\ pc' = [pc EXCEPT ![j] = "marking"]
            /\ UNCHANGED outcome
    /\ UNCHANGED <<durable, cancels, canceled, up, crashes, polls, unread, refused>>

PersistRunning(j) ==
    /\ up /\ pc[j] = "marking"
    /\ db' = [db EXCEPT ![j] = "running"]
    /\ pc' = [pc EXCEPT ![j] = "working"]
    /\ UNCHANGED <<applied, live, cancels, canceled, outcome, up, crashes, polls, unread, refused>>

ApplyRetries(j) ==
    /\ up /\ j \in Mutations /\ pc[j] = "working"
    /\ j \notin canceled
    /\ applied' = [applied EXCEPT ![j] = IF @ < 2 THEN @ + 1 ELSE @]
    /\ pc' \in {pc, [pc EXCEPT ![j] = "applied"]}
    /\ UNCHANGED <<db, live, cancels, canceled, outcome, up, crashes, polls, unread, refused>>

(* The transaction commits; Tx.Commit fails on a cancelled context.        *)
Apply(j) ==
    /\ up /\ j \in Mutations /\ pc[j] = "working"
    /\ j \notin canceled
    /\ applied' = [applied EXCEPT ![j] = @ + 1]
    /\ pc' = [pc EXCEPT ![j] = "applied"]
    /\ UNCHANGED <<db, live, cancels, canceled, outcome, up, crashes, polls, unread, refused>>

(* The walk reaches a file, looks at the context and opens and decodes the *)
(* file.  One that is skipped or is indexed already leaves no trace.       *)
OpenFile(j) ==
    /\ up /\ j \notin Mutations /\ pc[j] = "working"
    /\ j \notin canceled
    /\ applied[j] < MaxFiles
    /\ pc' = [pc EXCEPT ![j] = "inserting"]
    /\ UNCHANGED <<durable, live, cancels, canceled, outcome, up, crashes, polls, unread, refused>>

(* The insert does not look at the context again.                          *)
InsertSample(j) ==
    /\ up /\ pc[j] = "inserting"
    /\ applied' = [applied EXCEPT ![j] = @ + 1]
    /\ pc' = [pc EXCEPT ![j] = "working"]
    /\ UNCHANGED <<db, live, cancels, canceled, outcome, up, crashes, polls, unread, refused>>

(* The walk is over, or the operator answered.                             *)
WorkEnds(j) ==
    /\ up /\ j \notin Mutations /\ pc[j] = "working"
    /\ outcome' = [outcome EXCEPT ![j] = "ok"]
    /\ pc' = [pc EXCEPT ![j] = "deciding"]
    /\ UNCHANGED <<durable, live, cancels, canceled, up, crashes, polls, unread, refused>>

(* The work fails, for a reason of its own or on a cancelled context.  The *)
(* transaction of a mutation is rolled back, the inserts of an index job   *)
(* stay.                                                                   *)
Fail(j) ==
    /\ up /\ pc[j] \in {"working", "inserting"}
    /\ outcome' = [outcome EXCEPT ![j] = "error"]
    /\ pc' = [pc EXCEPT ![j] = "deciding"]
    /\ UNCHANGED <<durable, live, cancels, canceled, up, crashes, polls, unread, refused>>

(* What comes after the commit, up to the return of the mutation: reading  *)
(* the new commit can fail for any reason, a cancelled context among them. *)
WorkReturns(j) ==
    /\ up /\ pc[j] = "applied"
    /\ \E result \in {"ok", "error"} :
           /\ outcome' = [outcome EXCEPT ![j] = result]
           /\ unread' = IF result = "error" THEN unread \cup {j} ELSE unread
    /\ pc' = [pc EXCEPT ![j] = "deciding"]
    /\ UNCHANGED <<durable, live, cancels, canceled, up, crashes, polls, refused>>

VerdictIgnoresError(isCanceled, result) ==
    IF isCanceled THEN "canceled" ELSE "succeeded"

(* The context is looked at before the error is.                           *)
Verdict(isCanceled, result) ==
    IF isCanceled THEN "canceled" ELSE IF result = "error" THEN "failed" ELSE "succeeded"

Decide(j) ==
    /\ up /\ pc[j] = "deciding"
    /\ outcome' = [outcome EXCEPT ![j] = Verdict(j \in canceled, @)]
    /\ pc' = [pc EXCEPT ![j] = "finishing"]
    /\ UNCHANGED <<durable, live, cancels, canceled, up, crashes, polls, unread, refused>>

Finish(j) ==
    /\ up /\ pc[j] = "finishing"
    /\ live' = [live EXCEPT ![j] = outcome[j]]
    /\ cancels' = cancels \ {j}
    /\ pc' = [pc EXCEPT ![j] = "persisting"]
    /\ UNCHANGED <<durable, canceled, outcome, up, crashes, polls, unread, refused>>

PersistFinishAsksContext(j) ==
    /\ up /\ pc[j] = "persisting"
    /\ db' = [db EXCEPT ![j] = IF j \in canceled THEN "canceled" ELSE outcome[j]]
    /\ pc' = [pc EXCEPT ![j] = "ended"]
    /\ UNCHANGED <<applied, live, cancels, canceled, outcome, up, crashes, polls, unread, refused>>

PersistFinish(j) ==
    /\ up /\ pc[j] = "persisting"
    /\ db' = [db EXCEPT ![j] = outcome[j]]
    /\ pc' = [pc EXCEPT ![j] = "ended"]
    /\ UNCHANGED <<applied, live, cancels, canceled, outcome, up, crashes, polls, unread, refused>>

-----------------------------------------------------------------------------
(* Requests about a job.                                                   *)

CancelMarksCanceled(j) ==
    /\ up /\ db[j] # "none"
    /\ IF j \in cancels
       THEN /\ canceled' = canceled \cup {j}
            /\ live' = [live EXCEPT ![j] = "canceled"]
            /\ UNCHANGED refused
       ELSE /\ refused' = IF pc[j] = "inserted" THEN refused ELSE refused \cup {j}
            /\ UNCHANGED <<canceled, live>>
    /\ UNCHANGED <<durable, cancels, pc, outcome, up, crashes, polls, unread>>

(* POST /api/jobs/{id}/cancel: refused unless the cancel map has the job.  *)
(* The list of jobs shows a job before it is in the map; only the client   *)
(* that made the request gets the id after that.                           *)
Cancel(j) ==
    /\ up /\ db[j] # "none"
    /\ IF j \in cancels
       THEN canceled' = canceled \cup {j} /\ UNCHANGED refused
       ELSE /\ refused' = IF pc[j] = "inserted" THEN refused ELSE refused \cup {j}
            /\ UNCHANGED canceled
    /\ UNCHANGED <<durable, live, cancels, pc, outcome, up, crashes, polls, unread>>

(* GET /api/jobs/{id}: the map if it has the job, else the table, read     *)
(* after the lock is given back.  The polls of a job are those of the one  *)
(* client that waits for it, one after the other.                          *)
Get(j) ==
    /\ up /\ db[j] # "none" /\ j \notin asking
    /\ IF live[j] # "none"
       THEN told' = [told EXCEPT ![j] = live[j]] /\ UNCHANGED asking
       ELSE asking' = asking \cup {j} /\ UNCHANGED told
    /\ UNCHANGED <<durable, memory, up, crashes, unread, refused>>

GetRow(j) ==
    /\ up /\ j \in asking
    /\ told' = [told EXCEPT ![j] = db[j]]
    /\ asking' = asking \ {j}
    /\ UNCHANGED <<durable, memory, up, crashes, unread, refused>>

-----------------------------------------------------------------------------
(* A crash loses the memory and the goroutines.  A restart fails every job *)
(* the table has as queued or running, before the server listens.          *)

Crash ==
    /\ up /\ crashes < MaxCrashes
    /\ up' = FALSE
    /\ crashes' = crashes + 1
    /\ live' = [j \in Jobs |-> "none"]
    /\ cancels' = {}
    /\ canceled' = {}
    /\ pc' = [j \in Jobs |-> IF pc[j] = "idle" THEN "idle" ELSE "dead"]
    /\ outcome' = [j \in Jobs |-> "none"]
    /\ asking' = {}
    /\ UNCHANGED <<durable, unread, told, refused>>

MarkInterruptedRunning(table) ==
    [j \in Jobs |-> IF table[j] = "running" THEN "failed" ELSE table[j]]

MarkInterrupted(table) ==
    [j \in Jobs |-> IF table[j] \in {"queued", "running"} THEN "failed" ELSE table[j]]

Restart ==
    /\ ~up
    /\ db' = MarkInterrupted(db)
    /\ up' = TRUE
    /\ UNCHANGED <<applied, memory, crashes, polls, unread, refused>>

-----------------------------------------------------------------------------
Goroutine(j) ==
    \/ Spawn(j) \/ Start(j) \/ PersistRunning(j)
    \/ Apply(j) \/ OpenFile(j) \/ InsertSample(j)
    \/ WorkEnds(j) \/ Fail(j) \/ WorkReturns(j)
    \/ Decide(j) \/ Finish(j) \/ PersistFinish(j)

Next ==
    \/ \E j \in Jobs : InsertRow(j) \/ Goroutine(j) \/ Cancel(j) \/ Get(j) \/ GetRow(j)
    \/ Crash
    \/ Restart

Spec == Init /\ [][Next]_vars

(* A goroutine the runtime schedules goes on: statements, transactions and *)
(* walks end.  A server that stopped is started again.  Requests, cancels, *)
(* polls and crashes need never come.                                      *)
FairSpec == Spec /\ (\A j \in Jobs : WF_vars(Goroutine(j))) /\ WF_vars(Restart)

-----------------------------------------------------------------------------
(* What the manager says of a job is true: a commit or an undo shown as    *)
(* succeeded, in memory or in the table, did commit; one that failed did   *)
(* not, unless it failed only to read back what it had committed; and only *)
(* a job whose cancel was accepted ends as canceled.  (A cancel or a       *)
(* restart can hide a committed one, and an index job keeps its inserts    *)
(* however it ends.)                                                       *)
ResultIsTrue ==
    \A j \in Jobs :
        /\ j \in Mutations /\ "succeeded" \in {live[j], db[j]} => applied[j] = 1
        /\ j \in Mutations \ unread /\ live[j] = "failed" => applied[j] = 0
        /\ live[j] = "canceled" => j \in canceled

(* No commit or undo is applied twice, and no job of any kind has an       *)
(* effect once the memory or the table gives it a terminal status: a       *)
(* restart, which fails the jobs of the old process, leaves no goroutine   *)
(* that could still have one.                                              *)
NoLateEffect ==
    [][\A j \in Jobs : applied'[j] # applied[j] =>
            /\ j \in Mutations => applied'[j] = 1
            /\ db[j] = "running"
            /\ live[j] = "running"]_vars

(* The table is never ahead of the manager, and agrees with it about how a *)
(* job ended.                                                              *)
TableFollowsMemory ==
    \A j \in Jobs : live[j] # "none" =>
        /\ db[j] \in Terminal => live[j] = db[j]
        /\ db[j] = "running" => live[j] # "queued"

(* Once the server is up, a job of an earlier process is not active any    *)
(* more, and a job without a terminal status has a goroutine.              *)
NoOrphans ==
    up => \A j \in Jobs : db[j] \in Active => pc[j] \notin {"idle", "dead", "ended"}

(* A poll that has seen a job end never sees another status later, except  *)
(* after a restart, which may turn it into failed.                         *)
OnlyRestartRewrites ==
    [][\A j \in Jobs : told[j] \in Terminal /\ told'[j] # told[j] =>
            live[j] = "none" /\ told'[j] = "failed"]_vars

(* A refused cancel is the truth to the client that requested the job: the *)
(* job has no effect any more.                                             *)
RefusedIsOver == [][\A j \in refused : applied'[j] = applied[j]]_vars

(* Every job that has a row ends, whatever crashes and cancels come.       *)
EveryJobEnds == \A j \in Jobs : db[j] \in Active ~> db[j] \in Terminal
=============================================================================
